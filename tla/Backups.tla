------------------------------- MODULE Backups -------------------------------
(***************************************************************************)
(* Backups of the databases of a namespace (kube/backup.go): a dump or a   *)
(* restore is a Job that the cluster runs, and tries again, while the      *)
(* database is in use; the backups of a database are the Jobs with its     *)
(* label.                                                                  *)
(*                                                                         *)
(* All dumps of a namespace are files on one volume, and a restore is      *)
(* asked for by any name: nothing asks whose the dump of that name is.     *)
(* The databases are of one engine: the dumps of another have another      *)
(* extension, and are not found.  Scheduled backups (EnsureBackupSchedule) *)
(* are not modelled: nothing calls it.                                     *)
(***************************************************************************)
EXTENDS Naturals

CONSTANTS
    Dbs,        \* releases of databases
    Shorts,     \* names of releases cut to what a Job's name has room for
    Short,      \* the cut name of a release: two may share it
    MaxTime,    \* bound: seconds
    MaxTries,   \* attempts of a Job (BackoffLimit and one)
    MaxData     \* bound: changes to the data of a database

ASSUME DbsAssumption == "none" \notin Dbs
ASSUME ShortAssumption == Short \in [Dbs -> Shorts]
ASSUME BoundsAssumption == MaxTime \in Nat /\ MaxTries \in Nat \ {0} /\ MaxData \in Nat

VARIABLES
    now,
    data,       \* what a database holds: whose data, and which version of it
    job,        \* the Jobs of the API server, by name
    file,       \* the dumps on the volume, by the name of their Job
    known,      \* the names of backups that the client of a database was told
    strayed     \* history: databases restored by a name that their client was not told

backupVars == <<now, data, job, file, known, strayed>>

JobNames == {"bkp", "rst"} \X Shorts \X (0..MaxTime)
DumpNames == {j \in JobNames : j[1] = "bkp"}  \* with those that no dump has yet, or ever
Nothing == <<"none", 0>>
Broken(d) == <<d, MaxData + 1>>
NoFile == [db |-> "none", version |-> Nothing, whole |-> FALSE]
NoJob == [db |-> "none", kind |-> "none", from |-> Nothing, snapshot |-> Nothing,
          condition |-> "none", active |-> FALSE, failures |-> 0]

Exists(j) == job[j] # NoJob

BackupsInit ==
    /\ now = 0
    /\ data = [d \in Dbs |-> <<d, 0>>]
    /\ job = [j \in JobNames |-> NoJob]
    /\ file = [j \in JobNames |-> NoFile]
    /\ known = [d \in Dbs |-> {}]
    /\ strayed = {}

-----------------------------------------------------------------------------
(* The requests.                                                           *)

backupJobName(d) == <<"bkp", Short[d], now>>
restoreJobName(d) == <<"rst", Short[d], now>>

backupJob(d) == [NoJob EXCEPT !.db = d, !.kind = "backup"]
restoreJob(d, from) == [NoJob EXCEPT !.db = d, !.kind = "restore", !.from = from]

\* Mutant: a Job of the name is taken for the one asked for.
BackupDatabaseAnyway(d) ==
    LET j == backupJobName(d) IN
    /\ job' = IF Exists(j) THEN job ELSE [job EXCEPT ![j] = backupJob(d)]
    /\ known' = [known EXCEPT ![d] = @ \union {j}]
    /\ UNCHANGED <<now, data, file, strayed>>

\* Two Jobs of one name in one second: the second is not created, and its client is told.
BackupDatabase(d) ==
    LET j == backupJobName(d) IN
    /\ ~Exists(j)
    /\ job' = [job EXCEPT ![j] = backupJob(d)]
    /\ known' = [known EXCEPT ![d] = @ \union {j}]
    /\ UNCHANGED <<now, data, file, strayed>>

\* Mutant: an attempt that ended is one that succeeded.
jobPhaseLoose(j) ==
    CASE job[j].condition # "none" -> "Succeeded"
      [] job[j].active -> "Running"
      [] OTHER -> "Pending"

\* Conditions first; between two attempts a Job that will be tried again looks failed.  (A pod
\* that succeeded and the condition of its Job are one step, which Succeed takes.)
jobPhase(j) ==
    CASE job[j].condition = "complete" -> "Succeeded"
      [] job[j].condition = "failed"   -> "Failed"
      [] job[j].active                 -> "Running"
      [] job[j].failures > 0           -> "Failed"
      [] OTHER                         -> "Pending"

\* Mutant: the Jobs of every database.
BackupsOfAll(d) == {j \in JobNames : job[j].kind = "backup"}

\* The label selector.
BackupsOf(d) == {j \in JobNames : job[j].kind = "backup" /\ job[j].db = d}

ListDatabaseBackups(d) ==
    /\ known' = [known EXCEPT ![d] = @ \union BackupsOf(d)]
    /\ UNCHANGED <<now, data, job, file, strayed>>

\* Of a backup of any name: listed or not, whole or not, there or not, its own or not.
RestoreDatabase(d, from) ==
    LET j == restoreJobName(d) IN
    /\ ~Exists(j)
    /\ job' = [job EXCEPT ![j] = restoreJob(d, from)]
    /\ strayed' = strayed \union (IF from \in known[d] THEN {} ELSE {d})
    /\ UNCHANGED <<now, data, file, known>>

-----------------------------------------------------------------------------
(* The cluster.                                                            *)

\* An attempt begins: a dump takes a snapshot, and its file over what an earlier attempt
\* left; a restore begins to replace the data, if its dump is there.
Attempt(j) ==
    LET d == job[j].db  from == file[job[j].from] IN
    /\ Exists(j) /\ job[j].condition = "none" /\ ~job[j].active
    /\ IF job[j].kind = "backup"
       THEN /\ job' = [job EXCEPT ![j].active = TRUE, ![j].snapshot = data[d]]
            /\ file' = [file EXCEPT ![j] = [NoFile EXCEPT !.db = d]]
            /\ UNCHANGED data
       ELSE /\ job' = [job EXCEPT ![j].active = TRUE]
            /\ data' = IF from = NoFile THEN data ELSE [data EXCEPT ![d] = Broken(from.db)]
            /\ UNCHANGED file
    /\ UNCHANGED <<now, known, strayed>>

\* The dump or the restore reaches its end; a dump that is not whole may be replayed too.
Succeed(j) ==
    LET d == job[j].db  from == file[job[j].from] IN
    /\ job[j].active
    /\ job' = [job EXCEPT ![j].active = FALSE, ![j].condition = "complete", ![j].snapshot = Nothing]
    /\ IF job[j].kind = "backup"
       THEN file' = [file EXCEPT ![j].version = job[j].snapshot, ![j].whole = TRUE] /\ UNCHANGED data
       ELSE /\ from # NoFile
            /\ data' = [data EXCEPT ![d] = IF from.whole THEN from.version ELSE Broken(from.db)]
            /\ UNCHANGED file
    /\ UNCHANGED <<now, known, strayed>>

\* The attempt fails, or runs into the deadline, and leaves what it has done.
Fail(j) ==
    /\ job[j].active
    /\ job' = [job EXCEPT ![j].active = FALSE, ![j].failures = @ + 1, ![j].snapshot = Nothing,
                          ![j].condition = IF job[j].failures + 1 = MaxTries THEN "failed" ELSE "none"]
    /\ UNCHANGED <<now, data, file, known, strayed>>

\* A Job that ended is deleted after a day; its dump stays.
Expire(j) ==
    /\ job[j].condition # "none" /\ j[3] < now
    /\ job' = [job EXCEPT ![j] = NoJob]
    /\ UNCHANGED <<now, data, file, known, strayed>>

\* The tenant writes.
Write(d) ==
    /\ data[d][2] < MaxData
    /\ data' = [data EXCEPT ![d] = <<@[1], @[2] + 1>>]
    /\ UNCHANGED <<now, job, file, known, strayed>>

\* A name's second does not come again.
Tick ==
    /\ now < MaxTime /\ now' = now + 1
    /\ UNCHANGED <<data, job, file, known, strayed>>

BackupsNext ==
    \/ Tick
    \/ \E d \in Dbs : BackupDatabase(d) \/ ListDatabaseBackups(d) \/ Write(d)
    \/ \E d \in Dbs, j \in DumpNames : RestoreDatabase(d, j)
    \/ \E j \in JobNames : Attempt(j) \/ Succeed(j) \/ Fail(j) \/ Expire(j)

BackupsSpec == BackupsInit /\ [][BackupsNext]_backupVars

-----------------------------------------------------------------------------
(* Properties.                                                             *)

Data == {Nothing} \union (Dbs \X (0..MaxData + 1))

\* Types.
BackupsTypeOK ==
    /\ now \in 0..MaxTime
    /\ data \in [Dbs -> Dbs \X (0..MaxData + 1)]
    /\ job \in [JobNames -> [db : Dbs \union {"none"}, kind : {"none", "backup", "restore"},
                             from : JobNames \union {Nothing}, snapshot : Data,
                             condition : {"none", "complete", "failed"}, active : BOOLEAN,
                             failures : 0..MaxTries]]
    /\ file \in [JobNames -> [db : Dbs \union {"none"}, version : Data, whole : BOOLEAN]]
    /\ known \in [Dbs -> SUBSET JobNames]
    /\ strayed \subseteq Dbs

\* A backup that is listed as succeeded is a whole dump of its database, however many
\* attempts it took (jobPhase: no fabricated success).
PhaseHonest ==
    \A j \in JobNames : job[j].kind = "backup" /\ jobPhase(j) = "Succeeded" =>
        file[j].whole /\ file[j].db = job[j].db

\* The dump of a name that the client of a database was given is one of that database,
\* though two databases with long names ask in the same second (BackupDatabase: calls never
\* collide; ListDatabaseBackups: of one release).
NamesAreOwn == \A d \in Dbs : \A j \in known[d] : file[j].db \in {d, "none"}

\* A database that is only restored by names its client was told holds what it held itself,
\* whichever of them, whole or not, while dumps and restores of the others run, of whatever
\* name (RestoreDatabase: nothing else keeps the dumps on one volume apart).
NoCrossRestore == \A d \in Dbs \ strayed : data[d][1] = d

\* The names a client is told are of dumps of its database, and by them it only ever meets
\* its own data (ListDatabaseBackups, RestoreDatabase).
DumpsStayOwn == NamesAreOwn /\ NoCrossRestore

=============================================================================
