------------------------------ MODULE Releases ------------------------------
(***************************************************************************)
(* The release rows of one app in Postgres, as recordRelease and           *)
(* ReconcileReleaseStatus write them (platform/releases.go).               *)
(*                                                                         *)
(* Writers are the calls of recordRelease: HTTP handlers and build workers *)
(* that have just applied a workload.  Each runs the list / supersede /    *)
(* insert sequence in one READ COMMITTED transaction and retries it when   *)
(* UNIQUE (app_id, revision) rejects its revision.  Reconcilers are the    *)
(* ticks that mirror a machine status onto the current release with a read *)
(* and a write that no transaction joins.                                  *)
(*                                                                         *)
(* rel holds the committed rows: rel[r] is the status of revision r.  A    *)
(* transaction keeps its writes to itself until it commits, and holds the  *)
(* lock of every row it has updated and of the key it has inserted.        *)
(***************************************************************************)
EXTENDS Naturals, Sequences, FiniteSets

CONSTANTS
    Writers,       \* the calls of recordRelease
    Reconcilers,   \* the reconciler ticks (one per control-plane replica)
    MaxAttempts    \* how often recordRelease tries the transaction (5)

ASSUME WritersAssumption == IsFiniteSet(Writers)
ASSUME MaxAttemptsAssumption == MaxAttempts \in Nat \ {0}

VARIABLES
    rel,    \* the committed rows
    pc,     \* where each writer is
    sup,    \* the status a writer gives the release it replaces
    max,    \* the highest revision its transaction has listed
    todo,   \* the listed live rows it has not updated yet
    held,   \* the rows it has updated
    try,    \* how many of its attempts met a conflict
    cur,    \* the revision a reconciler is about to update (0: none)
    to      \* the status it will write

writerVars == <<pc, sup, max, todo, held, try>>
vars == <<rel, writerVars, cur, to>>

-----------------------------------------------------------------------------
(* Status vocabulary (domain.ReleaseStatus).  No code path writes          *)
(* "deploying"; the code that reads a status accepts it as current.        *)

Live == {"active", "deploying"}
Ended == {"superseded", "rolled_back", "failed"}
Status == Live \cup Ended

\* The status the revision that a writer replaces is given: superseded by a
\* deploy, rolled_back by a rollback.
Superseding == {"superseded", "rolled_back"}

LiveRevs == {r \in DOMAIN rel : rel[r] \in Live}

\* CurrentRelease: the newest live revision (0 when there is none).
CurrentRelease ==
    IF LiveRevs = {} THEN 0
    ELSE CHOOSE r \in LiveRevs : \A q \in LiveRevs : q <= r

\* The writer's program counter: "begin" before a transaction, "supersede" and
\* "insert" inside it, "commit" once the new row is inserted; then the call has
\* returned the release ("recorded"), given up after MaxAttempts conflicts
\* ("lost") or returned another store error ("errored").
InTx == {"supersede", "insert", "commit"}
Returned == {"recorded", "lost", "errored"}
WriterPc == {"begin"} \cup InTx \cup Returned

Init ==
    /\ rel = <<>>
    /\ pc = [w \in Writers |-> "begin"]
    /\ sup \in [Writers -> Superseding]
    /\ max = [w \in Writers |-> 0]
    /\ todo = [w \in Writers |-> {}]
    /\ held = [w \in Writers |-> {}]
    /\ try = [w \in Writers |-> 0]
    /\ cur = [t \in Reconcilers |-> 0]
    /\ to = [t \in Reconcilers |-> "active"]

-----------------------------------------------------------------------------
(* Row locks.                                                              *)

\* Writer w has updated or inserted row r and not yet committed.
Locked(w, r) ==
    \/ pc[w] \in InTx /\ r \in held[w]
    \/ pc[w] = "commit" /\ r = max[w] + 1

FreeFor(w, r) == \A v \in Writers \ {w} : ~Locked(v, r)

-----------------------------------------------------------------------------
(* recordRelease / allocateAndInsertRelease.                               *)

\* BEGIN and ListReleasesByApp: the rows committed by now.
Begin(w) ==
    /\ pc[w] = "begin"
    /\ pc' = [pc EXCEPT ![w] = "supersede"]
    /\ max' = [max EXCEPT ![w] = Len(rel)]
    /\ todo' = [todo EXCEPT ![w] = LiveRevs]
    /\ held' = [held EXCEPT ![w] = {}]
    /\ UNCHANGED <<rel, sup, try, cur, to>>

\* UpdateRelease on one row that the list showed live; it waits for the
\* transaction that has the row locked.
Supersede(w) ==
    /\ pc[w] = "supersede"
    /\ \E r \in todo[w] :
         /\ FreeFor(w, r)
         /\ todo' = [todo EXCEPT ![w] = @ \ {r}]
         /\ held' = [held EXCEPT ![w] = @ \cup {r}]
    /\ UNCHANGED <<rel, pc, sup, max, try, cur, to>>

SupersededAll(w) ==
    /\ pc[w] = "supersede"
    /\ todo[w] = {}
    /\ pc' = [pc EXCEPT ![w] = "insert"]
    /\ UNCHANGED <<rel, sup, max, todo, held, try, cur, to>>

\* CreateRelease of revision max + 1.  It waits for a transaction that has
\* inserted that revision and not yet committed; a committed one is a conflict.
Insert(w) ==
    /\ pc[w] = "insert"
    /\ max[w] + 1 \notin DOMAIN rel
    /\ FreeFor(w, max[w] + 1)
    /\ pc' = [pc EXCEPT ![w] = "commit"]
    /\ UNCHANGED <<rel, sup, max, todo, held, try, cur, to>>

\* Mutants of the retry: one attempt too few; the next revision without listing
\* the rows again; the same revision again and again.
ConflictOneEarly(w) ==
    /\ pc[w] = "insert"
    /\ max[w] + 1 \in DOMAIN rel
    /\ try' = [try EXCEPT ![w] = @ + 1]
    /\ pc' = [pc EXCEPT ![w] = IF try[w] + 2 < MaxAttempts THEN "begin" ELSE "lost"]
    /\ UNCHANGED <<rel, sup, max, todo, held, cur, to>>

ConflictNextRevision(w) ==
    /\ pc[w] = "insert"
    /\ max[w] + 1 \in DOMAIN rel
    /\ max' = [max EXCEPT ![w] = @ + 1]
    /\ UNCHANGED <<rel, pc, sup, todo, held, try, cur, to>>

ConflictSameRevision(w) ==
    /\ pc[w] = "insert"
    /\ max[w] + 1 \in DOMAIN rel
    /\ UNCHANGED vars

\* The unique constraint rejects the revision: the transaction rolls back and
\* recordRelease reads MAX(revision) again, at most MaxAttempts times in all.
Conflict(w) ==
    /\ pc[w] = "insert"
    /\ max[w] + 1 \in DOMAIN rel
    /\ try' = [try EXCEPT ![w] = @ + 1]
    /\ pc' = [pc EXCEPT ![w] = IF try[w] + 1 < MaxAttempts THEN "begin" ELSE "lost"]
    /\ UNCHANGED <<rel, sup, max, todo, held, cur, to>>

\* COMMIT publishes the superseded rows and the new active one.
Commit(w) ==
    /\ pc[w] = "commit"
    /\ rel' = Append([r \in DOMAIN rel |-> IF r \in held[w] THEN sup[w] ELSE rel[r]],
                     "active")
    /\ pc' = [pc EXCEPT ![w] = "recorded"]
    /\ UNCHANGED <<sup, max, todo, held, try, cur, to>>

\* Any other error (a lost connection, a cancelled request, the app row gone)
\* rolls the transaction back; recordRelease returns it without a retry.
Error(w) ==
    /\ pc[w] \in {"begin"} \cup InTx
    /\ pc' = [pc EXCEPT ![w] = "errored"]
    /\ UNCHANGED <<rel, sup, max, todo, held, try, cur, to>>

-----------------------------------------------------------------------------
(* ReconcileReleaseStatus.                                                 *)

\* The release status a machine status stands for.
Target(machine) == IF machine = "running" THEN "active" ELSE "failed"

\* CurrentRelease is read; nothing is written when there is none or when it
\* already has the target status.
ReconcileRead(t, machine) ==
    /\ cur[t] = 0
    /\ CurrentRelease # 0
    /\ rel[CurrentRelease] # Target(machine)
    /\ cur' = [cur EXCEPT ![t] = CurrentRelease]
    /\ to' = [to EXCEPT ![t] = Target(machine)]
    /\ UNCHANGED <<rel, writerVars>>

\* UpdateRelease outside any transaction, of the row as it was read.
ReconcileWrite(t) ==
    /\ cur[t] # 0
    /\ \A w \in Writers : ~Locked(w, cur[t])
    /\ rel' = [rel EXCEPT ![cur[t]] = to[t]]
    /\ cur' = [cur EXCEPT ![t] = 0]
    /\ UNCHANGED <<writerVars, to>>

-----------------------------------------------------------------------------
WriterStep(w) ==
    Begin(w) \/ Supersede(w) \/ SupersededAll(w) \/ Insert(w) \/ Conflict(w) \/ Commit(w)

Tick(t) == (\E m \in {"running", "failed"} : ReconcileRead(t, m)) \/ ReconcileWrite(t)

Next ==
    \/ \E w \in Writers : WriterStep(w) \/ Error(w)
    \/ \E t \in Reconcilers : Tick(t)

Spec == Init /\ [][Next]_vars

\* A transaction is never left open: the handler goroutine keeps issuing its
\* statements, and a write that waits for a lock is granted it eventually.
FairSpec ==
    /\ Spec
    /\ \A w \in Writers : SF_vars(WriterStep(w))
    /\ \A t \in Reconcilers : SF_vars(ReconcileWrite(t))

-----------------------------------------------------------------------------
(* Properties.                                                             *)

TypeOK ==
    /\ rel \in Seq(Status)
    /\ pc \in [Writers -> WriterPc]
    /\ sup \in [Writers -> Superseding]
    /\ max \in [Writers -> Nat]
    /\ todo \in [Writers -> SUBSET (Nat \ {0})]
    /\ held \in [Writers -> SUBSET (Nat \ {0})]
    /\ try \in [Writers -> Nat]
    /\ cur \in [Reconcilers -> Nat]
    /\ to \in [Reconcilers -> Status]

\* At most one release of an app is current, and it is the newest revision,
\* however many deploys race (domain.ReleaseActive: "At most one release per app
\* is active at a time").
OnlyNewestLive == \A r \in DOMAIN rel : rel[r] \in Live => r = Len(rel)

\* A release that has ended is never current again: neither a transaction that
\* listed the rows before it ended nor a late reconciler write revives it.
NeverReanimated ==
    [][\A r \in DOMAIN rel : rel[r] \in Ended => rel'[r] \in Ended]_rel

\* No deploy is dropped from the history by racing deploys as long as at most
\* MaxAttempts of them run at once: every lost race means another deploy was
\* recorded.
NoneLost ==
    Cardinality(Writers) <= MaxAttempts => \A w \in Writers : pc[w] # "lost"

\* Every call of recordRelease returns: the row locks its transactions hold
\* never make two deploys wait for each other.
EveryRecordReturns == \A w \in Writers : <>(pc[w] \in Returned)

-----------------------------------------------------------------------------
\* The rows implement the atomic history that readers of it rely on.
History == INSTANCE ReleaseHistory WITH hist <- rel

\* Every concurrent execution looks like deploys recorded one after another.
ImplementsHistory == History!Spec

=============================================================================
