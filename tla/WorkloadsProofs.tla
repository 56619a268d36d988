--------------------------- MODULE WorkloadsProofs ---------------------------
(***************************************************************************)
(* Theorems of Workloads and of the jobs that run beside them, Builds and  *)
(* Backups, for any number of requests, namespaces, names and ids, any     *)
(* limit of the plan, any number of builds, databases, seconds and         *)
(* attempts, and any way of cutting the names of jobs.                     *)
(***************************************************************************)
EXTENDS Workloads, Builds, Backups, FiniteSetTheorems, TLAPS

-----------------------------------------------------------------------------
(* Workloads: databases and services.                                      *)

\* What a request holds.
Held ==
    [pc : {"idle", "tenant", "apply", "store", "act", "reread", "uninstall", "drop"},
     op : {"none", "create", "deploy", "stop", "start", "restart", "delete"},
     id : Ids \union {None}, kind : Kinds \union {"none"}, at : Places \union {None},
     layers : {0}, paid : BOOLEAN]

\* ... and which calls are left to it, by its operation.
Course(q) ==
    /\ q.op = "none" <=> q.pc = "idle"
    /\ q.op = "none" => q.at = None /\ q.id = None
    /\ q.op # "none" => q.id \in Ids /\ q.at \in Places /\ q.kind \in Kinds
    /\ q.op = "create" => q.pc \in {"tenant", "apply", "store"}
    /\ q.op = "deploy" => q.pc \in {"apply", "store"}
    /\ q.op = "stop" => q.pc \in {"act", "store"}
    /\ q.op \in {"start", "restart"} => q.pc \in {"reread", "act", "store"}
    /\ q.op = "delete" => q.pc \in {"uninstall", "drop"}
    /\ q.op \in {"create", "deploy", "start"} => q.paid

HeldTyped ==
    /\ req \in [Requests -> Held]
    /\ \A r \in Requests : Course(req[r])

StoredRow == [kind : Kinds, at : Places, status : Statuses, layers : 0..1]

WorkTypes ==
    /\ row \in [Ids -> StoredRow \union {NoRow}]
    /\ release \in [Places -> {"none", "up", "down"}]
    /\ volume \in [Places -> Ids \union {None, Gone}]
    /\ tenant \subseteq Namespaces /\ paid \in BOOLEAN
    /\ crossed \subseteq Places /\ astray \subseteq Places
    /\ HeldTyped

\* The id of a row to be is nobody else's.
OwnIds ==
    \A r \in Requests : req[r].op = "create" =>
        /\ ~HasRow(req[r].id)
        /\ \A s \in Requests \ {r} : req[s].id # req[r].id

\* The row that a request works on, if it is still there, is the one that it read, and at
\* its place but for a deploy that found another.
SameRows ==
    \A r \in Requests : req[r].op \notin {"none", "create"} /\ HasRow(req[r].id) =>
        /\ row[req[r].id].kind = req[r].kind
        /\ \/ row[req[r].id].at = req[r].at
           \/ req[r].op = "deploy" /\ req[r].at \in crossed /\ row[req[r].id].at \in crossed

\* The requests and the rows of a place.
On(n) == {r \in Requests : req[r].at = n}
Of(n) == {d \in Ids : row[d].at = n}

\* What request r, the only one on the place n, has done so far.
Progress(r, n) ==
    /\ req[r].op = "create" =>
          /\ Of(n) = {}
          /\ req[r].pc # "store" => release[n] = "none" /\ volume[n] = None
          /\ req[r].pc = "store" => release[n] = "up" /\ (req[r].kind = "database" => volume[n] = req[r].id)
    /\ req[r].op # "create" => HasRow(req[r].id)
    /\ req[r].op \in {"deploy", "start"} /\ req[r].pc = "store" => release[n] = "up"
    /\ req[r].op = "stop" /\ req[r].pc = "store" => release[n] = "down"
    /\ req[r].op = "restart" /\ req[r].pc = "store" => release[n] # "none"
    /\ req[r].pc = "drop" => release[n] = "none"

\* What the row d of the place n says holds.
Settled(d, n) ==
    /\ release[n] # "none"
    /\ row[d].status = "stopped" => release[n] = "down"
    /\ row[d].status \in {"running", "deploying"} => release[n] = "up"

\* A place that no two requests overlapped on.
Orderly(n) ==
    /\ \A r, s \in On(n) : r = s
    /\ \A d, e \in Of(n) : d = e
    /\ \A r \in On(n) : Progress(r, n)
    /\ \A d \in Of(n) : row[d].kind = "database" => volume[n] = d
    /\ \A d \in Of(n) : (\A r \in On(n) : req[r].pc \notin {"store", "drop"}) => Settled(d, n)
    /\ Of(n) = {} /\ (\A r \in On(n) : req[r].pc # "store") => release[n] = "none"

\* A namespace is set up before anything is put in it but by a deploy that went astray.
SetUp ==
    /\ \A d \in Ids : HasRow(d) => row[d].at[1] \in tenant
    /\ \A n \in Places \ astray : release[n] # "none" => n[1] \in tenant
    /\ \A r \in Requests :
          /\ req[r].op = "create" /\ req[r].pc # "tenant" => req[r].at[1] \in tenant
          /\ req[r].op \notin {"none", "create"} => req[r].at \in astray \/ req[r].at[1] \in tenant

\* The creations under way are in what is counted.
Counted ==
    /\ peak \in 0..Cardinality(Requests)
    /\ Cardinality(Creating) <= peak
    /\ \/ Cardinality(Rows) + Cardinality(Creating) <= MaxApps + peak - 1
       \/ Cardinality(Creating) = 0 /\ Cardinality(Rows) <= MaxApps

WorkInv ==
    /\ WorkTypes /\ OwnIds /\ SameRows
    /\ \A n \in Places \ crossed : Orderly(n)
    /\ SetUp /\ Counted

-----------------------------------------------------------------------------

\* A row that is there is a database's or a service's; the missing one has no place (NoRow).
LEMMA RowsTyped ==
    ASSUME WorkTypes, NEW d \in Ids
    PROVE  /\ HasRow(d) <=> row[d].at \in Places
           /\ HasRow(d) => row[d] \in StoredRow
           /\ ~HasRow(d) => row[d] = NoRow /\ row[d].at = None
<1>1. row[d] \in StoredRow \union {NoRow} /\ NoRow.at = None
  BY DEF WorkTypes, NoRow
<1>2. row[d] \in StoredRow => row[d].at \in Places
  BY DEF StoredRow
<1> QED
  BY <1>1, <1>2, IdsAssumption DEF HasRow

\* A request's own step gives it another record and leaves the others theirs.
LEMMA OwnHeld ==
    ASSUME HeldTyped, NEW r \in Requests, NEW j \in Held, Course(j), req' = [req EXCEPT ![r] = j]
    PROVE  HeldTyped'
  BY DEF HeldTyped

\* A request goes on to another call (Goto).
LEMMA Forward ==
    ASSUME HeldTyped, NEW r \in Requests, NEW pc, Goto(r, pc)
    PROVE  /\ req'[r].pc = pc /\ req'[r].op = req[r].op /\ req'[r].id = req[r].id
           /\ req'[r].kind = req[r].kind /\ req'[r].at = req[r].at
           /\ req'[r].layers = req[r].layers /\ req'[r].paid = req[r].paid
           /\ \A s \in Requests \ {r} : req'[s] = req[s]
           /\ req' = [req EXCEPT ![r] = [req[r] EXCEPT !.pc = pc]]
  BY DEF HeldTyped, Held, Goto

\* ... one that its operation has.
LEMMA GoesTo ==
    ASSUME HeldTyped, NEW r \in Requests,
           NEW pc \in {"apply", "store", "act", "drop"}, Goto(r, pc),
           \/ req[r].pc = "tenant" /\ pc = "apply"
           \/ req[r].pc \in {"apply", "act"} /\ pc = "store"
           \/ req[r].pc = "uninstall" /\ pc = "drop"
    PROVE  HeldTyped'
<1> DEFINE j == [req[r] EXCEPT !.pc = pc]
<1>1. req[r] \in Held /\ Course(req[r])
  BY DEF HeldTyped
<1>2. j \in Held
  BY <1>1 DEF Held
<1>3. /\ j.pc = pc /\ j.op = req[r].op /\ j.id = req[r].id /\ j.kind = req[r].kind
      /\ j.at = req[r].at /\ j.paid = req[r].paid
  BY <1>1 DEF Held
<1>4. Course(j)
  BY <1>1, <1>3 DEF Course
<1>5. req' = [req EXCEPT ![r] = j]
  BY Forward
<1> QED
  BY <1>2, <1>4, <1>5, OwnHeld

\* ... or ends (Done).
LEMMA Ends ==
    ASSUME HeldTyped, NEW r \in Requests, Done(r)
    PROVE  HeldTyped' /\ req'[r] = Idle /\ \A s \in Requests \ {r} : req'[s] = req[s]
<1>1. Idle \in Held
  BY DEF Idle, Held
<1>2. Course(Idle)
  BY DEF Idle, Course
<1>3. req' = [req EXCEPT ![r] = Idle]
  BY DEF Done
<1> QED
  BY <1>1, <1>2, <1>3, OwnHeld DEF HeldTyped

\* What a request on the row of d holds, at the place p.
BegunAt(op, pc, d, b, p) ==
    [pc |-> pc, op |-> op, id |-> d, kind |-> row[d].kind, at |-> p, layers |-> 0, paid |-> b]

\* ... at its own.
Begun(op, pc, d, b) == BegunAt(op, pc, d, b, row[d].at)

\* The password is read decrypted, whether it was encrypted or is a legacy one (ownedDatabase).
LEMMA Reads ==
    ASSUME WorkTypes, NEW d \in Ids, HasRow(d), NEW op, NEW pc
    PROVE  /\ ownedDatabase(op, pc, d) = Begun(op, pc, d, FALSE)
           /\ ownedDatabase(op, pc, d).layers = 0
<1>1. row[d].layers \in 0..1
  BY RowsTyped DEF StoredRow
<1>2. Decrypt(row[d].layers) = 0
  BY <1>1 DEF Decrypt
<1>3. ownedDatabase(op, pc, d) = Begun(op, pc, d, FALSE)
  <2> DEFINE q == ownedDatabase(op, pc, d)
  <2>1. /\ q = [f \in DOMAIN q |-> q[f]]
        /\ DOMAIN q = {"pc", "op", "id", "kind", "at", "layers", "paid"}
    BY DEF ownedDatabase, Idle
  <2>2. /\ q["pc"] = pc /\ q["op"] = op /\ q["id"] = d /\ q["kind"] = row[d].kind
        /\ q["at"] = row[d].at /\ q["layers"] = 0 /\ q["paid"] = FALSE
    BY <1>2 DEF ownedDatabase, Idle
  <2> HIDE DEF q
  <2>3. q = Begun(op, pc, d, FALSE)
    BY <2>1, <2>2 DEF Begun, BegunAt
  <2> QED
    BY <2>3 DEF q
<1> QED
  BY <1>3 DEF Begun, BegunAt

\* A request on a workload begins, a deploy at any place of its name.
Starts(r, d, op, pc, p) ==
    /\ HasRow(d) /\ req[r].pc = "idle"
    /\ \/ op = "deploy" /\ pc = "apply"
       \/ p = row[d].at /\ \/ op = "stop" /\ pc = "act"
                           \/ op \in {"start", "restart"} /\ pc = "reread"
                           \/ op = "delete" /\ pc = "uninstall"
    /\ \E b \in BOOLEAN : /\ op \in {"deploy", "start"} => b
                          /\ req' = [req EXCEPT ![r] = BegunAt(op, pc, d, b, p)]
    /\ crossed' = crossed \union {n \in {p} : On(n) # {}} \union {n \in {p, row[d].at} : p # row[d].at}
    /\ astray' = astray \union {n \in {p} : p # row[d].at}
    /\ UNCHANGED <<row, cluster, paid, peak>>

Ops == {"deploy", "stop", "start", "restart", "delete"}

\* ... by one of its handlers.
LEMMA StartsStep ==
    ASSUME WorkTypes, NEW r \in Requests, NEW d \in Ids,
           \/ DeployDatabase(r, d) \/ StopDatabase(r, d) \/ StartDatabase(r, d)
           \/ RestartDatabase(r, d) \/ DeleteDatabase(r, d)
           \/ DeployService(r, d) \/ StopService(r, d) \/ RestartService(r, d) \/ DeleteService(r, d)
    PROVE  \E op \in Ops, pc \in {"apply", "act", "reread", "uninstall"}, p \in Places : Starts(r, d, op, pc, p)
<1>0. HasRow(d) => row[d].at \in Places
  BY RowsTyped
<1>1. ASSUME NEW op \in Ops, NEW pc \in {"apply", "act", "reread", "uninstall"}, NEW p \in Places, HasRow(d),
             NEW q, q = BegunAt(op, pc, d, FALSE, p),
             Begin(r, q), op \in {"deploy", "start"} => paid,
             \/ op = "deploy" /\ pc = "apply"
             \/ p = row[d].at /\ \/ op = "stop" /\ pc = "act"
                                 \/ op \in {"start", "restart"} /\ pc = "reread"
                                 \/ op = "delete" /\ pc = "uninstall",
             UNCHANGED <<row, cluster, paid, peak>>
      PROVE  Starts(r, d, op, pc, p)
  <2> DEFINE b == paid /\ q.op \in {"deploy", "start"}
  <2>1. q.op = op /\ q.at = p /\ q.id = d
    BY <1>1 DEF BegunAt
  <2>2. b \in BOOLEAN
    OBVIOUS
  <2>3. op \in {"deploy", "start"} => b
    BY <1>1, <2>1
  <2>4. req' = [req EXCEPT ![r] = [q EXCEPT !.paid = b]] /\ req[r].pc = "idle"
    BY <1>1 DEF Begin
  <2>5. /\ crossed' = crossed \union {n \in {p} : \E s \in Requests : req[s].at = n}
                              \union {n \in {p, row[d].at} : p # row[d].at}
        /\ astray' = astray \union {n \in {p} : n # row[d].at}
    BY <1>1, <2>1 DEF Begin
  <2>6. [q EXCEPT !.paid = b] = BegunAt(op, pc, d, b, p)
    <3> HIDE DEF b
    <3> QED
      BY <1>1 DEF BegunAt
  <2> HIDE DEF b
  <2>7. /\ crossed' = crossed \union {n \in {p} : On(n) # {}} \union {n \in {p, row[d].at} : p # row[d].at}
        /\ astray' = astray \union {n \in {p} : p # row[d].at}
    BY <2>5 DEF On
  <2>8. req' = [req EXCEPT ![r] = BegunAt(op, pc, d, b, p)]
    BY <2>4, <2>6
  <2> QED
    BY <1>1, <2>2, <2>3, <2>4, <2>7, <2>8 DEF Starts
\* All but a deploy go to the row's place.
<1>2. ASSUME NEW op \in Ops, NEW pc \in {"act", "reread", "uninstall"}, HasRow(d),
             Begin(r, ownedDatabase(op, pc, d)), op = "start" => paid,
             \/ op = "stop" /\ pc = "act"
             \/ op \in {"start", "restart"} /\ pc = "reread"
             \/ op = "delete" /\ pc = "uninstall",
             UNCHANGED <<row, cluster, paid, peak>>
      PROVE  Starts(r, d, op, pc, row[d].at)
  <2>1. ownedDatabase(op, pc, d) = BegunAt(op, pc, d, FALSE, row[d].at)
    BY <1>2, Reads DEF Begun, BegunAt
  <2> QED
    BY <1>0, <1>1, <1>2, <2>1
<1> USE DEF Ops, ensureRunnable, ensureActive
<1>3. CASE DeployDatabase(r, d) \/ DeployService(r, d)
  <2>1. PICK ns \in Namespaces :
            Begin(r, [ownedDatabase("deploy", "apply", d) EXCEPT !.at = <<ns, row[d].at[2]>>])
    BY <1>3 DEF DeployDatabase, DeployService, Deploy
  <2>2. HasRow(d) /\ paid /\ UNCHANGED <<row, cluster, paid, peak>>
    BY <1>3 DEF DeployDatabase, DeployService, Deploy
  <2> DEFINE p == <<ns, row[d].at[2]>>
  <2>3. p \in Places
    BY <1>0, <2>2 DEF Places
  <2>4. [ownedDatabase("deploy", "apply", d) EXCEPT !.at = p] = BegunAt("deploy", "apply", d, FALSE, p)
    <3>1. ownedDatabase("deploy", "apply", d) = BegunAt("deploy", "apply", d, FALSE, row[d].at)
      BY <2>2, Reads DEF Begun
    <3>2. ASSUME NEW x, NEW y
          PROVE  [BegunAt("deploy", "apply", d, FALSE, x) EXCEPT !.at = y]
                      = BegunAt("deploy", "apply", d, FALSE, y)
      <4> DEFINE q == [BegunAt("deploy", "apply", d, FALSE, x) EXCEPT !.at = y]
      <4>1. /\ q = [f \in DOMAIN q |-> q[f]]
            /\ DOMAIN q = {"pc", "op", "id", "kind", "at", "layers", "paid"}
        BY DEF BegunAt
      <4>2. /\ q["pc"] = "apply" /\ q["op"] = "deploy" /\ q["id"] = d /\ q["kind"] = row[d].kind
            /\ q["at"] = y /\ q["layers"] = 0 /\ q["paid"] = FALSE
        BY DEF BegunAt
      <4> HIDE DEF q
      <4>3. q = BegunAt("deploy", "apply", d, FALSE, y)
        BY <4>1, <4>2 DEF BegunAt
      <4> QED
        BY <4>3 DEF q
    <3> QED
      BY <3>1, <3>2
  <2> HIDE DEF p
  <2>5. Starts(r, d, "deploy", "apply", p)
    BY <1>1, <2>1, <2>2, <2>3, <2>4 DEF p
  <2> QED
    BY <2>3, <2>5
<1>4. CASE StopDatabase(r, d) \/ StopService(r, d)
  BY <1>0, <1>2, <1>4 DEF StopDatabase, StopService, Stop
<1>5. CASE StartDatabase(r, d)
  BY <1>0, <1>2, <1>5 DEF StartDatabase
<1>6. CASE RestartDatabase(r, d) \/ RestartService(r, d)
  BY <1>0, <1>2, <1>6 DEF RestartDatabase, RestartService, Restart
<1>7. CASE DeleteDatabase(r, d) \/ DeleteService(r, d)
  BY <1>0, <1>2, <1>7 DEF DeleteDatabase, DeleteService, Delete
<1> QED
  BY <1>3, <1>4, <1>5, <1>6, <1>7

\* A creation begins.
Made(d, kind, n) ==
    [pc |-> "tenant", op |-> "create", id |-> d, kind |-> kind, at |-> n, layers |-> 0, paid |-> TRUE]

Creates(r, d, kind, n) ==
    /\ workloadCount < MaxApps
    /\ ~HasRow(d) /\ (\A s \in Requests : req[s].id # d)
    /\ req[r].pc = "idle"
    /\ req' = [req EXCEPT ![r] = Made(d, kind, n)]
    /\ crossed' = crossed \union {m \in {n} : On(m) # {} \/ Of(m) # {} \/ release[m] # "none" \/ volume[m] # None}
    /\ peak' = IF Cardinality(Creating) + 1 > peak THEN Cardinality(Creating) + 1 ELSE peak
    /\ UNCHANGED <<row, cluster, paid, astray>>

\* ... by one of its handlers (Create).
LEMMA CreatesStep ==
    ASSUME WorkTypes, NEW r \in Requests, NEW name \in Names, CreateDatabase(r, name) \/ CreateService(r, name)
    PROVE  \E n \in Places, d \in Ids, kind \in Kinds : Creates(r, d, kind, n)
<1>1. ASSUME NEW kind \in Kinds, Create(r, kind, name) PROVE \E n \in Places, d \in Ids : Creates(r, d, kind, n)
  <2>1. PICK d \in Ids, ns \in Namespaces :
            /\ ~HasRow(d) /\ \A s \in Requests : req[s].id # d
            /\ req[r].pc = "idle"
            /\ req' = [req EXCEPT ![r] = [Idle EXCEPT !.pc = "tenant", !.op = "create", !.id = d,
                                          !.kind = kind, !.at = <<ns, name>>, !.paid = TRUE]]
            /\ crossed' = crossed \union
                  {p \in {<<ns, name>>} : \/ \E s \in Requests : req[s].at = p
                                          \/ \E e \in Rows : row[e].at = p
                                          \/ release[p] # "none" \/ volume[p] # None}
    BY <1>1 DEF Create
  <2>2. PICK n \in Places : n = <<ns, name>>
    BY DEF Places
  <2>3. [Idle EXCEPT !.pc = "tenant", !.op = "create", !.id = d, !.kind = kind, !.at = n,
                     !.paid = TRUE] = Made(d, kind, n)
    <3> DEFINE q == [Idle EXCEPT !.pc = "tenant", !.op = "create", !.id = d, !.kind = kind, !.at = n,
                                 !.paid = TRUE]
    <3>1. /\ q = [f \in DOMAIN q |-> q[f]]
          /\ DOMAIN q = {"pc", "op", "id", "kind", "at", "layers", "paid"}
      BY DEF Idle
    <3>2. /\ q["pc"] = "tenant" /\ q["op"] = "create" /\ q["id"] = d /\ q["kind"] = kind
          /\ q["at"] = n /\ q["layers"] = 0 /\ q["paid"] = TRUE
      BY DEF Idle
    <3> HIDE DEF q
    <3>3. q = Made(d, kind, n)
      BY <3>1, <3>2 DEF Made
    <3> QED
      BY <3>3 DEF q
  <2>4. (\E e \in Rows : row[e].at = n) <=> Of(n) # {}
    BY RowsTyped DEF Rows, Of
  <2>5. crossed' = crossed \union {m \in {n} : On(m) # {} \/ Of(m) # {} \/ release[m] # "none" \/ volume[m] # None}
    BY <2>1, <2>2, <2>4 DEF On
  <2>6. /\ workloadCount < MaxApps /\ UNCHANGED <<row, cluster, paid, astray>>
        /\ peak' = IF Cardinality(Creating) + 1 > peak THEN Cardinality(Creating) + 1 ELSE peak
    BY <1>1 DEF Create, checkQuota
  <2>7. Creates(r, d, kind, n)
    BY <2>1, <2>2, <2>3, <2>5, <2>6 DEF Creates
  <2> QED
    BY <2>7
<1> QED
  BY <1>1 DEF CreateDatabase, CreateService, Kinds

\* A step of a request.
RequestStep(r) ==
    \/ \E name \in Names : CreateDatabase(r, name) \/ CreateService(r, name)
    \/ \E d \in Ids :
          \/ DeployDatabase(r, d) \/ StopDatabase(r, d) \/ StartDatabase(r, d)
          \/ RestartDatabase(r, d) \/ DeleteDatabase(r, d)
          \/ DeployService(r, d) \/ StopService(r, d) \/ RestartService(r, d) \/ DeleteService(r, d)
    \/ EnsureTenant(r) \/ Apply(r) \/ createDatabase(r)
    \/ Reread(r) \/ Scale(r) \/ updateDatabase(r)
    \/ Uninstall(r) \/ DropRow(r) \/ StoreFails(r)

\* A record that a request begins with is well typed.
LEMMA BegunTyped ==
    ASSUME WorkTypes, NEW r \in Requests, NEW d \in Ids, NEW op, NEW pc, NEW b \in BOOLEAN,
           NEW p \in Places, HasRow(d),
           \/ op = "deploy" /\ pc = "apply"
           \/ op = "stop" /\ pc = "act"
           \/ op \in {"start", "restart"} /\ pc \in {"reread", "act"}
           \/ op = "delete" /\ pc = "uninstall",
           op \in {"deploy", "start"} => b,
           req' = [req EXCEPT ![r] = BegunAt(op, pc, d, b, p)]
    PROVE  HeldTyped'
<1>1. row[d].kind \in Kinds
  BY RowsTyped DEF StoredRow
<1>2. BegunAt(op, pc, d, b, p) \in Held
  BY <1>1 DEF BegunAt, Held
<1>3. Course(BegunAt(op, pc, d, b, p))
  BY <1>1 DEF BegunAt, Course
<1> QED
  BY <1>2, <1>3, OwnHeld DEF WorkTypes

\* A request that ends with an error leaves a volume its password, or nobody's (Abort).
LEMMA Aborts ==
    ASSUME WorkTypes, NEW r \in Requests, req[r].pc # "idle", Abort(r)
    PROVE  /\ HeldTyped' /\ req'[r] = Idle /\ \A s \in Requests \ {r} : req'[s] = req[s]
           /\ crossed' = crossed \union {req[r].at} /\ req[r].at \in Places
           /\ volume' \in [Places -> Ids \union {None, Gone}]
           /\ \A n \in Places : volume'[n] = IF req[r].op = "create" /\ volume[n] = req[r].id
                                            THEN Gone ELSE volume[n]
<1>1. HeldTyped /\ Course(req[r])
  BY DEF WorkTypes, HeldTyped
<1>2. volume' = IF req[r].op = "create" THEN Forget(req[r].id) ELSE volume
  BY DEF Abort
<1>3. volume' \in [Places -> Ids \union {None, Gone}]
  BY <1>2 DEF WorkTypes, Forget
<1>4. \A n \in Places : volume'[n] = IF req[r].op = "create" /\ volume[n] = req[r].id
                                     THEN Gone ELSE volume[n]
  BY <1>2 DEF WorkTypes, Forget
<1> QED
  BY <1>1, <1>3, <1>4, Ends DEF Abort, Course

\* Every step keeps the types.
LEMMA WorkTypesStep ==
    ASSUME WorkTypes, NEW r \in Requests, RequestStep(r)
    PROVE  WorkTypes'
<1>0. HeldTyped /\ req[r] \in Held /\ Course(req[r])
  BY DEF WorkTypes, HeldTyped
<1>1. CASE \E name \in Names : CreateDatabase(r, name) \/ CreateService(r, name)
  <2>1. PICK n \in Places, d \in Ids, kind \in Kinds : Creates(r, d, kind, n)
    BY <1>1, CreatesStep
  <2>2. Made(d, kind, n) \in Held /\ Course(Made(d, kind, n))
    BY DEF Made, Held, Course
  <2>3. HeldTyped'
    BY <1>0, <2>1, <2>2, OwnHeld DEF Creates
  <2> QED
    BY <2>1, <2>3 DEF Creates, WorkTypes, cluster
<1>2. CASE \E d \in Ids :
          \/ DeployDatabase(r, d) \/ StopDatabase(r, d) \/ StartDatabase(r, d)
          \/ RestartDatabase(r, d) \/ DeleteDatabase(r, d)
          \/ DeployService(r, d) \/ StopService(r, d) \/ RestartService(r, d) \/ DeleteService(r, d)
  <2>1. PICK d \in Ids, op \in Ops, pc \in {"apply", "act", "reread", "uninstall"}, p \in Places :
            Starts(r, d, op, pc, p)
    BY <1>2, StartsStep
  <2>2. HeldTyped'
    <3>1. PICK b \in BOOLEAN :
              /\ op \in {"deploy", "start"} => b
              /\ req' = [req EXCEPT ![r] = BegunAt(op, pc, d, b, p)]
      BY <2>1 DEF Starts
    <3> QED
      BY <2>1, <3>1, BegunTyped DEF Starts
  <2>3. row[d].at \in Places
    BY <2>1, RowsTyped DEF Starts
  <2> QED
    BY <2>1, <2>2, <2>3 DEF Starts, WorkTypes, cluster
<1>3. CASE EnsureTenant(r)
  <2>0. UNCHANGED <<row, release, paid, astray>>
    BY <1>3 DEF EnsureTenant
  <2>1. tenant' \subseteq Namespaces
    BY <1>0, <1>3 DEF EnsureTenant, WorkTypes, Places, Course
  <2>2. CASE Goto(r, "apply") /\ UNCHANGED <<volume, crossed>>
    BY <1>0, <1>3, <2>0, <2>1, <2>2, GoesTo DEF EnsureTenant, WorkTypes
  <2>3. CASE Abort(r)
    BY <1>3, <2>0, <2>1, <2>3, Aborts DEF EnsureTenant, WorkTypes
  <2> QED
    BY <1>3, <2>2, <2>3 DEF EnsureTenant
<1>4. CASE Apply(r)
  <2>0. req[r].pc = "apply" /\ req[r].id \in Ids /\ req[r].at \in Places
    BY <1>0, <1>4 DEF Apply, Course
  <2>1. Mounted(r) \in [Places -> Ids \union {None, Gone}]
    BY <2>0 DEF Mounted, WorkTypes
  <2>2. CASE Goto(r, "store")
    <3>1. HeldTyped'
      BY <1>0, <2>0, <2>2, GoesTo
    <3> QED
      BY <1>4, <2>0, <2>1, <3>1 DEF Apply, WorkTypes
  <2>3. CASE Done(r)
    <3>1. HeldTyped'
      BY <1>0, <2>3, Ends
    <3> QED
      BY <1>4, <2>0, <2>1, <3>1 DEF Apply, WorkTypes
  <2> QED
    BY <1>4, <2>2, <2>3 DEF Apply
<1>6. CASE createDatabase(r)
  <2>1. HeldTyped'
    BY <1>0, <1>6, Ends DEF createDatabase
  <2> DEFINE w == [kind |-> req[r].kind, at |-> req[r].at, status |-> "deploying",
                   layers |-> IF req[r].kind = "database" THEN Encrypt(0) ELSE 0]
  <2>2. w \in StoredRow /\ row' = [row EXCEPT ![req[r].id] = w]
    BY <1>0, <1>6 DEF createDatabase, Course, StoredRow, Statuses, Encrypt
  <2> HIDE DEF w
  <2> QED
    BY <1>6, <2>1, <2>2 DEF createDatabase, WorkTypes, cluster, history
<1>7. CASE Reread(r)
  <2>1. CASE HasRow(req[r].id)
    <3> DEFINE d == req[r].id  op == req[r].op  b == req[r].paid
    <3>1. d \in Ids /\ op \in {"start", "restart"} /\ b \in BOOLEAN /\ (op = "start" => b)
      BY <1>0, <1>7 DEF Reread, Course, Held
    <3>2. [ownedDatabase(op, "act", d) EXCEPT !.paid = b] = Begun(op, "act", d, b)
      <4>1. ownedDatabase(op, "act", d) = Begun(op, "act", d, FALSE)
        BY <2>1, <3>1, Reads
      <4> HIDE DEF op, b, d
      <4> QED
        BY <4>1 DEF Begun, BegunAt
    <3>3. req' = [req EXCEPT ![r] = Begun(op, "act", d, b)]
      BY <1>0, <1>7, <2>1, <3>2 DEF Reread, HeldTyped
    <3>4. HeldTyped'
      BY <2>1, <3>1, <3>3, BegunTyped, RowsTyped DEF Begun
    <3> QED
      BY <1>7, <3>4 DEF Reread, WorkTypes, cluster, history
  <2>2. CASE Done(r)
    BY <1>0, <1>7, <2>2, Ends DEF Reread, WorkTypes, cluster, history
  <2> QED
    BY <1>7, <2>1, <2>2 DEF Reread
<1>8. CASE Scale(r)
  <2>1. CASE Goto(r, "store") /\ UNCHANGED <<volume, crossed>>
    <3>1. HeldTyped'
      BY <1>0, <1>8, <2>1, GoesTo DEF Scale
    <3>2. req[r].at \in Places
      BY <1>0, <1>8 DEF Scale, Course
    <3>3. release' \in [Places -> {"none", "up", "down"}]
      BY <1>8, <3>2 DEF Scale, Scaled, WorkTypes
    <3> QED
      BY <1>8, <2>1, <3>1, <3>3 DEF Scale, WorkTypes
  <2>2. CASE Abort(r) /\ UNCHANGED release
    BY <1>8, <2>2, Aborts DEF Scale, WorkTypes
  <2> QED
    BY <1>8, <2>1, <2>2 DEF Scale
<1>9. CASE updateDatabase(r)
  <2>1. HeldTyped'
    BY <1>0, <1>9, Ends DEF updateDatabase
  <2>2. row' \in [Ids -> StoredRow \union {NoRow}]
    <3>1. CASE ~HasRow(req[r].id)
      BY <1>9, <3>1 DEF updateDatabase, WorkTypes
    <3>2. CASE HasRow(req[r].id)
      <4> DEFINE d == req[r].id
                 w == [row[d] EXCEPT !.status = StatusAfter(req[r].op),
                                     !.layers = IF req[r].kind = "database" THEN Encrypt(req[r].layers) ELSE 0]
      <4>1. d \in Ids /\ req[r].layers = 0
        BY <1>0, <1>9 DEF updateDatabase, Course, Held
      <4>2. w \in StoredRow
        <5>1. row[d] \in StoredRow
          BY <3>2, <4>1, RowsTyped
        <5>2. StatusAfter(req[r].op) \in Statuses
          BY DEF StatusAfter, Statuses
        <5>3. (IF req[r].kind = "database" THEN Encrypt(req[r].layers) ELSE 0) \in 0..1
          BY <4>1 DEF Encrypt
        <5>4. \A x \in StoredRow, st \in Statuses, l \in 0..1 :
                 [x EXCEPT !.status = st, !.layers = l] \in StoredRow
          BY DEF StoredRow
        <5> QED
          BY <5>1, <5>2, <5>3, <5>4
      <4>3. row' = [row EXCEPT ![d] = w]
        BY <1>9, <3>2, <4>1 DEF updateDatabase, WorkTypes
      <4> HIDE DEF w
      <4> QED
        BY <4>1, <4>2, <4>3 DEF WorkTypes
    <3> QED
      BY <3>1, <3>2
  <2> QED
    BY <1>9, <2>1, <2>2 DEF updateDatabase, WorkTypes, cluster, history
<1>10. CASE Uninstall(r)
  <2>1. CASE Goto(r, "drop") /\ release' = [release EXCEPT ![req[r].at] = "none"] /\ UNCHANGED <<volume, crossed>>
    <3>1. HeldTyped' /\ req[r].at \in Places
      BY <1>0, <1>10, <2>1, GoesTo DEF Uninstall, Course
    <3> QED
      BY <1>10, <2>1, <3>1 DEF Uninstall, WorkTypes
  <2>2. CASE Abort(r) /\ UNCHANGED release
    BY <1>10, <2>2, Aborts DEF Uninstall, WorkTypes
  <2> QED
    BY <1>10, <2>1, <2>2 DEF Uninstall
<1>11. CASE DropRow(r)
  <2>1. HeldTyped'
    BY <1>0, <1>11, Ends DEF DropRow
  <2> QED
    BY <1>11, <2>1 DEF DropRow, Forget, WorkTypes, history
<1>12. CASE StoreFails(r)
  BY <1>12, Aborts DEF StoreFails, WorkTypes
<1> QED
  BY <1>1, <1>2, <1>3, <1>4, <1>6, <1>7, <1>8, <1>9, <1>10, <1>11, <1>12 DEF RequestStep

-----------------------------------------------------------------------------
(* What a step touches: its request, the row of its id, the release and    *)
(* the volume of its place, and the volumes whose password it forgets.     *)

\* What becomes of the request.
Turn(r, m) ==
    \/ /\ req[r].pc = "idle" /\ row' = row /\ req'[r].at = m
       /\ \/ /\ req'[r].op = "create" /\ ~HasRow(req'[r].id)
             /\ \A s \in Requests : req[s].id # req'[r].id
          \/ /\ req'[r].op # "create" /\ HasRow(req'[r].id)
             /\ row[req'[r].id].kind = req'[r].kind
             /\ \/ row[req'[r].id].at = m
                \/ req'[r].op = "deploy" /\ m \in crossed' /\ row[req'[r].id].at \in crossed'
    \/ req[r].pc # "idle" /\ req'[r] = Idle
    \/ /\ req[r].pc # "idle" /\ row' = row
       /\ req'[r].op = req[r].op /\ req'[r].id = req[r].id
       /\ req'[r].at = req[r].at /\ req'[r].kind = req[r].kind

\* What becomes of the row of its id.
Writes(r, m) ==
    \/ row' = row
    \/ /\ req[r].pc # "idle" /\ req'[r] = Idle
       /\ \A d \in Ids \ {req[r].id} : row'[d] = row[d]
       /\ \/ req[r].op = "create" /\ req[r].pc = "store" /\ row'[req[r].id].at = m
          \/ /\ req[r].op # "create" /\ HasRow(req[r].id)
             /\ row'[req[r].id].at = row[req[r].id].at
             /\ row'[req[r].id].kind = row[req[r].id].kind
          \/ row'[req[r].id] = NoRow

Touches(r, m) ==
    /\ \A s \in Requests \ {r} : req'[s] = req[s]
    /\ req[r].at \in {m, None} /\ req'[r].at \in {m, None}
    /\ Turn(r, m) /\ Writes(r, m)
    /\ \A n \in Places \ {m} : release'[n] = release[n]
    /\ \A n \in Places \ {m} : \/ volume'[n] = volume[n]
                               \/ volume[n] = req[r].id /\ (req[r].op = "create" \/ req[r].pc = "drop")
    /\ crossed \subseteq crossed'

\* A request's step touches the place it is at.
LEMMA TouchStep ==
    ASSUME WorkTypes, SameRows, NEW r \in Requests, RequestStep(r)
    PROVE  \E m \in Places : Touches(r, m)
<1>0. HeldTyped /\ req[r] \in Held /\ Course(req[r]) /\ req \in [Requests -> Held]
  BY DEF WorkTypes, HeldTyped
<1>I. Idle.at = None
  BY DEF Idle
<1>1. CASE \E name \in Names : CreateDatabase(r, name) \/ CreateService(r, name)
  <2>1. PICK n \in Places, d \in Ids, kind \in Kinds : Creates(r, d, kind, n)
    BY <1>1, CreatesStep
  <2>2. req'[r] = Made(d, kind, n) /\ (\A s \in Requests \ {r} : req'[s] = req[s]) /\ req[r].pc = "idle"
    BY <1>0, <2>1 DEF Creates
  <2>3. Made(d, kind, n).op = "create" /\ Made(d, kind, n).id = d /\ Made(d, kind, n).at = n
    BY DEF Made
  <2>4. Turn(r, n)
    BY <2>1, <2>2, <2>3 DEF Creates, Turn
  <2>5. Touches(r, n)
    BY <1>0, <2>1, <2>2, <2>3, <2>4 DEF Creates, Touches, Writes, cluster, Course
  <2> QED
    BY <2>5
<1>2. CASE \E d \in Ids :
          \/ DeployDatabase(r, d) \/ StopDatabase(r, d) \/ StartDatabase(r, d)
          \/ RestartDatabase(r, d) \/ DeleteDatabase(r, d)
          \/ DeployService(r, d) \/ StopService(r, d) \/ RestartService(r, d) \/ DeleteService(r, d)
  <2>1. PICK d \in Ids, op \in Ops, pc \in {"apply", "act", "reread", "uninstall"}, p \in Places :
            Starts(r, d, op, pc, p)
    BY <1>2, StartsStep
  <2>2. PICK b \in BOOLEAN : req' = [req EXCEPT ![r] = BegunAt(op, pc, d, b, p)]
    BY <2>1 DEF Starts
  <2>3. req'[r] = BegunAt(op, pc, d, b, p) /\ (\A s \in Requests \ {r} : req'[s] = req[s]) /\ req[r].pc = "idle"
    BY <1>0, <2>1, <2>2 DEF Starts
  <2>4. /\ req'[r].op = op /\ req'[r].id = d /\ req'[r].at = p /\ req'[r].kind = row[d].kind
        /\ op # "create"
    BY <2>3 DEF BegunAt, Ops
  <2>5. row[d].at = p \/ (op = "deploy" /\ p \in crossed' /\ row[d].at \in crossed')
    BY <2>1 DEF Starts
  <2>6. Turn(r, p)
    BY <2>1, <2>3, <2>4, <2>5 DEF Starts, Turn
  <2>7. Touches(r, p)
    BY <1>0, <2>1, <2>3, <2>4, <2>6 DEF Starts, Touches, Writes, cluster, Course
  <2> QED
    BY <2>7
<1> DEFINE m == req[r].at
<1>m. ASSUME req[r].pc # "idle" PROVE m \in Places /\ req[r].id \in Ids
  BY <1>0, <1>m DEF Course
<1>A. ASSUME req[r].pc # "idle", Abort(r), UNCHANGED <<row, release>> PROVE Touches(r, m)
  BY <1>A, <1>I, Aborts DEF Touches, Turn, Writes
<1>G. ASSUME NEW pc, req[r].pc # "idle", Goto(r, pc), UNCHANGED row
      PROVE  /\ Turn(r, m) /\ Writes(r, m) /\ req'[r].at = m
             /\ \A s \in Requests \ {r} : req'[s] = req[s]
  BY <1>0, <1>G, Forward DEF Turn, Writes
<1>D. ASSUME req[r].pc # "idle", Done(r)
      PROVE  /\ Turn(r, m) /\ req'[r] = Idle /\ req'[r].at = None
             /\ \A s \in Requests \ {r} : req'[s] = req[s]
  BY <1>0, <1>D, <1>I, Ends DEF Turn
<1>3. CASE EnsureTenant(r)
  BY <1>3, <1>A, <1>G, <1>m DEF EnsureTenant, Touches
<1>4. CASE Apply(r)
  <2>0. req[r].pc = "apply" /\ UNCHANGED row /\ m \in Places
    BY <1>4, <1>m DEF Apply
  <2>1. \A n \in Places \ {m} : Mounted(r)[n] = volume[n]
    BY DEF Mounted, WorkTypes
  <2>2. CASE Goto(r, "store") /\ UNCHANGED crossed /\ volume' = Mounted(r)
             /\ release' = [release EXCEPT ![m] = "up"]
    BY <2>0, <2>1, <2>2, <1>G DEF Touches, WorkTypes
  <2>3. CASE /\ volume' = [n \in Places |-> IF Mounted(r)[n] = req[r].id /\ req[r].op = "create"
                                           THEN Gone ELSE Mounted(r)[n]]
             /\ Done(r) /\ crossed' = crossed \union {m} /\ UNCHANGED release
    BY <2>0, <2>1, <2>3, <1>D DEF Touches, Writes
  <2> QED
    BY <1>4, <2>0, <2>2, <2>3 DEF Apply
<1>6. CASE createDatabase(r)
  <2>1. /\ \A d \in Ids \ {req[r].id} : row'[d] = row[d]
        /\ row'[req[r].id].at = m /\ req[r].op = "create" /\ req[r].pc = "store"
    BY <1>6, <1>m DEF createDatabase, WorkTypes
  <2> QED
    BY <1>6, <2>1, <1>D, <1>m DEF createDatabase, Touches, Writes, cluster, history
<1>7. CASE Reread(r)
  <2>1. CASE HasRow(req[r].id)
    <3> DEFINE d == req[r].id  op == req[r].op  b == req[r].paid
    <3>0. req[r].pc = "reread"
      BY <1>7 DEF Reread
    <3>1. d \in Ids /\ m \in Places
      BY <3>0, <1>m
    <3>2. [ownedDatabase(op, "act", d) EXCEPT !.paid = b] = Begun(op, "act", d, b)
      <4>1. ownedDatabase(op, "act", d) = Begun(op, "act", d, FALSE)
        BY <2>1, <3>1, Reads
      <4> HIDE DEF op, b, d
      <4> QED
        BY <4>1 DEF Begun, BegunAt
    <3>3. req' = [req EXCEPT ![r] = Begun(op, "act", d, b)]
      BY <1>0, <1>7, <2>1, <3>2 DEF Reread
    <3>4. row[d].at = m /\ row[d].kind = req[r].kind
      BY <1>0, <2>1, <3>0, <3>1 DEF SameRows, Course
    <3>5. /\ req'[r].op = op /\ req'[r].id = d /\ req'[r].at = m /\ req'[r].kind = req[r].kind
          /\ \A s \in Requests \ {r} : req'[s] = req[s]
      BY <1>0, <3>3, <3>4 DEF Begun, BegunAt
    <3> QED
      BY <1>7, <3>1, <3>5 DEF Reread, Touches, Turn, Writes, cluster, history
  <2>2. CASE Done(r)
    BY <1>7, <1>D, <1>m, <2>2 DEF Reread, Touches, Writes, cluster, history
  <2> QED
    BY <1>7, <2>1, <2>2 DEF Reread
<1>8. CASE Scale(r)
  <2>1. CASE /\ Goto(r, "store") /\ UNCHANGED <<volume, crossed>>
             /\ release' = [release EXCEPT ![m] = Scaled(req[r].op, @)]
    BY <1>8, <2>1, <1>G, <1>m DEF Scale, Touches, WorkTypes
  <2>2. CASE Abort(r) /\ UNCHANGED release
    BY <1>8, <2>2, <1>A, <1>m DEF Scale
  <2> QED
    BY <1>8, <2>1, <2>2 DEF Scale
<1>9. CASE updateDatabase(r)
  <2>1. CASE ~HasRow(req[r].id)
    BY <1>9, <2>1, <1>D, <1>m DEF updateDatabase, Touches, Writes, cluster, history
  <2>2. CASE HasRow(req[r].id)
    <3>1. row[req[r].id] \in StoredRow /\ req[r].id \in Ids
      BY <1>9, <1>m, <2>2, RowsTyped DEF updateDatabase
    <3>2. /\ \A d \in Ids \ {req[r].id} : row'[d] = row[d]
          /\ row'[req[r].id].at = row[req[r].id].at
          /\ row'[req[r].id].kind = row[req[r].id].kind
      BY <1>9, <2>2, <3>1 DEF updateDatabase, WorkTypes, StoredRow
    <3> QED
      BY <1>9, <2>2, <3>2, <1>D, <1>m DEF updateDatabase, Touches, Writes, cluster, history
  <2> QED
    BY <2>1, <2>2
<1>10. CASE Uninstall(r)
  <2>1. CASE Goto(r, "drop") /\ release' = [release EXCEPT ![m] = "none"] /\ UNCHANGED <<volume, crossed>>
    BY <1>10, <2>1, <1>G, <1>m DEF Uninstall, Touches, WorkTypes
  <2>2. CASE Abort(r) /\ UNCHANGED release
    BY <1>10, <2>2, <1>A, <1>m DEF Uninstall
  <2> QED
    BY <1>10, <2>1, <2>2 DEF Uninstall
<1>11. CASE DropRow(r)
  <2>1. /\ \A d \in Ids \ {req[r].id} : row'[d] = row[d]
        /\ row'[req[r].id] = NoRow
        /\ \A n \in Places : volume'[n] = volume[n] \/ volume[n] = req[r].id
    BY <1>11, <1>m DEF DropRow, Forget, WorkTypes
  <2> QED
    BY <1>11, <2>1, <1>D, <1>m DEF DropRow, Touches, Writes, history
<1>12. CASE StoreFails(r)
  BY <1>12, <1>A, <1>m DEF StoreFails
<1> QED
  BY <1>1, <1>2, <1>3, <1>4, <1>6, <1>7, <1>8, <1>9, <1>10, <1>11, <1>12 DEF RequestStep

\* A row that is made keeps its id, and no two creations have the same one.
LEMMA OwnIdsStep ==
    ASSUME WorkTypes, WorkTypes', OwnIds, NEW r \in Requests, NEW m \in Places, Touches(r, m)
    PROVE  OwnIds'
<1> SUFFICES ASSUME NEW s \in Requests, req'[s].op = "create"
             PROVE  row'[req'[s].id] = NoRow /\ \A t \in Requests \ {s} : req'[t].id # req'[s].id
  BY DEF OwnIds, HasRow
<1>1. req'[s].id \in Ids
  BY DEF WorkTypes, HeldTyped, Course
<1>2. Idle.op = "none" /\ Idle.id = None
  BY DEF Idle
<1>3. CASE s = r
  <2>1. row' = row
    BY <1>2, <1>3 DEF Touches, Turn
  <2>2. CASE req[r].pc = "idle"
    BY <1>3, <2>1, <2>2 DEF Touches, Turn, HasRow
  <2>3. CASE req'[r].op = req[r].op /\ req'[r].id = req[r].id
    BY <1>3, <2>1, <2>3 DEF Touches, OwnIds, HasRow
  <2> QED
    BY <1>2, <1>3, <2>2, <2>3 DEF Touches, Turn
<1>4. CASE s # r
  <2>1. req'[s] = req[s] /\ ~HasRow(req[s].id) /\ req[r].id # req[s].id
    BY <1>4 DEF Touches, OwnIds
  <2>2. row'[req[s].id] = row[req[s].id]
    BY <1>1, <2>1 DEF Touches, Writes
  <2>3. row'[req'[s].id] = NoRow
    BY <2>1, <2>2 DEF HasRow
  <2>4. ASSUME NEW t \in Requests \ {s} PROVE req'[t].id # req'[s].id
    <3>1. CASE t # r
      BY <2>1, <3>1 DEF Touches, OwnIds
    <3>2. CASE t = r
      BY <1>1, <1>2, <2>1, <3>2, IdsAssumption DEF Touches, Turn
    <3> QED
      BY <3>1, <3>2
  <2> QED
    BY <2>3, <2>4
<1> QED
  BY <1>3, <1>4

\* A row keeps its place and its kind as long as it is there (updateDatabase writes it whole).
LEMMA SameRowsStep ==
    ASSUME WorkTypes, WorkTypes', OwnIds, SameRows, NEW r \in Requests, NEW m \in Places, Touches(r, m)
    PROVE  SameRows'
<1> DEFINE P(q, w, c) ==
        /\ w.kind = q.kind
        /\ w.at = q.at \/ (q.op = "deploy" /\ q.at \in c /\ w.at \in c)
<1> SUFFICES ASSUME NEW s \in Requests, req'[s].op \notin {"none", "create"}, row'[req'[s].id] # NoRow
             PROVE  P(req'[s], row'[req'[s].id], crossed')
  BY DEF SameRows, HasRow
<1>1. req'[s].id \in Ids
  BY DEF WorkTypes, HeldTyped, Course
<1>2. Idle.op = "none"
  BY DEF Idle
<1>P. /\ \A t \in Requests : req[t].op \notin {"none", "create"} /\ row[req[t].id] # NoRow =>
            P(req[t], row[req[t].id], crossed')
      /\ crossed \subseteq crossed'
  BY DEF SameRows, HasRow, Touches
<1>3. CASE s = r
  <2>1. row' = row
    BY <1>2, <1>3 DEF Touches, Turn
  <2>2. CASE req[r].pc = "idle"
    BY <1>3, <2>1, <2>2 DEF Touches, Turn, WorkTypes, HeldTyped, Course
  <2>3. CASE /\ req'[r].op = req[r].op /\ req'[r].id = req[r].id
             /\ req'[r].at = req[r].at /\ req'[r].kind = req[r].kind
    BY <1>3, <1>P, <2>1, <2>3
  <2> QED
    BY <1>2, <1>3, <2>2, <2>3 DEF Touches, Turn
<1>4. CASE s # r
  <2>1. req'[s] = req[s]
    BY <1>4 DEF Touches
  <2>2. CASE row'[req[s].id] = row[req[s].id]
    BY <1>P, <2>1, <2>2
  <2>3. CASE row'[req[s].id] # row[req[s].id]
    <3>1. /\ req[s].id = req[r].id
          /\ \/ req[r].op = "create"
             \/ /\ HasRow(req[r].id) /\ row'[req[r].id].at = row[req[r].id].at
                /\ row'[req[r].id].kind = row[req[r].id].kind
      BY <1>1, <2>1, <2>3 DEF Touches, Writes, HasRow
    <3>2. req[r].op # "create"
      BY <1>4, <2>1, <3>1 DEF OwnIds
    <3> QED
      BY <1>P, <2>1, <3>1, <3>2 DEF HasRow
  <2> QED
    BY <2>2, <2>3
<1> QED
  BY <1>3, <1>4

\* A request leaves the other places as they are, but for the crossed ones.
LEMMA Frame ==
    ASSUME WorkTypes, WorkTypes', OwnIds, SameRows, NEW r \in Requests, NEW m \in Places, Touches(r, m),
           NEW n \in Places \ {m}, n \notin crossed
    PROVE  /\ On(n)' = On(n) /\ r \notin On(n)
           /\ \A s \in On(n) : req'[s] = req[s]
           /\ Of(n)' = Of(n)
           /\ \A d \in Of(n) : row'[d] = row[d]
           /\ release'[n] = release[n]
           /\ \/ volume'[n] = volume[n]
              \/ /\ volume[n] = req[r].id /\ req[r].op # "none"
                 /\ req[r].op = "create" \/ ~HasRow(req[r].id) \/ row[req[r].id].at = m
<1>0. n # None /\ m # None
  BY IdsAssumption
<1>1. On(n)' = On(n) /\ r \notin On(n) /\ \A s \in On(n) : req'[s] = req[s]
  BY <1>0 DEF On, Touches
<1>2. ASSUME req[r].pc # "idle"
      PROVE  /\ req[r].at = m /\ req[r].id \in Ids /\ req[r].op # "none"
             /\ row[req[r].id].at \in {m, None} \union crossed
  <2>1. req[r].at = m /\ req[r].id \in Ids /\ req[r].op # "none"
    BY <1>2, IdsAssumption DEF Touches, WorkTypes, HeldTyped, Course
  <2> QED
    BY <2>1, RowsTyped DEF OwnIds, SameRows
<1>3. ASSUME NEW d \in Ids PROVE row'[d] = row[d] \/ (row'[d].at # n /\ row[d].at # n)
  <2>1. CASE d # req[r].id
    BY <2>1 DEF Touches, Writes
  <2>2. CASE d = req[r].id /\ req[r].pc # "idle"
    <3>1. row[d].at # n
      BY <1>0, <1>2, <2>2
    <3>2. NoRow.at = None
      BY DEF NoRow
    <3> QED
      BY <1>0, <2>2, <3>1, <3>2 DEF Touches, Writes
  <2>3. CASE req[r].pc = "idle"
    BY <2>3 DEF Touches, Writes
  <2> QED
    BY <2>1, <2>2, <2>3
<1>4. Of(n)' = Of(n) /\ \A d \in Of(n) : row'[d] = row[d]
  BY <1>3 DEF Of
<1>5. /\ req[r].op = "create" \/ req[r].pc = "drop" => req[r].pc # "idle"
      /\ req[r].pc = "drop" => req[r].op = "delete"
  BY DEF WorkTypes, HeldTyped, Held, Course
<1>6. \/ volume'[n] = volume[n]
      \/ /\ volume[n] = req[r].id /\ req[r].op # "none"
         /\ req[r].op = "create" \/ ~HasRow(req[r].id) \/ row[req[r].id].at = m
  BY <1>2, <1>5 DEF Touches, SameRows
<1> QED
  BY <1>1, <1>4, <1>6 DEF Touches

\* ... orderly, if they were.
LEMMA OthersOrderly ==
    ASSUME WorkTypes, WorkTypes', OwnIds, SameRows, NEW r \in Requests, NEW m \in Places, Touches(r, m),
           NEW n \in Places \ {m}, n \notin crossed, Orderly(n)
    PROVE  Orderly(n)'
<1>1. /\ On(n)' = On(n) /\ r \notin On(n)
      /\ \A s \in On(n) : req'[s] = req[s]
      /\ Of(n)' = Of(n)
      /\ \A d \in Of(n) : row'[d] = row[d]
      /\ release'[n] = release[n]
  BY Frame
<1>2. ASSUME NEW s \in On(n), Progress(s, n) PROVE Progress(s, n)'
  <2>0. s \in Requests /\ req[s].at = n /\ s # r /\ n # None
    BY <1>1, IdsAssumption DEF On
  <2>1. req'[s] = req[s] /\ req[s].op # "none" /\ req[s].id \in Ids
    BY <1>1, <2>0 DEF WorkTypes, HeldTyped, Course
  <2>2. req[s].op = "create" => req[r].op = "none" \/ req[r].id # req[s].id
    BY <2>0 DEF OwnIds
  <2>3. req[s].op = "create" /\ req[s].pc # "store" => volume'[n] = None
    <3>1. req[r].op # "none" => req[r].id # None
      BY IdsAssumption DEF WorkTypes, HeldTyped, Course
    <3> QED
      BY <1>2, <3>1, Frame DEF Progress
  <2>4. req[s].op = "create" /\ req[s].pc = "store" /\ req[s].kind = "database" => volume'[n] = req[s].id
    BY <1>2, <2>2, Frame DEF Progress
  <2>5. req[s].op # "create" => row'[req[s].id] # NoRow
    <3>1. req[s].op # "create" => HasRow(req[s].id) /\ req[s].id \in Of(n)
      BY <1>2, <2>0, <2>1 DEF Progress, SameRows, Of
    <3> QED
      BY <1>1, <2>1, <3>1 DEF HasRow
  <2> QED
    BY <1>1, <1>2, <2>1, <2>3, <2>4, <2>5 DEF Progress, HasRow
<1>3. ASSUME NEW d \in Of(n), row[d].kind = "database", volume[n] = d PROVE volume'[n] = d
  <2>1. d \in Ids /\ HasRow(d) /\ row[d].at = n
    BY RowsTyped DEF Of
  <2> QED
    BY <1>3, <2>1, Frame DEF OwnIds
<1>4. ASSUME NEW d \in Of(n), Settled(d, n) PROVE Settled(d, n)'
  BY <1>1, <1>4 DEF Settled
<1>5. \A d \in Of(n) : row'[d].kind = "database" => volume'[n] = d
  BY <1>1, <1>3 DEF Orderly
<1>6. \A d \in Of(n) : (\A s \in On(n) : req'[s].pc \notin {"store", "drop"}) => Settled(d, n)'
  BY <1>1, <1>4 DEF Orderly
<1>7. \A s \in On(n) : Progress(s, n)'
  BY <1>2 DEF Orderly
<1> QED
  BY <1>1, <1>5, <1>6, <1>7 DEF Orderly

\* A request keeps its own place orderly, or leaves it to the crossed ones.
LEMMA OwnOrderly ==
    ASSUME WorkTypes, WorkTypes', OwnIds, SameRows, NEW r \in Requests, RequestStep(r),
           NEW m \in Places, Touches(r, m), m \notin crossed', Orderly(m)
    PROVE  Orderly(m)'
<1>0. /\ HeldTyped /\ Course(req[r]) /\ req \in [Requests -> Held] /\ req[r] \in Held
      /\ m # None /\ m \notin crossed
  BY IdsAssumption DEF WorkTypes, HeldTyped, Touches
<1>I. Idle.at = None
  BY DEF Idle
\* The request is alone at its place, and so is its row.
<1>A. ASSUME req[r].pc # "idle"
      PROVE  /\ req[r].at = m /\ req[r].id \in Ids /\ req[r].id # None /\ On(m) = {r} /\ Progress(r, m)
             /\ req[r].op # "create" =>
                   /\ HasRow(req[r].id) /\ Of(m) = {req[r].id} /\ row[req[r].id].kind = req[r].kind
                   /\ row[req[r].id].at = m /\ row[req[r].id] \in StoredRow
  <2>1. req[r].at = m /\ req[r].id \in Ids /\ req[r].id # None /\ req[r].op # "none"
    BY <1>0, <1>A, IdsAssumption DEF Course, Touches
  <2>2. On(m) = {r} /\ Progress(r, m)
    BY <2>1 DEF Orderly, On
  <2>3. req[r].op # "create" =>
                   /\ HasRow(req[r].id) /\ row[req[r].id].kind = req[r].kind
                   /\ row[req[r].id].at = m /\ row[req[r].id] \in StoredRow
    BY <1>0, <2>1, <2>2, RowsTyped DEF Progress, SameRows
  <2>4. req[r].op # "create" => Of(m) = {req[r].id}
    BY <2>1, <2>3 DEF Orderly, Of
  <2> QED
    BY <2>1, <2>2, <2>3, <2>4
\* ... while it goes on, and not once it has ended.
<1>B. ASSUME req'[r].at = m, On(m) \subseteq {r} PROVE On(m)' = {r}
  BY <1>B DEF On, Touches
<1>C. ASSUME req'[r] = Idle, On(m) = {r} PROVE On(m)' = {}
  BY <1>0, <1>I, <1>C DEF On, Touches
<1>1. CASE \E name \in Names : CreateDatabase(r, name) \/ CreateService(r, name)
  <2>1. PICK n \in Places, d \in Ids, kind \in Kinds : Creates(r, d, kind, n)
    BY <1>1, CreatesStep
  <2>2. /\ req'[r].at = n /\ req'[r].op = "create" /\ req'[r].id = d /\ req'[r].pc = "tenant"
        /\ req[r].pc = "idle"
    BY <1>0, <2>1 DEF Creates, Made
  <2>3. n = m
    BY <1>0, <2>2, IdsAssumption DEF Touches
  <2>4. On(m) = {} /\ Of(m) = {} /\ release[m] = "none" /\ volume[m] = None
    BY <1>0, <2>1, <2>3 DEF Creates
  <2>5. On(m)' = {r}
    BY <1>B, <2>2, <2>3, <2>4
  <2>6. Of(m)' = {} /\ release'[m] = "none" /\ volume'[m] = None
    BY <2>1, <2>4 DEF Creates, Of, cluster
  <2>7. Progress(r, m)'
    BY <2>2, <2>6 DEF Progress
  <2> QED
    BY <2>5, <2>6, <2>7 DEF Orderly
<1>2. CASE \E d \in Ids :
          \/ DeployDatabase(r, d) \/ StopDatabase(r, d) \/ StartDatabase(r, d)
          \/ RestartDatabase(r, d) \/ DeleteDatabase(r, d)
          \/ DeployService(r, d) \/ StopService(r, d) \/ RestartService(r, d) \/ DeleteService(r, d)
  <2>1. PICK d \in Ids, op \in Ops, pc \in {"apply", "act", "reread", "uninstall"}, p \in Places :
            Starts(r, d, op, pc, p)
    BY <1>2, StartsStep
  <2>2. PICK b \in BOOLEAN : req' = [req EXCEPT ![r] = BegunAt(op, pc, d, b, p)]
    BY <2>1 DEF Starts
  <2>3. /\ req'[r].at = p /\ req'[r].op = op /\ req'[r].id = d /\ req'[r].pc = pc
        /\ op # "create" /\ req[r].pc = "idle"
    BY <1>0, <2>1, <2>2 DEF Starts, BegunAt, Ops
  <2>4. p = m /\ row[d].at = m
    BY <1>0, <2>1, <2>3, IdsAssumption DEF Touches, Starts
  <2>5. On(m) = {} /\ UNCHANGED <<row, release, volume>> /\ HasRow(d)
    BY <1>0, <2>1, <2>4 DEF Starts, cluster
  <2>6. On(m)' = {r} /\ Of(m)' = Of(m)
    BY <1>B, <2>3, <2>4, <2>5 DEF Of
  <2>7. Progress(r, m)'
    BY <2>3, <2>5 DEF Progress, HasRow
  <2>8. \A e \in Of(m) : Settled(e, m)'
    BY <2>5 DEF Orderly, Settled
  <2>9. Of(m) # {}
    BY <2>4 DEF Of
  <2> QED
    BY <2>5, <2>6, <2>7, <2>8, <2>9 DEF Orderly
<1>3. CASE EnsureTenant(r)
  <2>1. req[r].pc = "tenant" /\ req[r].op = "create" /\ UNCHANGED <<row, release>>
    BY <1>0, <1>3 DEF EnsureTenant, Course, Held
  <2>2. ~Abort(r)
    BY <1>0, <1>A, <2>1 DEF Abort
  <2>3. Goto(r, "apply") /\ UNCHANGED volume
    BY <1>3, <2>2 DEF EnsureTenant
  <2>4. /\ req'[r].pc = "apply" /\ req'[r].op = "create" /\ req'[r].id = req[r].id /\ req'[r].at = m
    BY <1>0, <1>A, <2>1, <2>3, Forward
  <2>5. On(m)' = {r} /\ Of(m)' = {} /\ release'[m] = "none" /\ volume'[m] = None
    BY <1>A, <1>B, <2>1, <2>3, <2>4 DEF Progress, Of
  <2>6. Progress(r, m)'
    BY <2>4, <2>5 DEF Progress
  <2> QED
    BY <2>5, <2>6 DEF Orderly
<1>4. CASE Apply(r)
  <2>1. req[r].pc = "apply" /\ req[r].op \in {"create", "deploy"} /\ UNCHANGED row
    BY <1>0, <1>4 DEF Apply, Course, Held
  <2>2. /\ release' = [release EXCEPT ![m] = "up"] /\ volume' = Mounted(r) /\ Goto(r, "store")
    BY <1>0, <1>4, <1>A, <2>1 DEF Apply
  <2>3. /\ req'[r].pc = "store" /\ req'[r].op = req[r].op /\ req'[r].id = req[r].id
        /\ req'[r].at = m /\ req'[r].kind = req[r].kind
    BY <1>0, <1>A, <2>1, <2>2, Forward
  <2>4. On(m)' = {r} /\ Of(m)' = Of(m) /\ release'[m] = "up"
    BY <1>A, <1>B, <2>1, <2>2, <2>3 DEF Of, WorkTypes
  <2>5. volume'[m] = IF req[r].kind = "database" /\ volume[m] = None THEN req[r].id ELSE volume[m]
    BY <1>A, <2>1, <2>2 DEF Mounted, WorkTypes
  <2>6. \A d \in Of(m) : row[d].kind = "database" => volume'[m] = d
    BY <1>A, <2>1, <2>5 DEF Orderly, Progress
  <2>7. Progress(r, m)'
    <3>1. req[r].op = "create" => Of(m) = {} /\ (req[r].kind = "database" => volume'[m] = req[r].id)
      BY <1>A, <2>1, <2>5 DEF Progress
    <3>2. req[r].op # "create" => row'[req[r].id] # NoRow
      BY <1>A, <2>1 DEF HasRow
    <3> QED
      BY <2>1, <2>3, <2>4, <3>1, <3>2 DEF Progress, HasRow
  <2> QED
    BY <2>1, <2>3, <2>4, <2>6, <2>7 DEF Orderly
<1>6. CASE createDatabase(r)
  <2>0. PICK d \in Ids : d = req[r].id
    BY <1>0, <1>6 DEF createDatabase, Course
  <2>1. /\ req[r].pc = "store" /\ req[r].op = "create" /\ req'[r] = Idle
        /\ UNCHANGED <<release, volume>>
    BY <1>0, <1>6, Ends DEF createDatabase, cluster
  <2>2. /\ row'[d].kind = req[r].kind /\ row'[d].at = m /\ row'[d].status = "deploying"
        /\ \A e \in Ids \ {d} : row'[e] = row[e]
    BY <1>6, <1>A, <2>0, <2>1 DEF createDatabase, WorkTypes
  <2>3. /\ Of(m) = {} /\ release[m] = "up" /\ (req[r].kind = "database" => volume[m] = d)
        /\ On(m)' = {} /\ d \in Ids
    BY <1>A, <1>C, <2>0, <2>1 DEF Progress
  <2>4. Of(m)' = {d}
    BY <2>2, <2>3 DEF Of
  <2>5. Settled(d, m)'
    BY <2>1, <2>2, <2>3 DEF Settled
  <2> QED
    BY <2>1, <2>2, <2>3, <2>4, <2>5 DEF Orderly
<1>7. CASE Reread(r)
  <2>1. req[r].pc = "reread" /\ req[r].op \in {"start", "restart"} /\ UNCHANGED <<row, release, volume>>
    BY <1>0, <1>7 DEF Reread, Course, Held, cluster
  <2>2. HasRow(req[r].id) /\ On(m) = {r} /\ req[r].id \in Ids /\ Of(m) = {req[r].id} /\ row[req[r].id].at = m
    BY <1>A, <2>1
  <2> DEFINE d == req[r].id  op == req[r].op  b == req[r].paid
  <2>3. [ownedDatabase(op, "act", d) EXCEPT !.paid = b] = Begun(op, "act", d, b)
    <3>1. ownedDatabase(op, "act", d) = Begun(op, "act", d, FALSE)
      BY <2>2, Reads
    <3> HIDE DEF op, b, d
    <3> QED
      BY <3>1 DEF Begun, BegunAt
  <2>4. req' = [req EXCEPT ![r] = Begun(op, "act", d, b)]
    BY <1>0, <1>7, <2>2, <2>3 DEF Reread
  <2>5. req'[r].op = op /\ req'[r].id = d /\ req'[r].at = m /\ req'[r].pc = "act"
    BY <1>0, <2>2, <2>4 DEF Begun, BegunAt
  <2>6. On(m)' = {r} /\ Of(m)' = Of(m)
    BY <1>B, <2>1, <2>2, <2>5 DEF Of
  <2>7. Progress(r, m)'
    BY <2>1, <2>2, <2>5 DEF Progress, HasRow
  <2>8. \A e \in Of(m) : Settled(e, m)'
    BY <2>1, <2>2 DEF Orderly, Settled
  <2> QED
    BY <2>1, <2>2, <2>6, <2>7, <2>8 DEF Orderly
<1>8. CASE Scale(r)
  <2>1. req[r].pc = "act" /\ req[r].op \in {"stop", "start", "restart"} /\ UNCHANGED row
    BY <1>0, <1>8 DEF Scale, Course, Held
  <2>2. ~Abort(r)
    BY <1>0, <1>A, <2>1 DEF Abort
  <2>3. /\ release[m] # "none" /\ release' = [release EXCEPT ![m] = Scaled(req[r].op, @)]
        /\ Goto(r, "store") /\ UNCHANGED volume
    BY <1>8, <1>A, <2>1, <2>2 DEF Scale
  <2>4. /\ req'[r].pc = "store" /\ req'[r].op = req[r].op /\ req'[r].id = req[r].id
        /\ req'[r].at = m /\ req'[r].kind = req[r].kind
    BY <1>0, <1>A, <2>1, <2>3, Forward
  <2>5. /\ req[r].op = "stop" => release'[m] = "down"
        /\ req[r].op = "start" => release'[m] = "up"
        /\ req[r].op = "restart" => release'[m] # "none"
    BY <2>3 DEF Scaled, WorkTypes
  <2>6. On(m)' = {r} /\ Of(m)' = Of(m)
    BY <1>A, <1>B, <2>1, <2>4 DEF Of
  <2>7. Progress(r, m)'
    BY <1>A, <2>1, <2>4, <2>5 DEF Progress, HasRow
  <2> QED
    BY <2>1, <2>3, <2>4, <2>6, <2>7 DEF Orderly
<1>9. CASE updateDatabase(r)
  <2>0. PICK d \in Ids : d = req[r].id
    BY <1>0, <1>9 DEF updateDatabase, Course
  <2>1. /\ req[r].pc = "store" /\ req[r].op \in {"deploy", "stop", "start", "restart"} /\ req'[r] = Idle
        /\ UNCHANGED <<release, volume>>
    BY <1>0, <1>9, Ends DEF updateDatabase, cluster, Course, Held
  <2>2. /\ HasRow(d) /\ Of(m) = {d} /\ row[d].at = m /\ row[d] \in StoredRow /\ d \in Ids
        /\ On(m) = {r} /\ Progress(r, m)
    BY <1>A, <2>0, <2>1
  <2>3. /\ row'[d].kind = row[d].kind /\ row'[d].at = m /\ row'[d].status = StatusAfter(req[r].op)
        /\ \A e \in Ids \ {d} : row'[e] = row[e]
    BY <1>9, <2>0, <2>2 DEF updateDatabase, WorkTypes, StoredRow
  <2>4. On(m)' = {} /\ Of(m)' = {d}
    BY <1>C, <2>1, <2>2, <2>3 DEF Of
  <2>5. Settled(d, m)'
    BY <2>0, <2>1, <2>2, <2>3 DEF Settled, StatusAfter, Progress
  <2>6. row[d].kind = "database" => volume[m] = d
    BY <2>2 DEF Orderly
  <2> QED
    BY <2>1, <2>3, <2>4, <2>5, <2>6 DEF Orderly
<1>10. CASE Uninstall(r)
  <2>1. req[r].pc = "uninstall" /\ req[r].op = "delete" /\ UNCHANGED row
    BY <1>0, <1>10 DEF Uninstall, Course, Held
  <2>2. ~Abort(r)
    BY <1>0, <1>A, <2>1 DEF Abort
  <2>3. release' = [release EXCEPT ![m] = "none"] /\ Goto(r, "drop") /\ UNCHANGED volume
    BY <1>10, <1>A, <2>1, <2>2 DEF Uninstall
  <2>4. /\ req'[r].pc = "drop" /\ req'[r].op = req[r].op /\ req'[r].id = req[r].id /\ req'[r].at = m
    BY <1>0, <1>A, <2>1, <2>3, Forward
  <2>5. On(m)' = {r} /\ Of(m)' = Of(m) /\ release'[m] = "none"
    BY <1>A, <1>B, <2>1, <2>3, <2>4 DEF Of, WorkTypes
  <2>6. Progress(r, m)'
    BY <1>A, <2>1, <2>4, <2>5 DEF Progress, HasRow
  <2> QED
    BY <2>1, <2>3, <2>4, <2>5, <2>6 DEF Orderly
<1>11. CASE DropRow(r)
  <2> DEFINE d == req[r].id
  <2>1. req[r].pc = "drop" /\ req[r].op = "delete" /\ req'[r] = Idle /\ UNCHANGED release
    BY <1>0, <1>11, Ends DEF DropRow, Course, Held
  <2>2. Of(m) = {d} /\ d \in Ids /\ On(m) = {r} /\ release[m] = "none"
    BY <1>A, <2>1 DEF Progress
  <2>3. row'[d].at = None /\ \A e \in Ids \ {d} : row'[e] = row[e]
    BY <1>11, <2>2 DEF DropRow, WorkTypes, NoRow
  <2>4. On(m)' = {} /\ Of(m)' = {}
    <3> HIDE DEF d
    <3> QED
      BY <1>0, <1>C, <2>1, <2>2, <2>3 DEF Of
  <2> QED
    BY <2>1, <2>2, <2>4 DEF Orderly
<1>12. CASE StoreFails(r)
  BY <1>0, <1>12, <1>A DEF StoreFails, Abort
<1> QED
  BY <1>1, <1>2, <1>3, <1>4, <1>6, <1>7, <1>8, <1>9, <1>10, <1>11, <1>12 DEF RequestStep

\* A namespace stays set up, and nothing is put in one that is not but by a deploy that went
\* astray (EnsureTenant).
LEMMA SetUpStep ==
    ASSUME WorkTypes, WorkTypes', SetUp, NEW r \in Requests, RequestStep(r), NEW m \in Places, Touches(r, m)
    PROVE  SetUp'
<1>0. HeldTyped /\ Course(req[r]) /\ req \in [Requests -> Held]
  BY DEF WorkTypes, HeldTyped
<1>I. Idle.op = "none" /\ NoRow' = NoRow
  BY DEF Idle, NoRow
<1>1. CASE \E name \in Names : CreateDatabase(r, name) \/ CreateService(r, name)
  <2>1. PICK n \in Places, d \in Ids, kind \in Kinds : Creates(r, d, kind, n)
    BY <1>1, CreatesStep
  <2>2. \A s \in Requests : req'[s] = req[s] \/ (req'[s].op = "create" /\ req'[s].pc = "tenant")
    BY <1>0, <2>1 DEF Creates, Made
  <2> QED
    BY <2>1, <2>2 DEF SetUp, Creates, cluster, HasRow
<1>2. CASE \E d \in Ids :
          \/ DeployDatabase(r, d) \/ StopDatabase(r, d) \/ StartDatabase(r, d)
          \/ RestartDatabase(r, d) \/ DeleteDatabase(r, d)
          \/ DeployService(r, d) \/ StopService(r, d) \/ RestartService(r, d) \/ DeleteService(r, d)
  <2>1. PICK d \in Ids, op \in Ops, pc \in {"apply", "act", "reread", "uninstall"}, p \in Places :
            Starts(r, d, op, pc, p)
    BY <1>2, StartsStep
  <2>2. /\ req'[r].op = op /\ req'[r].at = p /\ op # "create"
        /\ \A s \in Requests \ {r} : req'[s] = req[s]
    BY <1>0, <2>1 DEF Starts, BegunAt, Ops
  <2>3. HasRow(d) /\ UNCHANGED <<row, release, tenant>> /\ astray' = astray \union {n \in {p} : p # row[d].at}
    BY <2>1 DEF Starts, cluster
  <2>4. p \in astray' \/ p[1] \in tenant'
    BY <2>3 DEF SetUp
  <2> QED
    BY <2>2, <2>3, <2>4 DEF SetUp, HasRow
<1>3. CASE EnsureTenant(r)
  <2>1. UNCHANGED <<row, release, astray>> /\ req[r].pc = "tenant" /\ tenant \subseteq tenant'
    BY <1>3 DEF EnsureTenant
  <2>2. /\ \A s \in Requests \ {r} : req'[s] = req[s]
        /\ \/ req'[r] = Idle
           \/ req'[r].op = req[r].op /\ req'[r].at = req[r].at /\ req[r].at[1] \in tenant'
    BY <1>0, <1>3, <2>1, Aborts, Forward DEF EnsureTenant
  <2> QED
    BY <1>I, <2>1, <2>2 DEF SetUp, HasRow
<1>4. CASE \/ Apply(r) \/ createDatabase(r) \/ Reread(r) \/ Scale(r) \/ updateDatabase(r)
           \/ Uninstall(r) \/ DropRow(r) \/ StoreFails(r)
  <2>1. req[r].pc \notin {"idle", "tenant"} /\ UNCHANGED <<tenant, astray>>
    BY <1>4 DEF Apply, createDatabase, Reread, Scale, updateDatabase, Uninstall, DropRow, StoreFails,
          cluster, history
  <2>2. req[r].op # "none" /\ req[r].at = m
    BY <1>0, <2>1, IdsAssumption DEF Course, Touches
  <2>3. /\ m \in astray \/ m[1] \in tenant
        /\ req[r].op = "create" => m[1] \in tenant
    BY <2>1, <2>2 DEF SetUp
  <2>4. ASSUME NEW d \in Ids, row'[d] # NoRow PROVE row'[d].at[1] \in tenant
    BY <2>1, <2>2, <2>3, <2>4 DEF Touches, Writes, SetUp, HasRow
  <2>5. \A n \in Places \ astray : release'[n] # "none" => n[1] \in tenant
    BY <2>3 DEF Touches, SetUp
  <2>6. /\ \A s \in Requests \ {r} : req'[s] = req[s]
        /\ req'[r] = Idle \/ (req'[r].op = req[r].op /\ req'[r].at = req[r].at)
    BY <2>1 DEF Touches, Turn
  <2> QED
    BY <1>I, <2>1, <2>2, <2>3, <2>4, <2>5, <2>6 DEF SetUp, HasRow
<1> QED
  BY <1>1, <1>2, <1>3, <1>4 DEF RequestStep

\* But for the two ends of a creation, no row and no creation is added.
LEMMA Shrinks ==
    ASSUME WorkTypes, SameRows, NEW r \in Requests, RequestStep(r), ~createDatabase(r),
           ~\E name \in Names : CreateDatabase(r, name) \/ CreateService(r, name)
    PROVE  Rows' \subseteq Rows /\ Creating' \subseteq Creating /\ peak' = peak
<1>0. HeldTyped /\ Course(req[r]) /\ req \in [Requests -> Held]
  BY DEF WorkTypes, HeldTyped
<1>I. Idle.op = "none" /\ NoRow = NoRow'
  BY DEF Idle, NoRow
<1>C. ASSUME req'[r].op \in {req[r].op, "none"} \union Ops, \A s \in Requests \ {r} : req'[s] = req[s]
      PROVE  Creating' \subseteq Creating
  BY <1>C DEF Creating, Ops
<1>R. ASSUME row' = row PROVE Rows' \subseteq Rows
  BY <1>R DEF Rows, HasRow
<1>D. ASSUME Done(r) PROVE Creating' \subseteq Creating
  BY <1>0, <1>C, <1>D, <1>I, Ends
<1>G. ASSUME NEW pc, Goto(r, pc) PROVE Creating' \subseteq Creating
  BY <1>0, <1>C, <1>G, Forward
<1>A. ASSUME Abort(r) PROVE Creating' \subseteq Creating
  BY <1>A, <1>D DEF Abort
<1>1. CASE \E d \in Ids :
          \/ DeployDatabase(r, d) \/ StopDatabase(r, d) \/ StartDatabase(r, d)
          \/ RestartDatabase(r, d) \/ DeleteDatabase(r, d)
          \/ DeployService(r, d) \/ StopService(r, d) \/ RestartService(r, d) \/ DeleteService(r, d)
  <2>1. PICK d \in Ids, op \in Ops, pc \in {"apply", "act", "reread", "uninstall"}, p \in Places :
            Starts(r, d, op, pc, p)
    BY <1>1, StartsStep
  <2>2. req'[r].op = op /\ \A s \in Requests \ {r} : req'[s] = req[s]
    BY <1>0, <2>1 DEF Starts, BegunAt
  <2> QED
    BY <1>C, <1>R, <2>1, <2>2 DEF Starts
<1>2. CASE EnsureTenant(r) \/ Apply(r) \/ Scale(r) \/ Uninstall(r) \/ StoreFails(r)
  BY <1>2, <1>A, <1>D, <1>G, <1>R DEF EnsureTenant, Apply, Scale, Uninstall, StoreFails
<1>3. CASE Reread(r)
  <2>1. UNCHANGED <<row, peak>> /\ req[r].pc = "reread" /\ req[r].id \in Ids
    BY <1>0, <1>3 DEF Reread, history, Course
  <2>2. CASE Done(r)
    BY <1>D, <1>R, <2>1, <2>2
  <2>3. CASE HasRow(req[r].id)
    <3>1. ownedDatabase(req[r].op, "act", req[r].id) = Begun(req[r].op, "act", req[r].id, FALSE)
      BY <2>1, <2>3, Reads
    <3>2. req' = [req EXCEPT ![r] = [Begun(req[r].op, "act", req[r].id, FALSE) EXCEPT !.paid = req[r].paid]]
      BY <1>0, <1>3, <2>3, <3>1 DEF Reread
    <3>3. req'[r].op = req[r].op /\ \A s \in Requests \ {r} : req'[s] = req[s]
      BY <1>0, <3>2 DEF Begun, BegunAt
    <3> QED
      BY <1>C, <1>R, <2>1, <3>3
  <2> QED
    BY <1>3, <2>2, <2>3 DEF Reread
<1>4. CASE updateDatabase(r)
  <2>1. Done(r) /\ peak' = peak
    BY <1>4 DEF updateDatabase, history
  <2>2. \A d \in Ids : row'[d] = row[d] \/ HasRow(d)
    BY <1>4 DEF updateDatabase, WorkTypes
  <2> QED
    BY <1>D, <2>1, <2>2 DEF Rows, HasRow
<1>5. CASE DropRow(r)
  <2>1. Done(r) /\ peak' = peak
    BY <1>5 DEF DropRow, history
  <2>2. \A d \in Ids : row'[d] \in {row[d], NoRow}
    BY <1>5 DEF DropRow, WorkTypes
  <2> QED
    BY <1>D, <2>1, <2>2 DEF Rows, HasRow
<1> QED
  BY <1>1, <1>2, <1>3, <1>4, <1>5 DEF RequestStep

\* A creation is counted from before the rows were (checkQuota) until its row is.
LEMMA CountedStep ==
    ASSUME WorkTypes, SameRows, OwnIds, Counted, NEW r \in Requests, RequestStep(r)
    PROVE  Counted'
<1>0. HeldTyped /\ Course(req[r]) /\ req \in [Requests -> Held]
  BY DEF WorkTypes, HeldTyped
<1>1. /\ IsFiniteSet(Rows) /\ IsFiniteSet(Rows') /\ IsFiniteSet(Creating) /\ IsFiniteSet(Creating')
      /\ Cardinality(Creating') <= Cardinality(Requests)
  BY FS_Subset, IdsAssumption, RequestsAssumption DEF Rows, Creating
<1>2. /\ Cardinality(Rows) \in Nat /\ Cardinality(Rows') \in Nat /\ Cardinality(Creating) \in Nat
      /\ Cardinality(Creating') \in Nat /\ Cardinality(Requests) \in Nat /\ MaxApps \in Nat
  BY <1>1, FS_CardinalityType, RequestsAssumption, LimitAssumption
<1>3. CASE \E name \in Names : CreateDatabase(r, name) \/ CreateService(r, name)
  <2>1. PICK n \in Places, d \in Ids, kind \in Kinds : Creates(r, d, kind, n)
    BY <1>3, CreatesStep
  <2>2. /\ r \notin Creating /\ req'[r].op = "create"
        /\ \A s \in Requests \ {r} : req'[s] = req[s]
    BY <1>0, <2>1 DEF Creates, Made, Creating, Course
  <2>3. Creating' = Creating \union {r}
    BY <2>2 DEF Creating
  <2>4. Cardinality(Creating') = Cardinality(Creating) + 1
    BY <1>1, <2>2, <2>3, FS_AddElement
  <2>5. Rows' = Rows
    BY <2>1 DEF Creates, Rows, HasRow
  <2>6. /\ Cardinality(Rows) < MaxApps
        /\ peak' = IF Cardinality(Creating) + 1 > peak THEN Cardinality(Creating) + 1 ELSE peak
    BY <2>1 DEF Creates, workloadCount
  <2>7. peak \in 0..Cardinality(Requests)
    BY DEF Counted
  <2>8. peak' \in 0..Cardinality(Requests) /\ Cardinality(Creating') <= peak'
    BY <1>1, <1>2, <2>4, <2>6, <2>7
  <2>9. Cardinality(Rows') + Cardinality(Creating') <= MaxApps + peak' - 1
    BY <1>1, <1>2, <2>5, <2>6, <2>8
  <2> QED
    BY <2>8, <2>9 DEF Counted
<1>4. CASE createDatabase(r)
  <2>1. /\ r \in Creating /\ req[r].id \in Ids \ Rows /\ req'[r] = Idle /\ peak' = peak
        /\ \A s \in Requests \ {r} : req'[s] = req[s]
    BY <1>0, <1>4, Ends DEF createDatabase, Creating, OwnIds, Rows, Course, history
  <2>2. Creating' = Creating \ {r}
    BY <2>1 DEF Creating, Idle
  <2>3. Cardinality(Creating') = Cardinality(Creating) - 1
    BY <1>1, <2>1, <2>2, FS_RemoveElement
  <2>4. /\ row'[req[r].id].at = req[r].at /\ req[r].at \in Places
        /\ \A d \in Ids \ {req[r].id} : row'[d] = row[d]
    BY <1>0, <1>4, <2>1 DEF createDatabase, WorkTypes, Course
  <2>5. Rows' = Rows \union {req[r].id}
    BY <2>1, <2>4, IdsAssumption DEF Rows, HasRow, NoRow
  <2>6. Cardinality(Rows') = Cardinality(Rows) + 1
    BY <1>1, <2>1, <2>5, FS_AddElement
  <2> QED
    BY <1>1, <1>2, <2>1, <2>3, <2>6 DEF Counted
<1>5. CASE ~createDatabase(r) /\ ~\E name \in Names : CreateDatabase(r, name) \/ CreateService(r, name)
  <2>1. Rows' \subseteq Rows /\ Creating' \subseteq Creating /\ peak' = peak
    BY <1>5, Shrinks
  <2>2. Cardinality(Rows') <= Cardinality(Rows) /\ Cardinality(Creating') <= Cardinality(Creating)
    BY <1>1, <2>1, FS_Subset
  <2> QED
    BY <1>1, <1>2, <2>1, <2>2 DEF Counted
<1> QED
  BY <1>3, <1>4, <1>5

\* Initially no request is under way, and one database may run at its place (Init).
LEMMA WorkInit == Init => WorkInv
<1> SUFFICES ASSUME Init PROVE WorkInv
  OBVIOUS
<1> DEFINE kept(e, n) == [kind |-> "database", at |-> n, status |-> "running", layers |-> 0]
<1>1. \A r \in Requests : req[r] = Idle
  BY DEF Init
<1>2. ASSUME NEW r \in Requests
      PROVE  /\ req[r].op = "none" /\ req[r].pc = "idle" /\ req[r].at = None /\ req[r].id = None
  BY <1>1 DEF Idle
<1>3. /\ release = [n \in Places |-> IF Of(n) # {} THEN "up" ELSE "none"]
      /\ volume = [n \in Places |-> IF Of(n) # {} THEN CHOOSE d \in Of(n) : TRUE ELSE None]
  BY DEF Init, Of
<1>4. NoRow.at = None
  BY DEF NoRow
\* At most one row is there, a database's that runs.
<1>5. /\ row \in [Ids -> StoredRow \union {NoRow}]
      /\ \A d \in Ids : HasRow(d) => row[d].status = "running"
      /\ \A d, e \in Ids : HasRow(d) /\ HasRow(e) => d = e
  <2>1. CASE row = [d \in Ids |-> NoRow]
    BY <2>1 DEF HasRow
  <2>2. ASSUME NEW e \in Ids, NEW n \in Places,
               row = [d \in Ids |-> IF d = e THEN kept(e, n) ELSE NoRow]
        PROVE  /\ row \in [Ids -> StoredRow \union {NoRow}]
               /\ \A d \in Ids : HasRow(d) => row[d].status = "running"
               /\ \A d, f \in Ids : HasRow(d) /\ HasRow(f) => d = f
    <3>1. kept(e, n) \in StoredRow /\ kept(e, n).status = "running"
      BY DEF StoredRow, Kinds, Statuses
    <3> HIDE DEF kept
    <3> QED
      BY <2>2, <3>1 DEF HasRow
  <2> QED
    BY <2>1, <2>2 DEF Init
<1>6. ASSUME NEW n \in Places PROVE On(n) = {} /\ Of(n) \subseteq Rows
  <2>1. On(n) = {}
    BY <1>2, IdsAssumption DEF On
  <2>2. ASSUME NEW d \in Of(n) PROVE d \in Rows
    BY <1>4, IdsAssumption DEF Of, Rows, HasRow
  <2> QED
    BY <2>1, <2>2
<1>7. \A d, e \in Rows : d = e
  BY <1>5 DEF Rows
<1>8. WorkTypes
  <2>1. Idle \in Held /\ Course(Idle)
    BY DEF Idle, Held, Course
  <2>2. HeldTyped
    BY <2>1 DEF HeldTyped, Init
  <2>3. \A n \in Places : volume[n] \in Ids \union {None, Gone}
    BY <1>3 DEF Of
  <2>4. volume \in [Places -> Ids \union {None, Gone}]
    <3> DEFINE v == [n \in Places |-> IF Of(n) # {} THEN CHOOSE d \in Of(n) : TRUE ELSE None]
    <3>1. v \in [Places -> Ids \union {None, Gone}]
      BY DEF Of
    <3> HIDE DEF v
    <3> QED
      BY <1>3, <3>1 DEF v
  <2>5. release \in [Places -> {"none", "up", "down"}]
    BY <1>3
  <2>6. paid \in BOOLEAN /\ crossed \subseteq Places /\ astray \subseteq Places
    BY DEF Init
  <2>7. tenant \subseteq Namespaces
    <3>1. \A d \in Ids : row[d] # NoRow => row[d].at[1] \in Namespaces
      BY <1>5 DEF StoredRow, Places
    <3> QED
      BY <3>1 DEF Init
  <2> QED
    BY <1>5, <2>2, <2>4, <2>5, <2>6, <2>7 DEF WorkTypes
<1>9. OwnIds /\ SameRows
  BY <1>2 DEF OwnIds, SameRows
<1>10. ASSUME NEW n \in Places PROVE Orderly(n)
  <2>1. \A d, e \in Of(n) : d = e
    BY <1>6, <1>7
  <2>2. \A d \in Of(n) : volume[n] = d
    <3>1. Of(n) # {} => volume[n] \in Of(n)
      BY <1>3
    <3> QED
      BY <2>1, <3>1
  <2>3. \A d \in Of(n) : release[n] = "up" /\ row[d].status = "running"
    BY <1>3, <1>5, <1>6 DEF Rows
  <2>4. Of(n) = {} => release[n] = "none"
    BY <1>3
  <2> QED
    BY <1>6, <2>1, <2>2, <2>3, <2>4 DEF Orderly, Settled
<1>11. SetUp
  <2>1. \A d \in Ids : HasRow(d) => row[d].at[1] \in tenant
    BY DEF Init, HasRow
  <2>2. \A n \in Places : release[n] # "none" => \E d \in Ids : HasRow(d) /\ row[d].at = n
    BY <1>3, <1>6 DEF Rows, Of
  <2> QED
    BY <1>2, <2>1, <2>2 DEF SetUp
<1>12. Counted
  <2>1. Creating = {}
    BY <1>2 DEF Creating
  <2>2. IsFiniteSet(Rows)
    BY FS_Subset, IdsAssumption DEF Rows
  <2>3. Cardinality(Rows) <= 1
    <3>1. CASE Rows = {}
      BY <3>1, FS_EmptySet
    <3>2. CASE Rows # {}
      <4>1. PICK d \in Rows : TRUE
        BY <3>2
      <4>2. Rows = {d}
        BY <1>7, <4>1
      <4> QED
        BY <4>2, FS_Singleton
    <3> QED
      BY <3>1, <3>2
  <2>4. Cardinality(Requests) \in Nat /\ Cardinality(Rows) \in Nat
    BY <2>2, FS_CardinalityType, RequestsAssumption
  <2>5. peak = 0
    BY DEF Init
  <2> QED
    BY <2>1, <2>3, <2>4, <2>5, FS_EmptySet, LimitAssumption DEF Counted
<1> QED
  BY <1>8, <1>9, <1>10, <1>11, <1>12 DEF WorkInv

\* Every request keeps the invariant.
LEMMA WorkRequestStep ==
    ASSUME WorkInv, NEW r \in Requests, RequestStep(r)
    PROVE  WorkInv'
<1>1. WorkTypes'
  BY WorkTypesStep DEF WorkInv
<1>2. PICK m \in Places : Touches(r, m)
  BY TouchStep DEF WorkInv
<1>3. OwnIds' /\ SameRows'
  BY <1>1, <1>2, OwnIdsStep, SameRowsStep DEF WorkInv
<1>4. ASSUME NEW n \in Places \ crossed' PROVE Orderly(n)'
  <2>1. Orderly(n)
    BY <1>2 DEF Touches, WorkInv
  <2>2. CASE n = m
    BY <1>1, <1>2, <2>1, <2>2, OwnOrderly DEF WorkInv
  <2>3. CASE n # m
    BY <1>1, <1>2, <2>1, <2>3, OthersOrderly DEF WorkInv, Touches
  <2> QED
    BY <2>2, <2>3
<1>5. SetUp' /\ Counted'
  BY <1>1, <1>2, SetUpStep, CountedStep DEF WorkInv
<1> QED
  BY <1>1, <1>3, <1>4, <1>5 DEF WorkInv

\* What the invariant says is not of who can pay now.
LEMMA WorkBilling ==
    ASSUME WorkInv, UNCHANGED <<row, cluster, req, history>>, paid' \in BOOLEAN
    PROVE  WorkInv'
<1>0. UNCHANGED <<row, release, volume, tenant, req, peak, crossed, astray>>
  BY DEF cluster, history
<1>1. WorkTypes' /\ OwnIds' /\ SameRows'
  BY <1>0 DEF WorkInv, WorkTypes, HeldTyped, OwnIds, SameRows, HasRow
<1>2. ASSUME NEW n \in Places \ crossed' PROVE Orderly(n)'
  <2>1. Orderly(n)
    BY <1>0 DEF WorkInv
  <2>2. On(n)' = On(n) /\ Of(n)' = Of(n)
    BY <1>0 DEF On, Of
  <2>3. \A r \in On(n) : Progress(r, n) => Progress(r, n)'
    BY <1>0, <2>2 DEF Progress, HasRow
  <2>4. \A d \in Of(n) : Settled(d, n) => Settled(d, n)'
    BY <1>0 DEF Settled
  <2> QED
    BY <1>0, <2>1, <2>2, <2>3, <2>4 DEF Orderly
<1>3. SetUp'
  BY <1>0 DEF WorkInv, SetUp, HasRow
<1>4. Rows' = Rows /\ Creating' = Creating
  BY <1>0 DEF Rows, Creating, HasRow
<1>5. Counted'
  BY <1>0, <1>4 DEF WorkInv, Counted
<1> QED
  BY <1>1, <1>2, <1>3, <1>5 DEF WorkInv

\* A step is a request's, or the subscription's.
LEMMA NextSteps == Next => Billing \/ \E r \in Requests : RequestStep(r)
  BY DEF Next, RequestStep

\* Every step keeps what a request has done so far in line with its row, its release and its
\* volume, for every place that requests do not cross at (platform.Service with kube.Backend).
THEOREM WorkloadsInvariant == Spec => []WorkInv
<1>1. WorkInv /\ [Next]_vars => WorkInv'
  <2> SUFFICES ASSUME WorkInv, [Next]_vars PROVE WorkInv'
    OBVIOUS
  <2>1. CASE \E r \in Requests : RequestStep(r)
    BY <2>1, WorkRequestStep
  <2>2. CASE Billing \/ UNCHANGED vars
    <3>1. UNCHANGED <<row, cluster, req, history>> /\ paid' \in BOOLEAN
      BY <2>2 DEF Billing, vars, cluster, history, WorkInv, WorkTypes
    <3> QED
      BY <3>1, WorkBilling
  <2> QED
    BY <2>1, <2>2, NextSteps
<1> QED
  BY WorkInit, <1>1, PTL DEF Spec

\* The plan's limit is overshot by no more than the creations that ran at once: a creation is
\* counted before the cluster is called (checkQuota), the row stored after.
THEOREM PlanOvershoot == Spec => []QuotaOvershoot
<1>1. WorkInv => QuotaOvershoot
  <2> SUFFICES ASSUME WorkInv, Cardinality(Rows) > MaxApps PROVE Cardinality(Rows) <= MaxApps + peak - 1
    BY DEF QuotaOvershoot
  <2>1. IsFiniteSet(Rows) /\ IsFiniteSet(Creating)
    BY FS_Subset, IdsAssumption, RequestsAssumption DEF Rows, Creating
  <2>2. Cardinality(Rows) \in Nat /\ Cardinality(Creating) \in Nat /\ Cardinality(Requests) \in Nat
        /\ MaxApps \in Nat
    BY <2>1, FS_CardinalityType, RequestsAssumption, LimitAssumption
  <2> QED
    BY <2>2 DEF WorkInv, Counted
<1> QED
  BY WorkloadsInvariant, <1>1, PTL

\* The password shown for a database opens its volume, whatever was stopped, deployed again
\* or updated since (ownedDatabase, encryptedForStore).
THEOREM PasswordsOpen == Spec => []ConnectionWorks
<1>1. WorkInv => ConnectionWorks
  <2> SUFFICES ASSUME WorkInv, NEW d \in Rows, row[d].kind = "database"
               PROVE  /\ ownedDatabase("get", "none", d).layers = 0
                      /\ row[d].at \notin crossed => volume[row[d].at] = d
    BY DEF ConnectionWorks
  <2>1. WorkTypes /\ d \in Ids /\ HasRow(d)
    BY DEF WorkInv, Rows
  <2>2. ownedDatabase("get", "none", d).layers = 0
    BY <2>1, Reads
  <2>3. row[d].at \in Places /\ d \in Of(row[d].at)
    BY <2>1, RowsTyped DEF Of
  <2> QED
    BY <2>2, <2>3 DEF WorkInv, Orderly
<1> QED
  BY WorkloadsInvariant, <1>1, PTL

\* What runs is what the rows say, in a namespace that is set up but for a deploy that found
\* another than its row's (EnsureTenant, orgSlug, databaseAction, serviceAction).
THEOREM RowsTellTheCluster == Spec => []ReleasesMatchRows
<1>1. WorkInv => ReleasesMatchRows
  <2> SUFFICES ASSUME WorkInv PROVE ReleasesMatchRows
    OBVIOUS
  <2>1. TypeOK
    BY DEF WorkInv, WorkTypes, StoredRow, Counted, TypeOK
  <2>2. ReleasesListed
    <3> SUFFICES ASSUME NEW n \in Places \ crossed, \A r \in Requests : req[r].at # n
                 PROVE  release[n] # "none" <=> \E d \in Rows : row[d].at = n
      BY DEF ReleasesListed
    <3>1. On(n) = {} /\ Orderly(n)
      BY DEF On, WorkInv
    <3>2. release[n] # "none" <=> Of(n) # {}
      BY <3>1 DEF Orderly, Settled
    <3>3. \A d \in Ids : row[d].at = n => HasRow(d)
      BY RowsTyped, IdsAssumption DEF WorkInv
    <3> QED
      BY <3>2, <3>3 DEF Of, Rows
  <2>3. StatusHolds
    <3> SUFFICES ASSUME NEW d \in Rows, row[d].at \notin crossed,
                        \A r \in Requests : req[r].at # row[d].at
                 PROVE  /\ row[d].status = "stopped" => release[row[d].at] = "down"
                        /\ row[d].status \in {"running", "deploying"} => release[row[d].at] = "up"
      BY DEF StatusHolds
    <3>1. row[d].at \in Places /\ d \in Of(row[d].at) /\ On(row[d].at) = {}
      BY RowsTyped DEF Of, On, Rows, WorkInv
    <3> QED
      BY <3>1 DEF WorkInv, Orderly, Settled
  <2>4. TenantFirst
    BY DEF WorkInv, SetUp, TenantFirst, Rows
  <2> QED
    BY <2>1, <2>2, <2>3, <2>4 DEF ReleasesMatchRows
<1> QED
  BY WorkloadsInvariant, <1>1, PTL

\* Only Apply and Scale bring a release up.
LEMMA RevivalPaid ==
    ASSUME WorkInv, NEW r \in Requests, RequestStep(r), NEW n \in Places, release[n] # "up", release'[n] = "up"
    PROVE  req[r].at = n /\ req[r].paid
<1>0. Course(req[r]) /\ req[r] \in Held
  BY DEF WorkInv, WorkTypes, HeldTyped
<1>1. release' # release
  OBVIOUS
<1>2. ~\E m \in Names : CreateDatabase(r, m) \/ CreateService(r, m)
  BY <1>1, CreatesStep DEF WorkInv, Creates, cluster
<1>3. ~\E d \in Ids :
          \/ DeployDatabase(r, d) \/ StopDatabase(r, d) \/ StartDatabase(r, d)
          \/ RestartDatabase(r, d) \/ DeleteDatabase(r, d)
          \/ DeployService(r, d) \/ StopService(r, d) \/ RestartService(r, d) \/ DeleteService(r, d)
  BY <1>1, StartsStep DEF WorkInv, Starts, cluster
<1>4. Apply(r) \/ Scale(r) \/ Uninstall(r)
  BY <1>1, <1>2, <1>3 DEF RequestStep, EnsureTenant, createDatabase, Reread,
        updateDatabase, DropRow, StoreFails, cluster
<1>5. CASE Apply(r)
  <2>1. req[r].pc = "apply" /\ release' = [release EXCEPT ![req[r].at] = "up"]
    BY <1>1, <1>5 DEF Apply
  <2>2. req[r].at = n
    BY <2>1 DEF WorkInv, WorkTypes
  <2> QED
    BY <1>0, <2>1, <2>2 DEF Course, Held
<1>6. CASE Scale(r)
  <2>1. req[r].pc = "act" /\ release' = [release EXCEPT ![req[r].at] = Scaled(req[r].op, @)]
    BY <1>1, <1>6 DEF Scale
  <2>2. req[r].at = n /\ Scaled(req[r].op, release[n]) = "up"
    BY <2>1 DEF WorkInv, WorkTypes
  <2>3. req[r].op = "start"
    BY <1>0, <2>1, <2>2 DEF Course, Held, Scaled
  <2> QED
    BY <1>0, <2>2, <2>3 DEF Course
<1>7. CASE Uninstall(r)
  BY <1>1, <1>7 DEF Uninstall, WorkInv, WorkTypes
<1> QED
  BY <1>4, <1>5, <1>6, <1>7

\* An org that cannot pay brings nothing up, but by a request admitted while it could
\* (ensureActive, ensureDatabaseRunnable).
THEOREM RevivalIsPaid == Spec => NoUnpaidRevival
<1>1. WorkInv /\ [Next]_vars =>
        [\A p \in Places : release[p] # "up" /\ release'[p] = "up" =>
            \E r \in Requests : req[r].at = p /\ req[r].paid]_<<release, req>>
  <2> SUFFICES ASSUME WorkInv, Next, NEW p \in Places, release[p] # "up", release'[p] = "up"
               PROVE  \E r \in Requests : req[r].at = p /\ req[r].paid
    BY DEF vars, cluster
  <2>1. ~Billing
    BY DEF Billing, cluster
  <2>2. PICK r \in Requests : RequestStep(r)
    BY <2>1, NextSteps
  <2> QED
    BY <2>2, RevivalPaid
<1> QED
  BY WorkloadsInvariant, <1>1, PTL DEF NoUnpaidRevival, Spec

-----------------------------------------------------------------------------
(* Builds.                                                                 *)

\* A worker is past the parts of the isolation that it has set up.
PastIsolation ==
    \A b \in Builds :
        /\ worker[b] = "policy" => "serviceAccount" \in isolation
        /\ worker[b] \in {"submit", "poll"} => isolation = IsolationParts

\* A worker polls its own Job: a Job of its name that it has not created ends it.
PollsOwn ==
    \A b \in Builds : worker[b] = "poll" =>
        kaniko[Tag[b]].of = b /\ kaniko[Tag[b]].phase # "none"

\* What a Job has pushed stays under its tag for as long as the Job is there.
PushedIsThere ==
    \A t \in Tags : kaniko[t].phase \in {"pushed", "complete"} => image[t] = kaniko[t].of

BuildsInv == BuildsTypeOK /\ PastIsolation /\ IsolatedFirst /\ PollsOwn /\ PushedIsThere

\* Initially nothing runs (BuildsInit).
LEMMA BuildsInitInv == BuildsInit => BuildsInv
  BY TagAssumption DEF BuildsInit, BuildsInv, BuildsTypeOK, PastIsolation, IsolatedFirst, PollsOwn,
     PushedIsThere, NoKaniko, IsolationParts

\* The types (BuildsTypeOK).
LEMMA BuildsTypeStep == BuildsInv /\ [BuildsNext]_buildVars => BuildsTypeOK'
<1> SUFFICES ASSUME BuildsInv, [BuildsNext]_buildVars PROVE BuildsTypeOK'
  OBVIOUS
<1> USE TagAssumption DEF BuildsInv, BuildsTypeOK
<1>1. ASSUME NEW b \in Builds, Build(b) PROVE BuildsTypeOK'
  BY <1>1 DEF Build, WorkerGoes
<1>2. ASSUME NEW b \in Builds, ensureIsolation(b) PROVE BuildsTypeOK'
  <2>1. isolation' \subseteq IsolationParts
    BY <1>2 DEF ensureIsolation, IsolationParts
  <2>2. \E to \in {"policy", "submit", "failed"} : WorkerGoes(b, to)
    BY <1>2 DEF ensureIsolation
  <2>3. worker' \in [Builds -> {"idle", "account", "policy", "submit", "poll", "succeeded", "failed"}]
    BY <2>2 DEF WorkerGoes
  <2> QED
    BY <1>2, <2>1, <2>3 DEF ensureIsolation
<1>3. ASSUME NEW b \in Builds, Submit(b) PROVE BuildsTypeOK'
  <2>1. \E to \in {"poll", "failed"} : WorkerGoes(b, to)
    BY <1>3 DEF Submit
  <2>2. worker' \in [Builds -> {"idle", "account", "policy", "submit", "poll", "succeeded", "failed"}]
    BY <2>1 DEF WorkerGoes
  <2>3. kaniko' \in [Tags -> [of : Builds \union {"none"}, phase : {"none", "running", "pushed", "complete", "failed"}]]
    BY <1>3 DEF Submit
  <2> QED
    BY <1>3, <2>2, <2>3 DEF Submit
<1>4. ASSUME NEW b \in Builds, waitForJob(b) PROVE BuildsTypeOK'
  BY <1>4 DEF waitForJob, WorkerGoes
<1>5. ASSUME NEW t \in Tags, Push(t) PROVE BuildsTypeOK'
  BY <1>5 DEF Push
<1>6. ASSUME NEW t \in Tags, EndJob(t) PROVE BuildsTypeOK'
  <2>1. \E ph \in {"complete", "failed"} : kaniko' = [kaniko EXCEPT ![t].phase = ph]
    BY <1>6 DEF EndJob
  <2>2. kaniko' \in [Tags -> [of : Builds \union {"none"}, phase : {"none", "running", "pushed", "complete", "failed"}]]
    BY <2>1
  <2> QED
    BY <1>6, <2>2 DEF EndJob
<1>7. ASSUME NEW t \in Tags, ExpireJob(t) PROVE BuildsTypeOK'
  BY <1>7 DEF ExpireJob, NoKaniko
<1>8. CASE UNCHANGED buildVars
  BY <1>8 DEF buildVars
<1> QED
  BY <1>1, <1>2, <1>3, <1>4, <1>5, <1>6, <1>7, <1>8 DEF BuildsNext

\* A worker's own part of the isolation is there (ensureIsolation).
LEMMA IsolationStep == BuildsInv /\ [BuildsNext]_buildVars => PastIsolation' /\ IsolatedFirst'
<1> SUFFICES ASSUME BuildsInv, [BuildsNext]_buildVars PROVE PastIsolation' /\ IsolatedFirst'
  OBVIOUS
<1> USE TagAssumption DEF BuildsInv, BuildsTypeOK, PastIsolation, IsolatedFirst
<1>1. ASSUME NEW b \in Builds, Build(b) PROVE PastIsolation' /\ IsolatedFirst'
  BY <1>1 DEF Build, WorkerGoes
<1>2. ASSUME NEW b \in Builds, ensureIsolation(b) PROVE PastIsolation' /\ IsolatedFirst'
  <2>1. kaniko' = kaniko /\ isolation \subseteq isolation' /\ isolation' \subseteq IsolationParts
    BY <1>2 DEF ensureIsolation, IsolationParts
  <2>2. \A c \in Builds \ {b} : worker'[c] = worker[c]
    BY <1>2 DEF ensureIsolation, WorkerGoes
  <2>3. /\ worker'[b] = "policy" => "serviceAccount" \in isolation'
        /\ worker'[b] \in {"submit", "poll"} => isolation' = IsolationParts
    BY <1>2 DEF ensureIsolation, WorkerGoes, IsolationParts
  <2> QED
    BY <2>1, <2>2, <2>3
<1>3. ASSUME NEW b \in Builds, Submit(b) PROVE PastIsolation' /\ IsolatedFirst'
  <2>1. isolation' = isolation /\ isolation = IsolationParts
    BY <1>3 DEF Submit
  <2> QED
    BY <2>1 DEF IsolationParts
<1>4. ASSUME NEW b \in Builds, waitForJob(b) PROVE PastIsolation' /\ IsolatedFirst'
  BY <1>4 DEF waitForJob, WorkerGoes
<1>5. ASSUME NEW t \in Tags, Push(t) PROVE PastIsolation' /\ IsolatedFirst'
  <2>1. (\E u \in Tags : kaniko[u] # NoKaniko) /\ UNCHANGED <<worker, isolation>>
    BY <1>5 DEF Push, NoKaniko
  <2> QED
    BY <2>1
<1>6. ASSUME NEW t \in Tags, EndJob(t) PROVE PastIsolation' /\ IsolatedFirst'
  <2>1. (\E u \in Tags : kaniko[u] # NoKaniko) /\ UNCHANGED <<worker, isolation>>
    BY <1>6 DEF EndJob, NoKaniko
  <2> QED
    BY <2>1
<1>7. ASSUME NEW t \in Tags, ExpireJob(t) PROVE PastIsolation' /\ IsolatedFirst'
  <2>1. (\E u \in Tags : kaniko[u] # NoKaniko) /\ UNCHANGED <<worker, isolation>>
    BY <1>7 DEF ExpireJob, NoKaniko
  <2> QED
    BY <2>1
<1>8. CASE UNCHANGED buildVars
  BY <1>8 DEF buildVars
<1> QED
  BY <1>1, <1>2, <1>3, <1>4, <1>5, <1>6, <1>7, <1>8 DEF BuildsNext

\* A Job is only replaced when nobody polls it, and its tag's image is its own
\* (Submit, ExpireJob, Push).
LEMMA JobStep == BuildsInv /\ [BuildsNext]_buildVars => PollsOwn' /\ PushedIsThere'
<1> SUFFICES ASSUME BuildsInv, [BuildsNext]_buildVars PROVE PollsOwn' /\ PushedIsThere'
  OBVIOUS
<1> USE TagAssumption DEF BuildsInv, BuildsTypeOK, PollsOwn, PushedIsThere
<1>1. ASSUME NEW b \in Builds, Build(b) PROVE PollsOwn' /\ PushedIsThere'
  BY <1>1 DEF Build, WorkerGoes
<1>2. ASSUME NEW b \in Builds, ensureIsolation(b) PROVE PollsOwn' /\ PushedIsThere'
  <2>1. UNCHANGED <<kaniko, image>>
    BY <1>2 DEF ensureIsolation
  <2>2. \A c \in Builds : worker'[c] = "poll" => worker[c] = "poll"
    BY <1>2 DEF ensureIsolation, WorkerGoes
  <2> QED
    BY <2>1, <2>2
<1>3. ASSUME NEW b \in Builds, Submit(b) PROVE PollsOwn' /\ PushedIsThere'
  <2>1. CASE UNCHANGED kaniko
    <3>1. \A c \in Builds : worker'[c] = "poll" => worker[c] = "poll"
      BY <1>3, <2>1 DEF Submit, WorkerGoes, NoKaniko
    <3> QED
      BY <1>3, <2>1, <3>1 DEF Submit
  <2>2. CASE /\ kaniko[Tag[b]] = NoKaniko
             /\ kaniko' = [kaniko EXCEPT ![Tag[b]] = [of |-> b, phase |-> "running"]]
    <3>1. \A c \in Builds \ {b} : worker'[c] = "poll" => worker[c] = "poll" /\ Tag[c] # Tag[b]
      BY <1>3, <2>2 DEF Submit, WorkerGoes, NoKaniko
    <3>2. /\ kaniko'[Tag[b]] = [of |-> b, phase |-> "running"]
          /\ \A u \in Tags \ {Tag[b]} : kaniko'[u] = kaniko[u]
          /\ UNCHANGED image
      BY <1>3, <2>2 DEF Submit
    <3> QED
      BY <3>1, <3>2
  <2> QED
    BY <1>3, <2>1, <2>2 DEF Submit
<1>4. ASSUME NEW b \in Builds, waitForJob(b) PROVE PollsOwn' /\ PushedIsThere'
  BY <1>4 DEF waitForJob, WorkerGoes
<1>5. ASSUME NEW t \in Tags, Push(t) PROVE PollsOwn' /\ PushedIsThere'
  BY <1>5 DEF Push
<1>6. ASSUME NEW t \in Tags, EndJob(t) PROVE PollsOwn' /\ PushedIsThere'
  <2>1. PICK ph \in {"complete", "failed"} :
            /\ kaniko' = [kaniko EXCEPT ![t].phase = ph]
            /\ ph = "complete" => kaniko[t].phase = "pushed"
    BY <1>6 DEF EndJob
  <2>2. /\ \A u \in Tags : kaniko'[u].of = kaniko[u].of
        /\ \A u \in Tags \ {t} : kaniko'[u] = kaniko[u]
        /\ kaniko'[t].phase = ph
    BY <2>1
  <2>3. UNCHANGED <<worker, image>>
    BY <1>6 DEF EndJob
  <2> QED
    BY <2>1, <2>2, <2>3
<1>7. ASSUME NEW t \in Tags, ExpireJob(t) PROVE PollsOwn' /\ PushedIsThere'
  <2>1. /\ kaniko'[t] = NoKaniko /\ \A u \in Tags \ {t} : kaniko'[u] = kaniko[u]
        /\ UNCHANGED <<worker, image>>
    BY <1>7 DEF ExpireJob
  <2>2. \A c \in Builds : worker[c] = "poll" => Tag[c] # t
    BY <1>7 DEF ExpireJob
  <2> QED
    BY <2>1, <2>2 DEF NoKaniko
<1>8. CASE UNCHANGED buildVars
  BY <1>8 DEF buildVars
<1> QED
  BY <1>1, <1>2, <1>3, <1>4, <1>5, <1>6, <1>7, <1>8 DEF BuildsNext

\* The invariant (BuildsSpec).
LEMMA BuildsInvariant == BuildsSpec => []BuildsInv
<1>1. BuildsInv /\ [BuildsNext]_buildVars => BuildsInv'
  BY BuildsTypeStep, IsolationStep, JobStep DEF BuildsInv
<1> QED
  BY <1>1, BuildsInitInv, PTL DEF BuildsSpec

\* Types (BuildsTypeOK).
THEOREM BuildsTypeCorrect == BuildsSpec => []BuildsTypeOK
<1>1. BuildsInv => BuildsTypeOK
  BY DEF BuildsInv
<1> QED
  BY <1>1, BuildsInvariant, PTL

\* No Job runs before the account and the policy are there, at whichever call an earlier
\* build failed (ensureIsolation).
THEOREM IsolationComesFirst == BuildsSpec => []IsolatedFirst
<1>1. BuildsInv => IsolatedFirst
  BY DEF BuildsInv
<1> QED
  BY <1>1, BuildsInvariant, PTL

\* A build that reports success has the image of its own Job under its tag, however many
\* builds share it (Submit, waitForJob).
THEOREM ImageIsOwn == BuildsSpec => NoStaleImage
<1>1. BuildsInv /\ [BuildsNext]_buildVars =>
        [\A b \in Builds : worker[b] = "poll" /\ worker'[b] = "succeeded" => image'[Tag[b]] = b]_buildVars
  <2> SUFFICES ASSUME BuildsInv, BuildsNext,
                      NEW b \in Builds, worker[b] = "poll", worker'[b] = "succeeded"
               PROVE  image'[Tag[b]] = b
    OBVIOUS
  <2> USE TagAssumption DEF BuildsInv, BuildsTypeOK
  <2>1. \A c \in Builds : ~Build(c) /\ ~ensureIsolation(c)
    BY DEF Build, ensureIsolation, WorkerGoes
  <2>2. \A c \in Builds : ~Submit(c)
    BY DEF Submit, WorkerGoes
  <2>3. \A t \in Tags : ~Push(t) /\ ~EndJob(t) /\ ~ExpireJob(t)
    BY DEF Push, EndJob, ExpireJob
  <2>4. PICK c \in Builds : waitForJob(c)
    BY <2>1, <2>2, <2>3 DEF BuildsNext
  <2>5. c = b /\ kaniko[Tag[b]].phase = "complete" /\ UNCHANGED image
    BY <2>4 DEF waitForJob, WorkerGoes
  <2> QED
    BY <2>5 DEF PollsOwn, PushedIsThere
<1> QED
  BY <1>1, BuildsInvariant, PTL DEF BuildsSpec, NoStaleImage

-----------------------------------------------------------------------------
(* Backups.                                                                *)

\* What a database holds that has not strayed was its own; data is always some database's.
OfIts(d, v) == v[1] \in Dbs /\ (v[1] = d \/ d \in strayed)

\* A Job is somebody's, and what it works on is its own, unless its database has strayed.
JobOwn ==
    \A j \in JobNames : Exists(j) =>
        /\ job[j].db \in Dbs /\ job[j].kind \in {"backup", "restore"}
        /\ file[j].db \in {job[j].db, "none"}
        /\ job[j].active => job[j].condition = "none"
        /\ job[j].kind = "restore" =>
              job[j].from \in JobNames /\ (job[j].from \in known[job[j].db] \/ job[j].db \in strayed)
        /\ job[j].kind = "backup" /\ job[j].active =>
              file[j].db = job[j].db /\ OfIts(job[j].db, job[j].snapshot)
        /\ job[j].kind = "backup" /\ job[j].condition = "complete" =>
              file[j].whole /\ file[j].db = job[j].db

\* A dump is of one database, and has what that database held.
FileOwn ==
    \A j \in JobNames :
        /\ file[j] # NoFile => file[j].db \in Dbs
        /\ file[j].whole => file[j] # NoFile /\ OfIts(file[j].db, file[j].version)

\* A name that a client knows is that of its own Job, or of one that is gone.
KnownOwn ==
    \A d \in Dbs : \A j \in known[d] :
        /\ j \in JobNames
        /\ Exists(j) => job[j].db = d
        /\ file[j].db \in {d, "none"}

\* A name that a Job may still get was never another's.
FutureFree ==
    \A j \in JobNames : ~Exists(j) /\ j[3] >= now => file[j] = NoFile /\ \A d \in Dbs : j \notin known[d]

\* A Job that has not failed has attempts left.
TriesLeft == \A j \in JobNames : job[j].condition # "failed" => job[j].failures < MaxTries

BackupsInv == BackupsTypeOK /\ JobOwn /\ FileOwn /\ KnownOwn /\ FutureFree /\ TriesLeft /\ NoCrossRestore

JobRecord == [db : Dbs \union {"none"}, kind : {"none", "backup", "restore"},
              from : JobNames \union {Nothing}, snapshot : Data,
              condition : {"none", "complete", "failed"}, active : BOOLEAN, failures : 0..MaxTries]
FileRecord == [db : Dbs \union {"none"}, version : Data, whole : BOOLEAN]

\* The types in short (BackupsTypeOK).
LEMMA Types ==
    BackupsTypeOK <=>
        /\ now \in 0..MaxTime /\ data \in [Dbs -> Dbs \X (0..MaxData + 1)]
        /\ job \in [JobNames -> JobRecord] /\ file \in [JobNames -> FileRecord]
        /\ known \in [Dbs -> SUBSET JobNames] /\ strayed \subseteq Dbs
  BY DEF BackupsTypeOK, JobRecord, FileRecord

\* The same of the state after a step (BackupsTypeOK).
LEMMA TypesNext ==
    (/\ now' \in 0..MaxTime /\ data' \in [Dbs -> Dbs \X (0..MaxData + 1)]
     /\ job' \in [JobNames -> JobRecord] /\ file' \in [JobNames -> FileRecord]
     /\ known' \in [Dbs -> SUBSET JobNames] /\ strayed' \subseteq Dbs) => BackupsTypeOK'
  BY DEF BackupsTypeOK, JobRecord, FileRecord

\* The records of nothing (NoJob, NoFile).
LEMMA NoneTypes == NoJob \in JobRecord /\ NoFile \in FileRecord /\ NoJob.db \notin Dbs /\ NoFile.db \notin Dbs
  BY DbsAssumption, BoundsAssumption DEF NoJob, NoFile, JobRecord, FileRecord, Data, Nothing

\* A datum of a database (Data, Broken).
LEMMA DataTypes ==
    /\ \A d \in Dbs : Broken(d) \in Dbs \X (0..MaxData + 1) /\ Broken(d)[1] = d
    /\ \A v \in Dbs \X (0..MaxData + 1) : v \in Data /\ v[1] \in Dbs
    /\ \A v \in Data : v[1] \in Dbs => v \in Dbs \X (0..MaxData + 1)
  BY DbsAssumption, BoundsAssumption DEF Broken, Data, Nothing

\* Names of new Jobs (backupJobName, restoreJobName).
LEMMA NameTypes ==
    BackupsTypeOK => \A d \in Dbs :
        /\ backupJobName(d) \in JobNames /\ backupJobName(d)[3] = now
        /\ restoreJobName(d) \in JobNames /\ restoreJobName(d)[3] = now
  BY ShortAssumption DEF BackupsTypeOK, backupJobName, restoreJobName, JobNames

\* Initially there is nothing (BackupsInit).
LEMMA BackupsInitInv == BackupsInit => BackupsInv
<1> SUFFICES ASSUME BackupsInit PROVE BackupsInv
  OBVIOUS
<1>1. BackupsTypeOK
  <2>1. data \in [Dbs -> Dbs \X (0..MaxData + 1)]
    BY BoundsAssumption DEF BackupsInit
  <2> QED
    BY <2>1, NoneTypes, Types, BoundsAssumption DEF BackupsInit
<1>2. JobOwn /\ KnownOwn /\ FutureFree /\ NoCrossRestore
  BY DEF BackupsInit, JobOwn, KnownOwn, FutureFree, NoCrossRestore, Exists
<1>3. FileOwn /\ TriesLeft
  BY BoundsAssumption DEF BackupsInit, FileOwn, TriesLeft, NoFile, NoJob
<1> QED
  BY <1>1, <1>2, <1>3 DEF BackupsInv

\* A Job of a free name is created, for a backup of d or for a restore of d, which strays if
\* its client does not know the name (BackupDatabase, RestoreDatabase).
LEMMA Created ==
    ASSUME BackupsInv, NEW d \in Dbs, NEW j \in JobNames, j[3] = now, ~Exists(j),
           NEW r \in JobRecord, job' = [job EXCEPT ![j] = r],
           r.db = d, r.kind \in {"backup", "restore"}, ~r.active, r.condition = "none", r.failures = 0,
           r.kind = "restore" => r.from \in JobNames /\ (r.from \in known[d] \/ d \in strayed'),
           strayed' = strayed \/ strayed' = strayed \union {d},
           known' = known \/ known' = [known EXCEPT ![d] = @ \union {j}],
           UNCHANGED <<now, data, file>>
    PROVE  BackupsInv'
<1> USE DEF BackupsInv
<1>1. file[j] = NoFile /\ \A e \in Dbs : j \notin known[e]
  BY NameTypes, Types, BoundsAssumption DEF FutureFree, JobNames
<1>2. /\ job'[j] = r /\ \A i \in JobNames \ {j} : job'[i] = job[i]
      /\ r # NoJob
      /\ \A e \in Dbs : known[e] \subseteq known'[e] /\ known'[e] \subseteq known[e] \union {j}
      /\ \A e \in Dbs \ {d} : known'[e] = known[e]
  BY Types, NoneTypes
<1>3. BackupsTypeOK'
  BY <1>2, Types, TypesNext
<1>4. JobOwn'
  <2>1. file[j].db = "none"
    BY <1>1 DEF NoFile
  <2> QED
    BY <1>2, <2>1 DEF JobOwn, Exists, OfIts
<1>5. FileOwn' /\ NoCrossRestore'
  BY DEF FileOwn, NoCrossRestore, OfIts
<1>6. KnownOwn'
  <2>1. file[j].db = "none"
    BY <1>1 DEF NoFile
  <2> QED
    BY <1>1, <1>2, <2>1 DEF KnownOwn, Exists
<1>7. FutureFree'
  BY <1>1, <1>2 DEF FutureFree, Exists
<1>8. TriesLeft'
  BY <1>2, BoundsAssumption DEF TriesLeft
<1> QED
  BY <1>3, <1>4, <1>5, <1>6, <1>7, <1>8

\* The Job j goes on with record r, and its file becomes f (Attempt, Succeed, Fail).
LEMMA GoesOn ==
    ASSUME BackupsInv, NEW j \in JobNames, Exists(j),
           NEW r \in JobRecord, job' = [job EXCEPT ![j] = r],
           r.db = job[j].db, r.kind = job[j].kind, r.from = job[j].from,
           r.active => r.condition = "none",
           r.condition # "failed" => r.failures < MaxTries,
           NEW f \in FileRecord, file' = [file EXCEPT ![j] = f],
           f = file[j] \/ (f.db = job[j].db /\ (f.whole => OfIts(f.db, f.version))),
           r.kind = "backup" /\ r.active => OfIts(r.db, r.snapshot) /\ f.db = r.db,
           r.kind = "backup" /\ r.condition = "complete" => f.whole /\ f.db = r.db,
           NEW v \in Dbs \X (0..MaxData + 1), OfIts(job[j].db, v),
           data' = data \/ data' = [data EXCEPT ![job[j].db] = v],
           UNCHANGED <<now, known, strayed>>
    PROVE  BackupsInv'
<1> USE DEF BackupsInv
<1>1. /\ job'[j] = r /\ \A i \in JobNames \ {j} : job'[i] = job[i]
      /\ file'[j] = f /\ \A i \in JobNames \ {j} : file'[i] = file[i]
      /\ job[j].db \in Dbs /\ r # NoJob
      /\ \A d \in Dbs : data'[d] = data[d] \/ (d = job[j].db /\ data'[d] = v)
  BY Types, NoneTypes DEF JobOwn
<1>2. BackupsTypeOK'
  BY <1>1, Types, TypesNext
<1>3. JobOwn'
  BY <1>1 DEF JobOwn, Exists, OfIts
<1>4. FileOwn'
  BY <1>1, NoneTypes DEF FileOwn, OfIts
<1>5. KnownOwn'
  BY <1>1 DEF KnownOwn, Exists
<1>6. FutureFree'
  BY <1>1 DEF FutureFree, Exists
<1>7. TriesLeft' /\ NoCrossRestore'
  BY <1>1 DEF TriesLeft, NoCrossRestore, OfIts
<1> QED
  BY <1>2, <1>3, <1>4, <1>5, <1>6, <1>7

\* Every step of the requests and of the cluster (BackupsNext).
LEMMA BackupsStep == BackupsInv /\ [BackupsNext]_backupVars => BackupsInv'
<1> SUFFICES ASSUME BackupsInv, [BackupsNext]_backupVars PROVE BackupsInv'
  OBVIOUS
<1> USE DEF BackupsInv
<1>1. CASE Tick
  <2>1. /\ UNCHANGED <<data, job, file, known, strayed>> /\ now' \in 0..MaxTime /\ now' = now + 1
    BY <1>1, Types, BoundsAssumption DEF Tick
  <2>2. BackupsTypeOK'
    BY <2>1, Types, TypesNext
  <2>3. FutureFree'
    BY <2>1, Types, BoundsAssumption DEF FutureFree, Exists, JobNames
  <2> QED
    BY <2>1, <2>2, <2>3 DEF JobOwn, FileOwn, KnownOwn, TriesLeft, NoCrossRestore, Exists, OfIts
<1>2. ASSUME NEW d \in Dbs, BackupDatabase(d) PROVE BackupsInv'
  <2>1. backupJob(d) \in JobRecord
    BY NoneTypes DEF backupJob, JobRecord
  <2>2. /\ backupJob(d).db = d /\ backupJob(d).kind = "backup" /\ ~backupJob(d).active
        /\ backupJob(d).condition = "none" /\ backupJob(d).failures = 0
    BY DEF backupJob, NoJob
  <2> QED
    BY <1>2, <2>1, <2>2, NameTypes, Created DEF BackupDatabase
<1>3. ASSUME NEW d \in Dbs, ListDatabaseBackups(d) PROVE BackupsInv'
  <2>1. /\ UNCHANGED <<now, data, job, file, strayed>>
        /\ known' = [known EXCEPT ![d] = @ \union BackupsOf(d)]
        /\ BackupsOf(d) \subseteq JobNames
        /\ \A j \in BackupsOf(d) : Exists(j) /\ job[j].db = d
    BY <1>3, NoneTypes DEF ListDatabaseBackups, BackupsOf, Exists, NoJob
  <2>2. \A e \in Dbs : /\ known[e] \subseteq known'[e]
                       /\ e # d => known'[e] = known[e]
                       /\ known'[d] = known[d] \union BackupsOf(d)
    BY <2>1, Types
  <2>3. BackupsTypeOK'
    BY <2>1, Types, TypesNext
  <2>4. KnownOwn'
    BY <2>1, <2>2 DEF KnownOwn, JobOwn, Exists
  <2>5. FutureFree'
    BY <2>1, <2>2 DEF FutureFree, Exists
  <2>6. JobOwn'
    BY <2>1, <2>2 DEF JobOwn, Exists, OfIts
  <2> QED
    BY <2>1, <2>3, <2>4, <2>5, <2>6 DEF FileOwn, TriesLeft, NoCrossRestore, OfIts
<1>4. ASSUME NEW d \in Dbs, Write(d) PROVE BackupsInv'
  <2>1. /\ UNCHANGED <<now, job, file, known, strayed>>
        /\ data' = [data EXCEPT ![d] = <<data[d][1], data[d][2] + 1>>]
        /\ <<data[d][1], data[d][2] + 1>> \in Dbs \X (0..MaxData + 1)
    BY <1>4, Types, BoundsAssumption DEF Write
  <2>2. BackupsTypeOK'
    BY <2>1, Types, TypesNext
  <2>3. NoCrossRestore'
    BY <2>1, Types DEF NoCrossRestore
  <2> QED
    BY <2>1, <2>2, <2>3 DEF JobOwn, FileOwn, KnownOwn, FutureFree, TriesLeft, Exists, OfIts
<1>5. ASSUME NEW d \in Dbs, NEW j \in DumpNames, RestoreDatabase(d, j) PROVE BackupsInv'
  <2>1. restoreJob(d, j) \in JobRecord /\ j \in JobNames
    BY NoneTypes DEF restoreJob, JobRecord, DumpNames
  <2>2. /\ restoreJob(d, j).db = d /\ restoreJob(d, j).kind = "restore" /\ ~restoreJob(d, j).active
        /\ restoreJob(d, j).condition = "none" /\ restoreJob(d, j).failures = 0
        /\ restoreJob(d, j).from = j
    BY DEF restoreJob, NoJob
  <2> QED
    BY <1>5, <2>1, <2>2, NameTypes, Created DEF RestoreDatabase
<1>6. ASSUME NEW j \in JobNames, Attempt(j) PROVE BackupsInv'
  <2> DEFINE d == job[j].db
  <2>1. Exists(j) /\ d \in Dbs /\ job[j].condition = "none" /\ job[j] \in JobRecord /\ data[d] \in Dbs \X (0..MaxData + 1)
    BY <1>6, Types DEF Attempt, JobOwn
  <2>2. CASE job[j].kind = "backup"
    <3> DEFINE r == [job[j] EXCEPT !.active = TRUE, !.snapshot = data[d]]
               f == [NoFile EXCEPT !.db = d]
    <3>1. /\ job' = [job EXCEPT ![j] = r] /\ file' = [file EXCEPT ![j] = f]
          /\ UNCHANGED <<now, data, known, strayed>>
      BY <1>6, <2>2, Types DEF Attempt
    <3>2. r \in JobRecord /\ f \in FileRecord
      BY <2>1, NoneTypes, DataTypes DEF JobRecord, FileRecord
    <3>3. /\ r.db = d /\ r.kind = "backup" /\ r.from = job[j].from /\ r.active
          /\ r.condition = "none" /\ r.failures = job[j].failures /\ r.snapshot = data[d]
      BY <2>1, <2>2 DEF JobRecord
    <3>4. f.db = d /\ ~f.whole
      BY DEF NoFile
    <3>5. OfIts(d, data[d])
      BY <2>1 DEF NoCrossRestore, OfIts
    <3> HIDE DEF r, f
    <3> QED
      BY <2>1, <2>2, <3>1, <3>2, <3>3, <3>4, <3>5, GoesOn DEF TriesLeft
  <2>3. CASE job[j].kind # "backup"
    <3> DEFINE r == [job[j] EXCEPT !.active = TRUE]
               f == file[j]
               from == file[job[j].from]
               v == IF from = NoFile THEN data[d] ELSE Broken(from.db)
    <3>1. /\ job' = [job EXCEPT ![j] = r] /\ file' = [file EXCEPT ![j] = f]
          /\ data' = data \/ data' = [data EXCEPT ![d] = v]
          /\ UNCHANGED <<now, known, strayed>>
      BY <1>6, <2>3, Types DEF Attempt
    <3>2. r \in JobRecord /\ f \in FileRecord
      BY <2>1, Types DEF JobRecord
    <3>3. /\ r.db = d /\ r.kind = job[j].kind /\ r.from = job[j].from /\ r.active
          /\ r.condition = "none" /\ r.failures = job[j].failures
      BY <2>1 DEF JobRecord
    <3>4. f = file[j]
      OBVIOUS
    <3>5. /\ from \in FileRecord /\ (from # NoFile => from.db \in Dbs)
          /\ d \notin strayed /\ from # NoFile => from.db = d
      BY <2>1, <2>3, Types, DbsAssumption DEF JobOwn, KnownOwn, FileOwn
    <3>6. v \in Dbs \X (0..MaxData + 1) /\ OfIts(d, v)
      BY <2>1, <3>5, DataTypes DEF NoCrossRestore, OfIts
    <3> HIDE DEF r, f, v
    <3> QED
      BY <2>1, <2>3, <3>1, <3>2, <3>3, <3>4, <3>6, GoesOn DEF TriesLeft
  <2> QED
    BY <2>2, <2>3
<1>7. ASSUME NEW j \in JobNames, Succeed(j) PROVE BackupsInv'
  <2> DEFINE d == job[j].db
             r == [job[j] EXCEPT !.active = FALSE, !.condition = "complete", !.snapshot = Nothing]
  <2>1. Exists(j) /\ d \in Dbs /\ job[j].active /\ job[j].condition = "none" /\ job[j] \in JobRecord
    BY <1>7, Types DEF Succeed, JobOwn, Exists, NoJob
  <2>2. job' = [job EXCEPT ![j] = r] /\ UNCHANGED <<now, known, strayed>>
    BY <1>7, Types DEF Succeed
  <2>3. /\ r \in JobRecord /\ r.db = d /\ r.kind = job[j].kind /\ r.from = job[j].from /\ ~r.active
        /\ r.condition = "complete" /\ r.failures = job[j].failures
    BY <2>1 DEF JobRecord, Data
  <2>4. job[j].failures < MaxTries
    BY <2>1 DEF TriesLeft
  <2>5. CASE job[j].kind = "backup"
    <3> DEFINE f == [file[j] EXCEPT !.version = job[j].snapshot, !.whole = TRUE]
    <3>1. file' = [file EXCEPT ![j] = f] /\ UNCHANGED data
      BY <1>7, <2>5, Types DEF Succeed
    <3>2. file[j] \in FileRecord /\ job[j].snapshot \in Data /\ OfIts(d, job[j].snapshot) /\ file[j].db = d
      BY <2>1, <2>5, Types DEF JobOwn, JobRecord
    <3>3. f \in FileRecord /\ f.db = d /\ f.whole /\ f.version = job[j].snapshot
      BY <3>2 DEF FileRecord
    <3>4. data[d] \in Dbs \X (0..MaxData + 1) /\ OfIts(d, data[d])
      BY <2>1, Types DEF NoCrossRestore, OfIts
    <3> HIDE DEF r, f
    <3> QED
      BY <2>1, <2>2, <2>3, <2>4, <2>5, <3>1, <3>2, <3>3, <3>4, GoesOn
  <2>6. CASE job[j].kind # "backup"
    <3> DEFINE from == file[job[j].from]
               v == IF from.whole THEN from.version ELSE Broken(from.db)
               f == file[j]
    <3>1. /\ file' = [file EXCEPT ![j] = f] /\ data' = [data EXCEPT ![d] = v] /\ from # NoFile
      BY <1>7, <2>6, Types DEF Succeed
    <3>2. job[j].from \in JobNames /\ (job[j].from \in known[d] \/ d \in strayed)
      BY <2>1, <2>6 DEF JobOwn
    <3>3. /\ from \in FileRecord /\ from.db \in Dbs /\ (from.db = d \/ d \in strayed)
          /\ from.whole => OfIts(from.db, from.version)
      BY <2>1, <3>1, <3>2, Types, DbsAssumption DEF KnownOwn, FileOwn
    <3>4. v \in Dbs \X (0..MaxData + 1) /\ OfIts(d, v)
      BY <2>1, <3>3, DataTypes DEF FileRecord, OfIts
    <3>5. f \in FileRecord /\ f = file[j]
      BY Types
    <3> HIDE DEF r, f, v
    <3> QED
      BY <2>1, <2>2, <2>3, <2>4, <2>6, <3>1, <3>4, <3>5, GoesOn
  <2> QED
    BY <2>5, <2>6
<1>8. ASSUME NEW j \in JobNames, Fail(j) PROVE BackupsInv'
  <2> DEFINE d == job[j].db
             c == IF job[j].failures + 1 = MaxTries THEN "failed" ELSE "none"
             r == [job[j] EXCEPT !.active = FALSE, !.failures = job[j].failures + 1, !.snapshot = Nothing,
                                !.condition = c]
             f == file[j]
  <2>1. /\ Exists(j) /\ d \in Dbs /\ job[j] \in JobRecord
        /\ job[j].failures \in Nat /\ job[j].failures < MaxTries
    <3>1. job[j].active /\ Exists(j)
      BY <1>8 DEF Fail, Exists, NoJob
    <3> QED
      BY <3>1, Types, BoundsAssumption DEF JobOwn, TriesLeft, JobRecord
  <2>2. /\ job' = [job EXCEPT ![j] = r] /\ file' = [file EXCEPT ![j] = f] /\ UNCHANGED <<now, data, known, strayed>>
    BY <1>8, Types DEF Fail
  <2>3. /\ r \in JobRecord /\ r.db = d /\ r.kind = job[j].kind /\ r.from = job[j].from /\ ~r.active
        /\ r.condition = c /\ r.failures = job[j].failures + 1
    <3>1. c \in {"none", "complete", "failed"} /\ job[j].failures + 1 \in 0..MaxTries
      BY <2>1, BoundsAssumption
    <3> HIDE DEF c
    <3> QED
      BY <2>1, <3>1 DEF JobRecord, Data
  <2>4. c # "complete" /\ (c # "failed" => job[j].failures + 1 < MaxTries)
    BY <2>1, BoundsAssumption
  <2>5. data[d] \in Dbs \X (0..MaxData + 1) /\ OfIts(d, data[d]) /\ f \in FileRecord /\ f = file[j]
    BY <2>1, Types DEF NoCrossRestore, OfIts
  <2> HIDE DEF r, f, c
  <2> QED
    BY <2>1, <2>2, <2>3, <2>4, <2>5, GoesOn
<1>9. ASSUME NEW j \in JobNames, Expire(j) PROVE BackupsInv'
  <2>1. /\ job' = [job EXCEPT ![j] = NoJob] /\ UNCHANGED <<now, data, file, known, strayed>> /\ j[3] < now
    BY <1>9 DEF Expire
  <2>2. job'[j] = NoJob /\ \A i \in JobNames \ {j} : job'[i] = job[i]
    BY <2>1, Types
  <2>3. BackupsTypeOK'
    BY <2>1, Types, TypesNext, NoneTypes
  <2>4. FutureFree'
    BY <2>1, <2>2, Types, BoundsAssumption DEF FutureFree, Exists, JobNames
  <2>5. TriesLeft'
    BY <2>1, <2>2, BoundsAssumption DEF TriesLeft, NoJob
  <2> QED
    BY <2>1, <2>2, <2>3, <2>4, <2>5 DEF JobOwn, FileOwn, KnownOwn, NoCrossRestore, Exists, OfIts
<1>10. CASE UNCHANGED backupVars
  BY <1>10 DEF backupVars, BackupsTypeOK, JobOwn, FileOwn, KnownOwn, FutureFree, TriesLeft,
               NoCrossRestore, Exists, OfIts
<1> QED
  BY <1>1, <1>2, <1>3, <1>4, <1>5, <1>6, <1>7, <1>8, <1>9, <1>10 DEF BackupsNext

\* The invariant (BackupsSpec).
LEMMA BackupsInvariant == BackupsSpec => []BackupsInv
  BY BackupsInitInv, BackupsStep, PTL DEF BackupsSpec

\* Types (BackupsTypeOK).
THEOREM BackupsTypeCorrect == BackupsSpec => []BackupsTypeOK
<1>1. BackupsInv => BackupsTypeOK
  BY DEF BackupsInv
<1> QED
  BY <1>1, BackupsInvariant, PTL

\* A backup that is listed as succeeded is a whole dump of its database (jobPhase).
THEOREM PhaseIsHonest == BackupsSpec => []PhaseHonest
<1>1. BackupsInv => PhaseHonest
  BY DEF BackupsInv, JobOwn, PhaseHonest, jobPhase, Exists, NoJob
<1> QED
  BY <1>1, BackupsInvariant, PTL

\* The names that a client is given are those of its own database's dumps (BackupDatabase,
\* ListDatabaseBackups).
THEOREM NamesStayOwn == BackupsSpec => []NamesAreOwn
<1>1. BackupsInv => NamesAreOwn
  BY DEF BackupsInv, KnownOwn, NamesAreOwn
<1> QED
  BY <1>1, BackupsInvariant, PTL

\* A database whose client restores only by names it was told is never given what another
\* held, whatever names the others restore by (RestoreDatabase).
THEOREM RestoresStayOwn == BackupsSpec => []NoCrossRestore
<1>1. BackupsInv => NoCrossRestore
  BY DEF BackupsInv
<1> QED
  BY <1>1, BackupsInvariant, PTL

\* Both of the above: the names told are of own dumps, and restores by them stay apart
\* (ListDatabaseBackups, RestoreDatabase).
THEOREM DumpsAreOwn == BackupsSpec => []DumpsStayOwn
<1>1. NamesAreOwn /\ NoCrossRestore => DumpsStayOwn
  BY DEF DumpsStayOwn
<1> QED
  BY <1>1, NamesStayOwn, RestoresStayOwn, PTL


=============================================================================
