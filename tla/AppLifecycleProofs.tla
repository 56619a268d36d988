-------------------------- MODULE AppLifecycleProofs --------------------------
(***************************************************************************)
(* The life of an app for any number of requests, builds and images, with  *)
(* aborts anywhere: its types, that nothing is deployed on a closed gate,  *)
(* that a stopped app stays stopped, that a deleted one does not come back.*)
(*                                                                         *)
(* The invariant says of each process where its operation may be and what  *)
(* it holds (Placed), and of a process that has read the row since it was  *)
(* stopped that it will not revive it (Halted). The last part is about one *)
(* request at a time, beside the reconciler: then row, cluster and history *)
(* agree whenever the request is over (Alone).                             *)
(***************************************************************************)
EXTENDS AppLifecycle, TLAPS

OpNames == {"create", "deploy", "stop", "restart", "delete", "update", "scale", "rollback", None}

\* The places of operation o of a request.
OpAt(o, l) ==
    \/ o = "create" /\ l \in {"apply", "insert", "startBuild", "record"}
    \/ o = "deploy" /\ l \in {"apply", "put", "startBuild", "record"}
    \/ o = "stop" /\ l \in {"pause", "scaleDown", "put"}
    \/ o = "restart" /\ l \in {"read", "bounce", "put"}
    \/ o = "delete" /\ l \in {"uninstall", "drop"}
    \/ o = "update" /\ l \in {"get", "put", "apply", "record"}
    \/ o = "scale" /\ l \in {"get", "put", "gate", "apply", "record"}
    \/ o = "rollback" /\ l \in {"get", "put", "apply", "record"}

BuildPlaces == {"idle", "build", "builtRead", "imagePut", "gate", "apply", "blockGet", "blockPut",
                "builtGet", "donePut", "failGet", "failPut", "failBuild", "record"}
TickPlaces == {"idle", "status", "put"}
Labels == BuildPlaces \union TickPlaces \union
          {"insert", "startBuild", "pause", "scaleDown", "read", "bounce", "uninstall", "drop", "get"}

\* The places at which a process holds no row that it will use.
Rowless == {"idle", "build", "builtRead", "builtGet", "failGet", "failBuild"}

\* Process p at l, performing o with copy a of the row, having shipped s.
Placed(p, l, o, a, s) ==
    /\ l = "idle" => o = None /\ a = NoRow
    /\ l \notin Rowless => a \in Row
    /\ p \in Reqs => (IF l = "idle" THEN s = None ELSE OpAt(o, l))
    /\ p \in Builds => o = None /\ l \in BuildPlaces
    /\ p = Reconciler => o = None /\ l \in TickPlaces
    /\ l = "startBuild" => s = None
    /\ o = "create" => a.status # "stopped" /\ s \in {None, a.image} /\ (l = "apply" => a.image # None)
    /\ o \in {"update", "scale", "rollback"} /\ s # None => a.status # "stopped"
    /\ o = "scale" /\ l \in {"gate", "apply"} => a.status # "stopped"

\* A process that knows that the app is stopped, or that may start it.
Halted(p, l, o, a) ==
    \/ l = "idle"
    \/ o \in {"deploy", "restart"}
    \/ /\ o \in {"stop", "delete", "update", "scale", "rollback"}
       /\ l \in {"pause", "scaleDown", "put", "uninstall", "drop", "get"}
       /\ a.status = "stopped"
    \/ /\ p \in Builds
       /\ \/ l \in {"build", "builtRead", "failGet", "failBuild"}
          \/ l = "imagePut" /\ a.status = "stopped"

Typed ==
    /\ pc \in [Procs -> Labels] /\ op \in [Procs -> OpNames]
    /\ app \in [Procs -> Row \union {NoRow}]
    /\ shipped \in [Procs -> AllImages \union {None}]
    /\ row \in Row \union {NoRow} /\ born \in BOOLEAN /\ sub \in BOOLEAN
    /\ stale \subseteq {p \in Procs : pc[p] # "idle"}
    /\ old \subseteq {p \in Procs : pc[p] # "idle"}

AllPlaced == \A p \in Procs : Placed(p, pc[p], op[p], app[p], shipped[p])

\* Who is to deploy has passed the gate since it closed, or was under way.
AllGated == \A p \in Procs : op[p] = "update" \/ pc[p] = "apply" => sub \/ p \in old

AllHalted == row.status = "stopped" => \A p \in Procs \ stale : Halted(p, pc[p], op[p], app[p])

\* The app is created once, by one request, before there is a row.
CreatedOnce ==
    /\ ~born => row = NoRow /\ \A p \in Procs : op[p] # "create"
    /\ \A p, q \in Procs : op[p] = "create" /\ op[q] = "create" => p = q
    /\ \A p \in Procs : op[p] = "create" /\ pc[p] \in {"apply", "insert"} => row = NoRow

LocalInv == Typed /\ AllPlaced /\ AllGated /\ AllHalted /\ CreatedOnce

StoreTypes ==
    /\ hist \in Seq([image : AllImages \cup {None}, live : BOOLEAN])
    /\ build \in [Builds -> {None, "building", "succeeded", "failed", "deleted"}]
    /\ cluster \in [image : AllImages \cup {None}, paused : BOOLEAN, pods : {"zero", "pending", "ready"}]

Inv == LocalInv /\ StoreTypes

-----------------------------------------------------------------------------
(* A process moves.                                                        *)

Moves(p, l, o, a, s) ==
    /\ pc' = [pc EXCEPT ![p] = l] /\ op' = [op EXCEPT ![p] = o]
    /\ app' = [app EXCEPT ![p] = a] /\ shipped' = [shipped EXCEPT ![p] = s]

\* The other processes are where they were (Goto, Begin).
LEMMA OthersStay ==
    ASSUME Typed, NEW p \in Procs, NEW l, NEW o, NEW a, NEW s, Moves(p, l, o, a, s)
    PROVE  /\ pc'[p] = l /\ op'[p] = o /\ app'[p] = a /\ shipped'[p] = s
           /\ \A q \in Procs \ {p} :
                 pc'[q] = pc[q] /\ op'[q] = op[q] /\ app'[q] = app[q] /\ shipped'[q] = shipped[q]
  BY DEF Typed, Moves

\* The status of no row (NoRow).
LEMMA RowStatus == NoRow.status = "absent" /\ NoRow \notin Row /\ \A a \in Row : a.status # "absent"
  BY DEF NoRow, Row, Statuses

\* A process moves while the row and the gate stay as they are (Goto, Begin).
LEMMA Moved ==
    ASSUME LocalInv, NEW p \in Procs, NEW l \in Labels, NEW o \in OpNames, NEW a \in Row \union {NoRow},
           NEW s \in AllImages \union {None}, Moves(p, l, o, a, s), Placed(p, l, o, a, s),
           UNCHANGED <<row, sub>>,
           born' = born \/ (~born /\ born' = TRUE /\ o = "create"),
           o = "create" => \/ ~born /\ born' = TRUE
                           \/ op[p] = "create" /\ (l \in {"apply", "insert"} => pc[p] \in {"apply", "insert"}),
           old' = old \/ old' = old \ {p}, stale' = stale \/ stale' = stale \ {p},
           l = "idle" => p \notin old' /\ p \notin stale',
           o = "update" \/ l = "apply" => sub \/ p \in old',
           row.status = "stopped" /\ p \notin stale' => Halted(p, l, o, a)
    PROVE  LocalInv'
<1> USE DEF LocalInv
<1>1. /\ pc'[p] = l /\ op'[p] = o /\ app'[p] = a /\ shipped'[p] = s
      /\ \A q \in Procs \ {p} :
            pc'[q] = pc[q] /\ op'[q] = op[q] /\ app'[q] = app[q] /\ shipped'[q] = shipped[q]
  BY OthersStay
<1>2. Typed'
  <2>1. pc' \in [Procs -> Labels] /\ op' \in [Procs -> OpNames]
    BY DEF Typed, Moves
  <2>2. app' \in [Procs -> Row \union {NoRow}] /\ shipped' \in [Procs -> AllImages \union {None}]
    BY DEF Typed, Moves
  <2>3. stale' \subseteq {q \in Procs : pc'[q] # "idle"} /\ old' \subseteq {q \in Procs : pc'[q] # "idle"}
    BY <1>1 DEF Typed
  <2> QED
    BY <2>1, <2>2, <2>3 DEF Typed
<1>3. AllPlaced'
  <2> SUFFICES ASSUME NEW q \in Procs PROVE Placed(q, pc'[q], op'[q], app'[q], shipped'[q])
    BY DEF AllPlaced, Placed
  <2> QED
    BY <1>1 DEF AllPlaced
<1>4. AllGated'
  BY <1>1 DEF AllGated
<1>5. AllHalted'
  <2> SUFFICES ASSUME row.status = "stopped", NEW q \in Procs \ stale'
               PROVE  Halted(q, pc'[q], op'[q], app'[q])
    BY DEF AllHalted, Halted
  <2>1. CASE q = p
    BY <1>1, <2>1
  <2>2. CASE q # p
    BY <1>1, <2>2 DEF AllHalted
  <2> QED
    BY <2>1, <2>2
<1>6. CreatedOnce'
  BY <1>1 DEF CreatedOnce
<1> QED
  BY <1>2, <1>3, <1>4, <1>5, <1>6

\* The same of an operation that goes on, or ends (Goto).
LEMMA GoesOn ==
    ASSUME LocalInv, NEW p \in Procs, NEW l \in Labels, NEW a, Goto(p, l, a),
           UNCHANGED <<row, sub, born>>, Keep(p) \/ Fresh(p),
           l # "idle" => /\ a \in Row \union {NoRow}
                         /\ Placed(p, l, op[p], a, shipped[p])
                         /\ l = "apply" => sub \/ p \in old
                         /\ op[p] = "create" /\ l \in {"apply", "insert"} => pc[p] \in {"apply", "insert"}
                         /\ row.status = "stopped" /\ p \notin stale' => Halted(p, l, op[p], a)
    PROVE  LocalInv'
<1>1. /\ op \in [Procs -> OpNames] /\ pc \in [Procs -> Labels] /\ shipped \in [Procs -> AllImages \union {None}]
      /\ app \in [Procs -> Row \union {NoRow}]
  BY DEF LocalInv, Typed
<1>2. pc'[p] = l
  BY <1>1 DEF Goto
<1>3. CASE l = "idle"
  <2>1. Moves(p, l, None, NoRow, None) /\ old' = old \ {p} /\ stale' = stale \ {p}
    BY <1>2, <1>3 DEF Goto, Moves, Keep, Fresh
  <2>2. Placed(p, l, None, NoRow, None)
    BY <1>3, ProcsAssumption DEF Placed, Rowless, BuildPlaces, TickPlaces, None
  <2>3. Halted(p, l, None, NoRow)
    BY <1>3 DEF Halted
  <2>4. None \in OpNames /\ None # "create" /\ None # "update"
    BY DEF OpNames, None
  <2> QED
    BY <1>3, <2>1, <2>2, <2>3, <2>4, Moved
<1>4. CASE l # "idle"
  <2>1. Moves(p, l, op[p], a, shipped[p]) /\ old' = old /\ stale' \in {stale, stale \ {p}}
    BY <1>1, <1>2, <1>4 DEF Goto, Moves, Keep, Fresh
  <2>2. op[p] = "update" => sub \/ p \in old
    BY DEF LocalInv, AllGated
  <2>3. op[p] \in OpNames /\ shipped[p] \in AllImages \union {None}
    BY <1>1
  <2> QED
    BY <1>4, <2>1, <2>2, <2>3, Moved
<1> QED
  BY <1>3, <1>4

\* A request begins (Begin).
LEMMA Begun ==
    ASSUME LocalInv, NEW p \in Reqs, NEW o \in OpNames, NEW l \in Labels \ {"idle"}, NEW a \in Row,
           Begin(p, o, l, a), Placed(p, l, o, a, None),
           o = "create" => ~born /\ born' = TRUE,
           o # "create" => born' = born,
           o = "update" \/ l = "apply" => sub,
           row.status = "stopped" => Halted(p, l, o, a)
    PROVE  LocalInv'
<1>1. p \in Procs /\ pc[p] = "idle"
  BY DEF Begin, Procs
<1>2. shipped[p] = None
  BY <1>1 DEF LocalInv, AllPlaced, Placed
<1>3. Moves(p, l, o, a, None) /\ UNCHANGED <<row, sub, stale, old>>
  BY <1>1, <1>2 DEF Begin, Moves, LocalInv, Typed
<1> QED
  BY <1>1, <1>3, Moved

-----------------------------------------------------------------------------
(* Every step keeps the invariant.                                         *)

\* A copy of a row that exists, with what a request changes of it (UpdateApp, RollbackApp).
LEMMA Copies ==
    ASSUME LocalInv, Exists
    PROVE  /\ row \in Row
           /\ \A t \in Statuses : [row EXCEPT !.status = t] \in Row /\ [row EXCEPT !.status = t].status = t
           /\ \A i \in AllImages \union {None} :
                 [row EXCEPT !.image = i] \in Row /\ [row EXCEPT !.image = i].status = row.status
  BY DEF LocalInv, Typed, Exists, Row

\* A request that begins (Request).
LEMMA RequestStep == ASSUME LocalInv, hist \in Seq([image : AllImages \cup {None}, live : BOOLEAN]),
                            NEW p \in Reqs, Request(p)
                     PROVE  LocalInv'
<1> USE DEF OpNames, Labels, BuildPlaces, TickPlaces, Rowless, None
<1>0. p \notin Builds /\ p # Reconciler /\ p \in Procs
  BY ProcsAssumption DEF Procs
<1>1. ASSUME NEW i \in Images \cup {None}, NEW g \in Gits \cup {None}, Create(p, i, g) PROVE LocalInv'
  <2> DEFINE a == [status |-> "queued", deployed |-> FALSE, image |-> i, git |-> g]
             l == IF i # None THEN "apply" ELSE "insert"
  <2>1. a \in Row /\ a.status = "queued" /\ a.image = i
    BY DEF Row, Statuses, AllImages
  <2>2. Begin(p, "create", l, a) /\ ~born /\ born' = TRUE /\ sub
    BY <1>1 DEF Create
  <2>3. Placed(p, l, "create", a, None)
    BY <1>0, <2>1 DEF Placed, OpAt
  <2>4. row = NoRow
    BY <2>2 DEF LocalInv, CreatedOnce
  <2> HIDE DEF a
  <2> QED
    BY <2>1, <2>2, <2>3, <2>4, Begun, RowStatus
<1>2. ASSUME Deploy(p) PROVE LocalInv'
  <2>1. Exists /\ sub /\ born' = born
    BY <1>2 DEF Deploy
  <2>2. CASE Begin(p, "deploy", "apply", row)
    <3>1. Placed(p, "apply", "deploy", row, None)
      BY <1>0, <2>1, Copies DEF Placed, OpAt
    <3> QED
      BY <2>1, <2>2, <3>1, Begun, Copies DEF Halted
  <2>3. CASE Begin(p, "deploy", "put", [row EXCEPT !.status = "building"])
    <3>1. [row EXCEPT !.status = "building"] \in Row
      BY <2>1, Copies DEF Statuses
    <3>2. Placed(p, "put", "deploy", [row EXCEPT !.status = "building"], None)
      BY <1>0, <3>1 DEF Placed, OpAt
    <3> QED
      BY <2>1, <2>3, <3>1, <3>2, Begun DEF Halted
  <2> QED
    BY <1>2, <2>2, <2>3 DEF Deploy
<1>3. ASSUME Stop(p) PROVE LocalInv'
  <2> DEFINE a == [row EXCEPT !.status = "stopped"]
             l == IF row.deployed THEN "pause" ELSE "put"
  <2>1. Exists /\ born' = born /\ Begin(p, "stop", l, a)
    BY <1>3 DEF Stop
  <2>2. a \in Row /\ a.status = "stopped"
    BY <2>1, Copies DEF Statuses
  <2> HIDE DEF a
  <2>3. Placed(p, l, "stop", a, None) /\ Halted(p, l, "stop", a)
    BY <1>0, <2>2 DEF Placed, OpAt, Halted
  <2> QED
    BY <2>1, <2>2, <2>3, Begun
<1>4. ASSUME Restart(p) PROVE LocalInv'
  <2>1. Exists /\ born' = born /\ Begin(p, "restart", "read", row)
    BY <1>4 DEF Restart
  <2>2. Placed(p, "read", "restart", row, None) /\ Halted(p, "read", "restart", row)
    BY <1>0, <2>1, Copies DEF Placed, OpAt, Halted
  <2> QED
    BY <2>1, <2>2, Begun, Copies
<1>5. ASSUME Delete(p) PROVE LocalInv'
  <2> DEFINE l == IF row.deployed THEN "uninstall" ELSE "drop"
  <2>1. Exists /\ born' = born /\ Begin(p, "delete", l, row)
    BY <1>5 DEF Delete
  <2>2. Placed(p, l, "delete", row, None)
    BY <1>0, <2>1, Copies DEF Placed, OpAt
  <2>3. row.status = "stopped" => Halted(p, l, "delete", row)
    BY DEF Halted
  <2> QED
    BY <2>1, <2>2, <2>3, Begun, Copies
<1>6. ASSUME NEW i \in Images \cup {None}, NEW g \in Gits \cup {None}, Update(p, i, g) PROVE LocalInv'
  <2> DEFINE a == [row EXCEPT !.image = IF i # None THEN i ELSE @, !.git = IF g # None THEN g ELSE @]
  <2>1. Exists /\ sub /\ born' = born /\ Begin(p, "update", "get", a)
    BY <1>6 DEF Update
  <2>2. a \in Row /\ a.status = row.status
    BY <2>1, Copies DEF Row, AllImages
  <2> HIDE DEF a
  <2>3. Placed(p, "get", "update", a, None) /\ (row.status = "stopped" => Halted(p, "get", "update", a))
    BY <1>0, <2>2 DEF Placed, OpAt, Halted
  <2> QED
    BY <2>1, <2>2, <2>3, Begun
<1>7. ASSUME Scale(p) PROVE LocalInv'
  <2>1. Exists /\ born' = born /\ Begin(p, "scale", "get", row)
    BY <1>7 DEF Scale
  <2>2. Placed(p, "get", "scale", row, None) /\ (row.status = "stopped" => Halted(p, "get", "scale", row))
    BY <1>0, <2>1, Copies DEF Placed, OpAt, Halted
  <2> QED
    BY <2>1, <2>2, Begun, Copies
<1>8. ASSUME NEW revision \in 0..Len(hist), Rollback(p, revision) PROVE LocalInv'
  <2>1. /\ Exists /\ sub /\ born' = born
        /\ \E r \in DOMAIN hist :
              Begin(p, "rollback", IF row.status = "stopped" THEN "get" ELSE "apply",
                    [row EXCEPT !.image = hist[r].image])
    BY <1>8 DEF Rollback, pickRollbackTarget
  <2>2. PICK i \in AllImages \union {None} :
              Begin(p, "rollback", IF row.status = "stopped" THEN "get" ELSE "apply", [row EXCEPT !.image = i])
    <3>1. \A r \in DOMAIN hist : hist[r].image \in AllImages \union {None}
      <4> DEFINE R == [image : AllImages \cup {None}, live : BOOLEAN]
      <4>1. hist \in Seq(R) /\ \A r \in R : r.image \in AllImages \union {None}
        OBVIOUS
      <4> HIDE DEF R
      <4>2. \A r \in DOMAIN hist : hist[r] \in R
        BY <4>1
      <4> QED
        BY <4>1, <4>2
    <3> QED
      BY <2>1, <3>1
  <2> DEFINE a == [row EXCEPT !.image = i]
             l == IF row.status = "stopped" THEN "get" ELSE "apply"
  <2>3. a \in Row /\ a.status = row.status
    BY <2>1, Copies
  <2> HIDE DEF a
  <2>4. Placed(p, l, "rollback", a, None) /\ (row.status = "stopped" => Halted(p, l, "rollback", a))
    BY <1>0, <2>3 DEF Placed, OpAt, Halted
  <2>5. Begin(p, "rollback", l, a)
    BY <2>2 DEF a
  <2> QED
    BY <2>1, <2>3, <2>4, <2>5, Begun
<1> QED
  BY <1>1, <1>2, <1>3, <1>4, <1>5, <1>6, <1>7, <1>8 DEF Request

\* The places are those of the process's own kind (Reqs, Builds, Reconciler).
LEMMA Kinds ==
    ASSUME LocalInv, NEW p \in Procs
    PROVE  /\ Placed(p, pc[p], op[p], app[p], shipped[p])
           /\ pc[p] \in Labels /\ op[p] \in OpNames /\ app[p] \in Row \union {NoRow}
           /\ p \in Reqs \/ p \in Builds \/ p = Reconciler
           /\ p \in Reqs => p \notin Builds /\ p # Reconciler
           /\ p \in Builds => p # Reconciler
           /\ row.status = "stopped" /\ p \notin stale => Halted(p, pc[p], op[p], app[p])
           /\ pc[p] # "idle" /\ pc[p] \notin Rowless => app[p] \in Row
  BY ProcsAssumption DEF LocalInv, Typed, AllPlaced, AllHalted, Procs, Placed

\* Where a process goes once it has written the row (UpdateApp).
LEMMA PutLeads ==
    ASSUME LocalInv, NEW p \in Procs, pc[p] \in {"put", "imagePut", "blockPut", "donePut", "failPut"}
    PROVE  /\ AfterPut(p) \in Labels /\ AfterPut(p) # pc[p]
           /\ AfterPut(p) # "idle" => Placed(p, AfterPut(p), op[p], app[p], shipped[p])
           /\ AfterPut(p) = "apply" => op[p] = "update"
           /\ op[p] # "create" /\ app[p] \in Row
           /\ (p \notin stale /\ row.status = "stopped" =>
                  \/ op[p] \in {"deploy", "restart"}
                  \/ app[p].status = "stopped" /\ AfterPut(p) = "idle")
  <1> USE DEF OpNames, Labels, BuildPlaces, TickPlaces, Rowless, None
  <1>1. CASE p \in Reqs
    <2>1. Placed(p, pc[p], op[p], app[p], shipped[p]) /\ p \notin Builds /\ p # Reconciler /\ app[p] \in Row
      BY <1>1, Kinds
    <2>2. pc[p] = "put" /\ op[p] \in {"deploy", "stop", "restart", "update", "scale", "rollback"}
      BY <1>1, <2>1 DEF Placed, OpAt
    <2>3. row.status = "stopped" /\ p \notin stale => Halted(p, pc[p], op[p], app[p])
      BY Kinds
    <2>4. app[p].status = "stopped" => ~Redeployable(app[p])
      BY DEF Redeployable
    <2>5. ~Redeployable(app[p]) \/ app[p].status # "stopped"
      BY <2>4
    <2>6. CASE op[p] \in {"deploy", "stop", "restart"}
      BY <1>1, <2>1, <2>2, <2>3, <2>6 DEF AfterPut, Placed, OpAt, Halted
    <2>7. CASE op[p] = "update"
      BY <1>1, <2>1, <2>2, <2>3, <2>5, <2>7 DEF AfterPut, Placed, OpAt, Halted
    <2>8. CASE op[p] = "scale"
      BY <1>1, <2>1, <2>2, <2>3, <2>5, <2>8 DEF AfterPut, Placed, OpAt, Halted
    <2>9. CASE op[p] = "rollback"
      BY <1>1, <2>1, <2>2, <2>3, <2>5, <2>9 DEF AfterPut, Placed, OpAt, Halted
    <2> QED
      BY <2>2, <2>6, <2>7, <2>8, <2>9
  <1>2. CASE p \in Builds \/ p = Reconciler
    <2>1. /\ Placed(p, pc[p], op[p], app[p], shipped[p]) /\ p \notin Reqs /\ app[p] \in Row
          /\ p \in Builds => p # Reconciler
      BY <1>2, Kinds
    <2>2. op[p] = None
      BY <1>2, <2>1 DEF Placed
    <2>3. row.status = "stopped" /\ p \notin stale => Halted(p, pc[p], op[p], app[p])
      BY Kinds
    <2>4. p = Reconciler => pc[p] = "put"
      BY <2>1 DEF Placed
    <2> QED
      BY <1>2, <2>1, <2>2, <2>3, <2>4 DEF AfterPut, Placed, Halted
  <1> QED
    BY <1>1, <1>2, Kinds

\* UpdateApp writes the whole copy, or finds no row (UpdateApp).
LEMMA PutStep == ASSUME LocalInv, NEW p \in Procs, Put(p) PROVE LocalInv'
<1> DEFINE l == AfterPut(p)
<1>1. pc[p] \in {"put", "imagePut", "blockPut", "donePut", "failPut"} /\ UNCHANGED <<sub, born>>
  BY DEF Put
<1>2. CASE ~Exists
  <2>1. row = NoRow /\ row' = NoRow /\ row.status = "absent"
    BY <1>2, RowStatus DEF Put, Exists
  <2>2. Goto(p, AfterMissing(p), app[p]) /\ Keep(p)
    BY <1>2, <2>1 DEF Put, Keep
  <2>3. AfterMissing(p) \in Labels /\ AfterMissing(p) \in {"idle", AfterPut(p)}
    BY <1>1, PutLeads DEF AfterMissing, Labels, BuildPlaces
  <2>4. app[p] \in Row /\ op[p] # "create"
    BY <1>1, PutLeads
  <2>5. AfterMissing(p) # "idle" => Placed(p, AfterMissing(p), op[p], app[p], shipped[p])
    BY <1>1, <2>3, PutLeads
  <2>6. AfterMissing(p) = "apply" => sub \/ p \in old
    BY <1>1, <2>3, PutLeads DEF LocalInv, AllGated
  <2> HIDE DEF l
  <2> QED
    BY <1>1, <2>1, <2>2, <2>3, <2>4, <2>5, <2>6, GoesOn
<1>3. CASE Exists
  <2>1. /\ row' = app[p] /\ Goto(p, l, app[p]) /\ row # NoRow
        /\ stale' = IF row'.status = "stopped" /\ row.status # "stopped"
                    THEN {q \in Procs : pc'[q] # "idle"}
                    ELSE IF pc'[p] = "idle" THEN stale \ {p} ELSE stale
    BY <1>3 DEF Put, Exists
  <2>2. /\ l \in Labels /\ l # pc[p] /\ (l # "idle" => Placed(p, l, op[p], app[p], shipped[p]))
        /\ (l = "apply" => op[p] = "update") /\ op[p] # "create" /\ app[p] \in Row
    BY <1>1, PutLeads
  <2> DEFINE o == IF l = "idle" THEN None ELSE op[p]
             b == IF l = "idle" THEN NoRow ELSE app[p]
             s == IF l = "idle" THEN None ELSE shipped[p]
  <2>3. /\ Moves(p, l, o, b, s) /\ old' = IF l = "idle" THEN old \ {p} ELSE old
    BY <2>1 DEF Goto, Moves, LocalInv, Typed
  <2>4. /\ l \in Labels /\ o \in OpNames /\ b \in Row \union {NoRow} /\ s \in AllImages \union {None}
    BY <2>2, Kinds DEF OpNames, None, LocalInv, Typed
  <2>5. Placed(p, l, o, b, s)
    BY <2>2, ProcsAssumption DEF Placed, Rowless, BuildPlaces, TickPlaces, None
  <2>6. /\ (l = "idle" => o = None /\ b = NoRow) /\ (l # "idle" => o = op[p] /\ b = app[p])
        /\ o # "create" /\ (o = "update" => op[p] = "update" /\ l # "idle")
    BY <2>2 DEF None
  <2>7. row.status = "stopped" /\ p \notin stale =>
            op[p] \in {"deploy", "restart"} \/ l = "idle"
    BY <1>1, PutLeads
  <2> HIDE DEF l, o, b, s
  <2>8. /\ pc'[p] = l /\ op'[p] = o /\ app'[p] = b /\ shipped'[p] = s
        /\ \A q \in Procs \ {p} :
              pc'[q] = pc[q] /\ op'[q] = op[q] /\ app'[q] = app[q] /\ shipped'[q] = shipped[q]
    BY <2>3, OthersStay DEF LocalInv
  <2>9. Typed'
    <3>1. pc' \in [Procs -> Labels] /\ op' \in [Procs -> OpNames]
      BY <2>3, <2>4 DEF Typed, Moves, LocalInv
    <3>2. app' \in [Procs -> Row \union {NoRow}] /\ shipped' \in [Procs -> AllImages \union {None}]
      BY <2>3, <2>4 DEF Typed, Moves, LocalInv
    <3>3. old' \subseteq {q \in Procs : pc'[q] # "idle"}
      BY <2>3, <2>8 DEF Typed, LocalInv
    <3>4. stale' \subseteq {q \in Procs : pc'[q] # "idle"}
      BY <2>1, <2>8 DEF Typed, LocalInv
    <3> QED
      BY <1>1, <2>1, <2>2, <3>1, <3>2, <3>3, <3>4 DEF Typed, LocalInv
  <2>10. AllPlaced'
    <3> SUFFICES ASSUME NEW q \in Procs PROVE Placed(q, pc'[q], op'[q], app'[q], shipped'[q])
      BY DEF AllPlaced, Placed
    <3> QED
      BY <2>5, <2>8 DEF AllPlaced, LocalInv
  <2>11. AllGated'
    BY <1>1, <2>2, <2>3, <2>6, <2>8 DEF AllGated, LocalInv
  <2>12. AllHalted'
    <3> SUFFICES ASSUME row'.status = "stopped", NEW q \in Procs \ stale'
                 PROVE  Halted(q, pc'[q], op'[q], app'[q])
      BY DEF AllHalted, Halted
    <3>1. CASE row.status # "stopped"
      BY <2>1, <3>1 DEF Halted
    <3>2. CASE row.status = "stopped" /\ q = p
      <4>1. l = "idle" \/ o \in {"deploy", "restart"}
        <5>1. CASE p \in stale
          BY <2>1, <2>8, <3>2, <5>1
        <5>2. CASE p \notin stale
          BY <2>6, <2>7, <3>2, <5>2
        <5> QED
          BY <5>1, <5>2
      <4> QED
        BY <2>8, <3>2, <4>1 DEF Halted
    <3>3. CASE row.status = "stopped" /\ q # p
      BY <2>1, <2>8, <3>3 DEF AllHalted, LocalInv
    <3> QED
      BY <3>1, <3>2, <3>3
  <2>13. CreatedOnce'
    BY <1>1, <2>1, <2>6, <2>8 DEF CreatedOnce, LocalInv
  <2> QED
    BY <2>9, <2>10, <2>11, <2>12, <2>13 DEF LocalInv
<1> QED
  BY <1>2, <1>3

\* The row is created or dropped, and the operation goes on or ends (CreateApp, DeleteApp).
LEMMA RowMoved ==
    ASSUME LocalInv, NEW p \in Procs, NEW l \in Labels, NEW a \in Row, Goto(p, l, a), Keep(p),
           row' \in Row \union {NoRow}, row'.status # "stopped", UNCHANGED <<sub, born>>,
           l # "idle" => Placed(p, l, op[p], a, shipped[p]),
           row' # NoRow => op[p] = "create" /\ l \in {"idle", "startBuild", "record"},
           l # "apply"
    PROVE  LocalInv'
<1> USE DEF LocalInv
<1> DEFINE o == IF l = "idle" THEN None ELSE op[p]
           b == IF l = "idle" THEN NoRow ELSE a
           s == IF l = "idle" THEN None ELSE shipped[p]
<1>1. /\ Moves(p, l, o, b, s) /\ old' = IF l = "idle" THEN old \ {p} ELSE old
  BY DEF Goto, Moves, Typed
<1>2. /\ o \in OpNames /\ b \in Row \union {NoRow} /\ s \in AllImages \union {None}
      /\ o \in {None, op[p]} /\ (l = "idle" => o = None)
  BY DEF OpNames, None, Typed
<1>3. Placed(p, l, o, b, s)
  BY ProcsAssumption DEF Placed, Rowless, BuildPlaces, TickPlaces, None
<1> HIDE DEF o, b, s
<1>4. /\ pc'[p] = l /\ op'[p] = o /\ app'[p] = b /\ shipped'[p] = s
      /\ \A q \in Procs \ {p} :
            pc'[q] = pc[q] /\ op'[q] = op[q] /\ app'[q] = app[q] /\ shipped'[q] = shipped[q]
  BY <1>1, OthersStay
<1>5. Typed'
  <2>1. pc' \in [Procs -> Labels] /\ op' \in [Procs -> OpNames]
    BY <1>1, <1>2 DEF Typed, Moves
  <2>2. app' \in [Procs -> Row \union {NoRow}] /\ shipped' \in [Procs -> AllImages \union {None}]
    BY <1>1, <1>2 DEF Typed, Moves
  <2>3. old' \subseteq {q \in Procs : pc'[q] # "idle"} /\ stale' \subseteq {q \in Procs : pc'[q] # "idle"}
    BY <1>1, <1>4 DEF Typed, Keep
  <2> QED
    BY <2>1, <2>2, <2>3 DEF Typed
<1>6. AllPlaced'
  <2> SUFFICES ASSUME NEW q \in Procs PROVE Placed(q, pc'[q], op'[q], app'[q], shipped'[q])
    BY DEF AllPlaced, Placed
  <2> QED
    BY <1>3, <1>4 DEF AllPlaced
<1>7. AllGated'
  BY <1>1, <1>2, <1>4 DEF AllGated, None
<1>8. AllHalted'
  BY DEF AllHalted
<1>9. CreatedOnce'
  <2>1. \A q \in Procs : op'[q] = "create" => op[q] = "create"
    BY <1>2, <1>4 DEF None
  <2>2. row' # NoRow => born
    BY DEF CreatedOnce
  <2>3. ASSUME row' # NoRow, NEW q \in Procs, op'[q] = "create", pc'[q] \in {"apply", "insert"} PROVE FALSE
    BY <1>4, <2>1, <2>3 DEF CreatedOnce
  <2> QED
    BY <2>1, <2>2, <2>3 DEF CreatedOnce
<1> QED
  BY <1>5, <1>6, <1>7, <1>8, <1>9

\* A store call or a cluster call of a request or a build (Step).
LEMMA StepStep == ASSUME LocalInv, NEW p \in Procs, Step(p) PROVE LocalInv'
<1> USE DEF OpNames, Labels, BuildPlaces, TickPlaces, Rowless, None
<1>0. /\ Placed(p, pc[p], op[p], app[p], shipped[p])
      /\ pc[p] \in Labels /\ op[p] \in OpNames /\ app[p] \in Row \union {NoRow}
      /\ p \in Reqs \/ p \in Builds \/ p = Reconciler
      /\ p \in Reqs => p \notin Builds /\ p # Reconciler
      /\ p \in Builds => p # Reconciler
      /\ row.status = "stopped" /\ p \notin stale => Halted(p, pc[p], op[p], app[p])
      /\ pc[p] # "idle" /\ pc[p] \notin Rowless => app[p] \in Row
  BY Kinds
<1>1. \A l, a : Goto(p, l, a) /\ Keep(p) /\ l # "idle" => stale' = stale
  BY DEF Keep, Goto, LocalInv, Typed
<1>2. CASE ReadAgain(p)
  <2>1. pc[p] = "read" /\ Fresh(p) /\ UNCHANGED <<row, sub, born>>
    BY <1>2 DEF ReadAgain, store
  <2>2. op[p] = "restart" /\ p \in Reqs
    BY <1>0, <2>1 DEF Placed, OpAt
  <2>3. CASE Exists
    <3> DEFINE a == [row EXCEPT !.status = "restarting"]
               l == IF row.deployed THEN "bounce" ELSE "put"
    <3>1. a \in Row /\ Goto(p, l, a)
      BY <1>2, <2>3, Copies DEF ReadAgain, Statuses
    <3> HIDE DEF a
    <3>2. Placed(p, l, op[p], a, shipped[p]) /\ Halted(p, l, op[p], a)
      BY <1>0, <2>2, <3>1 DEF Placed, OpAt, Halted
    <3> QED
      BY <2>1, <2>2, <3>1, <3>2, GoesOn
  <2>4. CASE ~Exists
    BY <1>2, <2>1, <2>4, GoesOn DEF ReadAgain
  <2> QED
    BY <2>3, <2>4
<1>3. CASE Get(p)
  <2>1. pc[p] = "get" /\ Keep(p) /\ UNCHANGED <<row, sub, born>>
    BY <1>3 DEF Get, store
  <2>2. op[p] \in {"update", "scale", "rollback"} /\ p \in Reqs /\ app[p] \in Row
    BY <1>0, <2>1 DEF Placed, OpAt
  <2>3. CASE Exists
    <3> DEFINE a == [app[p] EXCEPT !.git = row.git]
    <3>1. Goto(p, "put", a)
      BY <1>3, <2>3 DEF Get
    <3>2. a \in Row /\ a.status = app[p].status
      BY <2>2, <2>3, Copies DEF Row
    <3> HIDE DEF a
    <3>3. Placed(p, "put", op[p], a, shipped[p])
      BY <1>0, <2>1, <2>2, <3>2 DEF Placed, OpAt
    <3>4. row.status = "stopped" /\ p \notin stale' => Halted(p, "put", op[p], a)
      BY <1>0, <1>1, <2>1, <2>2, <3>1, <3>2 DEF Halted
    <3> QED
      BY <2>1, <2>2, <3>1, <3>2, <3>3, <3>4, GoesOn
  <2>4. CASE ~Exists
    BY <1>3, <2>1, <2>4, GoesOn DEF Get
  <2> QED
    BY <2>3, <2>4
<1>4. CASE Put(p)
  BY <1>4, PutStep
<1>5. CASE Insert(p)
  <2> DEFINE builds == app[p].image = None /\ app[p].git # None
             a == IF builds THEN [app[p] EXCEPT !.status = "building"] ELSE app[p]
             l == IF builds THEN "startBuild" ELSE IF a.deployed THEN "record" ELSE "idle"
  <2>1. pc[p] = "insert" /\ Keep(p) /\ UNCHANGED <<sub, born>> /\ row' = a /\ Goto(p, l, a)
    BY <1>5 DEF Insert
  <2>2. op[p] = "create" /\ p \in Reqs /\ app[p] \in Row /\ app[p].status # "stopped" /\ shipped[p] \in {None, app[p].image}
    BY <1>0, <2>1 DEF Placed, OpAt
  <2>3. a \in Row /\ a.status # "stopped" /\ a.image = app[p].image
    BY <2>2 DEF Row, Statuses
  <2>4. l = "startBuild" => shipped[p] = None
    BY <2>2
  <2> HIDE DEF a, builds
  <2>5. l \in {"startBuild", "record", "idle"}
    OBVIOUS
  <2> HIDE DEF l
  <2>6. l # "idle" => Placed(p, l, op[p], a, shipped[p])
    BY <1>0, <2>2, <2>3, <2>4, <2>5 DEF Placed, OpAt
  <2> QED
    BY <2>1, <2>2, <2>3, <2>5, <2>6, RowMoved
<1>6. CASE StartBuild(p)
  <2>1. pc[p] = "startBuild" /\ UNCHANGED <<row, sub, born, shipped>> /\ p \in Reqs
    BY <1>0, <1>6 DEF StartBuild, Placed
  <2>2. shipped[p] = None
    BY <1>0, <2>1 DEF Placed
  <2>3. /\ app' = [app EXCEPT ![p] = NoRow] /\ op' = [op EXCEPT ![p] = None]
        /\ Keep(p) /\ old' = old \ {p}
    BY <1>6 DEF StartBuild
  <2>4. CASE pc' = [pc EXCEPT ![p] = "idle"]
    <3>1. Moves(p, "idle", None, NoRow, None) /\ stale' = stale \ {p}
      BY <2>1, <2>2, <2>3, <2>4 DEF Moves, Keep, LocalInv, Typed
    <3>2. Placed(p, "idle", None, NoRow, None) /\ Halted(p, "idle", None, NoRow)
      BY <1>0, <2>1 DEF Placed, Halted
    <3> QED
      BY <2>1, <2>3, <3>1, <3>2, Moved
  <2>5. ASSUME NEW b \in Builds, pc' = [pc EXCEPT ![b] = "build", ![p] = "idle"] PROVE LocalInv'
    <3>1. b \in Procs /\ b # p /\ b \notin Reqs /\ b # Reconciler /\ op[b] = None
      BY <2>1, Kinds, ProcsAssumption DEF Procs, Placed
    <3>2. /\ pc'[p] = "idle" /\ op'[p] = None /\ app'[p] = NoRow /\ pc'[b] = "build" /\ stale' = stale \ {p}
          /\ \A q \in Procs \ {p} : op'[q] = op[q] /\ app'[q] = app[q]
          /\ \A q \in Procs \ {p, b} : pc'[q] = pc[q]
      BY <2>3, <2>5, <3>1 DEF LocalInv, Typed, Keep
    <3>3. Typed'
      <4>1. pc' \in [Procs -> Labels] /\ op' \in [Procs -> OpNames]
        BY <2>3, <2>5 DEF LocalInv, Typed
      <4>2. app' \in [Procs -> Row \union {NoRow}] /\ shipped' \in [Procs -> AllImages \union {None}]
        BY <2>1, <2>3 DEF LocalInv, Typed
      <4>3. old' \subseteq {q \in Procs : pc'[q] # "idle"} /\ stale' \subseteq {q \in Procs : pc'[q] # "idle"}
        BY <2>3, <3>2 DEF LocalInv, Typed
      <4> QED
        BY <2>1, <4>1, <4>2, <4>3 DEF LocalInv, Typed
    <3>4. AllPlaced'
      <4> SUFFICES ASSUME NEW q \in Procs PROVE Placed(q, pc'[q], op'[q], app'[q], shipped'[q])
        BY DEF AllPlaced, Placed
      <4>1. CASE q = p
        BY <1>0, <2>1, <2>2, <3>2, <4>1 DEF Placed
      <4>2. CASE q = b
        BY <3>1, <3>2, <4>2 DEF Placed
      <4>3. CASE q \notin {p, b}
        BY <2>1, <3>2, <4>3 DEF AllPlaced, LocalInv
      <4> QED
        BY <4>1, <4>2, <4>3
    <3>5. AllGated'
      BY <2>1, <2>3, <3>1, <3>2 DEF AllGated, LocalInv
    <3>6. AllHalted'
      BY <2>1, <3>2 DEF AllHalted, LocalInv, Halted
    <3>7. CreatedOnce'
      BY <2>1, <3>1, <3>2 DEF CreatedOnce, LocalInv
    <3> QED
      BY <3>3, <3>4, <3>5, <3>6, <3>7 DEF LocalInv
  <2> QED
    BY <1>6, <2>4, <2>5 DEF StartBuild
<1>7. CASE Record(p)
  BY <1>7, GoesOn DEF Record
<1>8. CASE Drop(p)
  <2>1. pc[p] = "drop" /\ row' = NoRow /\ Goto(p, "idle", NoRow) /\ Keep(p) /\ UNCHANGED <<sub, born>>
    BY <1>8 DEF Drop
  <2>2. app[p] \in Row /\ Goto(p, "idle", app[p])
    BY <1>0, <2>1 DEF Goto
  <2> QED
    BY <2>1, <2>2, RowMoved, RowStatus
<1>9. CASE Gate(p)
  <2> DEFINE l == IF sub THEN "apply" ELSE IF p \in Builds THEN "blockGet" ELSE "idle"
  <2>1. pc[p] = "gate" /\ Keep(p) /\ UNCHANGED <<row, sub, born>> /\ Goto(p, l, app[p])
    BY <1>9 DEF Gate, store
  <2>2. app[p] \in Row /\ (p \in Builds \/ (p \in Reqs /\ op[p] = "scale")) /\ (p \notin Builds => op[p] = "scale")
        /\ (p \in Builds => op[p] = None)
    BY <1>0, <2>1 DEF Placed, OpAt
  <2>3. l # "idle" => Placed(p, l, op[p], app[p], shipped[p])
    BY <1>0, <2>1, <2>2 DEF Placed, OpAt
  <2>4. row.status = "stopped" => p \in stale
    BY <1>0, <2>1, <2>2 DEF Halted
  <2>5. l # "idle" => stale' = stale
    BY <1>1, <2>1
  <2>6. l \in Labels /\ (l = "apply" => sub) /\ app[p] \in Row \union {NoRow}
    BY <2>2
  <2>7. op[p] # "create"
    BY <2>2
  <2> HIDE DEF l
  <2> QED
    BY <2>1, <2>3, <2>4, <2>5, <2>6, <2>7, GoesOn
<1>10. CASE Apply(p)
  <2> DEFINE t == IF op[p] = "scale" THEN app[p].status ELSE "deploying"
             a == [app[p] EXCEPT !.deployed = TRUE, !.status = t]
             s == app[p].image
             l == AfterApply(p)
  <2>1. pc[p] = "apply" /\ UNCHANGED <<row, sub, born, op, stale, old>>
    BY <1>10 DEF Apply, store, ghosts
  <2>2. app[p] \in Row /\ (p \in Builds \/ (p \in Reqs /\ op[p] \in {"create", "deploy", "update", "scale", "rollback"}))
        /\ (p \in Builds => op[p] = None /\ p \notin Reqs) /\ (op[p] = "create" => app[p].image # None)
        /\ (op[p] = "scale" => app[p].status # "stopped") /\ p # Reconciler
    BY <1>0, <2>1 DEF Placed, OpAt
  <2>3. Moves(p, l, op[p], a, s)
    BY <1>10 DEF Apply, Moves, LocalInv, Typed
  <2>4. a \in Row /\ a.image = s /\ a.status = t /\ s \in AllImages \union {None}
    BY <2>2 DEF Row, Statuses
  <2>5. t # "stopped"
    BY <2>2
  <2>6. /\ l \in {"builtGet", "insert", "put", "get"}
        /\ l = "builtGet" <=> p \in Builds
        /\ op[p] = "create" => l = "insert"
        /\ op[p] = "deploy" => l = "put"
        /\ op[p] \in {"update", "scale", "rollback"} => l = "get"
    BY <2>2 DEF AfterApply
  <2> HIDE DEF a, s, l, t
  <2>7. Placed(p, l, op[p], a, s)
    BY <2>2, <2>4, <2>5, <2>6 DEF Placed, OpAt
  <2>8. row.status = "stopped" /\ p \notin stale => Halted(p, l, op[p], a)
    BY <1>0, <2>1, <2>2 DEF Halted
  <2>9. op[p] = "update" => sub \/ p \in old
    BY DEF LocalInv, AllGated
  <2>10. l \in Labels /\ l # "idle" /\ l # "apply" /\ op[p] \in OpNames /\ a \in Row \union {NoRow}
    BY <1>0, <2>4, <2>6
  <2> QED
    BY ONLY LocalInv, <2>1, <2>3, <2>4, <2>7, <2>8, <2>9, <2>10, Moved, p \in Procs
<1>11. CASE ApplyFails(p)
  <2> DEFINE l == IF p \in Builds THEN "builtGet" ELSE "idle"
  <2>1. pc[p] = "apply" /\ Keep(p) /\ UNCHANGED <<row, sub, born>> /\ Goto(p, l, app[p])
    BY <1>11 DEF ApplyFails, store
  <2>2. app[p] \in Row
    BY <1>0, <2>1
  <2>3. p \in Builds => op[p] = None /\ p \notin Reqs /\ p # Reconciler
    BY <1>0 DEF Placed
  <2>4. l # "idle" => Placed(p, l, op[p], app[p], shipped[p]) /\ (row.status = "stopped" => p \in stale) /\ stale' = stale
    BY <1>0, <1>1, <2>1, <2>3 DEF Placed, Halted
  <2>5. op[p] = "create" => l = "idle"
    BY <2>3
  <2> QED
    BY <2>1, <2>2, <2>4, <2>5, GoesOn
<1>12. CASE Pause(p)
  <2>1. pc[p] = "pause" /\ Keep(p) /\ UNCHANGED <<row, sub, born>> /\ Goto(p, "scaleDown", app[p])
    BY <1>12 DEF Pause, store
  <2>2. op[p] = "stop" /\ p \in Reqs /\ app[p] \in Row
    BY <1>0, <2>1 DEF Placed, OpAt
  <2>3. Placed(p, "scaleDown", op[p], app[p], shipped[p])
    BY <1>0, <2>2 DEF Placed, OpAt
  <2>4. row.status = "stopped" /\ p \notin stale' => Halted(p, "scaleDown", op[p], app[p])
    BY <1>0, <1>1, <2>1, <2>2 DEF Halted
  <2> QED
    BY <2>1, <2>2, <2>3, <2>4, GoesOn
<1>13. CASE ScaleDown(p)
  <2> DEFINE l == IF Installed THEN "put" ELSE "idle"
  <2>1. pc[p] = "scaleDown" /\ Keep(p) /\ UNCHANGED <<row, sub, born>> /\ Goto(p, l, app[p])
    BY <1>13 DEF ScaleDown, store
  <2>2. op[p] = "stop" /\ p \in Reqs /\ app[p] \in Row
    BY <1>0, <2>1 DEF Placed, OpAt
  <2>3. Placed(p, "put", op[p], app[p], shipped[p])
    BY <1>0, <2>2 DEF Placed, OpAt
  <2>4. row.status = "stopped" /\ p \notin stale' /\ l # "idle" => Halted(p, "put", op[p], app[p])
    BY <1>0, <1>1, <2>1, <2>2 DEF Halted
  <2> QED
    BY <2>1, <2>2, <2>3, <2>4, GoesOn
<1>14. CASE Bounce(p)
  <2> DEFINE l == IF Installed THEN "put" ELSE "idle"
  <2>1. pc[p] = "bounce" /\ Keep(p) /\ UNCHANGED <<row, sub, born>> /\ Goto(p, l, app[p])
    BY <1>14 DEF Bounce, store
  <2>2. op[p] = "restart" /\ p \in Reqs /\ app[p] \in Row
    BY <1>0, <2>1 DEF Placed, OpAt
  <2>3. Placed(p, "put", op[p], app[p], shipped[p]) /\ Halted(p, "put", op[p], app[p])
    BY <1>0, <2>2 DEF Placed, OpAt, Halted
  <2> QED
    BY <2>1, <2>2, <2>3, GoesOn
<1>15. CASE Uninstall(p)
  <2>1. pc[p] = "uninstall" /\ Keep(p) /\ UNCHANGED <<row, sub, born>> /\ Goto(p, "drop", app[p])
    BY <1>15 DEF Uninstall, store
  <2>2. op[p] = "delete" /\ p \in Reqs /\ app[p] \in Row
    BY <1>0, <2>1 DEF Placed, OpAt
  <2>3. Placed(p, "drop", op[p], app[p], shipped[p])
    BY <1>0, <2>2 DEF Placed, OpAt
  <2>4. row.status = "stopped" /\ p \notin stale' => Halted(p, "drop", op[p], app[p])
    BY <1>0, <1>1, <2>1, <2>2 DEF Halted
  <2> QED
    BY <2>1, <2>2, <2>3, <2>4, GoesOn
<1> QED
  BY <1>2, <1>3, <1>4, <1>5, <1>6, <1>7, <1>8, <1>9, <1>10, <1>11, <1>12, <1>13, <1>14, <1>15 DEF Step

\* A step of a build worker (runBuildAsync, finishBuildSuccess, finishBuildFailure).
LEMMA WorkerStep == ASSUME LocalInv, NEW b \in Builds, Worker(b) PROVE LocalInv'
<1> USE DEF OpNames, Labels, BuildPlaces, TickPlaces, Rowless, None
<1>0. /\ b \in Procs /\ b \notin Reqs /\ b # Reconciler /\ op[b] = None
      /\ app[b] \in Row \union {NoRow}
  BY Kinds, ProcsAssumption DEF Procs, Placed
<1>1. \A l \in BuildPlaces, a \in Row \union {NoRow} :
         l \in Rowless \/ a \in Row => Placed(b, l, op[b], a, shipped[b]) \/ l = "idle"
  BY <1>0 DEF Placed
<1>2. \A r \in {NoRow} \union Row, t \in {"blocked", "build_failed", "deploying"} :
         /\ r # NoRow => [r EXCEPT !.status = t] \in Row /\ [r EXCEPT !.status = t, !.deployed = TRUE] \in Row
         /\ [NoRow EXCEPT !.status = "build_failed"] \in Row
  BY DEF Row, NoRow, Statuses
<1>3. row \in Row \union {NoRow} /\ (Exists => row \in Row)
  BY DEF LocalInv, Typed, Exists
<1>4. CASE BuildSucceeds(b)
  <2>1. Goto(b, "builtRead", NoRow) /\ Keep(b) /\ UNCHANGED <<row, born, sub>>
    BY <1>4 DEF BuildSucceeds
  <2>2. Halted(b, "builtRead", op[b], NoRow)
    BY DEF Halted
  <2> QED
    BY <1>0, <1>1, <2>1, <2>2, GoesOn
<1>5. CASE BuildFails(b)
  <2>1. Goto(b, "failGet", NoRow) /\ Keep(b) /\ UNCHANGED <<row, born, sub>>
    BY <1>5 DEF BuildFails, store
  <2>2. Halted(b, "failGet", op[b], NoRow)
    BY DEF Halted
  <2> QED
    BY <1>0, <1>1, <2>1, <2>2, GoesOn
<1>6. CASE BuiltRead(b)
  <2> DEFINE a == [row EXCEPT !.image = b]
             l == IF Exists THEN "imagePut" ELSE "idle"
  <2>1. Goto(b, l, a) /\ Fresh(b) /\ UNCHANGED <<row, born, sub>>
    BY <1>6 DEF BuiltRead, store
  <2>2. l # "idle" => a \in Row /\ a.status = row.status
    BY Copies DEF AllImages
  <2>3. l # "idle" /\ row.status = "stopped" => Halted(b, l, op[b], a)
    BY <2>2 DEF Halted
  <2> HIDE DEF a
  <2> QED
    BY <1>0, <1>1, <2>1, <2>2, <2>3, GoesOn
<1>7. CASE BlockGet(b)
  <2> DEFINE a == [row EXCEPT !.status = "blocked"]
             l == IF Exists /\ row.status # "stopped" THEN "blockPut" ELSE "idle"
  <2>1. Goto(b, l, a) /\ Fresh(b) /\ UNCHANGED <<row, born, sub>>
    BY <1>7 DEF BlockGet, store
  <2>2. l # "idle" => a \in Row /\ row.status # "stopped"
    BY <1>2, <1>3 DEF Exists
  <2> HIDE DEF a
  <2> QED
    BY <1>0, <1>1, <2>1, <2>2, GoesOn
<1>8. CASE BuiltGet(b)
  <2> DEFINE a == IF shipped[b] = None THEN [row EXCEPT !.status = "build_failed"]
                  ELSE [row EXCEPT !.status = "deploying", !.deployed = TRUE]
             l == IF Exists /\ row.status # "stopped" THEN "donePut" ELSE "idle"
  <2>1. Goto(b, l, a) /\ Fresh(b) /\ UNCHANGED <<row, born, sub>>
    BY <1>8 DEF BuiltGet, store
  <2>2. l # "idle" => a \in Row /\ row.status # "stopped"
    BY <1>2, <1>3 DEF Exists
  <2> HIDE DEF a
  <2> QED
    BY <1>0, <1>1, <2>1, <2>2, GoesOn
<1>9. CASE FailGet(b)
  <2> DEFINE a == [row EXCEPT !.status = "build_failed"]
             l == IF Exists /\ row.status # "stopped" THEN "failPut" ELSE "failBuild"
  <2>1. Goto(b, l, a) /\ Fresh(b) /\ UNCHANGED <<row, born, sub>>
    BY <1>9 DEF FailGet, store
  <2>2. a \in Row
    BY <1>2, <1>3
  <2>3. row.status = "stopped" => Halted(b, l, op[b], a)
    BY DEF Halted
  <2> HIDE DEF a
  <2> QED
    BY <1>0, <1>1, <2>1, <2>2, <2>3, GoesOn
<1>10. CASE FailBuild(b)
  <2>1. Goto(b, "idle", NoRow) /\ Keep(b) /\ UNCHANGED <<row, born, sub>>
    BY <1>10 DEF FailBuild
  <2> QED
    BY <1>0, <2>1, GoesOn
<1> QED
  BY <1>4, <1>5, <1>6, <1>7, <1>8, <1>9, <1>10 DEF Worker

\* A step of the reconciler (reconcileOrg, reconcileWorkload).
LEMMA TickStep == ASSUME LocalInv, StoreTypes, ReconcileList \/ ReconcileStatus PROVE LocalInv'
<1> USE DEF OpNames, Labels, BuildPlaces, TickPlaces, Rowless, None
<1> DEFINE p == Reconciler
<1>0. /\ p \in Procs /\ p \notin Reqs /\ p \notin Builds /\ op[p] = None
      /\ Placed(p, pc[p], op[p], app[p], shipped[p])
      /\ pc[p] # "idle" /\ pc[p] \notin Rowless => app[p] \in Row
      /\ row.status = "stopped" /\ p \notin stale => Halted(p, pc[p], op[p], app[p])
  BY Kinds, ProcsAssumption DEF Procs, Placed
<1>1. CASE ReconcileList
  <2>1. Goto(p, "status", row) /\ Fresh(p) /\ UNCHANGED <<row, born, sub>> /\ Exists /\ row.status # "stopped"
    BY <1>1 DEF ReconcileList, store, stickyStatuses
  <2>2. Placed(p, "status", op[p], row, shipped[p])
    BY <1>0, <2>1, Copies DEF Placed
  <2> HIDE DEF p
  <2> QED
    BY <1>0, <2>1, <2>2, Copies, GoesOn
<1>2. CASE ReconcileStatus
  <2> DEFINE a == [app[p] EXCEPT !.status = Phase]
             l == IF Installed /\ Resolves(app[p].status) /\ Phase # app[p].status THEN "put" ELSE "idle"
  <2>1. pc[p] = "status" /\ Keep(p) /\ UNCHANGED <<row, born, sub>> /\ Goto(p, l, a)
    BY <1>2 DEF ReconcileStatus, store
  <2>2. Phase \in Statuses
    BY DEF StoreTypes, Phase, Statuses
  <2>3. a \in Row
    BY <1>0, <2>1, <2>2 DEF Row
  <2> HIDE DEF a
  <2>4. Placed(p, "put", op[p], a, shipped[p])
    BY <1>0, <2>3 DEF Placed
  <2>5. row.status = "stopped" => p \in stale
    BY <1>0, <2>1 DEF Halted
  <2>6. l \in {"put", "idle"} /\ (l # "idle" => l = "put")
    OBVIOUS
  <2>7. l # "idle" => stale' = stale
    BY <1>0, <2>1, <2>6 DEF Keep, Goto, LocalInv, Typed
  <2> HIDE DEF l, p
  <2> QED
    BY <1>0, <2>1, <2>3, <2>4, <2>5, <2>6, <2>7, GoesOn
<1> QED
  BY <1>1, <1>2

\* The gate, an operation cut short, and the cluster on its own (ensureActive).
LEMMA EnvironmentStep ==
    ASSUME LocalInv, Close \/ Open \/ (\E p \in Procs : Abort(p)) \/ PodsReady \/ Flap \/ KedaHolds
    PROVE  LocalInv'
<1> USE DEF OpNames, Labels, BuildPlaces, TickPlaces, Rowless, None
<1>1. CASE Close
  <2>1. /\ sub' = FALSE /\ old' = {p \in Procs : pc[p] \notin {"idle", "build"}}
        /\ UNCHANGED <<row, born, pc, op, app, shipped, stale>>
    BY <1>1 DEF Close, store, local
  <2>2. \A p \in Procs : op[p] = "update" => pc[p] \notin {"idle", "build"}
    <3> SUFFICES ASSUME NEW p \in Procs, op[p] = "update" PROVE pc[p] \notin {"idle", "build"}
      OBVIOUS
    <3> QED
      BY Kinds DEF Placed, OpAt
  <2>3. Typed' /\ AllPlaced'
    BY <2>1 DEF LocalInv, Typed, AllPlaced, Placed
  <2>4. AllGated'
    BY <2>1, <2>2 DEF AllGated
  <2>5. AllHalted' /\ CreatedOnce'
    BY <2>1 DEF LocalInv, AllHalted, Halted, CreatedOnce
  <2> QED
    BY <2>3, <2>4, <2>5 DEF LocalInv
<1>2. CASE Open
  <2>1. sub' = TRUE /\ old' = {} /\ UNCHANGED <<row, born, pc, op, app, shipped, stale>>
    BY <1>2 DEF Open, store, local
  <2>2. Typed' /\ AllPlaced' /\ AllGated'
    BY <2>1 DEF LocalInv, Typed, AllPlaced, AllGated, Placed
  <2>3. AllHalted' /\ CreatedOnce'
    BY <2>1 DEF LocalInv, AllHalted, Halted, CreatedOnce
  <2> QED
    BY <2>2, <2>3 DEF LocalInv
<1>3. ASSUME NEW p \in Procs, Abort(p) PROVE LocalInv'
  <2>1. Goto(p, "idle", NoRow) /\ Keep(p) /\ UNCHANGED <<row, born, sub>>
    BY <1>3 DEF Abort, store
  <2> QED
    BY <2>1, GoesOn
<1>4. CASE PodsReady \/ Flap \/ KedaHolds
  <2>1. UNCHANGED <<row, born, sub, pc, op, app, shipped, stale, old>>
    BY <1>4 DEF PodsReady, Flap, KedaHolds, Pods, store, local, ghosts
  <2>2. Typed' /\ AllPlaced' /\ AllGated'
    BY <2>1 DEF LocalInv, Typed, AllPlaced, AllGated, Placed
  <2>3. AllHalted' /\ CreatedOnce'
    BY <2>1 DEF LocalInv, AllHalted, Halted, CreatedOnce
  <2> QED
    BY <2>2, <2>3 DEF LocalInv
<1> QED
  BY <1>1, <1>2, <1>3, <1>4

\* Every step (Next).
LEMMA LocalStep == LocalInv /\ StoreTypes /\ [Next]_vars => LocalInv'
<1> SUFFICES ASSUME LocalInv, StoreTypes, [Next]_vars PROVE LocalInv'
  OBVIOUS
<1>1. ASSUME NEW p \in Reqs, Request(p) PROVE LocalInv'
  BY <1>1, RequestStep DEF StoreTypes
<1>2. ASSUME NEW p \in Procs, Step(p) PROVE LocalInv'
  BY <1>2, StepStep
<1>3. ASSUME NEW b \in Builds, Worker(b) PROVE LocalInv'
  BY <1>3, WorkerStep
<1>4. CASE UNCHANGED vars
  <2>1. UNCHANGED <<row, born, sub, pc, op, app, shipped, stale, old>>
    BY <1>4 DEF vars, store, local, ghosts
  <2>2. Typed' /\ AllPlaced' /\ AllGated'
    BY <2>1 DEF LocalInv, Typed, AllPlaced, AllGated, Placed
  <2>3. AllHalted' /\ CreatedOnce'
    BY <2>1 DEF LocalInv, AllHalted, Halted, CreatedOnce
  <2> QED
    BY <2>2, <2>3 DEF LocalInv
<1> QED
  BY <1>1, <1>2, <1>3, <1>4, TickStep, EnvironmentStep DEF Next

\* A release that is recorded is one more (recordRelease).
LEMMA Recorded ==
    ASSUME hist \in Seq([image : AllImages \cup {None}, live : BOOLEAN]), NEW i \in AllImages \cup {None}
    PROVE  Append([r \in DOMAIN hist |-> [hist[r] EXCEPT !.live = FALSE]], [image |-> i, live |-> TRUE])
              \in Seq([image : AllImages \cup {None}, live : BOOLEAN])
<1> DEFINE R == [image : AllImages \cup {None}, live : BOOLEAN]
           ended == [r \in DOMAIN hist |-> [hist[r] EXCEPT !.live = FALSE]]
           new == [image |-> i, live |-> TRUE]
<1>1. new \in R /\ \A r \in R : [r EXCEPT !.live = FALSE] \in R
  OBVIOUS
<1>2. hist \in Seq(R)
  OBVIOUS
<1> HIDE DEF R, new
<1>3. ended \in Seq(R)
  BY <1>1, <1>2
<1> HIDE DEF ended
<1>4. Append(ended, new) \in Seq(R)
  BY <1>1, <1>3
<1> QED
  BY <1>4 DEF ended, new, R

\* The history, the builds and the cluster keep their types (recordRelease, KubeBackend).
LEMMA StoreStep == LocalInv /\ StoreTypes /\ [Next]_vars => StoreTypes'
<1> SUFFICES ASSUME LocalInv, StoreTypes, [Next]_vars PROVE StoreTypes'
  OBVIOUS
<1> DEFINE Clusters == [image : AllImages \cup {None}, paused : BOOLEAN, pods : {"zero", "pending", "ready"}]
<1>1. CASE UNCHANGED <<hist, build, cluster>>
  BY <1>1 DEF StoreTypes
<1>2. \A p \in Procs : app[p].image \in AllImages \cup {None}
  BY DEF LocalInv, Typed, Row, NoRow
<1>3. ASSUME NEW p \in Reqs, Request(p) PROVE StoreTypes'
  <2>1. UNCHANGED <<hist, build, cluster>>
    BY <1>3 DEF Request, Create, Deploy, Stop, Restart, Delete, Update, Scale, Rollback, Begin
  <2> QED
    BY <1>1, <2>1
<1>4. ASSUME NEW p \in Procs, Step(p) PROVE StoreTypes'
  <2>1. CASE ReadAgain(p) \/ Get(p) \/ Put(p) \/ Insert(p) \/ Gate(p) \/ ApplyFails(p)
    BY <1>1, <2>1 DEF ReadAgain, Get, Put, Insert, Gate, ApplyFails, store
  <2>2. CASE StartBuild(p)
    BY <2>2 DEF StartBuild, StoreTypes, None
  <2>3. CASE Record(p)
    BY <1>2, <2>3, Recorded DEF Record, StoreTypes
  <2>4. CASE Drop(p)
    <3>1. \A b \in Builds : (IF build[b] = None THEN None ELSE "deleted") \in {None, "building", "succeeded", "failed", "deleted"}
      OBVIOUS
    <3> QED
      BY <2>4, <3>1 DEF Drop, StoreTypes
  <2>5. CASE Apply(p)
    <3>1. UNCHANGED <<hist, build>> /\ cluster' = [image |-> app[p].image, paused |-> Installed /\ cluster.paused, pods |-> "ready"]
      BY <2>5 DEF Apply, store
    <3>2. (Installed /\ cluster.paused) \in BOOLEAN
      OBVIOUS
    <3> QED
      BY <1>2, <3>1, <3>2 DEF StoreTypes
  <2>6. CASE Pause(p) \/ ScaleDown(p) \/ Bounce(p) \/ Uninstall(p)
    <3>1. UNCHANGED <<hist, build>>
      BY <2>6 DEF Pause, ScaleDown, Bounce, Uninstall, store
    <3>2. Installed \in BOOLEAN
      BY DEF Installed
    <3>3. cluster' \in Clusters
      <4>1. CASE Pause(p)
        BY <3>2, <4>1 DEF Pause, StoreTypes
      <4>2. CASE ScaleDown(p)
        BY <4>2 DEF ScaleDown, StoreTypes
      <4>3. CASE Bounce(p)
        <5>1. PICK pods \in {"zero", "pending", "ready"} : cluster' = [cluster EXCEPT !.pods = pods]
          BY <4>3 DEF Bounce, StoreTypes
        <5> QED
          BY <5>1 DEF StoreTypes
      <4>4. CASE Uninstall(p)
        BY <4>4 DEF Uninstall, NotInstalled
      <4> QED
        BY <2>6, <4>1, <4>2, <4>3, <4>4
    <3> QED
      BY <3>1, <3>3 DEF StoreTypes
  <2> QED
    BY <1>4, <2>1, <2>2, <2>3, <2>4, <2>5, <2>6 DEF Step
<1>5. ASSUME NEW b \in Builds, Worker(b) PROVE StoreTypes'
  <2>1. UNCHANGED <<hist, cluster>>
    BY <1>5 DEF Worker, BuildSucceeds, BuildFails, BuiltRead, BlockGet, BuiltGet, FailGet, FailBuild, store
  <2>2. build' \in {build, [build EXCEPT ![b] = "succeeded"], [build EXCEPT ![b] = "failed"]}
    BY <1>5 DEF Worker, BuildSucceeds, BuildFails, BuiltRead, BlockGet, BuiltGet, FailGet, FailBuild, store, SetBuild
  <2> QED
    BY <2>1, <2>2 DEF StoreTypes
<1>6. CASE ReconcileList \/ ReconcileStatus \/ Close \/ Open \/ (\E p \in Procs : Abort(p)) \/ UNCHANGED vars
  BY <1>1, <1>6 DEF ReconcileList, ReconcileStatus, Close, Open, Abort, vars, store
<1>7. CASE PodsReady \/ Flap \/ KedaHolds
  <2>1. UNCHANGED <<hist, build>> /\ \E to \in {"zero", "pending", "ready"} : cluster' = [cluster EXCEPT !.pods = to]
    BY <1>7 DEF PodsReady, Flap, KedaHolds, Pods, store
  <2> QED
    BY <2>1 DEF StoreTypes
<1> QED
  BY <1>3, <1>4, <1>5, <1>6, <1>7 DEF Next

\* Initially there is no app (Init).
LEMMA InitInv == Init => Inv
<1> SUFFICES ASSUME Init PROVE Inv
  OBVIOUS
<1> USE DEF Init
<1>1. StoreTypes
  BY DEF StoreTypes, NotInstalled
<1>2. Typed
  BY DEF Typed, Labels, OpNames, BuildPlaces, TickPlaces
<1>3. AllPlaced
  BY DEF AllPlaced, Placed, Rowless, BuildPlaces, TickPlaces, None
<1>4. AllGated /\ AllHalted /\ CreatedOnce
  BY DEF AllGated, AllHalted, CreatedOnce, Halted, NoRow, None
<1> QED
  BY <1>1, <1>2, <1>3, <1>4 DEF Inv, LocalInv

\* The invariant (Spec).
LEMMA Invariant == Spec => []Inv
<1>1. Inv /\ [Next]_vars => Inv'
  BY LocalStep, StoreStep DEF Inv
<1> QED
  BY InitInv, <1>1, PTL DEF Spec

\* Types (TypeOK).
THEOREM TypeCorrect == Spec => []TypeOK
<1>1. Inv => TypeOK
  BY DEF Inv, LocalInv, Typed, AllPlaced, Placed, StoreTypes, TypeOK
<1> QED
  BY <1>1, Invariant, PTL

\* However requests, builds and aborts interleave, once the gate has closed nothing is deployed
\* but by what was under way (ensureActive, deployBuilt).
THEOREM GateHolds == Spec => NoUnpaidApply
<1>1. Inv => [\A p \in Procs : pc[p] = "apply" /\ shipped'[p] # shipped[p] => sub \/ p \in old]_vars
  BY DEF Inv, LocalInv, AllGated
<1> QED
  BY <1>1, Invariant, PTL DEF NoUnpaidApply

\* However they interleave, a stopped app starts again only by a deploy, a restart or an
\* operation that had read the row before the Stop (Stop, persistAppSpec, finishBuildSuccess).
THEOREM StoppedForGood == Spec => StopHolds
<1> DEFINE Excused == \E p \in Procs : Acts(p) /\ (op[p] \in {"deploy", "restart"} \/ p \in stale)
<1>1. Inv /\ [Next]_vars => [row.status = "stopped" /\ row'.status \notin {"stopped", "absent"} => Excused]_vars
  <2> SUFFICES ASSUME Inv, Next, row.status = "stopped", row'.status \notin {"stopped", "absent"} PROVE Excused
    BY DEF vars
  <2> USE DEF Inv
  <2>1. row # row' /\ row # NoRow
    BY RowStatus
  <2>2. ASSUME NEW p \in Procs, Put(p) PROVE Excused
    <3>1. /\ pc[p] \in {"put", "imagePut", "blockPut", "donePut", "failPut"}
          /\ row' = app[p] /\ Goto(p, AfterPut(p), app[p])
      BY <2>1, <2>2, RowStatus DEF Put, Exists
    <3>2. Acts(p)
      BY <3>1, PutLeads DEF Acts, Goto, LocalInv, Typed
    <3>3. p \in stale \/ op[p] \in {"deploy", "restart"}
      BY <3>1, PutLeads
    <3> QED
      BY <3>2, <3>3
  <2>3. ASSUME NEW p \in Procs, Insert(p) PROVE FALSE
    <3>1. pc[p] = "insert"
      BY <2>3 DEF Insert
    <3>2. op[p] = "create"
      BY <3>1, Kinds DEF Placed, OpAt, BuildPlaces, TickPlaces
    <3> QED
      BY <2>1, <3>1, <3>2 DEF LocalInv, CreatedOnce
  <2>4. ASSUME NEW p \in Procs, Drop(p) PROVE FALSE
    BY <2>4, RowStatus DEF Drop
  <2>5. ASSUME NEW p \in Procs, Step(p) PROVE Excused
    BY <2>1, <2>2, <2>3, <2>4, <2>5
    DEF Step, ReadAgain, Get, StartBuild, Record, Gate, Apply, ApplyFails, Pause, ScaleDown, Bounce, Uninstall, store
  <2>6. ASSUME NEW p \in Reqs, Request(p) PROVE FALSE
    BY <2>1, <2>6 DEF Request, Create, Deploy, Stop, Restart, Delete, Update, Scale, Rollback, Begin
  <2>7. ASSUME NEW b \in Builds, Worker(b) PROVE FALSE
    BY <2>1, <2>7 DEF Worker, BuildSucceeds, BuildFails, BuiltRead, BlockGet, BuiltGet, FailGet, FailBuild, store
  <2>8. CASE ReconcileList \/ ReconcileStatus \/ Close \/ Open \/ (\E p \in Procs : Abort(p)) \/ PodsReady \/ Flap \/ KedaHolds
    BY <2>1, <2>8 DEF ReconcileList, ReconcileStatus, Close, Open, Abort, PodsReady, Flap, KedaHolds, Pods, store
  <2> HIDE DEF Excused
  <2> QED
    BY <2>5, <2>6, <2>7, <2>8 DEF Next
<1> QED
  BY <1>1, Invariant, PTL DEF Spec, StopHolds

\* However they interleave, the row of a deleted app does not come back (Delete, UpdateApp).
THEOREM DeletedStaysDeleted == Spec => DeletedForGood
<1>1. Inv /\ [Next]_vars =>
          [born /\ row = NoRow /\ (\A p \in Reqs : op[p] # "create") => row' = NoRow]_vars
  <2> SUFFICES ASSUME Inv, Next, row = NoRow, \A p \in Reqs : op[p] # "create" PROVE row' = NoRow
    BY DEF vars
  <2> USE DEF Inv
  <2>1. ASSUME NEW p \in Procs, Put(p) PROVE row' = NoRow
    BY <2>1 DEF Put, Exists
  <2>2. ASSUME NEW p \in Procs, Insert(p) PROVE FALSE
    <3>1. pc[p] = "insert"
      BY <2>2 DEF Insert
    <3>2. op[p] = "create" /\ p \in Reqs
      BY <3>1, Kinds DEF Placed, OpAt, BuildPlaces, TickPlaces
    <3> QED
      BY <3>2
  <2>3. ASSUME NEW p \in Procs, Drop(p) PROVE row' = NoRow
    BY <2>3 DEF Drop
  <2>4. ASSUME NEW p \in Procs, Step(p) PROVE row' = NoRow
    BY <2>1, <2>2, <2>3, <2>4
    DEF Step, ReadAgain, Get, StartBuild, Record, Gate, Apply, ApplyFails, Pause, ScaleDown, Bounce, Uninstall, store
  <2>5. ASSUME NEW p \in Reqs, Request(p) PROVE row' = row
    BY <2>5 DEF Request, Create, Deploy, Stop, Restart, Delete, Update, Scale, Rollback, Begin
  <2>6. ASSUME NEW b \in Builds, Worker(b) PROVE row' = row
    BY <2>6 DEF Worker, BuildSucceeds, BuildFails, BuiltRead, BlockGet, BuiltGet, FailGet, FailBuild, store
  <2>7. CASE ReconcileList \/ ReconcileStatus \/ Close \/ Open \/ (\E p \in Procs : Abort(p)) \/ PodsReady \/ Flap \/ KedaHolds
    BY <2>7 DEF ReconcileList, ReconcileStatus, Close, Open, Abort, PodsReady, Flap, KedaHolds, Pods, store
  <2> QED
    BY <2>4, <2>5, <2>6, <2>7 DEF Next
<1> QED
  BY <1>1, Invariant, PTL DEF Spec, DeletedForGood
-----------------------------------------------------------------------------
(* One request at a time, to its end.                                      *)

\* Nothing runs, and nothing will until KEDA is told.
Down == cluster.pods = "zero" /\ (Installed => cluster.paused)

\* Once request p has applied an image, it has the row to write and the release to record.
Shipping(p) == shipped[p] # None =>
    /\ pc[p] \in {"insert", "get", "put", "record"}
    /\ op[p] \in {"create", "deploy", "update", "scale", "rollback"}
    /\ cluster.image = shipped[p] /\ app[p].image = shipped[p]
    /\ app[p].deployed /\ app[p].status # "stopped"

\* ... and records it of a row that says so.
Recording(p) == pc[p] = "record" => shipped[p] # None /\ row.deployed /\ row.status # "stopped"

\* The copy of request p knows of a release when the row does, and no other request took the
\* row away.
Copied(p) ==
    /\ pc[p] # "idle" /\ row.deployed => app[p].deployed
    /\ op[p] = "create" /\ shipped[p] = None => ~app[p].deployed
    /\ pc[p] \in {"gate", "apply"} => app[p].image # None
    /\ row = NoRow => pc[p] = "idle" \/ (op[p] = "create" /\ pc[p] \in {"apply", "insert"})

\* A copy that says stopped, before it is written, is of an app that is down.
Stopping(p) ==
    /\ op[p] = "stop" /\ pc[p] = "scaleDown" => (Installed => cluster.paused)
    /\ op[p] = "stop" /\ pc[p] = "put" => Down
    /\ op[p] \in {"update", "scale", "rollback"} /\ app[p].status = "stopped" => Down
    /\ op[p] \in {"deploy", "restart"} /\ pc[p] \in {"bounce", "put"} => app[p].status # "stopped"
    /\ pc[p] = "drop" => ~Installed

\* The reconciler holds a row with a release, and stops nothing.
Ticking(p) == pc[Reconciler] # "idle" =>
    /\ app[Reconciler].deployed /\ app[Reconciler].status # "stopped"
    /\ row.deployed \/ (row = NoRow /\ born /\ op[p] # "create")

\* What the row and the history say of the cluster, while p has no image of its own there.
Matching(p) ==
    /\ ~Installed => cluster.pods = "zero"
    /\ shipped[p] = None =>
          /\ ~row.deployed => ~Installed
          /\ row.status = "stopped" => Down
          /\ hist # <<>> /\ pc[p] # "drop" => /\ hist[Len(hist)].image = cluster.image
                                              /\ hist[Len(hist)].live

Alone(p) ==
    /\ aborts = 0
    /\ Shipping(p) /\ Recording(p) /\ Copied(p) /\ Stopping(p) /\ Ticking(p) /\ Matching(p)

\* Only the process that goes on moves (Goto).
LEMMA Goes ==
    ASSUME LocalInv, NEW p \in Procs, NEW l, NEW a, Goto(p, l, a)
    PROVE  /\ pc'[p] = l
           /\ l = "idle" => app'[p] = NoRow /\ op'[p] = None /\ shipped'[p] = None
           /\ l # "idle" => app'[p] = a /\ op'[p] = op[p] /\ shipped'[p] = shipped[p]
           /\ \A q \in Procs \ {p} :
                 pc'[q] = pc[q] /\ op'[q] = op[q] /\ app'[q] = app[q] /\ shipped'[q] = shipped[q]
  BY DEF Goto, LocalInv, Typed

\* Where a request may be (OpAt).
LEMMA Whereabouts ==
    ASSUME LocalInv, NEW p \in Reqs
    PROVE  /\ p \in Procs /\ p # Reconciler /\ Reconciler \in Procs /\ p \notin Builds
           /\ pc[p] = "idle" => op[p] = None /\ shipped[p] = None /\ app[p] = NoRow
           /\ pc[p] # "idle" => OpAt(op[p], pc[p]) /\ app[p] \in Row
           /\ pc[p] = "startBuild" => shipped[p] = None
           /\ op[p] = "create" => app[p].status # "stopped" /\ (pc[p] \in {"apply", "insert"} => row = NoRow)
           /\ op[p] \in {"scale"} /\ pc[p] \in {"gate", "apply"} => app[p].status # "stopped"
           /\ row \in Row \union {NoRow} /\ (row = NoRow <=> ~Exists)
           /\ row = NoRow => ~row.deployed /\ row.status # "stopped"
           /\ ~born => row = NoRow
<1>1. p \in Procs /\ p # Reconciler /\ Reconciler \in Procs /\ p \notin Builds
  BY ProcsAssumption DEF Procs
<1>2. Placed(p, pc[p], op[p], app[p], shipped[p])
  BY <1>1, Kinds
<1>3. pc[p] # "idle" => OpAt(op[p], pc[p]) /\ app[p] \in Row
  <2>1. pc[p] # "idle" => OpAt(op[p], pc[p])
    BY <1>2 DEF Placed
  <2>2. pc[p] # "idle" => pc[p] \notin Rowless
    BY <2>1 DEF OpAt, Rowless
  <2> QED
    BY <1>2, <2>1, <2>2 DEF Placed
<1>4. row \in Row \union {NoRow} /\ (row = NoRow <=> ~Exists)
  BY DEF LocalInv, Typed, Exists
<1>5. NoRow.deployed = FALSE /\ NoRow.status # "stopped"
  BY DEF NoRow
<1>6. op[p] = "create" => app[p].status # "stopped" /\ (pc[p] \in {"apply", "insert"} => row = NoRow)
  BY <1>1, <1>2 DEF Placed, LocalInv, CreatedOnce
<1> QED
  BY <1>1, <1>2, <1>3, <1>4, <1>5, <1>6 DEF Placed, LocalInv, CreatedOnce

\* A request begins (Begin).
LEMMA BeginsAlone ==
    ASSUME LocalInv, NEW p \in Reqs, Alone(p), NEW o, NEW l, NEW a, Begin(p, o, l, a), o # None, l # "idle",
           l # "record", l # "scaleDown", l # "gate",
           l = "apply" => a.image # None,
           o = "create" => ~born /\ born' = TRUE /\ ~a.deployed /\ l \in {"apply", "insert"},
           o # "create" => Exists /\ born' = born /\ a.deployed = row.deployed,
           o = "stop" /\ l = "put" => ~row.deployed,
           o \in {"update", "scale", "rollback"} => a.status = row.status,
           o \in {"deploy", "restart"} /\ (l = "put" \/ l = "bounce") => a.status # "stopped",
           l = "drop" => ~row.deployed
    PROVE  Alone(p)'
<1>1. /\ p \in Procs /\ p # Reconciler /\ Reconciler \in Procs
      /\ pc[p] = "idle" => op[p] = None /\ shipped[p] = None /\ app[p] = NoRow
      /\ row = NoRow <=> ~Exists
      /\ row = NoRow => ~row.deployed /\ row.status # "stopped"
      /\ ~born => row = NoRow
  BY Whereabouts
<1>2. /\ pc[p] = "idle" /\ pc'[p] = l /\ op'[p] = o /\ app'[p] = a
      /\ pc'[Reconciler] = pc[Reconciler] /\ app'[Reconciler] = app[Reconciler]
      /\ UNCHANGED <<row, hist, cluster, shipped, aborts>>
  BY <1>1 DEF Begin, LocalInv, Typed
<1>3. shipped[p] = None /\ shipped'[p] = None
  BY <1>1, <1>2
<1>4. /\ ~Installed => cluster.pods = "zero"
      /\ ~row.deployed => ~Installed
      /\ row.status = "stopped" => Down
  BY <1>3 DEF Alone, Matching
<1>5. Shipping(p)' /\ Recording(p)'
  BY <1>2, <1>3 DEF Shipping, Recording
<1>6. Copied(p)'
  BY <1>1, <1>2, <1>3 DEF Copied
<1>7. Stopping(p)'
  <2>1. Down' = Down /\ Installed' = Installed
    BY <1>2 DEF Down, Installed
  <2>2. ~row.deployed => Down
    BY <1>4 DEF Down
  <2> QED
    BY <1>2, <1>4, <2>1, <2>2 DEF Stopping
<1>8. Ticking(p)'
  BY <1>1, <1>2 DEF Alone, Ticking
<1>9. Matching(p)'
  <2>1. Down' = Down /\ Installed' = Installed
    BY <1>2 DEF Down, Installed
  <2> QED
    BY <1>2, <1>3, <2>1 DEF Alone, Matching
<1> QED
  BY <1>2, <1>5, <1>6, <1>7, <1>8, <1>9 DEF Alone

\* Whatever the request asks for (Request).
LEMMA RequestAlone ==
    ASSUME LocalInv, Builds = {}, NEW p \in Reqs, Alone(p), Request(p)
    PROVE  Alone(p)'
<1>n. None \notin {"create", "deploy", "stop", "restart", "delete", "update", "scale", "rollback"}
  BY DEF None
<1>1. ~UnusedBuild
  BY DEF UnusedBuild
<1>2. row \in Row \union {NoRow} /\ (row = NoRow <=> ~Exists)
  BY Whereabouts
<1>3. Exists => row \in Row
  BY <1>2
<1>4. ASSUME NEW i \in Images \cup {None}, NEW g \in Gits \cup {None}, Create(p, i, g) PROVE Alone(p)'
  <2>1. PICK a : a = [status |-> "queued", deployed |-> FALSE, image |-> i, git |-> g]
    OBVIOUS
  <2>2. PICK l : l = IF i # None THEN "apply" ELSE "insert"
    OBVIOUS
  <2>3. Begin(p, "create", l, a) /\ ~born /\ born' = TRUE
    BY <1>4, <2>1, <2>2 DEF Create
  <2>4. ~a.deployed /\ a.image = i /\ l \in {"apply", "insert"} /\ (l = "apply" => i # None)
    BY <2>1, <2>2
  <2> QED
    BY <2>3, <2>4, <1>n, BeginsAlone
<1>5. ASSUME Deploy(p) PROVE Alone(p)'
  <2>1. Exists /\ born' = born /\ row.image # None /\ Begin(p, "deploy", "apply", row)
    BY <1>1, <1>5 DEF Deploy
  <2> QED
    BY <2>1, <1>n, BeginsAlone
<1>6. ASSUME Stop(p) PROVE Alone(p)'
  <2>1. PICK a : a = [row EXCEPT !.status = "stopped"]
    OBVIOUS
  <2>2. PICK l : l = IF row.deployed THEN "pause" ELSE "put"
    OBVIOUS
  <2>3. Exists /\ born' = born /\ Begin(p, "stop", l, a)
    BY <1>6, <2>1, <2>2 DEF Stop
  <2>4. a.deployed = row.deployed
    BY <1>3, <2>1, <2>3 DEF Row
  <2> QED
    BY <2>2, <2>3, <2>4, <1>n, BeginsAlone
<1>7. ASSUME Restart(p) PROVE Alone(p)'
  <2>1. Exists /\ born' = born /\ Begin(p, "restart", "read", row)
    BY <1>7 DEF Restart
  <2> QED
    BY <2>1, <1>n, BeginsAlone
<1>8. ASSUME Delete(p) PROVE Alone(p)'
  <2>1. PICK l : l = IF row.deployed THEN "uninstall" ELSE "drop"
    OBVIOUS
  <2>2. Exists /\ born' = born /\ Begin(p, "delete", l, row)
    BY <1>8, <2>1 DEF Delete
  <2> QED
    BY <2>1, <2>2, <1>n, BeginsAlone
<1>9. ASSUME NEW i \in Images \cup {None}, NEW g \in Gits \cup {None}, Update(p, i, g) PROVE Alone(p)'
  <2>1. PICK a : a = [row EXCEPT !.image = IF i # None THEN i ELSE @, !.git = IF g # None THEN g ELSE @]
    OBVIOUS
  <2>2. Exists /\ born' = born /\ Begin(p, "update", "get", a)
    BY <1>9, <2>1 DEF Update
  <2>3. a.deployed = row.deployed /\ a.status = row.status
    BY <1>3, <2>1, <2>2 DEF Row
  <2> QED
    BY <2>2, <2>3, <1>n, BeginsAlone
<1>10. ASSUME Scale(p) PROVE Alone(p)'
  <2>1. Exists /\ born' = born /\ Begin(p, "scale", "get", row)
    BY <1>10 DEF Scale
  <2> QED
    BY <2>1, <1>n, BeginsAlone
<1>11. ASSUME NEW revision \in 0..Len(hist), Rollback(p, revision) PROVE Alone(p)'
  <2>1. PICK i : /\ i # None /\ Exists /\ born' = born
                 /\ Begin(p, "rollback", IF row.status = "stopped" THEN "get" ELSE "apply",
                          [row EXCEPT !.image = i])
    BY <1>11 DEF Rollback
  <2>2. PICK a : a = [row EXCEPT !.image = i]
    OBVIOUS
  <2>3. PICK l : l = IF row.status = "stopped" THEN "get" ELSE "apply"
    OBVIOUS
  <2>4. Begin(p, "rollback", l, a)
    BY <2>1, <2>2, <2>3
  <2>5. a.deployed = row.deployed /\ a.status = row.status /\ a.image = i
    BY <1>3, <2>1, <2>2 DEF Row
  <2> QED
    BY <2>1, <2>3, <2>4, <2>5, <1>n, BeginsAlone
<1> QED
  BY <1>4, <1>5, <1>6, <1>7, <1>8, <1>9, <1>10, <1>11 DEF Request

\* A request goes on, or ends with nothing applied, and leaves the row and the cluster as they
\* are (Goto).
LEMMA GoesOnAlone ==
    ASSUME LocalInv, NEW p \in Reqs, Alone(p), NEW l, NEW a, Goto(p, l, a), pc[p] # "idle", pc[p] # "drop",
           UNCHANGED <<row, born, hist, cluster, aborts>>,
           l = "idle" => shipped[p] = None,
           l # "idle" => /\ l \in {"put", "bounce", "apply"}
                         /\ op[p] # "restart" => /\ l # "bounce" /\ a.deployed = app[p].deployed
                                                 /\ a.image = app[p].image /\ a.status = app[p].status
                         /\ op[p] = "restart" => /\ l # "apply" /\ a.deployed = row.deployed
                                                 /\ shipped[p] = None /\ a.status = "restarting"
                         /\ l = "apply" => a.image # None /\ shipped[p] = None
                         /\ l # "apply" => Exists /\ op[p] \in {"update", "scale", "rollback", "restart"}
                         /\ op[p] # "create"
    PROVE  Alone(p)'
<1>1. /\ p \in Procs /\ p # Reconciler /\ Reconciler \in Procs
      /\ row = NoRow <=> ~Exists
      /\ row = NoRow => ~row.deployed /\ row.status # "stopped"
  BY Whereabouts
<1>2. /\ pc'[p] = l
      /\ l = "idle" => app'[p] = NoRow /\ op'[p] = None /\ shipped'[p] = None
      /\ l # "idle" => app'[p] = a /\ op'[p] = op[p] /\ shipped'[p] = shipped[p]
      /\ pc'[Reconciler] = pc[Reconciler] /\ app'[Reconciler] = app[Reconciler]
  BY <1>1, Goes
<1>3. Down' = Down /\ Installed' = Installed
  BY DEF Down, Installed
<1>4. shipped'[p] = shipped[p]
  BY <1>2
<1>5. CASE l = "idle"
  <2>1. /\ pc'[p] = "idle" /\ op'[p] = None /\ shipped'[p] = None /\ shipped[p] = None
        /\ app'[p] = NoRow
    BY <1>2, <1>5
  <2>2. Shipping(p)' /\ Recording(p)' /\ Copied(p)'
    BY <2>1 DEF Shipping, Recording, Copied, None
  <2>3. Stopping(p)'
    BY <2>1 DEF Stopping, None
  <2>4. Ticking(p)'
    BY <1>2, <2>1 DEF Alone, Ticking, None
  <2>5. Matching(p)'
    <3>1. hist # <<>> => hist[Len(hist)].image = cluster.image /\ hist[Len(hist)].live
      BY <2>1 DEF Alone, Matching
    <3> QED
      BY <1>3, <2>1 DEF Alone, Matching
  <2> QED
    BY <2>2, <2>3, <2>4, <2>5 DEF Alone
<1>6. CASE l # "idle"
  <2>1. /\ pc'[p] = l /\ op'[p] = op[p] /\ app'[p] = a
        /\ l \in {"put", "bounce", "apply"}
    BY <1>2, <1>6
  <2>2. Shipping(p)'
    BY <1>4, <1>6, <2>1 DEF Alone, Shipping
  <2>3. Recording(p)'
    BY <2>1 DEF Recording
  <2>4. Copied(p)'
    BY <1>1, <1>2, <1>4, <1>6 DEF Alone, Shipping, Copied
  <2>5. Stopping(p)'
    BY <1>2, <1>3, <1>4, <1>6 DEF Alone, Stopping
  <2>6. Ticking(p)'
    BY <1>2, <2>1 DEF Alone, Ticking
  <2>7. Matching(p)'
    BY <1>2, <1>3, <1>4, <2>1 DEF Alone, Matching
  <2> QED
    BY <2>2, <2>3, <2>4, <2>5, <2>6, <2>7 DEF Alone
<1> QED
  BY <1>5, <1>6

\* The request writes its copy of the row (UpdateApp).
LEMMA PutAlone ==
    ASSUME LocalInv, NEW p \in Reqs, Alone(p), Put(p)
    PROVE  Alone(p)'
<1> DEFINE l == AfterPut(p)
<1>1. /\ p \in Procs /\ p # Reconciler /\ Reconciler \in Procs
      /\ pc[p] # "idle" => OpAt(op[p], pc[p]) /\ app[p] \in Row
      /\ row = NoRow <=> ~Exists
      /\ p \notin Builds
  BY Whereabouts
<1>2. pc[p] = "put" /\ op[p] \in {"deploy", "stop", "restart", "update", "scale", "rollback"}
  <2>1. pc[p] \in {"put", "imagePut", "blockPut", "donePut", "failPut"}
    BY DEF Put
  <2>2. OpAt(op[p], pc[p])
    BY <1>1, <2>1
  <2> QED
    BY <2>1, <2>2 DEF OpAt
<1>3. row # NoRow
  BY <1>2 DEF Alone, Copied
<1>4. /\ row' = app[p] /\ Goto(p, l, app[p]) /\ app[p] \in Row /\ app[p] # NoRow
      /\ UNCHANGED <<born, hist, cluster, aborts>>
  BY <1>1, <1>2, <1>3, RowStatus DEF Put, Exists, counts
<1>5. /\ l = IF shipped[p] # None THEN "record" ELSE l
      /\ shipped[p] = None => l \in {"idle", "startBuild", "apply", "gate"}
      /\ l = "startBuild" => op[p] = "deploy"
      /\ l \in {"apply", "gate"} => app[p].image # None /\ app[p].deployed /\ op[p] \in {"update", "scale"}
                                    /\ app[p].status # "stopped"
  <2>1. shipped[p] # None => op[p] \in {"deploy", "update", "scale", "rollback"}
    BY <1>2 DEF Alone, Shipping
  <2>2. CASE op[p] = "deploy"
    BY <1>2, <2>2 DEF AfterPut
  <2>3. CASE op[p] = "update"
    BY <1>2, <2>3 DEF AfterPut, Redeployable
  <2>4. CASE op[p] = "scale"
    BY <1>2, <2>4 DEF AfterPut, Redeployable
  <2>5. CASE op[p] = "rollback"
    BY <1>2, <2>5 DEF AfterPut
  <2>6. CASE op[p] \in {"stop", "restart"}
    BY <1>2, <2>1, <2>6 DEF AfterPut
  <2> QED
    BY <1>2, <2>2, <2>3, <2>4, <2>5, <2>6
<1> HIDE DEF l
<1>6. /\ pc'[p] = l
      /\ l = "idle" => app'[p] = NoRow /\ op'[p] = None /\ shipped'[p] = None
      /\ l # "idle" => app'[p] = app[p] /\ op'[p] = op[p] /\ shipped'[p] = shipped[p]
      /\ pc'[Reconciler] = pc[Reconciler] /\ app'[Reconciler] = app[Reconciler]
  BY <1>1, <1>4, Goes
<1>7. shipped'[p] = shipped[p] /\ (l = "record" <=> shipped[p] # None)
      /\ l \in {"record", "idle", "startBuild", "apply", "gate"}
  BY <1>5, <1>6
<1>8. Down' = Down /\ Installed' = Installed
  BY <1>4 DEF Down, Installed
<1>9. Shipping(p)' /\ Recording(p)'
  BY <1>4, <1>6, <1>7 DEF Alone, Shipping, Recording
<1>10. Copied(p)'
  BY <1>2, <1>4, <1>5, <1>6, <1>7 DEF Copied, None
<1>11. Stopping(p)'
  BY <1>5, <1>6, <1>7, <1>8 DEF Alone, Stopping, None
<1>12. Ticking(p)'
  BY <1>2, <1>3, <1>4, <1>6 DEF Alone, Ticking, Copied
<1>13. Matching(p)'
  <2>1. ~app[p].deployed => ~row.deployed
    BY <1>2 DEF Alone, Copied
  <2>2. shipped[p] = None /\ app[p].status = "stopped" => Down
    BY <1>2 DEF Alone, Stopping
  <2>3. pc[p] # "drop"
    BY <1>2
  <2> QED
    BY <1>4, <1>7, <1>8, <2>1, <2>2, <2>3 DEF Alone, Matching
<1> QED
  BY <1>4, <1>9, <1>10, <1>11, <1>12, <1>13 DEF Alone

\* The request creates the row, or drops it (CreateApp, DeleteApp).
LEMMA RowAlone ==
    ASSUME LocalInv, NEW p \in Reqs, Alone(p), Insert(p) \/ Drop(p)
    PROVE  Alone(p)'
<1>1. /\ p \in Procs /\ p # Reconciler /\ Reconciler \in Procs
      /\ pc[p] # "idle" => OpAt(op[p], pc[p]) /\ app[p] \in Row
      /\ op[p] = "create" => app[p].status # "stopped" /\ (pc[p] \in {"apply", "insert"} => row = NoRow)
      /\ row = NoRow => ~row.deployed
      /\ ~born => row = NoRow
  BY Whereabouts
<1>2. CASE Insert(p)
  <2>1. pc[p] = "insert" /\ op[p] = "create" /\ row = NoRow /\ app[p] \in Row /\ app[p].status # "stopped"
    BY <1>1, <1>2 DEF Insert, OpAt
  <2>2. PICK a : a = IF app[p].image = None /\ app[p].git # None THEN [app[p] EXCEPT !.status = "building"] ELSE app[p]
    OBVIOUS
  <2>3. PICK l : l = IF app[p].image = None /\ app[p].git # None THEN "startBuild"
                     ELSE IF a.deployed THEN "record" ELSE "idle"
    OBVIOUS
  <2>4. row' = a /\ Goto(p, l, a) /\ UNCHANGED <<born, hist, cluster, aborts>>
    BY <1>2, <2>2, <2>3 DEF Insert, counts
  <2>5. a \in Row /\ a # NoRow /\ a.status # "stopped" /\ a.image = app[p].image /\ a.deployed = app[p].deployed
    <3>1. a \in Row /\ a.status # "stopped" /\ a.image = app[p].image /\ a.deployed = app[p].deployed
      BY <2>1, <2>2 DEF Row, Statuses
    <3> QED
      BY <3>1, RowStatus
  <2>6. shipped[p] # None <=> app[p].deployed
    BY <2>1 DEF Alone, Shipping, Copied
  <2>7. l \in {"startBuild", "record", "idle"} /\ (l = "record" <=> shipped[p] # None)
    <3>1. shipped[p] # None => app[p].image # None
      BY DEF Alone, Shipping
    <3> QED
      BY <2>3, <2>5, <2>6, <3>1
  <2>8. /\ pc'[p] = l
        /\ l = "idle" => app'[p] = NoRow /\ op'[p] = None /\ shipped'[p] = None
        /\ l # "idle" => app'[p] = a /\ op'[p] = op[p] /\ shipped'[p] = shipped[p]
        /\ pc'[Reconciler] = pc[Reconciler] /\ app'[Reconciler] = app[Reconciler]
    BY <1>1, <2>4, Goes
  <2>9. shipped'[p] = shipped[p]
    BY <2>7, <2>8
  <2>10. Down' = Down /\ Installed' = Installed
    BY <2>4 DEF Down, Installed
  <2>11. pc[Reconciler] = "idle"
    BY <1>1, <2>1 DEF Alone, Ticking
  <2>12. Shipping(p)' /\ Recording(p)' /\ Copied(p)'
    BY <2>1, <2>4, <2>5, <2>6, <2>7, <2>8, <2>9 DEF Alone, Shipping, Recording, Copied
  <2>13. Stopping(p)'
    BY <2>1, <2>7, <2>8, <2>10 DEF Stopping, None
  <2>14. Ticking(p)'
    BY <2>8, <2>11 DEF Ticking
  <2>15. Matching(p)'
    BY <1>1, <2>1, <2>4, <2>5, <2>9, <2>10 DEF Alone, Matching
  <2> QED
    BY <2>4, <2>12, <2>13, <2>14, <2>15 DEF Alone
<1>3. CASE Drop(p)
  <2>1. pc[p] = "drop" /\ op[p] = "delete"
    BY <1>1, <1>3 DEF Drop, OpAt
  <2>2. shipped[p] = None /\ ~Installed /\ row # NoRow /\ born
    BY <1>1, <2>1 DEF Alone, Shipping, Stopping, Copied
  <2>3. row' = NoRow /\ hist' = <<>> /\ Goto(p, "idle", NoRow) /\ UNCHANGED <<born, cluster, aborts>>
    BY <1>3 DEF Drop, counts
  <2>4. /\ pc'[p] = "idle" /\ app'[p] = NoRow /\ op'[p] = None /\ shipped'[p] = None
        /\ pc'[Reconciler] = pc[Reconciler] /\ app'[Reconciler] = app[Reconciler]
    BY <1>1, <2>3, Goes
  <2>5. NoRow.deployed = FALSE /\ NoRow.status # "stopped"
    BY DEF NoRow
  <2>6. Shipping(p)' /\ Recording(p)' /\ Copied(p)' /\ Stopping(p)'
    BY <2>4 DEF Shipping, Recording, Copied, Stopping, None
  <2>7. Ticking(p)'
    BY <2>2, <2>3, <2>4 DEF Alone, Ticking, None
  <2>8. Matching(p)'
    BY <2>2, <2>3, <2>5 DEF Alone, Matching, Installed
  <2> QED
    BY <2>3, <2>6, <2>7, <2>8 DEF Alone
<1> QED
  BY <1>2, <1>3

\* The request records its release (recordRelease).
LEMMA RecordAlone ==
    ASSUME LocalInv, NEW p \in Reqs, Alone(p), Record(p), hist \in Seq([image : AllImages \cup {None}, live : BOOLEAN])
    PROVE  Alone(p)'
<1>1. /\ p \in Procs /\ p # Reconciler /\ Reconciler \in Procs
      /\ row = NoRow <=> ~Exists
      /\ row = NoRow => ~row.deployed
  BY Whereabouts
<1>2. pc[p] = "record" /\ Goto(p, "idle", NoRow) /\ UNCHANGED <<row, born, cluster, aborts>>
  BY DEF Record, counts
<1>3. shipped[p] # None /\ row.deployed /\ row.status # "stopped" /\ Exists
  BY <1>1, <1>2 DEF Alone, Recording
<1>4. app[p].image = cluster.image
  BY <1>3 DEF Alone, Shipping
<1>5. hist'[Len(hist')].image = cluster.image /\ hist'[Len(hist')].live
  <2>1. PICK ended : ended = [r \in DOMAIN hist |-> [hist[r] EXCEPT !.live = FALSE]]
    OBVIOUS
  <2>2. PICK new : new = [image |-> app[p].image, live |-> TRUE]
    OBVIOUS
  <2>3. hist' = Append(ended, new)
    BY <1>3, <2>1, <2>2 DEF Record
  <2>4. ended \in Seq({[hist[r] EXCEPT !.live = FALSE] : r \in DOMAIN hist})
    BY <2>1
  <2>5. hist'[Len(hist')] = new
    BY <2>3, <2>4
  <2> QED
    BY <1>4, <2>2, <2>5
<1>6. /\ pc'[p] = "idle" /\ app'[p] = NoRow /\ op'[p] = None /\ shipped'[p] = None
      /\ pc'[Reconciler] = pc[Reconciler] /\ app'[Reconciler] = app[Reconciler]
  BY <1>1, <1>2, Goes
<1>7. Shipping(p)' /\ Recording(p)' /\ Copied(p)' /\ Stopping(p)'
  BY <1>6 DEF Shipping, Recording, Copied, Stopping, None
<1>8. Ticking(p)'
  BY <1>2, <1>3, <1>6 DEF Alone, Ticking, None
<1>9. Matching(p)'
  BY <1>2, <1>3, <1>5 DEF Alone, Matching, Installed
<1> QED
  BY <1>2, <1>7, <1>8, <1>9 DEF Alone

\* The request asks for a build, which there is none of (startBuild).
LEMMA StartBuildAlone ==
    ASSUME LocalInv, Builds = {}, NEW p \in Reqs, Alone(p), StartBuild(p)
    PROVE  Alone(p)'
<1>1. /\ p \in Procs /\ p # Reconciler /\ Reconciler \in Procs
      /\ pc[p] = "startBuild" => shipped[p] = None
      /\ row = NoRow <=> ~Exists
  BY Whereabouts
<1>2. pc[p] = "startBuild" /\ ~Exists
  BY DEF StartBuild
<1>3. FALSE
  BY <1>1, <1>2 DEF Alone, Copied
<1> QED
  BY <1>3

\* The request changes the cluster (KubeBackend).
LEMMA ClusterAlone ==
    ASSUME LocalInv, StoreTypes, NEW p \in Reqs, Alone(p),
           Apply(p) \/ Pause(p) \/ ScaleDown(p) \/ Bounce(p) \/ Uninstall(p)
    PROVE  Alone(p)'
<1>1. /\ p \in Procs /\ p # Reconciler /\ Reconciler \in Procs /\ p \notin Builds
      /\ pc[p] # "idle" => OpAt(op[p], pc[p]) /\ app[p] \in Row
      /\ op[p] = "create" => app[p].status # "stopped" /\ (pc[p] \in {"apply", "insert"} => row = NoRow)
      /\ op[p] \in {"scale"} /\ pc[p] \in {"gate", "apply"} => app[p].status # "stopped"
  BY Whereabouts
<1>2. CASE Apply(p)
  <2>1. pc[p] = "apply" /\ op[p] \in {"create", "deploy", "update", "scale", "rollback"} /\ app[p] \in Row
    BY <1>1, <1>2 DEF Apply, OpAt
  <2>2. PICK l : l = AfterApply(p)
    OBVIOUS
  <2>3. l = (CASE op[p] = "create" -> "insert" [] op[p] = "deploy" -> "put" [] OTHER -> "get")
    BY <1>1, <2>2 DEF AfterApply
  <2>4. /\ l \in {"insert", "put", "get"} /\ (l = "insert" <=> op[p] = "create") /\ (l = "put" <=> op[p] = "deploy")
    BY <2>3
  <2>5. PICK a : a = [app[p] EXCEPT !.deployed = TRUE,
                                    !.status = IF op[p] = "scale" THEN @ ELSE "deploying"]
    OBVIOUS
  <2>6. /\ cluster' = [image |-> app[p].image, paused |-> Installed /\ cluster.paused, pods |-> "ready"]
        /\ pc' = [pc EXCEPT ![p] = l] /\ shipped' = [shipped EXCEPT ![p] = app[p].image]
        /\ UNCHANGED <<row, born, hist, op, aborts>>
    BY <1>2, <2>2 DEF Apply, store, counts
  <2>7. app' = [app EXCEPT ![p] = a]
    <3>1. app' = [app EXCEPT ![p].deployed = TRUE, ![p].status = IF op[p] = "scale" THEN @ ELSE "deploying"]
      BY <1>2 DEF Apply
    <3>2. app \in [Procs -> Row \union {NoRow}]
      BY DEF LocalInv, Typed
    <3> QED
      BY <1>1, <2>1, <2>5, <3>1, <3>2 DEF Row
  <2>8. /\ a.deployed /\ a.image = app[p].image /\ a.status # "stopped"
    BY <1>1, <2>1, <2>5 DEF Row
  <2>9. /\ pc'[p] = l /\ app'[p] = a /\ shipped'[p] = app[p].image /\ op'[p] = op[p]
        /\ pc'[Reconciler] = pc[Reconciler] /\ app'[Reconciler] = app[Reconciler]
    BY <1>1, <2>6, <2>7 DEF LocalInv, Typed
  <2>10. app[p].image # None /\ cluster'.image = app[p].image
    BY <2>1, <2>6 DEF Alone, Copied
  <2>11. Shipping(p)' /\ Recording(p)'
    BY <2>1, <2>4, <2>8, <2>9, <2>10 DEF Shipping, Recording
  <2>12. Copied(p)'
    BY <2>1, <2>4, <2>6, <2>8, <2>9, <2>10 DEF Alone, Copied
  <2>13. Stopping(p)'
    BY <2>1, <2>4, <2>8, <2>9 DEF Stopping
  <2>14. Ticking(p)' /\ Matching(p)'
    BY <2>6, <2>9, <2>10 DEF Alone, Ticking, Matching, Installed
  <2> QED
    BY <2>6, <2>11, <2>12, <2>13, <2>14 DEF Alone
<1>3. CASE Pause(p) \/ ScaleDown(p) \/ Bounce(p) \/ Uninstall(p)
  <2>1. PICK l \in {"scaleDown", "put", "drop", "idle"} :
             /\ Goto(p, l, app[p])
             /\ Pause(p) => l = "scaleDown"
             /\ ScaleDown(p) \/ Bounce(p) => l = IF Installed THEN "put" ELSE "idle"
             /\ Uninstall(p) => l = "drop"
    <3>1. CASE Pause(p)
      <4>1. pc[p] = "pause" /\ Goto(p, "scaleDown", app[p])
        BY <3>1 DEF Pause
      <4> QED
        BY <4>1 DEF ScaleDown, Bounce, Uninstall
    <3>2. CASE ScaleDown(p)
      <4>1. pc[p] = "scaleDown" /\ Goto(p, IF Installed THEN "put" ELSE "idle", app[p])
        BY <3>2 DEF ScaleDown
      <4> QED
        BY <4>1 DEF Pause, Uninstall
    <3>3. CASE Bounce(p)
      <4>1. pc[p] = "bounce" /\ Goto(p, IF Installed THEN "put" ELSE "idle", app[p])
        BY <3>3 DEF Bounce
      <4> QED
        BY <4>1 DEF Pause, Uninstall
    <3>4. CASE Uninstall(p)
      <4>1. pc[p] = "uninstall" /\ Goto(p, "drop", app[p])
        BY <3>4 DEF Uninstall
      <4> QED
        BY <4>1 DEF Pause, ScaleDown, Bounce
    <3> QED
      BY <1>3, <3>1, <3>2, <3>3, <3>4
  <2>2. /\ Pause(p) => pc[p] = "pause" /\ op[p] = "stop"
        /\ ScaleDown(p) => pc[p] = "scaleDown" /\ op[p] = "stop"
        /\ Bounce(p) => pc[p] = "bounce" /\ op[p] = "restart"
        /\ Uninstall(p) => pc[p] = "uninstall" /\ op[p] = "delete"
    BY <1>1 DEF Pause, ScaleDown, Bounce, Uninstall, OpAt
  <2>3. UNCHANGED <<row, born, hist, aborts>>
    BY <1>3 DEF Pause, ScaleDown, Bounce, Uninstall, store, counts
  <2>4. shipped[p] = None
    BY <1>3, <2>2 DEF Alone, Shipping
  <2>5. /\ pc'[p] = l
        /\ l = "idle" => app'[p] = NoRow /\ op'[p] = None /\ shipped'[p] = None
        /\ l # "idle" => app'[p] = app[p] /\ op'[p] = op[p] /\ shipped'[p] = shipped[p]
        /\ pc'[Reconciler] = pc[Reconciler] /\ app'[Reconciler] = app[Reconciler]
    BY <1>1, <2>1, Goes
  <2>6. shipped'[p] = None /\ (op'[p] = op[p] \/ op'[p] = None)
    BY <2>4, <2>5
  <2>c. /\ Pause(p) => cluster' = [cluster EXCEPT !.paused = Installed]
        /\ ScaleDown(p) => cluster' = [cluster EXCEPT !.pods = "zero"]
        /\ Bounce(p) => cluster' = [cluster EXCEPT !.pods = IF @ = "zero" THEN @ ELSE "pending"]
        /\ Uninstall(p) => cluster' = NotInstalled
    BY DEF Pause, ScaleDown, Bounce, Uninstall
  <2>d. cluster \in [image : AllImages \cup {None}, paused : BOOLEAN, pods : {"zero", "pending", "ready"}]
    BY DEF StoreTypes
  <2>7. /\ Pause(p) \/ ScaleDown(p) \/ Bounce(p) => cluster'.image = cluster.image /\ Installed' = Installed
        /\ Uninstall(p) => ~Installed'
        /\ ~Installed' => cluster'.pods = "zero"
        /\ Down => Down'
        /\ Pause(p) => (Installed' => cluster'.paused)
        /\ ScaleDown(p) => Down'
    <3>1. CASE Pause(p)
      BY <2>2, <2>c, <2>d, <3>1 DEF Alone, Matching, Installed, Down, ScaleDown, Uninstall
    <3>2. CASE ScaleDown(p)
      BY <2>2, <2>c, <2>d, <3>2 DEF Alone, Stopping, Matching, Installed, Down, Pause, Uninstall
    <3>3. CASE Bounce(p)
      BY <2>2, <2>c, <2>d, <3>3 DEF Alone, Matching, Installed, Down, Pause, Uninstall, ScaleDown
    <3>4. CASE Uninstall(p)
      BY <2>2, <2>c, <3>4 DEF NotInstalled, Installed, Down, Pause, ScaleDown, Bounce
    <3> QED
      BY <1>3, <3>1, <3>2, <3>3, <3>4
  <2>8. Shipping(p)' /\ Recording(p)'
    BY <2>1, <2>5, <2>6 DEF Shipping, Recording
  <2>9. Copied(p)'
    BY <1>3, <2>1, <2>2, <2>3, <2>5, <2>6 DEF Alone, Copied, None
  <2>10. Stopping(p)'
    <3>1. CASE Pause(p)
      BY <2>1, <2>2, <2>5, <2>7, <3>1 DEF Stopping
    <3>2. CASE ScaleDown(p)
      BY <2>1, <2>2, <2>5, <2>7, <3>2 DEF Stopping, None
    <3>3. CASE Bounce(p)
      BY <2>1, <2>2, <2>5, <2>7, <3>3 DEF Alone, Stopping, None
    <3>4. CASE Uninstall(p)
      BY <2>1, <2>2, <2>5, <2>7, <3>4 DEF Stopping
    <3> QED
      BY <1>3, <3>1, <3>2, <3>3, <3>4
  <2>11. Ticking(p)'
    BY <2>1, <2>3, <2>5 DEF Alone, Ticking, None
  <2>12. Matching(p)'
    <3>1. ~row.deployed => ~Installed'
      BY <1>3, <2>4, <2>7 DEF Alone, Matching
    <3>2. row.status = "stopped" => Down'
      BY <2>4, <2>7 DEF Alone, Matching
    <3>3. hist # <<>> /\ pc'[p] # "drop" => hist[Len(hist)].image = cluster'.image /\ hist[Len(hist)].live
      BY <1>3, <2>1, <2>2, <2>4, <2>5, <2>7 DEF Alone, Matching
    <3> QED
      BY <2>3, <2>6, <2>7, <3>1, <3>2, <3>3 DEF Matching
  <2> QED
    BY <2>3, <2>8, <2>9, <2>10, <2>11, <2>12 DEF Alone
<1> QED
  BY <1>2, <1>3

\* The request's own steps, when it is not aborted (Step).
LEMMA StepAlone ==
    ASSUME Inv, Builds = {}, NEW p \in Reqs, Alone(p), Step(p)
    PROVE  Alone(p)'
<1> USE DEF Inv
<1>1. /\ p \in Procs /\ p \notin Builds
      /\ pc[p] # "idle" => OpAt(op[p], pc[p]) /\ app[p] \in Row
      /\ op[p] \in {"scale"} /\ pc[p] \in {"gate", "apply"} => app[p].status # "stopped"
      /\ row \in Row \union {NoRow} /\ (row = NoRow <=> ~Exists)
  BY Whereabouts
<1>2. CASE ReadAgain(p)
  <2>1. pc[p] = "read" /\ op[p] = "restart" /\ UNCHANGED <<row, born, hist, cluster, aborts>>
    BY <1>1, <1>2 DEF ReadAgain, OpAt, store, counts
  <2>2. shipped[p] = None /\ Exists
    BY <1>1, <2>1 DEF Alone, Shipping, Copied
  <2>3. PICK a : a = [row EXCEPT !.status = "restarting"]
    OBVIOUS
  <2>4. PICK l : l = IF row.deployed THEN "bounce" ELSE "put"
    OBVIOUS
  <2>5. Goto(p, l, a) /\ a.deployed = row.deployed /\ a.status = "restarting" /\ l \in {"put", "bounce"}
        /\ l # "idle" /\ l # "apply"
    <3>1. row \in Row
      BY <1>1, <2>2
    <3> QED
      BY <1>2, <2>2, <2>3, <2>4, <3>1 DEF ReadAgain, Row
  <2> QED
    BY <2>1, <2>2, <2>5, GoesOnAlone
<1>3. CASE Get(p)
  <2>1. pc[p] = "get" /\ op[p] \in {"update", "scale", "rollback"} /\ UNCHANGED <<row, born, hist, cluster, aborts>>
    BY <1>1, <1>3 DEF Get, OpAt, store, counts
  <2>2. Exists /\ app[p] \in Row
    BY <1>1, <2>1 DEF Alone, Copied
  <2>3. PICK a : a = [app[p] EXCEPT !.git = row.git]
    OBVIOUS
  <2>4. Goto(p, "put", a) /\ a.deployed = app[p].deployed /\ a.image = app[p].image /\ a.status = app[p].status
    BY <1>3, <2>2, <2>3 DEF Get, Row
  <2>5. "put" # "apply" /\ "put" # "bounce" /\ op[p] # "restart" /\ op[p] # "create" /\ "put" # "idle"
    BY <2>1
  <2> QED
    BY <2>1, <2>2, <2>4, <2>5, GoesOnAlone
<1>4. CASE Gate(p)
  <2>1. pc[p] = "gate" /\ op[p] = "scale" /\ UNCHANGED <<row, born, hist, cluster, aborts>>
    BY <1>1, <1>4 DEF Gate, OpAt, store, counts
  <2>2. PICK l : l = IF sub THEN "apply" ELSE "idle"
    OBVIOUS
  <2>3. Goto(p, l, app[p]) /\ l \in {"apply", "idle"}
    BY <1>1, <1>4, <2>2 DEF Gate
  <2>4. shipped[p] = None
    BY <2>1 DEF Alone, Shipping
  <2>5. app[p].image # None
    BY <2>1 DEF Alone, Copied
  <2> QED
    BY <2>1, <2>3, <2>4, <2>5, GoesOnAlone
<1>5. CASE ApplyFails(p)
  <2>1. pc[p] = "apply" /\ Goto(p, "idle", app[p]) /\ UNCHANGED <<row, born, hist, cluster, aborts>>
    BY <1>1, <1>5 DEF ApplyFails, store, counts
  <2>2. shipped[p] = None
    BY <2>1 DEF Alone, Shipping
  <2> QED
    BY <2>1, <2>2, GoesOnAlone
<1>6. CASE Record(p)
  BY <1>6, RecordAlone DEF StoreTypes
<1> QED
  BY <1>2, <1>3, <1>4, <1>5, <1>6, PutAlone, RowAlone, StartBuildAlone, ClusterAlone DEF Step

\* The reconciler writes back a row with a release, which it stops nothing with, in the middle
\* of any request (reconcileWorkload).
LEMMA TickAlone ==
    ASSUME Inv, NEW p \in Reqs, Alone(p), ReconcileList \/ ReconcileStatus \/ Step(Reconciler)
    PROVE  Alone(p)'
<1> DEFINE q == Reconciler
<1>1. /\ p \in Procs /\ p # q /\ q \in Procs
      /\ row \in Row \union {NoRow} /\ (row = NoRow <=> ~Exists)
      /\ row = NoRow => ~row.deployed /\ row.status # "stopped"
      /\ ~born => row = NoRow
      /\ op[p] = "create" => (pc[p] \in {"apply", "insert"} => row = NoRow)
  BY Whereabouts DEF Inv
<1>2. pc[q] \in TickPlaces /\ (pc[q] # "idle" => app[q] \in Row)
  <2>1. Placed(q, pc[q], op[q], app[q], shipped[q])
    BY <1>1, Kinds DEF Inv
  <2> QED
    BY <2>1 DEF Placed, TickPlaces, Rowless
<1>3. ASSUME NEW l, NEW a, Goto(q, l, a), UNCHANGED <<row, born, hist, cluster, aborts>>,
             l # "idle" => a.deployed /\ a.status # "stopped" /\ (row.deployed \/ pc[q] # "idle")
      PROVE  Alone(p)'
  <2>1. /\ pc'[q] = l /\ (l # "idle" => app'[q] = a)
        /\ pc'[p] = pc[p] /\ op'[p] = op[p] /\ app'[p] = app[p] /\ shipped'[p] = shipped[p]
    BY <1>1, <1>3, Goes DEF Inv
  <2>2. Down' = Down /\ Installed' = Installed
    BY <1>3 DEF Down, Installed
  <2>3. Shipping(p)' /\ Recording(p)' /\ Copied(p)' /\ Stopping(p)'
    BY <1>3, <2>1, <2>2 DEF Alone, Shipping, Recording, Copied, Stopping
  <2>4. Ticking(p)'
    BY <1>3, <2>1 DEF Alone, Ticking
  <2>5. Matching(p)'
    BY <1>3, <2>1, <2>2 DEF Alone, Matching
  <2> QED
    BY <1>3, <2>3, <2>4, <2>5 DEF Alone
<1>4. CASE ReconcileList
  <2>1. /\ Goto(q, "status", row) /\ row.deployed /\ row.status # "stopped"
        /\ UNCHANGED <<row, born, hist, cluster, aborts>>
    BY <1>4 DEF ReconcileList, stickyStatuses, store, counts
  <2> QED
    BY <1>3, <2>1
<1>5. CASE ReconcileStatus
  <2>1. PICK a : a = [app[q] EXCEPT !.status = Phase]
    OBVIOUS
  <2>2. PICK l : Goto(q, l, a) /\ UNCHANGED <<row, born, hist, cluster, aborts>> /\ pc[q] = "status"
    BY <1>5, <2>1 DEF ReconcileStatus, store, counts
  <2>3. Phase # "stopped"
    BY DEF Phase, Inv, StoreTypes
  <2>4. app[q].deployed /\ app[q] \in Row
    BY <1>2, <2>2 DEF Alone, Ticking
  <2>5. a.deployed /\ a.status # "stopped"
    BY <2>1, <2>3, <2>4 DEF Row
  <2> QED
    BY <1>3, <2>2, <2>5
<1>6. CASE Step(q)
  <2>1. Put(q)
    BY <1>2, <1>6 DEF Step, TickPlaces, ReadAgain, Get, Insert, StartBuild, Record, Drop, Gate, Apply, ApplyFails,
       Pause, ScaleDown, Bounce, Uninstall
  <2>2. pc[q] = "put" /\ app[q] \in Row
    BY <1>2, <2>1 DEF Put, TickPlaces
  <2>3. app[q].deployed /\ app[q].status # "stopped" /\ (row.deployed \/ (row = NoRow /\ born /\ op[p] # "create"))
    BY <2>2 DEF Alone, Ticking
  <2>4. PICK l : Goto(q, l, app[q])
    BY <2>1 DEF Put
  <2>5. UNCHANGED <<born, hist, cluster, aborts>> /\ row' = IF Exists THEN app[q] ELSE NoRow
    BY <2>1 DEF Put, counts
  <2>6. CASE ~Exists
    BY <1>1, <1>3, <2>2, <2>3, <2>4, <2>5, <2>6
  <2>7. CASE Exists
    <3>1. row' = app[q] /\ row # NoRow /\ row' # NoRow /\ row.deployed /\ row'.deployed /\ row'.status # "stopped"
      BY <1>1, <2>2, <2>3, <2>5, <2>7, RowStatus
    <3>2. /\ pc'[q] = l /\ (l # "idle" => app'[q] = app[q])
          /\ pc'[p] = pc[p] /\ op'[p] = op[p] /\ app'[p] = app[p] /\ shipped'[p] = shipped[p]
      BY <1>1, <2>4, Goes DEF Inv
    <3>3. Down' = Down /\ Installed' = Installed
      BY <2>5 DEF Down, Installed
    <3>4. Shipping(p)' /\ Recording(p)'
      BY <2>5, <3>1, <3>2 DEF Alone, Shipping, Recording
    <3>5. Copied(p)'
      BY <3>1, <3>2 DEF Alone, Copied
    <3>s. Stopping(p)'
      BY <2>5, <3>2, <3>3 DEF Alone, Stopping
    <3>6. Ticking(p)'
      BY <2>3, <3>1, <3>2 DEF Ticking
    <3>7. Matching(p)'
      BY <2>5, <3>1, <3>2, <3>3 DEF Alone, Matching
    <3> QED
      BY <2>5, <3>4, <3>5, <3>s, <3>6, <3>7 DEF Alone
  <2> QED
    BY <2>6, <2>7
<1> QED
  BY <1>4, <1>5, <1>6

\* The gate and the cluster on its own: pods that KEDA holds down stay down (Flap, KedaHolds).
LEMMA EnvironmentAlone ==
    ASSUME Inv, NEW p \in Reqs, Alone(p), Close \/ Open \/ PodsReady \/ Flap \/ KedaHolds \/ UNCHANGED vars
    PROVE  Alone(p)'
<1>1. UNCHANGED <<row, born, hist, pc, op, app, shipped, aborts>>
  BY DEF Close, Open, PodsReady, Flap, KedaHolds, Pods, vars, store, local, counts
<1>2. /\ cluster'.image = cluster.image /\ cluster'.paused = cluster.paused
      /\ Installed' = Installed /\ (~Installed => cluster' = cluster) /\ (Down => Down')
  <2>1. cluster \in [image : AllImages \cup {None}, paused : BOOLEAN, pods : {"zero", "pending", "ready"}]
    BY DEF Inv, StoreTypes
  <2>2. CASE Close \/ Open \/ UNCHANGED vars
    BY <2>2 DEF Close, Open, vars, store, Installed, Down
  <2>3. CASE PodsReady \/ Flap \/ KedaHolds
    <3>1. PICK from, to : Pods(from, to) /\ (from = "zero" => ~cluster.paused)
      BY <2>3 DEF PodsReady, Flap, KedaHolds
    <3>2. Installed /\ cluster.pods = from /\ cluster' = [cluster EXCEPT !.pods = to]
      BY <3>1 DEF Pods
    <3> QED
      BY <2>1, <3>1, <3>2 DEF Installed, Down
  <2> QED
    BY <2>2, <2>3
<1>3. Shipping(p)' /\ Recording(p)' /\ Copied(p)' /\ Ticking(p)'
  BY <1>1, <1>2 DEF Alone, Shipping, Recording, Copied, Ticking
<1>4. Stopping(p)'
  BY <1>1, <1>2 DEF Alone, Stopping
<1>5. Matching(p)'
  BY <1>1, <1>2 DEF Alone, Matching
<1> QED
  BY <1>1, <1>3, <1>4, <1>5 DEF Alone

\* With one request at a time, no builds and nothing cut short, the row, the cluster and the
\* history agree between operations, for any number of operations and images, and with a
\* reconciler that writes back what it read in the middle of them (Deploy, Stop, Delete,
\* RollbackTo, UpdateApp, reconcileWorkload).
THEOREM OneAtATime ==
    ASSUME Builds = {}, MaxAborts = 0, NEW p, Reqs = {p}
    PROVE  Spec => []ClusterMatchesRow
<1>1. Init => Alone(p)
  <2> SUFFICES ASSUME Init PROVE Alone(p)
    OBVIOUS
  <2>1. /\ p \in Procs /\ Reconciler \in Procs
    BY DEF Procs
  <2>2. /\ pc[p] = "idle" /\ op[p] = None /\ app[p] = NoRow /\ shipped[p] = None /\ pc[Reconciler] = "idle"
        /\ row = NoRow /\ hist = <<>> /\ cluster = NotInstalled /\ aborts = 0
    BY <2>1 DEF Init
  <2>3. ~Installed /\ cluster.pods = "zero"
    BY <2>2 DEF Installed, NotInstalled
  <2>4. Shipping(p) /\ Recording(p) /\ Copied(p) /\ Stopping(p)
    BY <2>2 DEF Shipping, Recording, Copied, Stopping, None
  <2>5. Ticking(p) /\ Matching(p)
    BY <2>2, <2>3 DEF Ticking, Matching, Down
  <2> QED
    BY <2>2, <2>4, <2>5 DEF Alone
<1>2. Inv /\ Alone(p) /\ [Next]_vars => Alone(p)'
  <2> SUFFICES ASSUME Inv, Alone(p), [Next]_vars PROVE Alone(p)'
    OBVIOUS
  <2>1. \A q \in Procs : ~Abort(q)
    BY DEF Abort, Alone
  <2>2. Procs = {p, Reconciler} /\ p \in Reqs
    BY DEF Procs
  <2>3. ASSUME NEW q \in Reqs, Request(q) PROVE Alone(p)'
    BY <2>3, RequestAlone DEF Inv
  <2>4. ASSUME NEW q \in Procs, Step(q) PROVE Alone(p)'
    BY <2>2, <2>4, StepAlone, TickAlone
  <2> QED
    BY <2>1, <2>2, <2>3, <2>4, TickAlone, EnvironmentAlone DEF Next
<1>3. Inv /\ Alone(p) => ClusterMatchesRow
  <2> SUFFICES ASSUME Inv, Alone(p), AllIdle PROVE StoppedIsDown /\ NoOrphan /\ HistoryMatchesCluster
    BY DEF ClusterMatchesRow, StoppedIsDown, NoOrphan, HistoryMatchesCluster
  <2>1. pc[p] = "idle" /\ p \in Reqs
    BY DEF AllIdle
  <2>2. shipped[p] = None /\ (row = NoRow => ~row.deployed)
    BY <2>1, Whereabouts DEF Inv
  <2> QED
    BY <2>1, <2>2 DEF Alone, Matching, Down, StoppedIsDown, NoOrphan, HistoryMatchesCluster
<1> QED
  BY <1>1, <1>2, <1>3, Invariant, PTL DEF Spec

=============================================================================
