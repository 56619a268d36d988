------------------------------ MODULE Workloads ------------------------------
(***************************************************************************)
(* Managed databases and catalog services of a project (platform/service.go *)
(* and services.go): requests that create, deploy, stop, start, restart    *)
(* and delete them, gated by the subscription and the plan, each a read of *)
(* the row, a call to the cluster and a write of the row.  A call may fail *)
(* and another request may come between.                                   *)
(*                                                                         *)
(* A workload's Helm release and its volume are found at its place: its    *)
(* name, once sanitized (Names are sanitized names), in a namespace.  That *)
(* is named by the slugs of the org and the project, or by the id of one   *)
(* whose slug cannot be read when a creation or a deploy looks it up: any  *)
(* of Namespaces.  A row keeps the namespace it was created in, for stops, *)
(* starts, restarts and deletes; a deploy looks it up again.               *)
(*                                                                         *)
(* The password of a database is known by the id of its row.  Apps, which  *)
(* count against the same limit, are in AppLifecycle.                      *)
(***************************************************************************)
EXTENDS Integers, FiniteSets

CONSTANTS
    Requests, Names,
    Namespaces, \* those of the project: its slugs', and the ones named by ids
    Ids,        \* bound: the workloads there are at a time; a free id is given again
    None,       \* no id, no place
    MaxApps     \* the limit of the plan

Places == Namespaces \X Names

ASSUME LimitAssumption == MaxApps \in Nat \ {0}
ASSUME RequestsAssumption == IsFiniteSet(Requests) /\ Requests # {}
ASSUME IdsAssumption == IsFiniteSet(Ids) /\ None \notin Ids \union Places

VARIABLES
    row,        \* databases and services: the row of an id
    release,    \* the release at a place: "none", "up" or "down" (scaled to zero)
    volume,     \* the password a place's volume was initialised with
    tenant,     \* namespaces that are set up: there, and with a quota, limit range, service
                \* account and network policy
    paid,       \* the org may provision: its subscription is active, below its cap
    req,        \* the requests under way
    peak,       \* history: the most creations that were under way at once
    crossed,    \* history: places of requests that overlapped, failed half-way, met what
                \* another workload left there, or were deployed to another place
    astray      \* history: places a deploy was sent to that were not its row's

vars == <<row, release, volume, tenant, paid, req, peak, crossed, astray>>
cluster == <<release, volume, tenant>>
history == <<peak, crossed, astray>>

Kinds == {"database", "service"}
Statuses == {"deploying", "running", "restarting", "stopped"}
Gone == "gone"      \* the password of a row that there is no more
ASSUME GoneAssumption == Gone \notin Ids \union {None}

NoRow == [kind |-> "none", at |-> None, status |-> "none", layers |-> 0]
Idle == [pc |-> "idle", op |-> "none", id |-> None, kind |-> "none", at |-> None,
         layers |-> 0, paid |-> FALSE]

\* A row may have been written before passwords were encrypted.
Init ==
    /\ row \in {[d \in Ids |-> NoRow]} \union
               {[d \in Ids |-> IF d = e THEN [kind |-> "database", at |-> p, status |-> "running", layers |-> 0]
                                        ELSE NoRow] : e \in Ids, p \in Places}
    /\ LET rowsAt(p) == {d \in Ids : row[d].at = p} IN
       /\ release = [p \in Places |-> IF rowsAt(p) # {} THEN "up" ELSE "none"]
       /\ volume = [p \in Places |-> IF rowsAt(p) # {} THEN CHOOSE d \in rowsAt(p) : TRUE ELSE None]
    /\ tenant = {row[d].at[1] : d \in {e \in Ids : row[e] # NoRow}}
    /\ paid = TRUE
    /\ req = [r \in Requests |-> Idle]
    /\ peak = 0 /\ crossed = {} /\ astray = {}

-----------------------------------------------------------------------------
(* Passwords at rest: how many times they are encrypted.                   *)

Encrypt(layers) == layers + 1

\* A legacy plaintext passes unchanged.
Decrypt(layers) == IF layers = 0 THEN 0 ELSE layers - 1

-----------------------------------------------------------------------------

HasRow(d) == row[d] # NoRow
Rows == {d \in Ids : HasRow(d)}
Creating == {r \in Requests : req[r].op = "create"}

\* Mutant: only databases count.
workloadCountDatabases == Cardinality({d \in Rows : row[d].kind = "database"})

workloadCount == Cardinality(Rows)

\* Apps count too; here there are none.
checkQuota == workloadCount < MaxApps

ensureActive == paid

\* The gate before a workload is revived: the subscription, and the plan's size.
ensureRunnable == ensureActive

\* A request begins, on what it has read; it may cross another at its place.  Only one
\* that brings something up is noted as one of an org that can pay.
Begin(r, q) ==
    /\ req[r].pc = "idle"
    /\ req' = [req EXCEPT ![r] = [q EXCEPT !.paid = paid /\ q.op \in {"deploy", "start"}]]
    /\ crossed' = crossed \union {p \in {q.at} : \E s \in Requests : req[s].at = p}
                          \union {p \in {q.at, row[q.id].at} : q.at # row[q.id].at}
    /\ astray' = astray \union {p \in {q.at} : p # row[q.id].at}

Goto(r, pc) == req' = [req EXCEPT ![r].pc = pc]
Done(r) == req' = [req EXCEPT ![r] = Idle]

\* What is left of a request that ends: the password of a row that never was, or is no
\* more, is nobody's.
Forget(d) == [p \in Places |-> IF volume[p] = d THEN Gone ELSE volume[p]]

\* A request ends with an error, and its client may send it again.
Abort(r) ==
    /\ Done(r)
    /\ crossed' = crossed \union {req[r].at}
    /\ volume' = IF req[r].op = "create" THEN Forget(req[r].id) ELSE volume

-----------------------------------------------------------------------------
(* CreateDatabase and CreateService.                                       *)

\* The gate, and the workloads counted against the plan, before anything is changed.
Create(r, kind, name) ==
    /\ ensureActive /\ checkQuota
    /\ \E d \in Ids, ns \in Namespaces :
          LET at == <<ns, name>> IN
          /\ ~HasRow(d) /\ \A s \in Requests : req[s].id # d
          /\ req[r].pc = "idle"
          /\ req' = [req EXCEPT ![r] = [Idle EXCEPT !.pc = "tenant", !.op = "create", !.id = d,
                                        !.kind = kind, !.at = at, !.paid = TRUE]]
          /\ crossed' = crossed \union
                {p \in {at} : \/ \E s \in Requests : req[s].at = p
                              \/ \E e \in Rows : row[e].at = p
                              \/ release[p] # "none" \/ volume[p] # None}
    /\ LET n == Cardinality(Creating) + 1 IN peak' = IF n > peak THEN n ELSE peak
    /\ UNCHANGED <<row, cluster, paid, astray>>

CreateDatabase(r, name) == Create(r, "database", name)

CreateService(r, name) == Create(r, "service", name)

\* Mutant: what fails does not end the request.
EnsureTenantAnyway(r) ==
    /\ req[r].pc = "tenant"
    /\ tenant' \in {tenant, tenant \union {req[r].at[1]}}
    /\ Goto(r, "apply")
    /\ UNCHANGED <<row, release, volume, paid, history>>

\* Every part is created or updated in turn; the first that fails ends the request, and
\* leaves those before it.
EnsureTenant(r) ==
    /\ req[r].pc = "tenant"
    /\ \/ tenant' = tenant \union {req[r].at[1]} /\ Goto(r, "apply") /\ UNCHANGED <<volume, crossed>>
       \/ UNCHANGED tenant /\ Abort(r)
    /\ UNCHANGED <<row, release, paid, peak, astray>>

\* An engine initialises an empty volume with the password it is given, and keeps the one
\* it finds: volumes are retained whatever becomes of the release.
Mounted(r) ==
    LET q == req[r] IN
    IF q.kind = "database" /\ volume[q.at] = None THEN [volume EXCEPT ![q.at] = q.id] ELSE volume

\* helm upgrade --install --create-namespace --wait --atomic: a namespace that is not there
\* is created, not set up (whether pods start without their service account is left to the
\* cluster); after a failure an upgrade is rolled back, and an
\* installation removed, its volume apart.
Apply(r) ==
    LET q == req[r] IN
    /\ q.pc = "apply"
    /\ \/ /\ release' = [release EXCEPT ![q.at] = "up"]
          /\ volume' = Mounted(r)
          /\ Goto(r, "store")
          /\ UNCHANGED crossed
       \/ /\ volume' = [p \in Places |-> IF Mounted(r)[p] = q.id /\ q.op = "create" THEN Gone ELSE Mounted(r)[p]]
          /\ Done(r)
          /\ crossed' = crossed \union {q.at}
          /\ UNCHANGED release
    /\ UNCHANGED <<row, tenant, paid, peak, astray>>

createDatabase(r) ==
    LET q == req[r] IN
    /\ req[r].pc = "store" /\ q.op = "create"
    /\ row' = [row EXCEPT ![q.id] = [kind |-> q.kind, at |-> q.at, status |-> "deploying",
                                     layers |-> IF q.kind = "database" THEN Encrypt(0) ELSE 0]]
    /\ Done(r)
    /\ UNCHANGED <<cluster, paid, history>>

-----------------------------------------------------------------------------
(* Requests on a workload that exists.                                     *)

\* Mutant: the password is not decrypted.
ownedDatabaseSealed(op, pc, d) ==
    [Idle EXCEPT !.pc = pc, !.op = op, !.id = d, !.kind = row[d].kind, !.at = row[d].at,
                 !.layers = row[d].layers]

\* What is read of a row of either kind, the password of a database decrypted.
ownedDatabase(op, pc, d) ==
    [Idle EXCEPT !.pc = pc, !.op = op, !.id = d, !.kind = row[d].kind, !.at = row[d].at,
                 !.layers = Decrypt(row[d].layers)]

\* It goes to the namespace that the slugs, or the ids in their place, name now; the row
\* keeps its own.
Deploy(r, kind, d) ==
    /\ HasRow(d) /\ row[d].kind = kind /\ ensureRunnable
    /\ \E ns \in Namespaces :
          Begin(r, [ownedDatabase("deploy", "apply", d) EXCEPT !.at = <<ns, row[d].at[2]>>])
    /\ UNCHANGED <<row, cluster, paid, peak>>

DeployDatabase(r, d) == Deploy(r, "database", d)

DeployService(r, d) == Deploy(r, "service", d)

\* A stop is not gated.
Stop(r, kind, d) ==
    /\ HasRow(d) /\ row[d].kind = kind
    /\ Begin(r, ownedDatabase("stop", "act", d))
    /\ UNCHANGED <<row, cluster, paid, peak>>

StopDatabase(r, d) == Stop(r, "database", d)

StopService(r, d) == Stop(r, "service", d)

\* Mutant: a database is started without the gate.
StartUngated(r, d) ==
    /\ HasRow(d) /\ row[d].kind = "database"
    /\ Begin(r, ownedDatabase("start", "reread", d))
    /\ UNCHANGED <<row, cluster, paid, peak>>

\* The gate reads the row for itself.
StartDatabase(r, d) ==
    /\ HasRow(d) /\ row[d].kind = "database" /\ ensureRunnable
    /\ Begin(r, ownedDatabase("start", "reread", d))
    /\ UNCHANGED <<row, cluster, paid, peak>>

Restart(r, kind, d) ==
    /\ HasRow(d) /\ row[d].kind = kind /\ ensureRunnable
    /\ Begin(r, ownedDatabase("restart", "reread", d))
    /\ UNCHANGED <<row, cluster, paid, peak>>

RestartDatabase(r, d) == Restart(r, "database", d)

RestartService(r, d) == Restart(r, "service", d)

\* databaseAction reads the row again: it may have gone.
Reread(r) ==
    LET d == req[r].id IN
    /\ req[r].pc = "reread"
    /\ IF HasRow(d)
       THEN req' = [req EXCEPT ![r] = [ownedDatabase(@.op, "act", d) EXCEPT !.paid = req[r].paid]]
       ELSE Done(r)
    /\ UNCHANGED <<row, cluster, paid, history>>

\* Mutant: a stop leaves the pods.
ScaledNot(op, was) == IF op = "start" THEN "up" ELSE was

\* What Stop, Start and Restart of the backend make of a release: a restart changes its
\* pods, not whether there are any.
Scaled(op, was) ==
    CASE op = "stop" -> "down" [] op = "start" -> "up" [] OTHER -> was

\* They fail on a release that is not there, and may fail anyway.
Scale(r) ==
    LET p == req[r].at IN
    /\ req[r].pc = "act"
    /\ \/ /\ release[p] # "none"
          /\ release' = [release EXCEPT ![p] = Scaled(req[r].op, @)]
          /\ Goto(r, "store") /\ UNCHANGED <<volume, crossed>>
       \/ Abort(r) /\ UNCHANGED release
    /\ UNCHANGED <<row, tenant, paid, peak, astray>>

StatusAfter(op) ==
    CASE op = "deploy" -> "deploying" [] op = "stop" -> "stopped"
      [] op = "start" -> "running" [] OTHER -> "restarting"

\* The row is written whole, if it is still there.
updateDatabase(r) ==
    LET q == req[r] IN
    /\ req[r].pc = "store" /\ q.op # "create"
    /\ row' = IF HasRow(q.id)
              THEN [row EXCEPT ![q.id].status = StatusAfter(q.op),
                               ![q.id].layers = IF q.kind = "database" THEN Encrypt(q.layers) ELSE 0]
              ELSE row
    /\ Done(r)
    /\ UNCHANGED <<cluster, paid, history>>

\* Mutant: the row goes, the release stays.
DeleteRowOnly(r, kind, d) ==
    /\ HasRow(d) /\ row[d].kind = kind
    /\ Begin(r, ownedDatabase("delete", "drop", d))
    /\ UNCHANGED <<row, cluster, paid, peak>>

Delete(r, kind, d) ==
    /\ HasRow(d) /\ row[d].kind = kind
    /\ Begin(r, ownedDatabase("delete", "uninstall", d))
    /\ UNCHANGED <<row, cluster, paid, peak>>

DeleteDatabase(r, d) == Delete(r, "database", d)

DeleteService(r, d) == Delete(r, "service", d)

\* A release that is not there is uninstalled already.
Uninstall(r) ==
    /\ req[r].pc = "uninstall"
    /\ \/ release' = [release EXCEPT ![req[r].at] = "none"] /\ Goto(r, "drop") /\ UNCHANGED <<volume, crossed>>
       \/ Abort(r) /\ UNCHANGED release
    /\ UNCHANGED <<row, tenant, paid, peak, astray>>

DropRow(r) ==
    LET d == req[r].id IN
    /\ req[r].pc = "drop"
    /\ row' = [row EXCEPT ![d] = NoRow]
    /\ volume' = Forget(d)
    /\ Done(r)
    /\ UNCHANGED <<release, tenant, paid, history>>

\* The store does not answer: the request ends with the cluster changed and the row not.
StoreFails(r) ==
    /\ req[r].pc \in {"store", "drop"}
    /\ Abort(r)
    /\ UNCHANGED <<row, release, tenant, paid, peak, astray>>

\* The subscription lapses or is renewed, the cap is reached, the plan changed to one the
\* workloads are too large for and back.
Billing ==
    /\ paid' = ~paid
    /\ UNCHANGED <<row, cluster, req, history>>

-----------------------------------------------------------------------------

Next ==
    \/ Billing
    \/ \E r \in Requests, name \in Names : CreateDatabase(r, name) \/ CreateService(r, name)
    \/ \E r \in Requests, d \in Ids :
          \/ DeployDatabase(r, d) \/ StopDatabase(r, d) \/ StartDatabase(r, d)
          \/ RestartDatabase(r, d) \/ DeleteDatabase(r, d)
          \/ DeployService(r, d) \/ StopService(r, d) \/ RestartService(r, d) \/ DeleteService(r, d)
    \/ \E r \in Requests :
          \/ EnsureTenant(r) \/ Apply(r) \/ createDatabase(r)
          \/ Reread(r) \/ Scale(r) \/ updateDatabase(r)
          \/ Uninstall(r) \/ DropRow(r) \/ StoreFails(r)

Spec == Init /\ [][Next]_vars

-----------------------------------------------------------------------------
(* Properties.                                                             *)

\* Types.
TypeOK ==
    /\ row \in [Ids -> [kind : Kinds, at : Places, status : Statuses, layers : 0..1] \union {NoRow}]
    /\ release \in [Places -> {"none", "up", "down"}]
    /\ volume \in [Places -> Ids \union {None, Gone}]
    /\ tenant \subseteq Namespaces /\ paid \in BOOLEAN
    /\ peak \in 0..Cardinality(Requests) /\ crossed \subseteq Places /\ astray \subseteq Places

\* The plan's limit is overshot by no more than the creations that ever ran at once, and not
\* at all when they ran one by one (checkQuota counts before the cluster is called and the
\* row is stored after).
QuotaOvershoot == Cardinality(Rows) > MaxApps => Cardinality(Rows) <= MaxApps + peak - 1

\* The password that is shown for a database opens its volume, whatever was stopped,
\* deployed again or updated since, unless its place met a volume of another
\* (ownedDatabase, encryptedForStore, dbWorkload: identical wiring).
ConnectionWorks ==
    \A d \in Rows : row[d].kind = "database" =>
        /\ ownedDatabase("get", "none", d).layers = 0
        /\ row[d].at \notin crossed => volume[row[d].at] = d

\* Every release is that of a row or of a request under way, and every row's release
\* exists, when no two requests at the place overlapped and none failed half-way or was
\* deployed elsewhere.
ReleasesListed ==
    \A p \in Places \ crossed :
        (\A r \in Requests : req[r].at # p) =>
            (release[p] # "none" <=> \E d \in Rows : row[d].at = p)

\* What a row says of its workload holds: it is down when stopped, and up when running or
\* deploying, but for such requests (databaseAction, serviceAction).
StatusHolds ==
    \A d \in Rows :
        row[d].at \notin crossed /\ (\A r \in Requests : req[r].at # row[d].at) =>
            /\ row[d].status = "stopped" => release[row[d].at] = "down"
            /\ row[d].status \in {"running", "deploying"} => release[row[d].at] = "up"

\* A row's namespace is set up whole, and nothing runs in one without quota, limits, service
\* account and network policy, at whichever part an earlier request failed, but what a
\* deploy put there that found another namespace than its row's (EnsureTenant, which no
\* deploy calls; orgSlug, projectSlug).
TenantFirst ==
    /\ \A d \in Rows : row[d].at[1] \in tenant
    /\ \A p \in Places \ astray : release[p] # "none" => p[1] \in tenant

\* What runs is what the rows say, inside a namespace that is set up (platform.Service and
\* kube.Backend together).
ReleasesMatchRows == TypeOK /\ ReleasesListed /\ StatusHolds /\ TenantFirst

\* A workload that is down, or not there, comes up only in a request that was admitted while
\* the org could pay: a canceled org cannot bring workloads back (ensureDatabaseRunnable).
NoUnpaidRevival ==
    [][\A p \in Places : release[p] # "up" /\ release'[p] = "up" =>
          \E r \in Requests : req[r].at = p /\ req[r].paid]_<<release, req>>

=============================================================================
