---------------------------- MODULE AppLifecycle ----------------------------
(***************************************************************************)
(* The life of one app: its row in the store, its Helm release in the      *)
(* cluster, its release history, the API requests and the build workers    *)
(* that change them (platform/service.go, platform/releases.go) and the    *)
(* reconciler that mirrors the cluster onto the row (httpx/server.go).     *)
(*                                                                         *)
(* Every operation reads the row, works on its own copy and writes the     *)
(* whole row back; nothing joins the steps.  A step of the model is one    *)
(* store call or one cluster call.  Recording a release is one step here;  *)
(* module Releases shows that its transaction is as good as that.          *)
(*                                                                         *)
(* Sizes, env, domains and replica bounds are left out: they travel with   *)
(* the image.  The workload-size check is part of the gate with the        *)
(* subscription, as both refuse an operation before it changes anything.   *)
(***************************************************************************)
EXTENDS Naturals, Sequences, FiniteSets

CONSTANTS
    Reqs,        \* API requests that can be in flight at once
    Builds,      \* the builds that may be started, each producing its own image
    Images,      \* image references a user may ask for
    Gits,        \* git sources
    Reconciler,  \* the reconciler tick
    Ops,         \* the operations the requests perform
    MaxOps,      \* bound: operations started
    MaxAborts,   \* bound: operations cut short
    MaxFlaps     \* bound: pod crashes and autoscaler moves

None == "none"
NoRow == [status |-> "absent", deployed |-> FALSE, image |-> None, git |-> None]

Procs == Reqs \cup Builds \cup {Reconciler}
AllImages == Images \cup Builds

ASSUME OpsAssumption ==
    Ops \subseteq {"create", "deploy", "stop", "restart", "delete", "update", "scale", "rollback"}
ASSUME ProcsAssumption ==
    /\ Reqs \cap Builds = {}
    /\ Reconciler \notin Reqs \cup Builds
    /\ None \notin Builds
ASSUME BoundsAssumption == {MaxOps, MaxAborts, MaxFlaps} \subseteq Nat

VARIABLES
    row,      \* the app row (NoRow when there is none)
    born,     \* the app id has been allocated
    hist,     \* its release rows: image and whether it is the live one
    build,    \* the status of each build record
    cluster,  \* the Helm release: image, KEDA pause annotation, pods
    sub,      \* the gate (subscription, spend cap, plan size) lets the org deploy
    pc,       \* where each process is
    op,       \* the operation a request performs
    app,      \* a process's copy of the row
    shipped,  \* the image the operation has applied
    want,     \* the git source an update was asked for
    stale,    \* processes that read the row before it last became stopped
    old,      \* processes that were under way when the gate closed
    ops, aborts, flaps

local == <<op, shipped, want>>
ghosts == <<stale, old>>
counts == <<ops, aborts, flaps>>
store == <<row, born, hist, build>>
vars == <<store, cluster, sub, pc, local, app, ghosts, counts>>

-----------------------------------------------------------------------------
(* Statuses and the cluster.                                               *)

Statuses == {"queued", "building", "deploying", "restarting", "running", "pending",
             "scaled-to-zero", "stopped", "blocked", "build_failed", "failed"}

stickyStatuses == {"stopped", "build_failed"}
transientIntents == {"deploying", "restarting", "building"}
terminalMachinePhases == {"running", "failed"}

NotInstalled == [image |-> None, paused |-> FALSE, pods |-> "zero"]
Installed == cluster.image # None
Exists == row # NoRow

\* The stored status the reconciler derives from the workload (statusFrom and
\* mapPhase).  The Kubernetes backend reports no failed phase.
Phase ==
    CASE cluster.pods = "zero"    -> "scaled-to-zero"
      [] cluster.pods = "pending" -> "pending"
      [] cluster.pods = "ready"   -> "running"

\* Mutant: a transient intent is never resolved.
ResolvesNoIntent(status) == status \notin transientIntents

\* reconcilePhase: a transient intent is only resolved by a terminal phase.
Resolves(status) == status \in transientIntents => Phase \in terminalMachinePhases

Init ==
    /\ row = NoRow
    /\ born = FALSE
    /\ hist = <<>>
    /\ build = [b \in Builds |-> None]
    /\ cluster = NotInstalled
    /\ sub = TRUE
    /\ pc = [p \in Procs |-> "idle"]
    /\ op = [p \in Procs |-> None]
    /\ app = [p \in Procs |-> NoRow]
    /\ shipped = [p \in Procs |-> None]
    /\ want = [p \in Procs |-> None]
    /\ stale = {}
    /\ old = {}
    /\ ops = 0 /\ aborts = 0 /\ flaps = 0

-----------------------------------------------------------------------------
(* Control.                                                                *)

\* Process p goes on to l with copy a of the row; "idle" ends the operation.
Goto(p, l, a) ==
    /\ pc' = [pc EXCEPT ![p] = l]
    /\ app' = [app EXCEPT ![p] = IF l = "idle" THEN NoRow ELSE a]
    /\ op' = IF l = "idle" THEN [op EXCEPT ![p] = None] ELSE op
    /\ shipped' = IF l = "idle" THEN [shipped EXCEPT ![p] = None] ELSE shipped
    /\ want' = IF l = "idle" THEN [want EXCEPT ![p] = None] ELSE want
    /\ old' = IF l = "idle" THEN old \ {p} ELSE old

\* The copy p holds is as fresh as the row (a is a full read of it).
Fresh(p) == stale' = stale \ {p}
Keep(p) == stale' = IF pc'[p] = "idle" THEN stale \ {p} ELSE stale

\* Request p starts operation o with copy a of the row.
Begin(p, o, l, a) ==
    /\ o \in Ops
    /\ pc[p] = "idle"
    /\ ops < MaxOps
    /\ ops' = ops + 1
    /\ pc' = [pc EXCEPT ![p] = l]
    /\ app' = [app EXCEPT ![p] = a]
    /\ op' = [op EXCEPT ![p] = o]
    /\ UNCHANGED <<row, hist, build, cluster, sub, shipped, stale, old, aborts, flaps>>

UnusedBuild == \E b \in Builds : build[b] = None

-----------------------------------------------------------------------------
(* The requests: ownedApp and the gate, up to the first write.             *)

\* CreateApp of an image app, of a git app or of one with neither.
Create(p, i, g) ==
    /\ ~born
    /\ sub
    /\ i = None /\ g # None => UnusedBuild
    /\ Begin(p, "create", IF i # None THEN "apply" ELSE "insert",
             [status |-> "queued", deployed |-> FALSE, image |-> i, git |-> g])
    /\ born' = TRUE
    /\ UNCHANGED want

\* Deploy: an app with an image is applied, a git app without one is built
\* again; the size check and the subscription come first.
Deploy(p) ==
    /\ Exists
    /\ sub
    /\ \/ /\ row.image # None
          /\ Begin(p, "deploy", "apply", row)
       \/ /\ row.image = None
          /\ row.git # None
          /\ UnusedBuild
          /\ Begin(p, "deploy", "put", [row EXCEPT !.status = "building"])
    /\ UNCHANGED <<born, want>>

\* Stop is not gated.
Stop(p) ==
    /\ Exists
    /\ Begin(p, "stop", IF row.deployed THEN "pause" ELSE "put",
             [row EXCEPT !.status = "stopped"])
    /\ UNCHANGED <<born, want>>

\* Restart checks the row it reads, and action reads it again.
Restart(p) ==
    /\ Exists
    /\ sub
    /\ Begin(p, "restart", "read", row)
    /\ UNCHANGED <<born, want>>

\* Mutant: a stopped app is removed from the store only.
DeleteSkipsStopped(p) ==
    /\ Exists
    /\ Begin(p, "delete", IF row.deployed /\ row.status # "stopped" THEN "uninstall" ELSE "drop",
             row)
    /\ UNCHANGED <<born, want>>

Delete(p) ==
    /\ Exists
    /\ Begin(p, "delete", IF row.deployed THEN "uninstall" ELSE "drop", row)
    /\ UNCHANGED <<born, want>>

\* UpdateApp of the image or of the git source.
Update(p, i, g) ==
    /\ Exists
    /\ sub
    /\ (i = None) # (g = None)
    /\ Begin(p, "update", "get",
             [row EXCEPT !.image = IF i # None THEN i ELSE @,
                         !.git = IF g # None THEN g ELSE @])
    /\ want' = [want EXCEPT ![p] = g]
    /\ UNCHANGED born

\* ScaleApp stores the bounds before it asks the gate.
Scale(p) ==
    /\ Exists
    /\ Begin(p, "scale", "get", row)
    /\ UNCHANGED <<born, want>>

\* pickRollbackTarget: the revision asked for, or (0) the newest one that is
\* not live.
pickRollbackTarget(revision) ==
    IF revision > 0 THEN {r \in DOMAIN hist : r = revision}
    ELSE {r \in DOMAIN hist : /\ ~hist[r].live
                              /\ \A q \in DOMAIN hist : q > r => hist[q].live}

\* RollbackApp restores the target's image, if it has one; a stopped app only has
\* it stored.
Rollback(p, revision) ==
    /\ Exists
    /\ sub
    /\ \E r \in pickRollbackTarget(revision) :
         /\ hist[r].image # None
         /\ Begin(p, "rollback", IF row.status = "stopped" THEN "get" ELSE "apply",
                  [row EXCEPT !.image = hist[r].image])
    /\ UNCHANGED <<born, want>>

Request(p) ==
    \/ \E i \in Images \cup {None}, g \in Gits \cup {None} : Create(p, i, g)
    \/ Deploy(p) \/ Stop(p) \/ Restart(p) \/ Delete(p) \/ Scale(p)
    \/ \E i \in Images \cup {None}, g \in Gits \cup {None} : Update(p, i, g)
    \/ \E revision \in 0..Len(hist) : Rollback(p, revision)

-----------------------------------------------------------------------------
(* Store calls.                                                            *)

\* action's ownedApp for Restart.
ReadAgain(p) ==
    /\ pc[p] = "read"
    /\ IF Exists
       THEN Goto(p, IF row.deployed THEN "bounce" ELSE "put",
                 [row EXCEPT !.status = "restarting"])
       ELSE Goto(p, "idle", NoRow)
    /\ Fresh(p)
    /\ UNCHANGED <<store, cluster, sub, counts>>

\* persistAppSpec's GetApp: the fresh row, with the fields the operation owns
\* (image, release, status) from the copy; the git source is not one of them.
Get(p) ==
    /\ pc[p] = "get"
    /\ IF Exists
       THEN Goto(p, "put", [app[p] EXCEPT !.git = row.git])
       ELSE Goto(p, "idle", NoRow)
    /\ Keep(p)
    /\ UNCHANGED <<store, cluster, sub, counts>>

\* Mutant: whether the app is stopped is not asked.
RedeployableIfDeployed(a) == a.deployed /\ a.image # None

\* UpdateApp and ScaleApp leave a stopped app stopped and an app without a
\* release or an image undeployed.
Redeployable(a) == a.status # "stopped" /\ a.deployed /\ a.image # None

\* Where p goes once its UpdateApp call has written the row.
AfterPut(p) ==
    CASE op[p] = "deploy"   -> IF shipped[p] = None THEN "startBuild" ELSE "record"
      [] op[p] = "update"   -> IF shipped[p] # None THEN "record"
                               ELSE IF Redeployable(app[p]) THEN "apply" ELSE "idle"
      [] op[p] = "scale"    -> IF shipped[p] # None THEN "record"
                               ELSE IF Redeployable(app[p]) THEN "gate" ELSE "idle"
      [] op[p] = "rollback" -> IF shipped[p] # None THEN "record" ELSE "idle"
      [] pc[p] = "imagePut" -> IF app[p].status = "stopped" THEN "idle" ELSE "gate"
      [] pc[p] = "donePut"  -> IF shipped[p] # None THEN "record" ELSE "idle"
      [] pc[p] = "failPut"  -> "failBuild"
      [] OTHER              -> "idle"

\* The build worker ignores the result of its last UpdateApp; everyone else
\* returns ErrNotFound.
AfterMissing(p) == IF pc[p] \in {"donePut", "failPut"} THEN AfterPut(p) ELSE "idle"

\* Mutant: an upsert instead of an update.
PutUpserts(p) ==
    /\ pc[p] \in {"put", "imagePut", "blockPut", "donePut", "failPut"}
    /\ row' = app[p]
    /\ Goto(p, AfterPut(p), app[p])
    /\ Keep(p)
    /\ UNCHANGED <<born, hist, build, cluster, sub, counts>>

\* UpdateApp writes every column of the row, or finds no row.  When it
\* stops the app, every copy read before is stale.  The reconciler's call of
\* ReconcileReleaseStatus that follows has nothing to write: its backend reports
\* no failed phase, and the live release is active (module Releases has the call).
Put(p) ==
    /\ pc[p] \in {"put", "imagePut", "blockPut", "donePut", "failPut"}
    /\ row' = IF Exists THEN app[p] ELSE NoRow
    /\ Goto(p, IF Exists THEN AfterPut(p) ELSE AfterMissing(p), app[p])
    /\ stale' = IF row'.status = "stopped" /\ row.status # "stopped"
                THEN {q \in Procs : pc'[q] # "idle"}
                ELSE IF pc'[p] = "idle" THEN stale \ {p} ELSE stale
    /\ UNCHANGED <<born, hist, build, cluster, sub, counts>>

\* CreateApp inserts the row: an applied app deploying, a git app building.
Insert(p) ==
    /\ pc[p] = "insert"
    /\ LET builds == app[p].image = None /\ app[p].git # None
           a == IF builds THEN [app[p] EXCEPT !.status = "building"] ELSE app[p]
       IN /\ row' = a
          /\ Goto(p, IF builds THEN "startBuild"
                     ELSE IF a.deployed THEN "record" ELSE "idle", a)
    /\ Keep(p)
    /\ UNCHANGED <<born, hist, build, cluster, sub, counts>>

\* startBuild inserts the build record, which needs the app's row, and starts
\* the worker.
StartBuild(p) ==
    /\ pc[p] = "startBuild"
    /\ \/ /\ Exists
          /\ \E b \in Builds :
               /\ build[b] = None
               /\ build' = [build EXCEPT ![b] = "building"]
               /\ pc' = [pc EXCEPT ![b] = "build", ![p] = "idle"]
       \/ /\ ~Exists
          /\ pc' = [pc EXCEPT ![p] = "idle"]
          /\ UNCHANGED build
    /\ app' = [app EXCEPT ![p] = NoRow]
    /\ op' = [op EXCEPT ![p] = None]
    /\ Keep(p)
    /\ old' = old \ {p}
    /\ UNCHANGED <<row, born, hist, cluster, sub, shipped, want, counts>>

\* Mutant: a rollback is not recorded.
RecordNoRollback(p) ==
    /\ pc[p] = "record"
    /\ hist' = IF Exists /\ op[p] # "rollback"
               THEN Append([r \in DOMAIN hist |-> [hist[r] EXCEPT !.live = FALSE]],
                           [image |-> app[p].image, live |-> TRUE])
               ELSE hist
    /\ Goto(p, "idle", NoRow)
    /\ Keep(p)
    /\ UNCHANGED <<row, born, build, cluster, sub, counts>>

\* recordRelease; without the app's row the insert fails, which is only logged.
Record(p) ==
    /\ pc[p] = "record"
    /\ hist' = IF Exists
               THEN Append([r \in DOMAIN hist |-> [hist[r] EXCEPT !.live = FALSE]],
                           [image |-> app[p].image, live |-> TRUE])
               ELSE hist
    /\ Goto(p, "idle", NoRow)
    /\ Keep(p)
    /\ UNCHANGED <<row, born, build, cluster, sub, counts>>

\* DeleteApp; the releases and the builds go with the row.
Drop(p) ==
    /\ pc[p] = "drop"
    /\ row' = NoRow
    /\ hist' = <<>>
    /\ build' = [b \in Builds |-> IF build[b] = None THEN None ELSE "deleted"]
    /\ Goto(p, "idle", NoRow)
    /\ Keep(p)
    /\ UNCHANGED <<born, cluster, sub, counts>>

-----------------------------------------------------------------------------
(* Cluster calls.                                                          *)

\* Mutant: a build is deployed on the strength of the gate at request time.
GateRequestsOnly(p) ==
    /\ pc[p] = "gate"
    /\ Goto(p, IF sub \/ p \in Builds THEN "apply" ELSE "idle", app[p])
    /\ Keep(p)
    /\ UNCHANGED <<store, cluster, sub, counts>>

\* ensureActive of ScaleApp, and of a build worker together with the size.
Gate(p) ==
    /\ pc[p] = "gate"
    /\ Goto(p, IF sub THEN "apply" ELSE IF p \in Builds THEN "blockGet" ELSE "idle", app[p])
    /\ Keep(p)
    /\ UNCHANGED <<store, cluster, sub, counts>>

AfterApply(p) ==
    CASE p \in Builds      -> "builtGet"
      [] op[p] = "create"  -> "insert"
      [] op[p] = "deploy"  -> "put"
      [] OTHER             -> "get"

\* helm upgrade --install --wait --atomic succeeds: the pods are up.  An upgrade
\* keeps the annotation that Stop patched onto the ScaledObject.
Apply(p) ==
    /\ pc[p] = "apply"
    /\ cluster' = [image |-> app[p].image, paused |-> Installed /\ cluster.paused,
                   pods |-> "ready"]
    /\ pc' = [pc EXCEPT ![p] = AfterApply(p)]
    /\ app' = [app EXCEPT ![p].deployed = TRUE,
                          ![p].status = IF op[p] = "scale" THEN @ ELSE "deploying"]
    /\ shipped' = [shipped EXCEPT ![p] = app[p].image]
    /\ UNCHANGED <<store, sub, op, want, ghosts, counts>>

\* It fails and is rolled back: a request returns the error, a worker goes on.
ApplyFails(p) ==
    /\ pc[p] = "apply"
    /\ Goto(p, IF p \in Builds THEN "builtGet" ELSE "idle", app[p])
    /\ Keep(p)
    /\ UNCHANGED <<store, cluster, sub, counts>>

\* Mutant: the autoscaler is not paused.
PauseNothing(p) ==
    /\ pc[p] = "pause"
    /\ Goto(p, "scaleDown", app[p])
    /\ Keep(p)
    /\ UNCHANGED <<store, cluster, sub, counts>>

\* KubeBackend.Stop: pauseKeda (nothing to patch is no error), then scale, which
\* fails when there is no workload.
Pause(p) ==
    /\ pc[p] = "pause"
    /\ cluster' = [cluster EXCEPT !.paused = Installed]
    /\ Goto(p, "scaleDown", app[p])
    /\ Keep(p)
    /\ UNCHANGED <<store, sub, counts>>

ScaleDown(p) ==
    /\ pc[p] = "scaleDown"
    /\ cluster' = [cluster EXCEPT !.pods = "zero"]
    /\ Goto(p, IF Installed THEN "put" ELSE "idle", app[p])
    /\ Keep(p)
    /\ UNCHANGED <<store, sub, counts>>

\* KubeBackend.Restart: a rollout of the pods there are.
Bounce(p) ==
    /\ pc[p] = "bounce"
    /\ cluster' = [cluster EXCEPT !.pods = IF @ = "zero" THEN @ ELSE "pending"]
    /\ Goto(p, IF Installed THEN "put" ELSE "idle", app[p])
    /\ Keep(p)
    /\ UNCHANGED <<store, sub, counts>>

\* KubeBackend.Delete: a release that is gone already counts as uninstalled.
Uninstall(p) ==
    /\ pc[p] = "uninstall"
    /\ cluster' = NotInstalled
    /\ Goto(p, "drop", app[p])
    /\ Keep(p)
    /\ UNCHANGED <<store, sub, counts>>

-----------------------------------------------------------------------------
(* The build worker: runBuildAsync, finishBuildSuccess, finishBuildFailure. *)

SetBuild(b, status) ==
    build' = IF build[b] = "deleted" THEN build ELSE [build EXCEPT ![b] = status]

BuildSucceeds(b) ==
    /\ pc[b] = "build"
    /\ SetBuild(b, "succeeded")
    /\ Goto(b, "builtRead", NoRow)
    /\ Keep(b)
    /\ UNCHANGED <<row, born, hist, cluster, sub, counts>>

BuildFails(b) ==
    /\ pc[b] = "build"
    /\ Goto(b, "failGet", NoRow)
    /\ Keep(b)
    /\ UNCHANGED <<store, cluster, sub, counts>>

\* The built image is stored, also on an app stopped in the meantime.
BuiltRead(b) ==
    /\ pc[b] = "builtRead"
    /\ Goto(b, IF Exists THEN "imagePut" ELSE "idle", [row EXCEPT !.image = b])
    /\ Fresh(b)
    /\ UNCHANGED <<store, cluster, sub, counts>>

\* The gate denies the deploy: the app is blocked, unless it is stopped.
BlockGet(b) ==
    /\ pc[b] = "blockGet"
    /\ Goto(b, IF Exists /\ row.status # "stopped" THEN "blockPut" ELSE "idle",
            [row EXCEPT !.status = "blocked"])
    /\ Fresh(b)
    /\ UNCHANGED <<store, cluster, sub, counts>>

\* After the deploy the row is read again; a stopped app is left alone.
BuiltGet(b) ==
    /\ pc[b] = "builtGet"
    /\ Goto(b, IF Exists /\ row.status # "stopped" THEN "donePut" ELSE "idle",
            IF shipped[b] = None THEN [row EXCEPT !.status = "build_failed"]
            ELSE [row EXCEPT !.status = "deploying", !.deployed = TRUE])
    /\ Fresh(b)
    /\ UNCHANGED <<store, cluster, sub, counts>>

FailGet(b) ==
    /\ pc[b] = "failGet"
    /\ Goto(b, IF Exists /\ row.status # "stopped" THEN "failPut" ELSE "failBuild",
            [row EXCEPT !.status = "build_failed"])
    /\ Fresh(b)
    /\ UNCHANGED <<store, cluster, sub, counts>>

FailBuild(b) ==
    /\ pc[b] = "failBuild"
    /\ SetBuild(b, "failed")
    /\ Goto(b, "idle", NoRow)
    /\ Keep(b)
    /\ UNCHANGED <<row, born, hist, cluster, sub, counts>>

Worker(b) ==
    \/ BuildSucceeds(b) \/ BuildFails(b) \/ BuiltRead(b) \/ BlockGet(b) \/ BuiltGet(b)
    \/ FailGet(b) \/ FailBuild(b)

-----------------------------------------------------------------------------
(* The reconciler: reconcileOrg and reconcileWorkload for the app.         *)

ReconcileList ==
    /\ pc[Reconciler] = "idle"
    /\ Exists
    /\ row.deployed
    /\ row.status \notin stickyStatuses
    /\ Goto(Reconciler, "status", row)
    /\ Fresh(Reconciler)
    /\ UNCHANGED <<store, cluster, sub, counts>>

\* The backend's status decides what to write; no workload is an error.
ReconcileStatus ==
    /\ pc[Reconciler] = "status"
    /\ LET current == app[Reconciler].status
           writes == Installed /\ Resolves(current) /\ Phase # current
       IN Goto(Reconciler, IF writes THEN "put" ELSE "idle",
               [app[Reconciler] EXCEPT !.status = Phase])
    /\ Keep(Reconciler)
    /\ UNCHANGED <<store, cluster, sub, counts>>

-----------------------------------------------------------------------------
(* The environment.                                                        *)

\* The gate closes (a cancelled subscription, the spend cap, a smaller plan)
\* and opens.  Operations under way then may have passed it; a build may not.
Close ==
    /\ sub
    /\ sub' = FALSE
    /\ old' = {p \in Procs : pc[p] \notin {"idle", "build"}}
    /\ UNCHANGED <<store, cluster, pc, app, local, stale, counts>>

Open ==
    /\ ~sub
    /\ sub' = TRUE
    /\ old' = {}
    /\ UNCHANGED <<store, cluster, pc, app, local, stale, counts>>

\* An operation ends between two calls: its context is cancelled or times out,
\* a call fails, the process is killed.
Abort(p) ==
    /\ pc[p] # "idle"
    /\ aborts < MaxAborts
    /\ aborts' = aborts + 1
    /\ Goto(p, "idle", NoRow)
    /\ Keep(p)
    /\ UNCHANGED <<store, cluster, sub, ops, flaps>>

Pods(from, to) ==
    /\ Installed
    /\ cluster.pods = from
    /\ cluster' = [cluster EXCEPT !.pods = to]
    /\ UNCHANGED <<store, sub, pc, app, local, ghosts, ops, aborts>>

PodsReady == Pods("pending", "ready") /\ UNCHANGED flaps

\* Pods crash; the autoscaler takes an idle app down and wakes it up.
Flap ==
    /\ flaps < MaxFlaps
    /\ flaps' = flaps + 1
    /\ \/ Pods("ready", "pending")
       \/ ~cluster.paused /\ (Pods("ready", "zero") \/ Pods("zero", "pending"))

\* KEDA holds a paused workload at zero replicas.
KedaHolds ==
    /\ cluster.paused
    /\ \E from \in {"pending", "ready"} : Pods(from, "zero")
    /\ UNCHANGED flaps

-----------------------------------------------------------------------------
Step(p) ==
    \/ ReadAgain(p) \/ Get(p) \/ Put(p) \/ Insert(p) \/ StartBuild(p) \/ Record(p)
    \/ Drop(p) \/ Gate(p) \/ Apply(p) \/ ApplyFails(p) \/ Pause(p) \/ ScaleDown(p)
    \/ Bounce(p) \/ Uninstall(p)

Tick == ReconcileList \/ ReconcileStatus \/ Put(Reconciler)

Next ==
    \/ \E p \in Reqs : Request(p)
    \/ \E p \in Procs : Step(p) \/ Abort(p)
    \/ \E b \in Builds : Worker(b)
    \/ ReconcileList \/ ReconcileStatus
    \/ Close \/ Open
    \/ PodsReady \/ Flap \/ KedaHolds

Spec == Init /\ [][Next]_vars

\* Handlers, workers and the reconciler's ticker keep running, and the cluster
\* acts on what it was told.  Nobody has to send a request.
FairSpec ==
    /\ Spec
    /\ \A p \in Reqs \cup Builds : WF_vars(Step(p))
    /\ \A b \in Builds : WF_vars(Worker(b))
    /\ WF_vars(Tick)
    /\ WF_vars(PodsReady)
    /\ WF_vars(KedaHolds)

-----------------------------------------------------------------------------
(* Properties.                                                             *)

Row == [status : Statuses, deployed : BOOLEAN, image : AllImages \cup {None},
        git : Gits \cup {None}]

TypeOK ==
    /\ row \in Row \cup {NoRow}
    /\ born \in BOOLEAN
    /\ hist \in Seq([image : AllImages \cup {None}, live : BOOLEAN])
    /\ build \in [Builds -> {None, "building", "succeeded", "failed", "deleted"}]
    /\ cluster \in [image : AllImages \cup {None}, paused : BOOLEAN,
                    pods : {"zero", "pending", "ready"}]
    /\ sub \in BOOLEAN
    /\ \A p \in Procs : app[p] \in Row \cup {NoRow}
    /\ \A p \in Procs : pc[p] = "idle" => app[p] = NoRow
    /\ stale \subseteq {p \in Procs : pc[p] # "idle"}
    /\ old \subseteq {p \in Procs : pc[p] # "idle"}

\* p is the process that takes the step.
Acts(p) == pc'[p] # pc[p]

AllIdle == \A p \in Reqs \cup Builds : pc[p] = "idle"

\* Once the gate has closed nothing is deployed but by operations that were
\* already under way; a build that ends later must not ship its image.
NoUnpaidApply ==
    [][\A p \in Procs : pc[p] = "apply" /\ shipped'[p] # shipped[p] => sub \/ p \in old]_vars

\* A stopped app only starts again by a Deploy or a Restart: no update, rollback,
\* scale, build or reconciler tick that reads the row after the Stop revives it.
StopHolds ==
    [][row.status = "stopped" /\ row'.status \notin {"stopped", "absent"} =>
         \E p \in Procs : Acts(p) /\ (op[p] \in {"deploy", "restart"} \/ p \in stale)]_vars

\* The row of a deleted app does not come back, whatever was under way.
DeletedForGood ==
    [][born /\ row = NoRow /\ (\A p \in Reqs : op[p] # "create") => row' = NoRow]_vars

(* One operation at a time, to the end (no builds, no aborts): what a Stop, a  *)
(* Delete and a deploy leave behind.                                       *)

\* A stopped app has no pods.
StoppedIsDown == AllIdle /\ row.status = "stopped" => cluster.pods = "zero"

\* A deleted app leaves no workload in the cluster.
NoOrphan == AllIdle /\ row = NoRow => ~Installed

\* The newest release is the live one and has the image the cluster runs, so
\* that a rollback leaves and reaches what the history says.
HistoryMatchesCluster ==
    AllIdle /\ hist # <<>> => /\ hist[Len(hist)].image = cluster.image
                              /\ hist[Len(hist)].live

\* Between operations the row, the cluster and the history agree, whatever sequence of
\* deploys, updates, rollbacks, stops and deletes led there (Deploy, Stop, Delete,
\* RollbackTo, UpdateApp).
ClusterMatchesRow == StoppedIsDown /\ NoOrphan /\ HistoryMatchesCluster

(* Liveness.                                                               *)

\* An app that stays up, and is neither stopped nor failed to build, is
\* eventually reported running for good.
Converges ==
    <>[](Exists /\ row.deployed /\ row.status \notin stickyStatuses /\ cluster.pods = "ready")
        => <>[](row.status = "running")

=============================================================================
