--------------------------- MODULE GatewayShards ---------------------------
(***************************************************************************)
(* The pool of Gateways that carry the listeners of custom domains         *)
(* (kube/gateway_shard.go and the listener operations of kube/kube.go).    *)
(*                                                                         *)
(* Gateway 0 is the primary, with the base listeners and the wildcard      *)
(* listeners of the orgs; Gateways 1, 2, ... are overflow shards, created  *)
(* when every Gateway is full and deleted when their last listener goes.   *)
(* The backend keeps no placement of its own: each request lists and reads *)
(* the live Gateways, and writes one of them with the resource version it  *)
(* read, so that a write of a Gateway that changed since is refused.       *)
(***************************************************************************)
EXTENDS Integers, FiniteSets

CONSTANTS
    Hosts,          \* verified custom hosts
    OrgListeners,   \* wildcard listeners of orgs and projects
    Procs,          \* requests in progress, in any replica
    Ceiling,        \* maxGatewayListeners (64)
    Override,       \* cfg.GatewayShardMaxListeners
    Reserve,        \* baseListenerReserve (2)
    MaxAttempts,    \* maxAllocAttempts (8)
    MaxTries,       \* steps of retry.DefaultRetry (5)
    MaxShard,       \* bound: no shard with a higher index is created
    NoHost,
    Removes,        \* whether domains are removed
    CallsFail       \* whether calls of the API server may fail

ASSUME HostsAssumption == IsFiniteSet(Hosts) /\ NoHost \notin Hosts
ASSUME OrgListenersAssumption ==
    IsFiniteSet(OrgListeners) /\ Hosts \cap OrgListeners = {}
ASSUME CeilingAssumption ==
    /\ Ceiling \in Nat /\ Reserve \in Nat /\ Override \in Int
    /\ Reserve <= Ceiling
ASSUME RetryAssumption == MaxAttempts \in Nat \ {0} /\ MaxTries \in Nat \ {0}
ASSUME MaxShardAssumption == MaxShard \in Nat
ASSUME FlagsAssumption == {Removes, CallsFail} \subseteq BOOLEAN

VARIABLES
    exists,     \* the Gateways there are
    listeners,  \* what each carries beside the base listeners
    pc,         \* where each request is
    host,       \* the host it attaches or removes
    want,       \* the org listeners it ensures
    gw,         \* the Gateway it works on
    seen,       \* the listeners of that Gateway as it read them
    fresh,      \* its resource version is still the Gateway's
    tries,      \* tries of RetryOnConflict so far
    attempts,   \* allocations so far
    emptied,    \* emptiedSecondary
    crossed     \* the hosts that have had two requests at a time

vars == <<exists, listeners, pc, host, want, gw, seen, fresh, tries, attempts, emptied, crossed>>

Indices == 0..MaxShard
Listeners == Hosts \cup OrgListeners

-----------------------------------------------------------------------------
(* The capacity of a Gateway.                                              *)

\* perShardListenerBudget: a missing or too large override means the ceiling.
Budget == IF Override <= 0 \/ Override > Ceiling THEN Ceiling ELSE Override

\* The listeners for custom domains that Gateway i may carry.
CustomBudget(i) == IF i = 0 THEN Budget - Reserve ELSE Budget

\* The base listeners of Gateway i.
Base(i) == IF i = 0 THEN Reserve ELSE 0

\* customListenerCount
CustomCount(ls) == Cardinality(ls \cap Hosts)

\* shardCustomDomainCapacity > 0: room within the budget and below the ceiling.
\* Mutant: the ceiling is not looked at.
HasRoomNoCeiling(i, ls) == CustomCount(ls) < CustomBudget(i)

HasRoom(i, ls) ==
    /\ CustomCount(ls) < CustomBudget(i)
    /\ Cardinality(ls) + Base(i) < Ceiling

\* shardForHost: the Gateways among which the list finds the host's listener.
Holders(h) == {i \in exists : h \in listeners[i]}

-----------------------------------------------------------------------------

Init ==
    /\ exists = {0}
    /\ listeners = [i \in Indices |-> {}]
    /\ pc = [p \in Procs |-> "idle"]
    /\ host = [p \in Procs |-> NoHost]
    /\ want = [p \in Procs |-> {}]
    /\ gw = [p \in Procs |-> 0]
    /\ seen = [p \in Procs |-> {}]
    /\ fresh = [p \in Procs |-> FALSE]
    /\ tries = [p \in Procs |-> 0]
    /\ attempts = [p \in Procs |-> 0]
    /\ emptied = [p \in Procs |-> FALSE]
    /\ crossed = {}

Goto(p, label) == pc' = [pc EXCEPT ![p] = label] /\ UNCHANGED crossed

\* The request ends, with an answer or an error.
Return(p) ==
    /\ Goto(p, "idle")
    /\ host' = [host EXCEPT ![p] = NoHost]
    /\ want' = [want EXCEPT ![p] = {}]
    /\ gw' = [gw EXCEPT ![p] = 0]
    /\ seen' = [seen EXCEPT ![p] = {}]
    /\ tries' = [tries EXCEPT ![p] = 0]
    /\ attempts' = [attempts EXCEPT ![p] = 0]
    /\ emptied' = [emptied EXCEPT ![p] = FALSE]

\* The request ends and has not written.
ReturnUnwritten(p) ==
    /\ Return(p)
    /\ fresh' = [fresh EXCEPT ![p] = FALSE]
    /\ UNCHANGED <<exists, listeners>>

\* The request's next step is label; it has not written.
Step(p, label) ==
    /\ Goto(p, label)
    /\ UNCHANGED <<exists, listeners, host, want>>

\* The Gateway is read, for a write at label.
Read(p, label) ==
    /\ Step(p, label)
    /\ seen' = [seen EXCEPT ![p] = listeners[gw[p]]]
    /\ fresh' = [fresh EXCEPT ![p] = TRUE]
    /\ UNCHANGED <<gw, tries, attempts>>

\* The Gateway's listeners are replaced; every version of it read before is old.
Write(p, ls) ==
    /\ listeners' = [listeners EXCEPT ![gw[p]] = ls]
    /\ fresh' = [q \in Procs |-> fresh[q] /\ gw[q] # gw[p]]

\* Mutant: the tries are not counted.
ConflictForever(p, label) ==
    /\ ~fresh[p]
    /\ Step(p, label)
    /\ UNCHANGED <<gw, seen, fresh, tries, attempts, emptied>>

\* RetryOnConflict: the write was refused; read again at label, or give up.
Conflict(p, label) ==
    /\ ~fresh[p]
    /\ \/ /\ tries[p] < MaxTries
          /\ tries' = [tries EXCEPT ![p] = @ + 1]
          /\ Step(p, label)
          /\ UNCHANGED <<gw, seen, fresh, attempts, emptied>>
       \/ /\ tries[p] >= MaxTries
          /\ ReturnUnwritten(p)

\* The Gateway is gone: the write answers NotFound, which is not retried.
Gone(p) ==
    /\ gw[p] \notin exists
    /\ ReturnUnwritten(p)

\* Gateway i is the one to work on from label.
Target(p, i, label) ==
    /\ gw' = [gw EXCEPT ![p] = i]
    /\ tries' = [tries EXCEPT ![p] = 1]
    /\ Step(p, label)
    /\ UNCHANGED <<seen, fresh, attempts, emptied>>

\* A request for h comes in.
Request(p, h, label) ==
    /\ pc[p] = "idle"
    /\ pc' = [pc EXCEPT ![p] = label]
    /\ crossed' = IF \E q \in Procs : host[q] = h THEN crossed \cup {h} ELSE crossed
    /\ host' = [host EXCEPT ![p] = h]
    /\ attempts' = [attempts EXCEPT ![p] = 1]
    /\ UNCHANGED <<exists, listeners, want, gw, seen, fresh, tries, emptied>>

-----------------------------------------------------------------------------
(* EnsureGatewayListener.                                                  *)

Attach(p, h) == Request(p, h, "find")

\* allocateListenerShard, 1: the Gateway that has the host already.
\* Mutant: the host is placed without looking for it.
FindHostSkipped(p) ==
    /\ pc[p] = "find"
    /\ Step(p, "pick")
    /\ UNCHANGED <<gw, seen, fresh, tries, attempts, emptied>>

FindHost(p) ==
    /\ pc[p] = "find"
    /\ \/ \E i \in Holders(host[p]) : Target(p, i, "get")
       \/ /\ Holders(host[p]) = {}
          /\ Step(p, "pick")
          /\ UNCHANGED <<gw, seen, fresh, tries, attempts, emptied>>

\* allocateListenerShard, 2 and 3: the lowest Gateway with room, or a new one.
Pick(p) ==
    LET free == {i \in exists : HasRoom(i, listeners[i])} IN
    /\ pc[p] = "pick"
    /\ \/ \E i \in free : (\A j \in free : i <= j) /\ Target(p, i, "get")
       \/ /\ free = {}
          /\ \E i \in exists :
                /\ \A j \in exists : j <= i
                /\ i + 1 <= MaxShard
                /\ Target(p, i + 1, "create")

\* ensureShardGateway: an empty Gateway; one that exists is left as it is.
Create(p) ==
    /\ pc[p] = "create"
    /\ exists' = exists \cup {gw[p]}
    /\ Goto(p, "get")
    /\ UNCHANGED <<listeners, host, want, gw, seen, fresh, tries, attempts, emptied>>

\* mergeListenerIntoGateway reads the Gateway; a full one is errShardFull, and
\* EnsureGatewayListener allocates again.
MergeGet(p) ==
    /\ pc[p] = "get"
    /\ \/ Gone(p)
       \/ /\ gw[p] \in exists /\ host[p] \in listeners[gw[p]]
          /\ ReturnUnwritten(p)
       \/ /\ gw[p] \in exists /\ host[p] \notin listeners[gw[p]]
          /\ ~HasRoom(gw[p], listeners[gw[p]])
          /\ \/ /\ attempts[p] < MaxAttempts
                /\ attempts' = [attempts EXCEPT ![p] = @ + 1]
                /\ Step(p, "find")
                /\ UNCHANGED <<gw, seen, fresh, tries, emptied>>
             \/ /\ attempts[p] >= MaxAttempts
                /\ ReturnUnwritten(p)
       \/ /\ gw[p] \in exists /\ host[p] \notin listeners[gw[p]]
          /\ HasRoom(gw[p], listeners[gw[p]])
          /\ Read(p, "put")
          /\ UNCHANGED emptied

\* mergeListenerIntoGateway writes it back with the host's listener.
\* Mutant: without the resource version.
MergePutBlind(p) ==
    /\ pc[p] = "put"
    /\ \/ Gone(p)
       \/ /\ gw[p] \in exists
          /\ Write(p, seen[p] \cup {host[p]})
          /\ Return(p)
          /\ UNCHANGED exists

MergePut(p) ==
    /\ pc[p] = "put"
    /\ \/ Gone(p)
       \/ gw[p] \in exists /\ Conflict(p, "get")
       \/ /\ gw[p] \in exists /\ fresh[p]
          /\ Write(p, seen[p] \cup {host[p]})
          /\ Return(p)
          /\ UNCHANGED exists

-----------------------------------------------------------------------------
(* RemoveGatewayListener.                                                  *)

Remove(p, h) == Removes /\ Request(p, h, "rmfind")

RemoveFind(p) ==
    /\ pc[p] = "rmfind"
    /\ \/ \E i \in Holders(host[p]) : Target(p, i, "rmget")
       \/ /\ Holders(host[p]) = {}
          /\ ReturnUnwritten(p)

\* removeListenerFromGateway reads the Gateway.  When there is nothing left to
\* remove, emptiedSecondary is what an earlier try made it.
RemoveGet(p) ==
    /\ pc[p] = "rmget"
    /\ \/ /\ gw[p] \notin exists \/ host[p] \notin listeners[gw[p]]
          /\ \/ ~emptied[p] /\ ReturnUnwritten(p)
             \/ /\ emptied[p]
                /\ Step(p, "rmdelete")
                /\ UNCHANGED <<gw, seen, fresh, tries, attempts, emptied>>
       \/ /\ gw[p] \in exists /\ host[p] \in listeners[gw[p]]
          /\ Read(p, "rmput")
          /\ emptied' = [emptied EXCEPT ![p] = gw[p] > 0 /\ listeners[gw[p]] = {host[p]}]

\* It writes the Gateway back without the host's listener.
RemovePut(p) ==
    /\ pc[p] = "rmput"
    /\ \/ Gone(p)
       \/ gw[p] \in exists /\ Conflict(p, "rmget")
       \/ /\ gw[p] \in exists /\ fresh[p]
          /\ Write(p, seen[p] \ {host[p]})
          /\ \/ ~emptied[p] /\ Return(p)
             \/ /\ emptied[p]
                /\ Goto(p, "rmdelete")
                /\ UNCHANGED <<host, want, gw, seen, tries, attempts, emptied>>
          /\ UNCHANGED exists

\* The emptied shard is deleted, whatever it carries by now.
RemoveDelete(p) ==
    /\ pc[p] = "rmdelete"
    /\ exists' = exists \ {gw[p]}
    /\ Write(p, {})
    /\ Return(p)

-----------------------------------------------------------------------------
(* EnsureOrgWildcard.                                                      *)

EnsureOrgWildcard(p, ls) ==
    /\ pc[p] = "idle"
    /\ Goto(p, "orgget")
    /\ want' = [want EXCEPT ![p] = ls]
    /\ tries' = [tries EXCEPT ![p] = 1]
    /\ UNCHANGED <<exists, listeners, host, gw, seen, fresh, attempts, emptied>>

\* ensureGatewayListeners reads the primary; it adds all the listeners or none.
OrgGet(p) ==
    LET missing == want[p] \ listeners[0]
        full == Cardinality(listeners[0] \cup want[p]) + Base(0) > Ceiling IN
    /\ pc[p] = "orgget"
    /\ \/ /\ missing = {} \/ full
          /\ ReturnUnwritten(p)
       \/ /\ missing # {} /\ ~full
          /\ Read(p, "orgput")
          /\ UNCHANGED emptied

\* It writes the primary back with them.
OrgPut(p) ==
    /\ pc[p] = "orgput"
    /\ \/ Conflict(p, "orgget")
       \/ /\ fresh[p]
          /\ Write(p, seen[p] \cup want[p])
          /\ Return(p)
          /\ UNCHANGED exists

\* A call of the API server fails, or the replica stops: the request is over.
Fail(p) ==
    /\ CallsFail
    /\ pc[p] # "idle"
    /\ ReturnUnwritten(p)

Work(p) ==
    \/ FindHost(p) \/ Pick(p) \/ Create(p) \/ MergeGet(p) \/ MergePut(p)
    \/ RemoveFind(p) \/ RemoveGet(p) \/ RemovePut(p) \/ RemoveDelete(p)
    \/ OrgGet(p) \/ OrgPut(p)

Next ==
    \E p \in Procs :
        \/ \E h \in Hosts : Attach(p, h) \/ Remove(p, h)
        \/ \E ls \in SUBSET OrgListeners \ {{}} : EnsureOrgWildcard(p, ls)
        \/ Work(p)
        \/ Fail(p)

Spec == Init /\ [][Next]_vars

\* A request runs until it has answered.
FairSpec == Spec /\ \A p \in Procs : WF_vars(Work(p))

-----------------------------------------------------------------------------
(* Properties.                                                             *)

Labels == {"idle", "find", "pick", "create", "get", "put",
           "rmfind", "rmget", "rmput", "rmdelete", "orgget", "orgput"}

\* The state is well typed; the primary Gateway is never deleted, a Gateway that
\* does not exist carries nothing, and only a shard is ever on its way to be
\* deleted.
TypeOK ==
    /\ exists \subseteq Indices /\ 0 \in exists
    /\ listeners \in [Indices -> SUBSET Listeners]
    /\ \A i \in Indices \ exists : listeners[i] = {}
    /\ pc \in [Procs -> Labels]
    /\ host \in [Procs -> Hosts \cup {NoHost}]
    /\ want \in [Procs -> SUBSET OrgListeners]
    /\ gw \in [Procs -> Indices]
    /\ seen \in [Procs -> SUBSET Listeners]
    /\ fresh \in [Procs -> BOOLEAN]
    /\ tries \in [Procs -> 0..MaxTries]
    /\ attempts \in [Procs -> 0..MaxAttempts]
    /\ emptied \in [Procs -> BOOLEAN]
    /\ crossed \subseteq Hosts
    /\ \A p \in Procs : emptied[p] => gw[p] > 0

\* However many requests race, no Gateway carries more than the Gateway API
\* allows ("a shard is never pushed past the Gateway API ceiling even under a
\* concurrent race", mergeListenerIntoGateway), and no more custom domains than
\* its budget.
WithinLimits ==
    \A i \in exists :
        /\ Cardinality(listeners[i]) + Base(i) <= Ceiling
        /\ listeners[i] \cap Hosts # {} => CustomCount(listeners[i]) <= CustomBudget(i)

\* A host whose requests came one at a time has its listener on one Gateway at
\* most, whatever other hosts' requests do, and re-verifying it adds none
\* (allocateListenerShard: "idempotency across re-verify / re-Apply / replicas";
\* RemoveGatewayListener removes one).
OneListener == \A h \in Hosts \ crossed : Cardinality(Holders(h)) <= 1

\* The listener that process p may take away.
Own(p) == IF pc[p] \in {"rmput", "rmdelete"} THEN {host[p]} ELSE {}

Lost(i) == listeners[i] \ listeners'[i]

\* A write of a Gateway takes away no listener but the one its request removes,
\* whoever wrote that Gateway since it was read ("never clobbering other
\* listeners", mergeListenerIntoGateway and removeListenerFromGateway).
WritesKeepOthers ==
    [][\A i \in exists \cap exists' : \E p \in Procs : Lost(i) \subseteq Own(p)]_vars

\* Every request answers, however often the others get ahead of it: its tries and
\* its allocations are counted (RetryOnConflict, maxAllocAttempts).  The bound on
\* the shards is the model's, so the pool that has reached it is left out.
EveryRequestAnswers ==
    \A p \in Procs : pc[p] # "idle" ~> (pc[p] = "idle" \/ MaxShard \in exists)

=============================================================================
