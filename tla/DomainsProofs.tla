--------------------------- MODULE DomainsProofs ---------------------------
(***************************************************************************)
(* Proofs about GatewayShards, the Gateways that carry the listeners of    *)
(* custom domains, and CustomDomains, the rows, certificates, listeners    *)
(* and routes of those domains, for any hosts, requests and bounds.        *)
(***************************************************************************)
EXTENDS GatewayShards, CustomDomains, FiniteSetTheorems, TLAPS

\* A set whose members are equal has one at most (Cardinality).
LEMMA AtMostOne ==
    ASSUME NEW S, \A x, y \in S : x = y
    PROVE  IsFiniteSet(S) /\ Cardinality(S) <= 1
<1>1. CASE S = {}
  BY <1>1, FS_EmptySet
<1>2. CASE S # {}
  <2>1. PICK x \in S : TRUE
    BY <1>2
  <2>2. S = {x}
    BY <2>1
  <2>3. IsFiniteSet({x}) /\ Cardinality({x}) = 1
    BY FS_Singleton
  <2> QED
    BY <2>2, <2>3
<1> QED
  BY <1>1, <1>2

-----------------------------------------------------------------------------
(* GatewayShards: types, limits and single listeners.                      *)
(*                                                                         *)
(* The limits are not inductive by themselves: a request writes what it    *)
(* computed from an earlier read.  Ready says what that read still tells:  *)
(* as long as the resource version is the Gateway's, the listeners read    *)
(* are the listeners there are, and what was read had room.                *)

RemoveLabels == {"rmfind", "rmget", "rmput", "rmdelete"}
AttachLabels == {"find", "pick", "create", "get", "put"}

\* What holds of request p between its steps.
ReadyAt(p) ==
    /\ fresh[p] => /\ pc[p] \in {"put", "rmput", "orgput"}
                   /\ gw[p] \in exists
                   /\ seen[p] = listeners[gw[p]]
    /\ pc[p] \in AttachLabels \cup RemoveLabels => host[p] \in Hosts
    /\ pc[p] = "put" => HasRoom(gw[p], seen[p])
    /\ pc[p] \in {"idle", "orgget", "orgput"} => gw[p] = 0
    /\ pc[p] = "orgput" => Cardinality(seen[p] \cup want[p]) + Base(0) <= Ceiling
    /\ emptied[p] => pc[p] \in RemoveLabels \ {"rmfind"}
    /\ pc[p] = "rmdelete" => emptied[p]

Ready == \A p \in Procs : ReadyAt(p)

\* One Gateway is within its limits.
Fits(i, ls) ==
    /\ Cardinality(ls) + Base(i) <= Ceiling
    /\ ls \cap Hosts # {} => CustomCount(ls) <= CustomBudget(i)

Inv == TypeOK /\ WithinLimits /\ Ready

-----------------------------------------------------------------------------
(* Counting listeners.                                                     *)

\* The listeners of a Gateway are finitely many.
LEMMA Finite ==
    ASSUME NEW S \in SUBSET Listeners
    PROVE  /\ IsFiniteSet(S) /\ IsFiniteSet(S \cap Hosts)
           /\ Cardinality(S) \in Nat /\ Cardinality(S \cap Hosts) \in Nat
  <1>1. IsFiniteSet(Listeners)
    BY HostsAssumption, OrgListenersAssumption, FS_Union DEF Listeners
  <1>2. IsFiniteSet(S) /\ IsFiniteSet(S \cap Hosts)
    BY <1>1, FS_Subset
  <1> QED
    BY <1>2, FS_CardinalityType

\* The bounds are integers.
LEMMA Bounds ==
    ASSUME NEW i \in Indices
    PROVE  /\ Ceiling \in Nat /\ Base(i) \in Nat /\ CustomBudget(i) \in Int
           /\ Base(i) <= Ceiling
  BY CeilingAssumption DEF Base, CustomBudget, Budget

\* An empty Gateway is within its limits.
LEMMA EmptyFits ==
    ASSUME NEW i \in Indices
    PROVE  Fits(i, {})
  BY Bounds, FS_EmptySet DEF Fits

\* A Gateway with room is within its limits after a merge.
LEMMA AddHostFits ==
    ASSUME NEW i \in Indices, NEW S \in SUBSET Listeners, NEW h \in Hosts, HasRoom(i, S)
    PROVE  Fits(i, S \cup {h})
  <1>1. Cardinality(S \cup {h}) <= Cardinality(S) + 1
    <2>1. IsFiniteSet(S) /\ Cardinality(S) \in Nat
      BY Finite
    <2>2. Cardinality(S \cup {h}) = IF h \in S THEN Cardinality(S) ELSE Cardinality(S) + 1
      BY <2>1, FS_AddElement
    <2> QED
      BY <2>1, <2>2
  <1>2. (S \cup {h}) \cap Hosts = (S \cap Hosts) \cup {h}
    OBVIOUS
  <1>3. Cardinality((S \cap Hosts) \cup {h}) <= Cardinality(S \cap Hosts) + 1
    <2> DEFINE H == S \cap Hosts
    <2>1. IsFiniteSet(H) /\ Cardinality(H) \in Nat
      BY Finite
    <2> HIDE DEF H
    <2>2. Cardinality(H \cup {h}) = IF h \in H THEN Cardinality(H) ELSE Cardinality(H) + 1
      BY <2>1, FS_AddElement
    <2>3. Cardinality(H \cup {h}) <= Cardinality(H) + 1
      BY <2>1, <2>2
    <2> QED
      BY <2>3 DEF H
  <1>4. S \cup {h} \in SUBSET Listeners
    BY DEF Listeners
  <1>5. /\ Cardinality(S \cup {h}) \in Nat /\ Cardinality((S \cup {h}) \cap Hosts) \in Nat
        /\ Cardinality(S) \in Nat /\ Cardinality(S \cap Hosts) \in Nat
    BY <1>4, Finite
  <1>6. /\ Cardinality(S \cap Hosts) < CustomBudget(i)
        /\ Cardinality(S) + Base(i) < Ceiling
    BY DEF HasRoom, CustomCount
  <1>7. Cardinality(S \cup {h}) + Base(i) <= Ceiling
    BY <1>1, <1>5, <1>6, Bounds
  <1>8. Cardinality((S \cup {h}) \cap Hosts) <= CustomBudget(i)
    <2>1. Cardinality((S \cup {h}) \cap Hosts) = Cardinality((S \cap Hosts) \cup {h})
      BY <1>2
    <2>2. Cardinality((S \cup {h}) \cap Hosts) <= Cardinality(S \cap Hosts) + 1
      BY <2>1, <1>3
    <2> QED
      BY <2>2, <1>5, <1>6, Bounds
  <1> QED
    BY <1>7, <1>8 DEF Fits, CustomCount

\* A Gateway within its limits stays so when a listener is removed.
LEMMA DropHostFits ==
    ASSUME NEW i \in Indices, NEW S \in SUBSET Listeners, NEW h, Fits(i, S)
    PROVE  Fits(i, S \ {h})
  <1> DEFINE T == S \ {h}
  <1>1. T \in SUBSET Listeners /\ T \subseteq S /\ T \cap Hosts \subseteq S \cap Hosts
    OBVIOUS
  <1>2. /\ Cardinality(T) \in Nat /\ Cardinality(T \cap Hosts) \in Nat
        /\ Cardinality(S) \in Nat /\ Cardinality(S \cap Hosts) \in Nat
    BY <1>1, Finite
  <1>3. Cardinality(T) <= Cardinality(S)
    BY <1>1, Finite, FS_Subset
  <1>4. Cardinality(T \cap Hosts) <= Cardinality(S \cap Hosts)
    BY <1>1, Finite, FS_Subset
  <1>5. Cardinality(T) + Base(i) <= Ceiling
    BY <1>2, <1>3, Bounds DEF Fits
  <1>6. ASSUME T \cap Hosts # {} PROVE Cardinality(T \cap Hosts) <= CustomBudget(i)
    <2>1. Cardinality(S \cap Hosts) <= CustomBudget(i)
      BY <1>6 DEF Fits, CustomCount
    <2> QED
      BY <2>1, <1>2, <1>4, Bounds
  <1> QED
    BY <1>5, <1>6 DEF Fits, CustomCount

\* Org listeners take no custom domain's place.
LEMMA AddOrgFits ==
    ASSUME NEW i \in Indices, NEW S \in SUBSET Listeners, NEW w \in SUBSET OrgListeners,
           Fits(i, S), Cardinality(S \cup w) + Base(i) <= Ceiling
    PROVE  Fits(i, S \cup w)
  <1>1. (S \cup w) \cap Hosts = S \cap Hosts
    BY OrgListenersAssumption
  <1> QED
    BY <1>1 DEF Fits, CustomCount

-----------------------------------------------------------------------------
(* The invariant.                                                          *)

\* The initial state satisfies it.
LEMMA InitInv == Init => Inv
  <1> SUFFICES ASSUME Init PROVE Inv
    OBVIOUS
  <1>1. TypeOK
    BY MaxShardAssumption, RetryAssumption DEF Init, TypeOK, Indices, Labels
  <1>2. WithinLimits
    <2>1. 0 \in Indices /\ exists = {0} /\ listeners[0] = {}
      BY MaxShardAssumption DEF Init, Indices
    <2> QED
      BY <2>1, EmptyFits DEF WithinLimits, Fits
  <1>3. Ready
    BY DEF Init, Ready, ReadyAt, AttachLabels, RemoveLabels
  <1> QED
    BY <1>1, <1>2, <1>3 DEF Inv

\* A request keeps what it knows when the others' steps leave its Gateway alone
\* or make its version old.
LEMMA OtherReady ==
    ASSUME NEW q \in Procs, ReadyAt(q),
           pc'[q] = pc[q], host'[q] = host[q], want'[q] = want[q], gw'[q] = gw[q],
           seen'[q] = seen[q], emptied'[q] = emptied[q],
           fresh'[q] => /\ fresh[q]
                        /\ gw[q] \in exists'
                        /\ listeners'[gw[q]] = listeners[gw[q]]
    PROVE  ReadyAt(q)'
  BY DEF ReadyAt, HasRoom, CustomCount, CustomBudget, Budget, Base

\* A request that has ended knows nothing.
LEMMA ReturnReady ==
    ASSUME TypeOK, NEW p \in Procs, Return(p), ~fresh'[p]
    PROVE  ReadyAt(p)'
  BY DEF TypeOK, ReadyAt, Return, Goto, AttachLabels, RemoveLabels

-----------------------------------------------------------------------------
(* Types.                                                                  *)

\* The end of a request keeps the types of what it resets.
LEMMA ReturnTypes ==
    ASSUME TypeOK, NEW p \in Procs, Return(p)
    PROVE  /\ pc' \in [Procs -> Labels]
           /\ host' \in [Procs -> Hosts \cup {NoHost}]
           /\ want' \in [Procs -> SUBSET OrgListeners]
           /\ gw' \in [Procs -> Indices]
           /\ seen' \in [Procs -> SUBSET Listeners]
           /\ tries' \in [Procs -> 0..MaxTries]
           /\ attempts' \in [Procs -> 0..MaxAttempts]
           /\ emptied' \in [Procs -> BOOLEAN]
           /\ \A q \in Procs : emptied'[q] => gw'[q] > 0
           /\ crossed' \subseteq Hosts
  <1>1. 0 \in Indices /\ 0 \in 0..MaxTries /\ 0 \in 0..MaxAttempts
    BY MaxShardAssumption, RetryAssumption DEF Indices
  <1>2. "idle" \in Labels
    BY DEF Labels
  <1>3. \A q \in Procs : emptied'[q] => emptied[q] /\ gw'[q] = gw[q]
    BY DEF TypeOK, Return
  <1>4. \A q \in Procs : emptied'[q] => gw'[q] > 0
    BY <1>3 DEF TypeOK
  <1> QED
    BY <1>1, <1>2, <1>4 DEF TypeOK, Return, Goto

\* Steps that write no Gateway keep the types.
LEMMA TypeReturn ==
    ASSUME TypeOK, NEW p \in Procs, ReturnUnwritten(p)
    PROVE  TypeOK'
  BY ReturnTypes DEF TypeOK, ReturnUnwritten

\* Choosing a Gateway keeps the types.
LEMMA TypeTarget ==
    ASSUME TypeOK, NEW p \in Procs, NEW i \in Indices, NEW label \in Labels,
           ~emptied[p], Target(p, i, label)
    PROVE  TypeOK'
  BY RetryAssumption DEF TypeOK, Target, Step, Goto

\* Reading one keeps the types.
LEMMA TypeRead ==
    ASSUME TypeOK, NEW p \in Procs, NEW label \in Labels, Read(p, label),
           emptied' \in [Procs -> BOOLEAN], \A q \in Procs : emptied'[q] => gw[q] > 0
    PROVE  TypeOK'
  BY DEF TypeOK, Read, Step, Goto

\* A refused write keeps the types.
LEMMA TypeConflict ==
    ASSUME TypeOK, NEW p \in Procs, NEW label \in Labels, Conflict(p, label)
    PROVE  TypeOK'
  <1>1. CASE ReturnUnwritten(p)
    BY <1>1, TypeReturn
  <1>2. CASE /\ tries[p] < MaxTries
             /\ tries' = [tries EXCEPT ![p] = @ + 1]
             /\ Step(p, label)
             /\ UNCHANGED <<gw, seen, fresh, attempts, emptied>>
    <2>1. tries' \in [Procs -> 0..MaxTries]
      BY <1>2, RetryAssumption DEF TypeOK
    <2> QED
      BY <1>2, <2>1 DEF TypeOK, Step, Goto
  <1> QED
    BY <1>1, <1>2 DEF Conflict

\* So does a write of listeners to a Gateway there is.
LEMMA TypeWrite ==
    ASSUME TypeOK, NEW p \in Procs, NEW ls \in SUBSET Listeners, gw[p] \in exists,
           Write(p, ls), UNCHANGED exists
    PROVE  /\ listeners' \in [Indices -> SUBSET Listeners]
           /\ fresh' \in [Procs -> BOOLEAN]
           /\ \A i \in Indices \ exists' : listeners'[i] = {}
           /\ exists' \subseteq Indices /\ 0 \in exists'
  BY DEF TypeOK, Write

\* A write that ends its request keeps the types.
LEMMA TypeWriteReturn ==
    ASSUME TypeOK, NEW p \in Procs, NEW ls \in SUBSET Listeners, gw[p] \in exists,
           Write(p, ls), UNCHANGED exists, Return(p)
    PROVE  TypeOK'
  <1>1. /\ listeners' \in [Indices -> SUBSET Listeners]
        /\ fresh' \in [Procs -> BOOLEAN]
        /\ \A i \in Indices \ exists' : listeners'[i] = {}
        /\ exists' \subseteq Indices /\ 0 \in exists'
    BY TypeWrite
  <1> QED
    BY <1>1, ReturnTypes DEF TypeOK

\* Every step of a request keeps the types.
LEMMA TypeStep ==
    ASSUME TypeOK, Ready, NEW p \in Procs,
           \/ \E h \in Hosts : Attach(p, h) \/ Remove(p, h)
           \/ \E ls \in SUBSET OrgListeners \ {{}} : EnsureOrgWildcard(p, ls)
           \/ Work(p)
           \/ Fail(p)
    PROVE  TypeOK'
  <1> USE DEF Labels
  <1>R. ReadyAt(p)
    BY DEF Ready
  <1>1. CASE \E h \in Hosts : Attach(p, h) \/ Remove(p, h)
    BY <1>1, RetryAssumption DEF TypeOK, Attach, Remove, Request, Goto
  <1>2. CASE \E ls \in SUBSET OrgListeners \ {{}} : EnsureOrgWildcard(p, ls)
    BY <1>2, RetryAssumption DEF TypeOK, EnsureOrgWildcard, Goto
  <1>3. CASE Fail(p)
    BY <1>3, TypeReturn DEF Fail
  <1>4. CASE FindHost(p)
    <2>0. ~emptied[p]
      BY <1>4, <1>R DEF FindHost, ReadyAt, RemoveLabels
    <2>1. CASE \E i \in Holders(host[p]) : Target(p, i, "get")
      BY <2>0, <2>1, TypeTarget DEF Holders, TypeOK
    <2>2. CASE Step(p, "pick") /\ UNCHANGED <<gw, seen, fresh, tries, attempts, emptied>>
      BY <2>2 DEF TypeOK, Step, Goto
    <2> QED
      BY <1>4, <2>1, <2>2 DEF FindHost
  <1>5. CASE Pick(p)
    <2>0. ~emptied[p]
      BY <1>5, <1>R DEF Pick, ReadyAt, RemoveLabels
    <2>1. CASE \E i \in exists : Target(p, i, "get")
      BY <2>0, <2>1, TypeTarget DEF TypeOK
    <2>2. CASE \E i \in exists : i + 1 <= MaxShard /\ Target(p, i + 1, "create")
      <3>1. PICK i \in exists : i + 1 <= MaxShard /\ Target(p, i + 1, "create")
        BY <2>2
      <3>2. i + 1 \in Indices
        BY <3>1, MaxShardAssumption DEF TypeOK, Indices
      <3> QED
        BY <2>0, <3>1, <3>2, TypeTarget
    <2> QED
      BY <1>5, <2>1, <2>2 DEF Pick
  <1>6. CASE Create(p)
    BY <1>6 DEF TypeOK, Create, Goto
  <1>7. CASE MergeGet(p)
    <2>1. CASE ReturnUnwritten(p)
      BY <2>1, TypeReturn
    <2>2. CASE /\ attempts[p] < MaxAttempts
               /\ attempts' = [attempts EXCEPT ![p] = @ + 1]
               /\ Step(p, "find")
               /\ UNCHANGED <<gw, seen, fresh, tries, emptied>>
      <3>1. attempts' \in [Procs -> 0..MaxAttempts]
        BY <2>2, RetryAssumption DEF TypeOK
      <3> QED
        BY <2>2, <3>1 DEF TypeOK, Step, Goto
    <2>3. CASE Read(p, "put") /\ UNCHANGED emptied
      BY <2>3, TypeRead DEF TypeOK
    <2> QED
      BY <1>7, <2>1, <2>2, <2>3 DEF MergeGet, Gone
  <1>8. CASE MergePut(p)
    <2>1. CASE ReturnUnwritten(p)
      BY <2>1, TypeReturn
    <2>2. CASE Conflict(p, "get")
      BY <2>2, TypeConflict
    <2>3. CASE /\ gw[p] \in exists /\ Write(p, seen[p] \cup {host[p]})
               /\ Return(p) /\ UNCHANGED exists
      <3>1. seen[p] \cup {host[p]} \in SUBSET Listeners
        BY <1>8, <1>R DEF MergePut, ReadyAt, AttachLabels, TypeOK, Listeners
      <3> QED
        BY <2>3, <3>1, TypeWriteReturn
    <2> QED
      BY <1>8, <2>1, <2>2, <2>3 DEF MergePut, Gone
  <1>9. CASE RemoveFind(p)
    <2>0. ~emptied[p]
      BY <1>9, <1>R DEF RemoveFind, ReadyAt, RemoveLabels
    <2>1. CASE \E i \in Holders(host[p]) : Target(p, i, "rmget")
      BY <2>0, <2>1, TypeTarget DEF Holders, TypeOK
    <2>2. CASE ReturnUnwritten(p)
      BY <2>2, TypeReturn
    <2> QED
      BY <1>9, <2>1, <2>2 DEF RemoveFind
  <1>10. CASE RemoveGet(p)
    <2>1. CASE ReturnUnwritten(p)
      BY <2>1, TypeReturn
    <2>2. CASE Step(p, "rmdelete") /\ UNCHANGED <<gw, seen, fresh, tries, attempts, emptied>>
      BY <2>2 DEF TypeOK, Step, Goto
    <2>3. CASE /\ Read(p, "rmput")
               /\ emptied' = [emptied EXCEPT ![p] = gw[p] > 0 /\ listeners[gw[p]] = {host[p]}]
      <3>1. emptied' \in [Procs -> BOOLEAN]
        BY <2>3, Zenon DEF TypeOK
      <3>2. \A q \in Procs : emptied'[q] => gw[q] > 0
        BY <2>3 DEF TypeOK
      <3> QED
        BY <2>3, <3>1, <3>2, TypeRead
    <2> QED
      BY <1>10, <2>1, <2>2, <2>3 DEF RemoveGet
  <1>11. CASE RemovePut(p)
    <2>1. CASE ReturnUnwritten(p)
      BY <2>1, TypeReturn
    <2>2. CASE Conflict(p, "rmget")
      BY <2>2, TypeConflict
    <2>3. CASE /\ gw[p] \in exists /\ Write(p, seen[p] \ {host[p]}) /\ UNCHANGED exists
               /\ \/ Return(p)
                  \/ /\ Goto(p, "rmdelete")
                     /\ UNCHANGED <<host, want, gw, seen, tries, attempts, emptied>>
      <3>1. seen[p] \ {host[p]} \in SUBSET Listeners
        BY DEF TypeOK
      <3>2. CASE Return(p)
        BY <2>3, <3>1, <3>2, TypeWriteReturn
      <3>3. CASE /\ Goto(p, "rmdelete")
                 /\ UNCHANGED <<host, want, gw, seen, tries, attempts, emptied>>
        <4>1. /\ listeners' \in [Indices -> SUBSET Listeners]
              /\ fresh' \in [Procs -> BOOLEAN]
              /\ \A i \in Indices \ exists' : listeners'[i] = {}
              /\ exists' \subseteq Indices /\ 0 \in exists'
          BY <2>3, <3>1, TypeWrite
        <4> QED
          BY <3>3, <4>1 DEF TypeOK, Goto
      <3> QED
        BY <2>3, <3>2, <3>3
    <2> QED
      BY <1>11, <2>1, <2>2, <2>3 DEF RemovePut, Gone
  <1>12. CASE RemoveDelete(p)
    <2>1. gw[p] \in Indices /\ gw[p] > 0
      BY <1>12, <1>R DEF RemoveDelete, ReadyAt, TypeOK
    <2>2. /\ exists' \subseteq Indices /\ 0 \in exists'
          /\ listeners' \in [Indices -> SUBSET Listeners]
          /\ fresh' \in [Procs -> BOOLEAN]
          /\ \A i \in Indices \ exists' : listeners'[i] = {}
      BY <1>12, <2>1 DEF RemoveDelete, Write, TypeOK
    <2> QED
      BY <1>12, <2>2, ReturnTypes DEF RemoveDelete, TypeOK
  <1>13. CASE OrgGet(p)
    <2>1. CASE ReturnUnwritten(p)
      BY <2>1, TypeReturn
    <2>2. CASE Read(p, "orgput") /\ UNCHANGED emptied
      BY <2>2, TypeRead DEF TypeOK
    <2> QED
      BY <1>13, <2>1, <2>2 DEF OrgGet
  <1>14. CASE OrgPut(p)
    <2>1. CASE Conflict(p, "orgget")
      BY <2>1, TypeConflict
    <2>2. CASE Write(p, seen[p] \cup want[p]) /\ Return(p) /\ UNCHANGED exists
      <3>1. seen[p] \cup want[p] \in SUBSET Listeners
        BY DEF TypeOK, Listeners
      <3>2. gw[p] \in exists
        BY <1>14, <1>R DEF OrgPut, ReadyAt, TypeOK
      <3> QED
        BY <2>2, <3>1, <3>2, TypeWriteReturn
    <2> QED
      BY <1>14, <2>1, <2>2 DEF OrgPut
  <1> QED
    BY <1>1, <1>2, <1>3, <1>4, <1>5, <1>6, <1>7, <1>8, <1>9, <1>10, <1>11, <1>12, <1>13,
       <1>14 DEF Work

-----------------------------------------------------------------------------
(* What a request knows between its steps.                                 *)

\* The variables of the other requests are theirs.
LEMMA OthersUnmoved ==
    ASSUME TypeOK, NEW p \in Procs, NEW q \in Procs, q # p,
           \/ \E h \in Hosts : Attach(p, h) \/ Remove(p, h)
           \/ \E ls \in SUBSET OrgListeners \ {{}} : EnsureOrgWildcard(p, ls)
           \/ Work(p)
           \/ Fail(p)
    PROVE  /\ pc'[q] = pc[q] /\ host'[q] = host[q] /\ want'[q] = want[q] /\ gw'[q] = gw[q]
           /\ seen'[q] = seen[q] /\ emptied'[q] = emptied[q]
  <1> USE DEF TypeOK, Goto, Step, Target, Return, ReturnUnwritten, Conflict, Gone, Read
  <1>1. CASE \E h \in Hosts : Attach(p, h) \/ Remove(p, h)
    BY <1>1 DEF Attach, Remove, Request
  <1>2. CASE \E ls \in SUBSET OrgListeners \ {{}} : EnsureOrgWildcard(p, ls)
    BY <1>2 DEF EnsureOrgWildcard
  <1>3. CASE Fail(p)
    BY <1>3 DEF Fail
  <1>4. CASE FindHost(p) \/ Pick(p) \/ Create(p)
    BY <1>4 DEF FindHost, Pick, Create
  <1>5. CASE MergeGet(p) \/ MergePut(p)
    BY <1>5 DEF MergeGet, MergePut
  <1>6. CASE RemoveFind(p) \/ RemoveGet(p)
    BY <1>6 DEF RemoveFind, RemoveGet
  <1>7. CASE RemovePut(p) \/ RemoveDelete(p)
    BY <1>7 DEF RemovePut, RemoveDelete
  <1>8. CASE OrgGet(p) \/ OrgPut(p)
    BY <1>8 DEF OrgGet, OrgPut
  <1> QED
    BY <1>1, <1>2, <1>3, <1>4, <1>5, <1>6, <1>7, <1>8 DEF Work

\* What they know stays true: a Gateway that p's step changes is one they have no
\* current version of.
LEMMA Others ==
    ASSUME TypeOK, Ready, NEW p \in Procs,
           \/ \E h \in Hosts : Attach(p, h) \/ Remove(p, h)
           \/ \E ls \in SUBSET OrgListeners \ {{}} : EnsureOrgWildcard(p, ls)
           \/ Work(p)
           \/ Fail(p)
    PROVE  \A q \in Procs \ {p} : ReadyAt(q)'
  <1> SUFFICES ASSUME NEW q \in Procs, q # p PROVE ReadyAt(q)'
    OBVIOUS
  <1>R. ReadyAt(q)
    BY DEF Ready
  <1> USE DEF TypeOK, Goto, Step, Target, Return, ReturnUnwritten, Conflict, Gone, Read
  <1>1. /\ pc'[q] = pc[q] /\ host'[q] = host[q] /\ want'[q] = want[q] /\ gw'[q] = gw[q]
        /\ seen'[q] = seen[q] /\ emptied'[q] = emptied[q]
    BY OthersUnmoved
  <1>2. ASSUME fresh'[q]
        PROVE  fresh[q] /\ gw[q] \in exists' /\ listeners'[gw[q]] = listeners[gw[q]]
    <2>0. fresh[q] => gw[q] \in exists
      BY <1>R DEF ReadyAt
    <2>1. CASE \E h \in Hosts : Attach(p, h) \/ Remove(p, h)
      BY <1>2, <2>0, <2>1 DEF Attach, Remove, Request
    <2>2. CASE \E ls \in SUBSET OrgListeners \ {{}} : EnsureOrgWildcard(p, ls)
      BY <1>2, <2>0, <2>2 DEF EnsureOrgWildcard
    <2>3. CASE Fail(p)
      BY <1>2, <2>0, <2>3 DEF Fail
    <2>4. CASE FindHost(p) \/ Pick(p) \/ Create(p)
      BY <1>2, <2>0, <2>4 DEF FindHost, Pick, Create
    <2>5. CASE MergeGet(p)
      BY <1>2, <2>0, <2>5 DEF MergeGet
    <2>6. CASE RemoveFind(p) \/ RemoveGet(p) \/ OrgGet(p)
      BY <1>2, <2>0, <2>6 DEF RemoveFind, RemoveGet, OrgGet
    <2>7. CASE MergePut(p) \/ RemovePut(p) \/ OrgPut(p)
      BY <1>2, <2>0, <2>7 DEF MergePut, RemovePut, OrgPut, Write
    <2>8. CASE RemoveDelete(p)
      BY <1>2, <2>0, <2>8 DEF RemoveDelete, Write
    <2> QED
      BY <2>1, <2>2, <2>3, <2>4, <2>5, <2>6, <2>7, <2>8 DEF Work
  <1> QED
    BY <1>1, <1>2, <1>R, OtherReady

\* The request that takes the step knows what it should.
LEMMA Itself ==
    ASSUME TypeOK, Ready, NEW p \in Procs,
           \/ \E h \in Hosts : Attach(p, h) \/ Remove(p, h)
           \/ \E ls \in SUBSET OrgListeners \ {{}} : EnsureOrgWildcard(p, ls)
           \/ Work(p)
           \/ Fail(p)
    PROVE  ReadyAt(p)'
  <1>R. ReadyAt(p)
    BY DEF Ready
  <1>0. ASSUME ReturnUnwritten(p) PROVE ReadyAt(p)'
    <2>1. ~fresh'[p]
      BY <1>0 DEF ReturnUnwritten, TypeOK
    <2> QED
      BY <1>0, <2>1, ReturnReady DEF ReturnUnwritten
  <1>w. ASSUME NEW ls, Write(p, ls), Return(p) PROVE ReadyAt(p)'
    BY <1>w, ReturnReady DEF Write
  <1>c. ASSUME NEW label \in {"get", "rmget", "orgget"}, Conflict(p, label),
               label = "orgget" <=> pc[p] = "orgput", label = "get" <=> pc[p] = "put",
               pc[p] \in {"put", "rmput", "orgput"}
        PROVE  ReadyAt(p)'
    <2>1. CASE ReturnUnwritten(p)
      BY <2>1, <1>0
    <2>2. CASE Step(p, label) /\ UNCHANGED <<gw, seen, fresh, attempts, emptied>>
      BY <2>2, <1>c, <1>R
         DEF Conflict, Step, Goto, ReadyAt, TypeOK, AttachLabels, RemoveLabels
    <2> QED
      BY <1>c, <2>1, <2>2 DEF Conflict
  <1> USE DEF AttachLabels, RemoveLabels
  <1>1. CASE \E h \in Hosts : Attach(p, h) \/ Remove(p, h)
    BY <1>1, <1>R DEF Attach, Remove, Request, Goto, TypeOK, ReadyAt
  <1>2. CASE \E ls \in SUBSET OrgListeners \ {{}} : EnsureOrgWildcard(p, ls)
    BY <1>2, <1>R DEF EnsureOrgWildcard, Goto, TypeOK, ReadyAt
  <1>3. CASE Fail(p)
    BY <1>3, <1>0 DEF Fail
  <1>4. CASE FindHost(p) \/ Pick(p) \/ Create(p)
    BY <1>4, <1>R DEF FindHost, Pick, Create, Target, Step, Goto, TypeOK, ReadyAt
  <1>5. CASE MergeGet(p)
    <2>1. CASE ReturnUnwritten(p)
      BY <2>1, <1>0
    <2>2. CASE Step(p, "find") /\ UNCHANGED <<gw, seen, fresh, tries, emptied>>
      BY <1>5, <2>2, <1>R DEF MergeGet, Step, Goto, TypeOK, ReadyAt
    <2>3. CASE /\ gw[p] \in exists /\ HasRoom(gw[p], listeners[gw[p]])
               /\ Read(p, "put") /\ UNCHANGED emptied
      <3>1. /\ pc'[p] = "put" /\ gw'[p] = gw[p] /\ host'[p] = host[p] /\ ~emptied'[p]
            /\ seen'[p] = listeners[gw[p]] /\ host[p] \in Hosts
            /\ UNCHANGED <<exists, listeners>>
        BY <1>5, <2>3, <1>R DEF MergeGet, Read, Step, Goto, TypeOK, ReadyAt
      <3>2. HasRoom(gw'[p], seen'[p])
        BY <2>3, <3>1
      <3>3. HasRoom(gw[p], seen[p])'
        BY <3>2 DEF HasRoom, CustomCount, CustomBudget, Budget, Base
      <3> QED
        BY <2>3, <3>1, <3>3 DEF ReadyAt
    <2> QED
      BY <1>5, <2>1, <2>2, <2>3 DEF MergeGet, Gone
  <1>6. CASE MergePut(p)
    BY <1>6, <1>0, <1>w, <1>c DEF MergePut, Gone
  <1>7. CASE RemoveFind(p)
    <2>1. CASE ReturnUnwritten(p)
      BY <2>1, <1>0
    <2>2. CASE \E i \in Holders(host[p]) : Target(p, i, "rmget")
      BY <1>7, <2>2, <1>R DEF RemoveFind, Target, Step, Goto, TypeOK, ReadyAt
    <2> QED
      BY <1>7, <2>1, <2>2 DEF RemoveFind
  <1>8. CASE RemoveGet(p)
    <2>1. CASE ReturnUnwritten(p)
      BY <2>1, <1>0
    <2>2. CASE /\ emptied[p] /\ Step(p, "rmdelete")
               /\ UNCHANGED <<gw, seen, fresh, tries, attempts, emptied>>
      BY <1>8, <2>2, <1>R DEF RemoveGet, Step, Goto, TypeOK, ReadyAt
    <2>3. CASE gw[p] \in exists /\ Read(p, "rmput")
      BY <1>8, <2>3, <1>R DEF RemoveGet, Read, Step, Goto, TypeOK, ReadyAt
    <2> QED
      BY <1>8, <2>1, <2>2, <2>3 DEF RemoveGet
  <1>9. CASE RemovePut(p)
    <2>1. CASE Write(p, seen[p] \ {host[p]}) /\ emptied[p] /\ Goto(p, "rmdelete")
               /\ UNCHANGED <<host, want, gw, seen, tries, attempts, emptied>>
      BY <1>9, <2>1, <1>R DEF RemovePut, Write, Goto, TypeOK, ReadyAt
    <2> QED
      BY <1>9, <2>1, <1>0, <1>w, <1>c DEF RemovePut, Gone
  <1>10. CASE RemoveDelete(p)
    BY <1>10, <1>w DEF RemoveDelete
  <1>11. CASE OrgGet(p)
    <2>1. CASE ReturnUnwritten(p)
      BY <2>1, <1>0
    <2>2. CASE /\ ~(Cardinality(listeners[0] \cup want[p]) + Base(0) > Ceiling)
               /\ Read(p, "orgput") /\ UNCHANGED emptied
      <3>1. gw[p] = 0 /\ 0 \in exists /\ 0 \in Indices /\ ~emptied[p]
        BY <1>11, <1>R, MaxShardAssumption DEF OrgGet, ReadyAt, TypeOK, Indices
      <3>2. listeners[0] \cup want[p] \in SUBSET Listeners
        BY <3>1 DEF TypeOK, Listeners
      <3>3. Cardinality(listeners[0] \cup want[p]) + Base(0) <= Ceiling
        <4>1. Cardinality(listeners[0] \cup want[p]) \in Nat
          BY <3>2, Finite
        <4>2. Base(0) \in Nat /\ Ceiling \in Nat
          BY <3>1, Bounds
        <4> QED
          BY <2>2, <4>1, <4>2
      <3>4. /\ pc'[p] = "orgput" /\ gw'[p] = 0 /\ ~emptied'[p]
            /\ seen'[p] = listeners[0] /\ want'[p] = want[p]
            /\ UNCHANGED <<exists, listeners>>
        BY <2>2, <3>1 DEF Read, Step, Goto, TypeOK
      <3>5. Cardinality(seen'[p] \cup want'[p]) + Base(0) <= Ceiling
        BY <3>3, <3>4
      <3> QED
        BY <3>1, <3>4, <3>5 DEF ReadyAt, Base
    <2> QED
      BY <1>11, <2>1, <2>2 DEF OrgGet
  <1>12. CASE OrgPut(p)
    BY <1>12, <1>w, <1>c DEF OrgPut
  <1> QED
    BY <1>1, <1>2, <1>3, <1>4, <1>5, <1>6, <1>7, <1>8, <1>9, <1>10, <1>11, <1>12 DEF Work

-----------------------------------------------------------------------------
(* What a step does to the Gateways.                                       *)

\* A step leaves the Gateways as they are, or creates an empty one, or deletes
\* one, or writes one whose listeners it knows.
LEMMA GatewayStep ==
    ASSUME TypeOK, Ready, NEW p \in Procs,
           \/ \E h \in Hosts : Attach(p, h) \/ Remove(p, h)
           \/ \E ls \in SUBSET OrgListeners \ {{}} : EnsureOrgWildcard(p, ls)
           \/ Work(p)
           \/ Fail(p)
    PROVE  \/ UNCHANGED <<exists, listeners>>
           \/ Create(p)
           \/ RemoveDelete(p)
           \/ /\ UNCHANGED exists
              /\ gw[p] \in exists /\ seen[p] = listeners[gw[p]]
              /\ \/ /\ pc[p] = "put"
                    /\ listeners' = [listeners EXCEPT ![gw[p]] = seen[p] \cup {host[p]}]
                 \/ /\ pc[p] = "rmput"
                    /\ listeners' = [listeners EXCEPT ![gw[p]] = seen[p] \ {host[p]}]
                 \/ /\ pc[p] = "orgput"
                    /\ listeners' = [listeners EXCEPT ![gw[p]] = seen[p] \cup want[p]]
  <1>R. ReadyAt(p)
    BY DEF Ready
  <1> USE DEF Step, Target, ReturnUnwritten, Conflict, Gone, Read
  <1>1. CASE \E h \in Hosts : Attach(p, h) \/ Remove(p, h)
    BY <1>1 DEF Attach, Remove, Request
  <1>2. CASE \E ls \in SUBSET OrgListeners \ {{}} : EnsureOrgWildcard(p, ls)
    BY <1>2 DEF EnsureOrgWildcard
  <1>3. CASE Fail(p) \/ FindHost(p) \/ Pick(p) \/ MergeGet(p)
    BY <1>3 DEF Fail, FindHost, Pick, MergeGet
  <1>4. CASE RemoveFind(p) \/ RemoveGet(p) \/ OrgGet(p)
    BY <1>4 DEF RemoveFind, RemoveGet, OrgGet
  <1>5. CASE MergePut(p)
    BY <1>5, <1>R DEF MergePut, Write, ReadyAt
  <1>6. CASE RemovePut(p)
    BY <1>6, <1>R DEF RemovePut, Write, ReadyAt
  <1>7. CASE OrgPut(p)
    BY <1>7, <1>R DEF OrgPut, Write, ReadyAt
  <1> QED
    BY <1>1, <1>2, <1>3, <1>4, <1>5, <1>6, <1>7 DEF Work

\* It keeps every Gateway within its limits.
LEMMA LimitsStep ==
    ASSUME Inv, NEW p \in Procs,
           \/ \E h \in Hosts : Attach(p, h) \/ Remove(p, h)
           \/ \E ls \in SUBSET OrgListeners \ {{}} : EnsureOrgWildcard(p, ls)
           \/ Work(p)
           \/ Fail(p)
    PROVE  WithinLimits'
  <1>T. TypeOK /\ Ready /\ ReadyAt(p)
    BY DEF Inv, Ready
  <1>L. \A i \in exists : Fits(i, listeners[i])
    BY DEF Inv, WithinLimits, Fits
  <1> SUFFICES ASSUME NEW i \in exists' PROVE Fits(i, listeners'[i])
    BY DEF WithinLimits, Fits, CustomCount, CustomBudget, Budget, Base
  <1>1. CASE UNCHANGED <<exists, listeners>>
    BY <1>1, <1>L
  <1>2. CASE Create(p)
    <2>1. CASE i \in exists
      BY <1>2, <1>L, <2>1 DEF Create
    <2>2. CASE i \notin exists
      <3>1. i \in Indices /\ listeners'[i] = {}
        BY <1>2, <2>2, <1>T DEF Create, TypeOK
      <3> QED
        BY <3>1, EmptyFits
    <2> QED
      BY <2>1, <2>2
  <1>3. CASE RemoveDelete(p)
    BY <1>3, <1>L, <1>T DEF RemoveDelete, Write, TypeOK
  <1>4. CASE /\ UNCHANGED exists
             /\ gw[p] \in exists /\ seen[p] = listeners[gw[p]]
             /\ \/ /\ pc[p] = "put"
                   /\ listeners' = [listeners EXCEPT ![gw[p]] = seen[p] \cup {host[p]}]
                \/ /\ pc[p] = "rmput"
                   /\ listeners' = [listeners EXCEPT ![gw[p]] = seen[p] \ {host[p]}]
                \/ /\ pc[p] = "orgput"
                   /\ listeners' = [listeners EXCEPT ![gw[p]] = seen[p] \cup want[p]]
    <2>1. CASE i # gw[p]
      <3>1. listeners'[i] = listeners[i] /\ i \in exists
        BY <1>4, <2>1, <1>T DEF TypeOK
      <3> QED
        BY <3>1, <1>L
    <2>2. CASE i = gw[p]
      <3>0. /\ i \in exists /\ i \in Indices /\ seen[p] \in SUBSET Listeners
            /\ Fits(i, seen[p]) /\ want[p] \in SUBSET OrgListeners
        BY <1>4, <2>2, <1>T, <1>L DEF TypeOK
      <3>1. CASE pc[p] = "put"
        <4>1. listeners'[i] = seen[p] \cup {host[p]}
          BY <1>4, <2>2, <3>1, <1>T DEF TypeOK
        <4>2. host[p] \in Hosts /\ HasRoom(i, seen[p])
          BY <2>2, <3>1, <1>T DEF ReadyAt, AttachLabels
        <4> QED
          BY <3>0, <4>1, <4>2, AddHostFits
      <3>2. CASE pc[p] = "rmput"
        <4>1. listeners'[i] = seen[p] \ {host[p]}
          BY <1>4, <2>2, <3>2, <1>T DEF TypeOK
        <4> QED
          BY <3>0, <4>1, DropHostFits
      <3>3. CASE pc[p] = "orgput"
        <4>1. listeners'[i] = seen[p] \cup want[p]
          BY <1>4, <2>2, <3>3, <1>T DEF TypeOK
        <4>2. i = 0 /\ Cardinality(seen[p] \cup want[p]) + Base(0) <= Ceiling
          BY <2>2, <3>3, <1>T DEF ReadyAt
        <4> QED
          BY <3>0, <4>1, <4>2, AddOrgFits
      <3> QED
        BY <1>4, <3>1, <3>2, <3>3
    <2> QED
      BY <2>1, <2>2
  <1> QED
    BY <1>T, <1>1, <1>2, <1>3, <1>4, GatewayStep

\* It takes no listener from a Gateway it writes but the one it removes.
LEMMA KeepStep ==
    ASSUME Inv, NEW p \in Procs,
           \/ \E h \in Hosts : Attach(p, h) \/ Remove(p, h)
           \/ \E ls \in SUBSET OrgListeners \ {{}} : EnsureOrgWildcard(p, ls)
           \/ Work(p)
           \/ Fail(p)
    PROVE  \A i \in exists \cap exists' : Lost(i) \subseteq Own(p)
  <1>T. TypeOK /\ Ready /\ ReadyAt(p)
    BY DEF Inv, Ready
  <1> SUFFICES ASSUME NEW i \in exists, i \in exists' PROVE Lost(i) \subseteq Own(p)
    OBVIOUS
  <1>1. CASE UNCHANGED <<exists, listeners>> \/ Create(p)
    BY <1>1 DEF Create, Lost
  <1>2. CASE RemoveDelete(p)
    BY <1>2, <1>T DEF RemoveDelete, Write, Lost, TypeOK
  <1>3. CASE /\ gw[p] \in exists /\ seen[p] = listeners[gw[p]]
             /\ \/ listeners' = [listeners EXCEPT ![gw[p]] = seen[p] \cup {host[p]}]
                \/ listeners' = [listeners EXCEPT ![gw[p]] = seen[p] \cup want[p]]
                \/ /\ pc[p] = "rmput"
                   /\ listeners' = [listeners EXCEPT ![gw[p]] = seen[p] \ {host[p]}]
    BY <1>3, <1>T DEF Lost, Own, TypeOK
  <1> QED
    BY <1>T, <1>1, <1>2, <1>3, GatewayStep

-----------------------------------------------------------------------------
(* One listener for a host whose requests come one at a time.              *)
(*                                                                         *)
(* Uncrossed: no two requests work on such a host.  Place: one Gateway has *)
(* its listener.  Placing: the request that is placing it knows which      *)
(* Gateway that is, or that there is none.                                 *)

Uncrossed == \A h \in Hosts \ crossed : \A p, q \in Procs : host[p] = h /\ host[q] = h => p = q

Place == \A h \in Hosts \ crossed : \A i, j \in Holders(h) : i = j

PlacingAt(p) ==
    host[p] \notin crossed =>
        /\ pc[p] = "pick" => Holders(host[p]) = {}
        /\ pc[p] \in {"create", "get", "put"} => Holders(host[p]) \subseteq {gw[p]}

Placing == \A p \in Procs : PlacingAt(p)

Single == Uncrossed /\ Place /\ Placing

\* No request works on a host at first, and no Gateway has a listener.
LEMMA SingleInit == Init => Single
  <1> SUFFICES ASSUME Init PROVE Single
    OBVIOUS
  <1>1. 0 \in Indices
    BY MaxShardAssumption DEF Indices
  <1> QED
    BY <1>1, HostsAssumption DEF Init, Single, Uncrossed, Place, Placing, PlacingAt, Holders

\* A step leaves its request the host it has, ends it, or gives it one; a host that
\* another request has is then crossed.
LEMMA HostStep ==
    ASSUME TypeOK, NEW p \in Procs,
           \/ \E h \in Hosts : Attach(p, h) \/ Remove(p, h)
           \/ \E ls \in SUBSET OrgListeners \ {{}} : EnsureOrgWildcard(p, ls)
           \/ Work(p)
           \/ Fail(p)
    PROVE  /\ crossed \subseteq crossed'
           /\ \/ host'[p] = host[p]
              \/ host'[p] = NoHost
              \/ \A q \in Procs : host[q] = host'[p] => host'[p] \in crossed'
  <1> USE DEF TypeOK, Goto, Step, Target, Return, ReturnUnwritten, Conflict, Gone, Read
  <1>1. CASE \E h \in Hosts : Attach(p, h) \/ Remove(p, h)
    BY <1>1 DEF Attach, Remove, Request
  <1>2. CASE \E ls \in SUBSET OrgListeners \ {{}} : EnsureOrgWildcard(p, ls)
    BY <1>2 DEF EnsureOrgWildcard
  <1>3. CASE Fail(p)
    BY <1>3 DEF Fail
  <1>4. CASE FindHost(p) \/ Pick(p) \/ Create(p)
    BY <1>4 DEF FindHost, Pick, Create
  <1>5. CASE MergeGet(p) \/ MergePut(p)
    BY <1>5 DEF MergeGet, MergePut
  <1>6. CASE RemoveFind(p) \/ RemoveGet(p)
    BY <1>6 DEF RemoveFind, RemoveGet
  <1>7. CASE RemovePut(p) \/ RemoveDelete(p)
    BY <1>7 DEF RemovePut, RemoveDelete
  <1>8. CASE OrgGet(p) \/ OrgPut(p)
    BY <1>8 DEF OrgGet, OrgPut
  <1> QED
    BY <1>1, <1>2, <1>3, <1>4, <1>5, <1>6, <1>7, <1>8 DEF Work

\* A Gateway has a host's listener after a step if it had it before, or the step
\* wrote it there.
LEMMA HoldersStep ==
    ASSUME TypeOK, Ready, NEW p \in Procs,
           \/ \E h \in Hosts : Attach(p, h) \/ Remove(p, h)
           \/ \E ls \in SUBSET OrgListeners \ {{}} : EnsureOrgWildcard(p, ls)
           \/ Work(p)
           \/ Fail(p),
           NEW h \in Hosts, NEW i \in Holders(h)'
    PROVE  \/ i \in Holders(h)
           \/ pc[p] = "put" /\ host[p] = h /\ i = gw[p]
  <1>0. i \in exists' /\ h \in listeners'[i]
    BY DEF Holders
  <1>1. CASE UNCHANGED <<exists, listeners>>
    BY <1>0, <1>1 DEF Holders
  <1>2. CASE Create(p)
    BY <1>0, <1>2 DEF Holders, Create, TypeOK
  <1>3. CASE RemoveDelete(p)
    BY <1>0, <1>3 DEF Holders, RemoveDelete, Write, TypeOK
  <1>4. CASE /\ UNCHANGED exists
             /\ gw[p] \in exists /\ seen[p] = listeners[gw[p]]
             /\ \/ /\ pc[p] = "put"
                   /\ listeners' = [listeners EXCEPT ![gw[p]] = seen[p] \cup {host[p]}]
                \/ /\ pc[p] = "rmput"
                   /\ listeners' = [listeners EXCEPT ![gw[p]] = seen[p] \ {host[p]}]
                \/ /\ pc[p] = "orgput"
                   /\ listeners' = [listeners EXCEPT ![gw[p]] = seen[p] \cup want[p]]
    BY <1>0, <1>4, OrgListenersAssumption DEF Holders, TypeOK
  <1> QED
    BY <1>1, <1>2, <1>3, <1>4, GatewayStep

\* A request places a host where it found it, or, having found it nowhere, at one
\* Gateway it picks.
LEMMA PlacingStep ==
    ASSUME TypeOK, Ready, NEW p \in Procs,
           \/ \E h \in Hosts : Attach(p, h) \/ Remove(p, h)
           \/ \E ls \in SUBSET OrgListeners \ {{}} : EnsureOrgWildcard(p, ls)
           \/ Work(p)
           \/ Fail(p)
    PROVE  /\ pc'[p] \in {"pick", "create", "get", "put"} => host'[p] = host[p] /\ host[p] \in Hosts
           /\ pc'[p] = "pick" => UNCHANGED <<exists, listeners>> /\ Holders(host[p]) = {}
           /\ pc'[p] \in {"create", "get", "put"} =>
                 \/ pc[p] \in {"create", "get", "put"} /\ gw'[p] = gw[p]
                 \/ pc[p] = "pick"
                 \/ pc[p] = "find" /\ gw'[p] \in Holders(host[p])
  <1>R. ReadyAt(p)
    BY DEF Ready
  <1> USE DEF Step, Goto, Target, Return, ReturnUnwritten, Conflict, Gone, Read, TypeOK
  <1>1. CASE \E h \in Hosts : Attach(p, h) \/ Remove(p, h)
    BY <1>1 DEF Attach, Remove, Request
  <1>2. CASE \E ls \in SUBSET OrgListeners \ {{}} : EnsureOrgWildcard(p, ls)
    BY <1>2 DEF EnsureOrgWildcard
  <1>3. CASE Fail(p)
    BY <1>3 DEF Fail
  <1>4. CASE FindHost(p)
    BY <1>4, <1>R DEF FindHost, ReadyAt, AttachLabels
  <1>5. CASE Pick(p) \/ Create(p)
    BY <1>5, <1>R DEF Pick, Create, ReadyAt, AttachLabels
  <1>6. CASE MergeGet(p)
    BY <1>6, <1>R DEF MergeGet, ReadyAt, AttachLabels
  <1>7. CASE MergePut(p)
    BY <1>7, <1>R DEF MergePut, ReadyAt, AttachLabels
  <1>8. CASE RemoveFind(p) \/ RemoveGet(p)
    BY <1>8 DEF RemoveFind, RemoveGet
  <1>9. CASE RemovePut(p) \/ RemoveDelete(p)
    BY <1>9 DEF RemovePut, RemoveDelete
  <1>10. CASE OrgGet(p) \/ OrgPut(p)
    BY <1>10 DEF OrgGet, OrgPut
  <1> QED
    BY <1>1, <1>2, <1>3, <1>4, <1>5, <1>6, <1>7, <1>8, <1>9, <1>10 DEF Work

\* Single is kept by every step of a request.
LEMMA SingleStep ==
    ASSUME TypeOK, Ready, Single, NEW p \in Procs,
           \/ \E h \in Hosts : Attach(p, h) \/ Remove(p, h)
           \/ \E ls \in SUBSET OrgListeners \ {{}} : EnsureOrgWildcard(p, ls)
           \/ Work(p)
           \/ Fail(p)
    PROVE  Single'
  <1>O. \A q \in Procs \ {p} : host'[q] = host[q] /\ pc'[q] = pc[q] /\ gw'[q] = gw[q]
    BY OthersUnmoved
  <1>C. crossed \subseteq crossed'
    BY HostStep
  <1>A. ASSUME NEW h \in Hosts, h \notin crossed, NEW q \in Procs, NEW r \in Procs,
               host[q] = h, host[r] = h
        PROVE  q = r
    BY <1>A DEF Single, Uncrossed
  <1>H. ASSUME NEW h \in Hosts, NEW i \in Holders(h)'
        PROVE  \/ i \in Holders(h)
               \/ pc[p] = "put" /\ host[p] = h /\ i = gw[p]
    BY <1>H, HoldersStep
  <1>G. ASSUME NEW q \in Procs, host[q] \notin crossed
        PROVE  /\ pc[q] = "pick" => Holders(host[q]) = {}
               /\ pc[q] \in {"create", "get", "put"} => Holders(host[q]) \subseteq {gw[q]}
    BY <1>G DEF Single, Placing, PlacingAt
  <1>1. Uncrossed'
    <2> SUFFICES ASSUME NEW h \in Hosts, h \notin crossed', NEW q \in Procs, NEW r \in Procs,
                        host'[q] = h, host'[r] = h
                 PROVE  q = r
      BY DEF Uncrossed
    <2>1. h \notin crossed /\ h # NoHost
      BY <1>C, HostsAssumption
    <2>2. \A s \in Procs \ {p} : host'[p] = h => host[p] = h \/ host[s] # h
      BY <2>1, HostStep
    <2> QED
      BY <2>1, <2>2, <1>O, <1>A
  <1>2. Place'
    <2> SUFFICES ASSUME NEW h \in Hosts, h \notin crossed', NEW i \in Holders(h)', NEW j \in Holders(h)'
                 PROVE  i = j
      BY DEF Place
    <2>1. h \notin crossed
      BY <1>C
    <2>2. \A k, l \in Holders(h) : k = l
      BY <2>1 DEF Single, Place
    <2>3. pc[p] = "put" /\ host[p] = h => Holders(h) \subseteq {gw[p]}
      BY <2>1, <1>G
    <2> QED
      BY <2>2, <2>3, <1>H
  <1>3. Placing'
    <2> SUFFICES ASSUME NEW q \in Procs, NEW h, h = host'[q], h \notin crossed',
                        pc'[q] \in {"pick", "create", "get", "put"}
                 PROVE  /\ pc'[q] = "pick" => Holders(h)' = {}
                        /\ pc'[q] # "pick" => Holders(h)' \subseteq {gw'[q]}
      BY DEF Placing, PlacingAt, Holders
    <2>1. h = host[q] /\ h \in Hosts /\ h \notin crossed
      <3>1. h = host[q] /\ h \in Hosts
        <4>1. CASE q = p
          BY <4>1, PlacingStep
        <4>2. CASE q # p
          BY <4>2, <1>O DEF Ready, ReadyAt, AttachLabels
        <4> QED
          BY <4>1, <4>2
      <3> QED
        BY <3>1, <1>C
    <2>2. CASE q # p
      <3>1. pc'[q] = pc[q] /\ gw'[q] = gw[q] /\ ~(host[p] = h)
        BY <2>1, <2>2, <1>O, <1>A
      <3>2. Holders(h)' \subseteq Holders(h)
        BY <2>1, <3>1, <1>H
      <3> QED
        BY <2>1, <3>1, <3>2, <1>G
    <2>3. CASE q = p /\ pc'[p] = "pick"
      <3>1. Holders(h)' = Holders(h)
        BY <2>3, PlacingStep DEF Holders
      <3> QED
        BY <2>1, <2>3, <3>1, PlacingStep
    <2>4. CASE q = p /\ pc'[p] # "pick"
      <3>1. CASE pc[p] \in {"create", "get", "put"} /\ gw'[p] = gw[p]
        BY <2>1, <2>4, <3>1, <1>G, <1>H
      <3>2. CASE pc[p] = "pick"
        BY <2>1, <2>4, <3>2, <1>G, <1>H
      <3>3. CASE pc[p] = "find" /\ gw'[p] \in Holders(h)
        <4>1. \A k, l \in Holders(h) : k = l
          BY <2>1 DEF Single, Place
        <4>2. Holders(h)' \subseteq Holders(h)
          BY <2>1, <3>3, <1>H
        <4> QED
          BY <2>4, <3>3, <4>1, <4>2
      <3> QED
        BY <2>1, <2>4, <3>1, <3>2, <3>3, PlacingStep
    <2> QED
      BY <2>2, <2>3, <2>4
  <1> QED
    BY <1>1, <1>2, <1>3 DEF Single

-----------------------------------------------------------------------------
(* Theorems.                                                               *)

\* Inv is inductive.
LEMMA Invariance == Spec => []Inv
  <1>1. ASSUME Inv, [Next]_vars PROVE Inv'
    <2>1. CASE UNCHANGED vars
      BY <1>1, <2>1 DEF vars, Inv, TypeOK, WithinLimits, Ready, ReadyAt, HasRoom, CustomCount
    <2>2. CASE Next
      <3>1. PICK p \in Procs :
               \/ \E h \in Hosts : Attach(p, h) \/ Remove(p, h)
               \/ \E ls \in SUBSET OrgListeners \ {{}} : EnsureOrgWildcard(p, ls)
               \/ Work(p)
               \/ Fail(p)
        BY <2>2 DEF Next
      <3>2. TypeOK'
        BY <1>1, <3>1, TypeStep DEF Inv
      <3>3. WithinLimits'
        BY <1>1, <3>1, LimitsStep
      <3>4. Ready'
        BY <1>1, <3>1, Others, Itself DEF Inv, Ready
      <3> QED
        BY <3>2, <3>3, <3>4 DEF Inv
    <2> QED
      BY <1>1, <2>1, <2>2
  <1> QED
    BY InitInv, <1>1, PTL DEF Spec

\* The state is well typed, the primary Gateway is never deleted, and a Gateway
\* on its way to deletion is a shard, for any number of requests.
THEOREM TypeCorrect == Spec => []TypeOK
  <1>1. Inv => TypeOK
    BY DEF Inv
  <1> QED
    BY <1>1, Invariance, PTL

\* No race of requests, of any number and for any budget, takes a Gateway past
\* the listener ceiling or its custom-domain budget.
THEOREM LimitsHold == Spec => []WithinLimits
  <1>1. Inv => WithinLimits
    BY DEF Inv
  <1> QED
    BY <1>1, Invariance, PTL

\* No write of a Gateway takes away a listener that its request is not removing.
THEOREM OthersKept == Spec => WritesKeepOthers
  <1>1. ASSUME Inv, [Next]_vars
        PROVE  [\A i \in exists \cap exists' : \E p \in Procs : Lost(i) \subseteq Own(p)]_vars
    <2>1. CASE UNCHANGED vars
      BY <2>1
    <2>2. CASE Next
      <3>1. PICK p \in Procs :
               \/ \E h \in Hosts : Attach(p, h) \/ Remove(p, h)
               \/ \E ls \in SUBSET OrgListeners \ {{}} : EnsureOrgWildcard(p, ls)
               \/ Work(p)
               \/ Fail(p)
        BY <2>2 DEF Next
      <3>2. \A i \in exists \cap exists' : Lost(i) \subseteq Own(p)
        BY <1>1, <3>1, KeepStep
      <3> QED
        BY <3>2
    <2> QED
      BY <1>1, <2>1, <2>2
  <1> QED
    BY <1>1, Invariance, PTL DEF Spec, WritesKeepOthers

\* A host whose requests came one at a time has one listener at most, for any
\* number of other hosts, requests and Gateways (allocateListenerShard).
THEOREM ListenersSingle == Spec => []OneListener
  <1>1. ASSUME Inv, Single, [Next]_vars PROVE Single'
    <2>1. CASE UNCHANGED vars
      BY <1>1, <2>1 DEF vars, Single, Uncrossed, Place, Placing, PlacingAt, Holders
    <2>2. CASE Next
      BY <1>1, <2>2, SingleStep DEF Next, Inv
    <2> QED
      BY <1>1, <2>1, <2>2
  <1>2. Single => OneListener
    BY AtMostOne DEF Single, Place, OneListener
  <1> QED
    BY SingleInit, <1>1, <1>2, Invariance, PTL DEF Spec

-----------------------------------------------------------------------------
(* CustomDomains: a host is served by the organization that proved it.     *)
(*                                                                         *)
(* What a host's row, certificate, listener and routes should be is true   *)
(* only when nothing is under way for it.  The invariant says what each    *)
(* request under way still owes: which copies of a row it holds (Copies),  *)
(* which of a verified host's objects it has yet to make (Served), and     *)
(* which of a deleted one's it has yet to take away (Standing, Routed).    *)

RowRecord == [org : Orgs, host : HostNames, status : Statuses]

\* What a request holds.
RequestRecord ==
    [pc : {"idle", "fail", "owner", "mark", "cert", "listen", "read", "apply", "drop", "unlisten",
           "uncert", "uninstall", "dropapp"},
     op : {"none", "verify", "delete", "deploy", "remove"},
     org : Orgs \union {None}, id : Ids \union {None}, host : HostNames \union {None},
     was : BOOLEAN, dep : BOOLEAN, hosts : SUBSET HostNames]

\* ... and which calls are left to it, by its operation.
Shape(q) ==
    /\ q.op = "none" => q.pc = "idle"
    /\ q.op = "verify" =>
          /\ q.pc \in {"fail", "owner", "mark", "cert", "listen", "read", "apply"}
          /\ q.org \in Orgs /\ q.id \in Ids /\ q.host \in HostNames
    /\ q.op = "delete" =>
          /\ q.pc \in {"drop", "read", "apply", "unlisten", "uncert"}
          /\ q.org \in Orgs /\ q.id \in Ids /\ q.host \in HostNames
    /\ q.op = "deploy" =>
          /\ q.pc \in {"read", "apply"}
          /\ q.org \in Orgs /\ q.id = None /\ q.host = None
    /\ q.op = "remove" =>
          /\ q.pc \in {"uninstall", "dropapp"}
          /\ q.org \in Orgs /\ q.id = None /\ q.host = None

Typed ==
    /\ DomainTypes
    /\ req \in [Requests -> RequestRecord]
    /\ \A r \in Requests : Shape(req[r])
    /\ proven \in [Orgs -> SUBSET HostNames]
    /\ overlapped \subseteq HostNames /\ left \subseteq HostNames
    /\ \A d \in Ids : HasRow(d) => row[d].org \in app

\* A row that is there has an organization, a host and a status; the missing one has none (NoRow).
LEMMA RowTypes ==
    ASSUME NEW x \in RowRecord \union {NoRow}
    PROVE  /\ x # NoRow => x.org \in Orgs /\ x.host \in HostNames /\ x.status \in Statuses
           /\ x = NoRow => x.org = None /\ x.host = None /\ x.status = "none"
           /\ x.org \in Orgs => x # NoRow
           /\ x.status = "verified" => x # NoRow
  BY NoneAssumption DEF RowRecord, NoRow, Statuses

\* Only requests under way, and rows that are there, have hosts.
LEMMA ReachTypes ==
    ASSUME Typed, NEW q \in RequestRecord, Shape(q)
    PROVE  Reach(q) \subseteq HostNames
<1>1. CASE q.pc = "idle"
  BY <1>1 DEF Reach
<1>2. CASE q.pc # "idle"
  <2>1. q.org \in Orgs
    BY <1>2 DEF Shape, RequestRecord
  <2>2. appDomains(q.org) \subseteq HostNames
    <3>1. \A d \in Of(q.org) : row[d] \in RowRecord \union {NoRow} /\ row[d].org \in Orgs
      BY <2>1 DEF Of, Typed, DomainTypes, RowRecord
    <3> QED
      BY <3>1, RowTypes DEF appDomains
  <2> QED
    BY <2>2 DEF Reach, RequestRecord
<1> QED
  BY <1>1, <1>2

\* A free request is about nothing (Done).
LEMMA IdleTypes == Idle \in RequestRecord /\ Shape(Idle) /\ Reach(Idle) = {}
  BY DEF Idle, RequestRecord, Shape, Reach

\* A request that does not begin keeps what it is about.
SameRequest(q, s) ==
    /\ q.op = s.op /\ q.org = s.org /\ q.id = s.id /\ q.host = s.host
    /\ q.was = s.was /\ q.dep = s.dep

GoesTo(r, p) ==
    /\ req' \in [Requests -> RequestRecord]
    /\ \A s \in Requests \ {r} : req'[s] = req[s]
    /\ SameRequest(req'[r], req[r]) /\ req'[r].pc = p

\* The call a request is at tells its operation.
LEMMA Operation ==
    ASSUME NEW q \in RequestRecord, Shape(q)
    PROVE  /\ q.pc \in {"fail", "owner", "mark", "cert", "listen"} => q.op = "verify"
           /\ q.pc \in {"drop", "unlisten", "uncert"} => q.op = "delete"
           /\ q.pc \in {"uninstall", "dropapp"} => q.op = "remove"
           /\ q.pc \in {"read", "apply"} => q.op \in {"verify", "delete", "deploy"}
           /\ q.pc # "idle" => q.org \in Orgs
           /\ q.op \in {"verify", "delete"} => q.id \in Ids /\ q.host \in HostNames /\ q.org \in Orgs
           /\ q.op \in {"none", "deploy", "remove"} => q.pc = "idle" \/ (q.id = None /\ q.host = None)
<1>1. q.op = "none" \/ q.op = "verify" \/ q.op = "delete" \/ q.op = "deploy" \/ q.op = "remove"
  BY DEF RequestRecord
<1>2. CASE q.op = "none"
  <2>1. q.pc = "idle"
    BY <1>2 DEF Shape
  <2> QED
    BY <1>2, <2>1
<1>3. CASE q.op = "verify"
  BY <1>3 DEF Shape
<1>4. CASE q.op = "delete"
  BY <1>4 DEF Shape
<1>5. CASE q.op = "deploy"
  BY <1>5 DEF Shape
<1>6. CASE q.op = "remove"
  BY <1>6 DEF Shape
<1> QED
  BY <1>1, <1>2, <1>3, <1>4, <1>5, <1>6

\* The calls that may follow.
Follows(op, p) ==
    \/ op = "verify" /\ p \in {"mark", "cert", "listen", "read", "apply"}
    \/ op = "delete" /\ p \in {"read", "apply", "unlisten", "uncert"}
    \/ op = "deploy" /\ p = "apply"
    \/ op = "remove" /\ p = "dropapp"

\* A request that goes on to a call of its operation stays well formed (Proceed).
LEMMA ProceedTypes ==
    ASSUME Typed, NEW r \in Requests, NEW p, Follows(req[r].op, p), Proceed(r, p)
    PROVE  GoesTo(r, p) /\ Shape(req'[r]) /\ req'[r].hosts = req[r].hosts
<1>1. p \in {"mark", "cert", "listen", "read", "apply", "unlisten", "uncert", "uninstall", "dropapp"}
  BY DEF Follows
<1>2. GoesTo(r, p) /\ req'[r].hosts = req[r].hosts
  BY <1>1 DEF Proceed, Typed, RequestRecord, GoesTo, SameRequest
<1>3. Shape(req[r])
  BY DEF Typed
<1> QED
  BY <1>2, <1>3 DEF GoesTo, SameRequest, Shape, Follows

\* A request that ends is free again (Done).
LEMMA DoneTypes ==
    ASSUME Typed, NEW r \in Requests, Done(r)
    PROVE  /\ req' \in [Requests -> RequestRecord]
           /\ \A s \in Requests \ {r} : req'[s] = req[s]
           /\ req'[r] = Idle
  BY IdleTypes DEF Done, Typed

\* What a new request is given.
Fresh(q) == q \in RequestRecord /\ Shape(q) /\ q.pc # "idle"

\* Only the request that begins changes (Begin).
LEMMA BeginTypes ==
    ASSUME Typed, NEW r \in Requests, NEW q, Fresh(q), Begin(r, q)
    PROVE  /\ req' \in [Requests -> RequestRecord]
           /\ \A s \in Requests \ {r} : req'[s] = req[s]
           /\ req'[r] = q
           /\ req[r].pc = "idle"
           /\ overlapped' \subseteq HostNames
<1>1. \A s \in Requests : Reach(req[s]) \subseteq HostNames
  BY ReachTypes DEF Typed
<1>2. Reach(q) \subseteq HostNames
  BY ReachTypes DEF Fresh
<1> QED
  BY <1>1, <1>2 DEF Begin, Typed, Fresh

VerifyRequest(o, d, found) ==
    [Idle EXCEPT !.pc = IF found THEN "owner" ELSE "fail", !.op = "verify",
                 !.org = o, !.id = d, !.host = row[d].host, !.dep = o \in deployed]
DeleteRequest(o, d) ==
    [Idle EXCEPT !.pc = "drop", !.op = "delete", !.org = o, !.id = d,
                 !.host = row[d].host, !.was = row[d].status = "verified", !.dep = o \in deployed]
DeployRequest(o) == [Idle EXCEPT !.pc = "read", !.op = "deploy", !.org = o]
RemoveRequest(o) ==
    [Idle EXCEPT !.pc = IF o \in deployed THEN "uninstall" ELSE "dropapp",
                 !.op = "remove", !.org = o]

\* What a request reads when it begins is well formed (VerifyDomain, DeleteDomain, Deploy, Delete).
LEMMA FreshRequests ==
    ASSUME Typed, NEW o \in Orgs
    PROVE  /\ \A d \in Of(o), found \in {TRUE, FALSE} : Fresh(VerifyRequest(o, d, found))
           /\ \A d \in Of(o) : Fresh(DeleteRequest(o, d))
           /\ Fresh(DeployRequest(o))
           /\ Fresh(RemoveRequest(o))
<1>1. ASSUME NEW d \in Of(o) PROVE d \in Ids /\ row[d].host \in HostNames
  BY RowTypes DEF Of, Typed, DomainTypes, RowRecord
<1>2. ASSUME NEW d \in Of(o), NEW found \in {TRUE, FALSE} PROVE Fresh(VerifyRequest(o, d, found))
  <2>1. \A b \in BOOLEAN, p \in {"owner", "fail"} :
           Fresh([Idle EXCEPT !.pc = p, !.op = "verify", !.org = o, !.id = d, !.host = row[d].host, !.dep = b])
    <3> SUFFICES ASSUME NEW b \in BOOLEAN, NEW p \in {"owner", "fail"}
                 PROVE  Fresh([Idle EXCEPT !.pc = p, !.op = "verify", !.org = o, !.id = d,
                                           !.host = row[d].host, !.dep = b])
      OBVIOUS
    <3> DEFINE q == [Idle EXCEPT !.pc = p, !.op = "verify", !.org = o, !.id = d, !.host = row[d].host, !.dep = b]
    <3>1. q \in RequestRecord
      BY <1>1 DEF Idle, RequestRecord
    <3>2. Shape(q) /\ q.pc # "idle"
      BY <1>1 DEF Idle, Shape
    <3> QED
      BY <3>1, <3>2 DEF Fresh
  <2>2. (IF found THEN "owner" ELSE "fail") \in {"owner", "fail"} /\ (o \in deployed) \in BOOLEAN
    OBVIOUS
  <2> QED
    BY <2>1, <2>2, Zenon DEF VerifyRequest
<1>3. ASSUME NEW d \in Of(o) PROVE Fresh(DeleteRequest(o, d))
  <2>1. \A b, w \in BOOLEAN :
           Fresh([Idle EXCEPT !.pc = "drop", !.op = "delete", !.org = o, !.id = d, !.host = row[d].host,
                              !.was = w, !.dep = b])
    <3> SUFFICES ASSUME NEW b \in BOOLEAN, NEW w \in BOOLEAN
                 PROVE  Fresh([Idle EXCEPT !.pc = "drop", !.op = "delete", !.org = o, !.id = d,
                                           !.host = row[d].host, !.was = w, !.dep = b])
      OBVIOUS
    <3> DEFINE q == [Idle EXCEPT !.pc = "drop", !.op = "delete", !.org = o, !.id = d,
                                 !.host = row[d].host, !.was = w, !.dep = b]
    <3>1. q \in RequestRecord
      BY <1>1 DEF Idle, RequestRecord
    <3>2. Shape(q) /\ q.pc # "idle"
      BY <1>1 DEF Idle, Shape
    <3> QED
      BY <3>1, <3>2 DEF Fresh
  <2>2. (row[d].status = "verified") \in BOOLEAN /\ (o \in deployed) \in BOOLEAN
    OBVIOUS
  <2> QED
    BY <2>1, <2>2, Zenon DEF DeleteRequest
<1>4. Fresh(DeployRequest(o)) /\ Fresh(RemoveRequest(o))
  BY DEF Fresh, DeployRequest, RemoveRequest, Idle, RequestRecord, Shape
<1> QED
  BY <1>2, <1>3, <1>4

\* Every step keeps the types (DomainNext).
LEMMA TypedStep == Typed /\ [DomainNext]_domainVars => Typed'
<1> SUFFICES ASSUME Typed, [DomainNext]_domainVars PROVE Typed'
  OBVIOUS
<1> USE DEF Typed, DomainTypes
<1>1. ASSUME NEW o \in Orgs, NEW h \in HostNames, AddDomain(o, h) PROVE Typed'
  <2>1. PICK d \in Ids : row' = [row EXCEPT ![d] = [org |-> o, host |-> h, status |-> "pending"]]
    BY <1>1 DEF AddDomain
  <2>2. row' \in [Ids -> RowRecord \union {NoRow}] /\ \A e \in Ids : HasRow(e)' => row'[e].org \in app
    BY <2>1, <1>1 DEF RowRecord, Statuses, HasRow, AddDomain
  <2> QED
    BY <1>1, <2>2 DEF AddDomain, cluster, history, RowRecord, HasRow
<1>2. ASSUME NEW r \in Requests, NEW o \in Orgs, NEW d \in Ids, VerifyDomain(r, o, d) PROVE Typed'
  <2>1. PICK found \in {TRUE, FALSE} :
            /\ Begin(r, VerifyRequest(o, d, found))
            /\ proven' = [proven EXCEPT ![o] = @ \union {h \in {row[d].host} : found}]
    BY <1>2 DEF VerifyDomain, VerifyRequest
  <2>2. d \in Of(o) /\ Fresh(VerifyRequest(o, d, found))
    BY <1>2, FreshRequests DEF VerifyDomain
  <2>4. row[d].host \in HostNames
    BY <2>2, RowTypes DEF Of, RowRecord
  <2>3. proven' \in [Orgs -> SUBSET HostNames]
    BY <2>1, <2>4
  <2> QED
    BY <1>2, <2>1, <2>2, <2>3, BeginTypes DEF VerifyDomain, cluster, HasRow, Fresh
<1>3. ASSUME NEW r \in Requests, NEW o \in Orgs, NEW d \in Ids, DeleteDomain(r, o, d) PROVE Typed'
  <2>1. Begin(r, DeleteRequest(o, d)) /\ Fresh(DeleteRequest(o, d))
    BY <1>3, FreshRequests DEF DeleteDomain, DeleteRequest
  <2> QED
    BY <1>3, <2>1, BeginTypes DEF DeleteDomain, cluster, HasRow, Fresh
<1>4. ASSUME NEW r \in Requests, NEW o \in Orgs, Deploy(r, o) PROVE Typed'
  <2>1. Begin(r, DeployRequest(o)) /\ Fresh(DeployRequest(o))
    BY <1>4, FreshRequests DEF Deploy, DeployRequest
  <2> QED
    BY <1>4, <2>1, BeginTypes DEF Deploy, cluster, HasRow, Fresh
<1>5. ASSUME NEW r \in Requests, NEW o \in Orgs, Delete(r, o) PROVE Typed'
  <2>1. Begin(r, RemoveRequest(o)) /\ Fresh(RemoveRequest(o))
    BY <1>5, FreshRequests DEF Delete, RemoveRequest
  <2> QED
    BY <1>5, <2>1, BeginTypes DEF Delete, cluster, HasRow, Fresh
<1>6. ASSUME NEW r \in Requests, Fails(r) PROVE Typed'
  <2>1. Reach(req[r]) \subseteq HostNames
    BY ReachTypes
  <2> QED
    BY <1>6, <2>1, DoneTypes, IdleTypes DEF Fails, cluster, HasRow
<1>7. ASSUME NEW r \in Requests, VerifyFails(r) PROVE Typed'
  <2>1. req[r].id \in Ids /\ req[r].host \in HostNames
    BY <1>7 DEF VerifyFails, Shape, RequestRecord
  <2>2. row' \in [Ids -> RowRecord \union {NoRow}] /\ \A e \in Ids : HasRow(e)' => row'[e].org \in app
    BY <1>7, <2>1, RowTypes DEF VerifyFails, RowRecord, Statuses, HasRow
  <2> QED
    BY <1>7, <2>1, <2>2, DoneTypes, IdleTypes DEF VerifyFails, cluster, RowRecord
<1>8. ASSUME NEW r \in Requests, CheckOwner(r) PROVE Typed'
  <2>1. Shape(req'[r]) /\ req' \in [Requests -> RequestRecord] /\ \A s \in Requests \ {r} : req'[s] = req[s]
    BY <1>8, Operation, DoneTypes, IdleTypes, ProceedTypes DEF CheckOwner, GoesTo, Follows
  <2> QED
    BY <1>8, <2>1 DEF CheckOwner, cluster, history, HasRow
<1>9. ASSUME NEW r \in Requests, MarkVerified(r) PROVE Typed'
  <2>1. req[r].id \in Ids /\ req[r].op = "verify"
    BY <1>9 DEF MarkVerified, Shape, RequestRecord
  <2>2. Shape(req'[r]) /\ req' \in [Requests -> RequestRecord] /\ \A s \in Requests \ {r} : req'[s] = req[s]
    BY <1>9, <2>1, Operation, DoneTypes, IdleTypes, ProceedTypes DEF MarkVerified, GoesTo, Follows
  <2>3. row' \in [Ids -> RowRecord \union {NoRow}] /\ \A e \in Ids : HasRow(e)' => row'[e].org \in app
    BY <1>9, <2>1, RowTypes DEF MarkVerified, RowRecord, Statuses, HasRow
  <2> QED
    BY <1>9, <2>2, <2>3 DEF MarkVerified, cluster, history, RowRecord
<1>10. ASSUME NEW r \in Requests, EnsureDomainCertificate(r) PROVE Typed'
  <2>1. req[r].host \in HostNames
    BY <1>10 DEF EnsureDomainCertificate, Shape, RequestRecord
  <2>2. Shape(req'[r]) /\ req' \in [Requests -> RequestRecord] /\ \A s \in Requests \ {r} : req'[s] = req[s]
    BY <1>10, Operation, ProceedTypes DEF EnsureDomainCertificate, GoesTo, Follows
  <2> QED
    BY <1>10, <2>1, <2>2 DEF EnsureDomainCertificate, history, HasRow
<1>11. ASSUME NEW r \in Requests, EnsureGatewayListener(r) PROVE Typed'
  <2>1. req[r].host \in HostNames
    BY <1>11 DEF EnsureGatewayListener, Shape, RequestRecord
  <2>2. Shape(req'[r]) /\ req' \in [Requests -> RequestRecord] /\ \A s \in Requests \ {r} : req'[s] = req[s]
    BY <1>11, Operation, DoneTypes, IdleTypes, ProceedTypes DEF EnsureGatewayListener, GoesTo, Follows
  <2> QED
    BY <1>11, <2>1, <2>2 DEF EnsureGatewayListener, history, HasRow
<1>12. ASSUME NEW r \in Requests, ReadDomains(r) PROVE Typed'
  <2>1. PICK hosts \in {appDomains(req[r].org), {}} :
          /\ req' = [req EXCEPT ![r].hosts = hosts, ![r].pc = "apply"]
          /\ overlapped' = IF hosts = appDomains(req[r].org) THEN overlapped ELSE overlapped \union Reach(req[r])
    BY <1>12 DEF ReadDomains
  <2>2. req[r].org \in Orgs /\ Reach(req[r]) \subseteq HostNames
    BY <1>12, ReachTypes DEF ReadDomains, Shape, RequestRecord
  <2>3. hosts \subseteq HostNames
    BY <2>2, RowTypes DEF appDomains, Of, RowRecord
  <2>4. /\ req' \in [Requests -> RequestRecord] /\ \A s \in Requests \ {r} : req'[s] = req[s]
        /\ SameRequest(req'[r], req[r]) /\ req'[r].pc = "apply"
    <3>1. req[r] \in RequestRecord
      OBVIOUS
    <3>2. req'[r] = [req[r] EXCEPT !.hosts = hosts, !.pc = "apply"]
      BY <2>1
    <3>3. req'[r] \in RequestRecord /\ SameRequest(req'[r], req[r]) /\ req'[r].pc = "apply"
      BY <2>3, <3>1, <3>2 DEF RequestRecord, SameRequest
    <3> QED
      BY <2>1, <3>3
  <2>5. Shape(req'[r])
    BY <1>12, <2>4 DEF ReadDomains, Shape, SameRequest
  <2> QED
    BY <1>12, <2>1, <2>2, <2>4, <2>5 DEF ReadDomains, cluster, HasRow
<1>13. ASSUME NEW r \in Requests, Apply(r) PROVE Typed'
  <2>1. req[r].org \in Orgs /\ req[r].hosts \subseteq HostNames
    BY <1>13 DEF Apply, Shape, RequestRecord
  <2>2. Shape(req'[r]) /\ req' \in [Requests -> RequestRecord] /\ \A s \in Requests \ {r} : req'[s] = req[s]
    BY <1>13, Operation, DoneTypes, IdleTypes, ProceedTypes DEF Apply, GoesTo, Follows
  <2> QED
    BY <1>13, <2>1, <2>2 DEF Apply, history, HasRow
<1>14. ASSUME NEW r \in Requests, DropRow(r) PROVE Typed'
  <2>1. req[r].id \in Ids /\ req[r].op = "delete"
    BY <1>14 DEF DropRow, Shape, RequestRecord
  <2>2. Shape(req'[r]) /\ req' \in [Requests -> RequestRecord] /\ \A s \in Requests \ {r} : req'[s] = req[s]
    BY <1>14, <2>1, Operation, DoneTypes, IdleTypes, ProceedTypes DEF DropRow, GoesTo, Follows
  <2>3. row' \in [Ids -> RowRecord \union {NoRow}] /\ \A e \in Ids : HasRow(e)' => row'[e].org \in app
    BY <1>14, <2>1, RowTypes DEF DropRow, RowRecord, Statuses, HasRow
  <2> QED
    BY <1>14, <2>2, <2>3 DEF DropRow, cluster, history, RowRecord
<1>15. ASSUME NEW r \in Requests, RemoveGatewayListener(r) PROVE Typed'
  <2>1. Shape(req'[r]) /\ req' \in [Requests -> RequestRecord] /\ \A s \in Requests \ {r} : req'[s] = req[s]
    BY <1>15, Operation, ProceedTypes DEF RemoveGatewayListener, GoesTo, Follows
  <2> QED
    BY <1>15, <2>1 DEF RemoveGatewayListener, history, HasRow
<1>16. ASSUME NEW r \in Requests, RemoveDomainCertificate(r) PROVE Typed'
  BY <1>16, DoneTypes, IdleTypes DEF RemoveDomainCertificate, history, HasRow
<1>17. ASSUME NEW r \in Requests, Uninstall(r) PROVE Typed'
  <2>1. Shape(req'[r]) /\ req' \in [Requests -> RequestRecord] /\ \A s \in Requests \ {r} : req'[s] = req[s]
    BY <1>17, Operation, ProceedTypes DEF Uninstall, GoesTo, Follows
  <2> QED
    BY <1>17, <2>1 DEF Uninstall, history, HasRow
<1>18. ASSUME NEW r \in Requests, DropApp(r) PROVE Typed'
  <2>1. req[r].org \in Orgs
    BY <1>18 DEF DropApp, Shape, RequestRecord
  <2>2. HostsOf(req[r].org) \subseteq HostNames
    BY <2>1, RowTypes DEF HostsOf, Of, RowRecord
  <2>3. row' \in [Ids -> RowRecord \union {NoRow}] /\ \A e \in Ids : HasRow(e)' => row'[e].org \in app'
    BY <1>18, <2>1 DEF DropApp, RowRecord, HasRow, Of
  <2> QED
    BY <1>18, <2>2, <2>3, DoneTypes, IdleTypes DEF DropApp, cluster, RowRecord
<1>19. CASE UNCHANGED domainVars
  BY <1>19 DEF domainVars, HasRow
<1> QED
  BY <1>1, <1>2, <1>3, <1>4, <1>5, <1>6, <1>7, <1>8, <1>9, <1>10, <1>11, <1>12, <1>13, <1>14,
     <1>15, <1>16, <1>17, <1>18, <1>19 DEF DomainNext

-----------------------------------------------------------------------------
(* What a step does to one request, and to one row.                        *)

\* What a request has read when it begins.
About(q) ==
    /\ q.org \in app
    /\ q.op = "verify" => q.pc \in {"owner", "fail"}
    /\ q.op = "delete" => q.pc = "drop" /\ (q.was <=> row[q.id].status = "verified")
    /\ q.op = "deploy" => q.pc = "read"
    /\ q.op \in {"verify", "delete"} =>
          /\ q.id \in Of(q.org) /\ q.host = row[q.id].host
          /\ q.dep <=> q.org \in deployed

Begins(r) ==
    /\ Fresh(req'[r]) /\ About(req'[r])
    /\ Begin(r, req'[r])
    /\ UNCHANGED <<row, cluster, app, deployed, left>>
    /\ req'[r].op # "verify" => UNCHANGED proven
    /\ req'[r].pc = "owner" => req'[r].host \in proven'[req'[r].org]

\* The four operations begin alike (VerifyDomain, DeleteDomain, Deploy, Delete).
LEMMA BeginSteps ==
    ASSUME Typed, NEW r \in Requests, NEW o \in Orgs
    PROVE  /\ \A d \in Ids : VerifyDomain(r, o, d) \/ DeleteDomain(r, o, d) => Begins(r)
           /\ Deploy(r, o) \/ Delete(r, o) => Begins(r)
<1>1. ASSUME NEW d \in Ids, VerifyDomain(r, o, d) PROVE Begins(r)
  <2>1. PICK found \in {TRUE, FALSE} :
            /\ Begin(r, VerifyRequest(o, d, found))
            /\ proven' = [proven EXCEPT ![o] = @ \union {h \in {row[d].host} : found}]
    BY <1>1 DEF VerifyDomain, VerifyRequest
  <2>2. d \in Of(o) /\ Fresh(VerifyRequest(o, d, found))
    BY <1>1, FreshRequests DEF VerifyDomain
  <2>3. req'[r] = VerifyRequest(o, d, found)
    BY <2>1, <2>2, BeginTypes
  <2>4. About(VerifyRequest(o, d, found)) /\ VerifyRequest(o, d, found).op = "verify"
    BY <1>1, <2>2 DEF About, VerifyDomain, VerifyRequest, Idle
  <2>5. VerifyRequest(o, d, found).pc = "owner" => row[d].host \in proven'[o]
    BY <2>1 DEF Typed, VerifyRequest, Idle
  <2>6. VerifyRequest(o, d, found).host = row[d].host /\ VerifyRequest(o, d, found).org = o
    BY DEF VerifyRequest, Idle
  <2> QED
    BY <1>1, <2>1, <2>2, <2>3, <2>4, <2>5, <2>6 DEF Begins, VerifyDomain
<1>2. ASSUME NEW d \in Ids, DeleteDomain(r, o, d) PROVE Begins(r)
  <2>1. Begin(r, DeleteRequest(o, d))
    BY <1>2 DEF DeleteDomain, DeleteRequest
  <2>2. d \in Of(o) /\ Fresh(DeleteRequest(o, d))
    BY <1>2, FreshRequests DEF DeleteDomain
  <2>3. req'[r] = DeleteRequest(o, d)
    BY <2>1, <2>2, BeginTypes
  <2>4. About(DeleteRequest(o, d)) /\ DeleteRequest(o, d).pc = "drop"
    BY <1>2, <2>2 DEF About, DeleteDomain, DeleteRequest, Idle
  <2> QED
    BY <1>2, <2>1, <2>2, <2>3, <2>4 DEF Begins, DeleteDomain
<1>3. ASSUME Deploy(r, o) PROVE Begins(r)
  <2>1. Begin(r, DeployRequest(o)) /\ Fresh(DeployRequest(o))
    BY <1>3, FreshRequests DEF Deploy, DeployRequest
  <2>2. req'[r] = DeployRequest(o)
    BY <2>1, BeginTypes
  <2>3. About(DeployRequest(o)) /\ DeployRequest(o).pc = "read"
    BY <1>3 DEF About, Deploy, DeployRequest, Idle
  <2> QED
    BY <1>3, <2>1, <2>2, <2>3 DEF Begins, Deploy
<1>4. ASSUME Delete(r, o) PROVE Begins(r)
  <2>1. Begin(r, RemoveRequest(o)) /\ Fresh(RemoveRequest(o))
    BY <1>4, FreshRequests DEF Delete, RemoveRequest
  <2>2. req'[r] = RemoveRequest(o)
    BY <2>1, BeginTypes
  <2>3. About(RemoveRequest(o)) /\ RemoveRequest(o).pc # "owner"
    BY <1>4 DEF About, Delete, RemoveRequest, Idle
  <2> QED
    BY <1>4, <2>1, <2>2, <2>3 DEF Begins, Delete
<1> QED
  BY <1>1, <1>2, <1>3, <1>4

\* A step of a request that is under way.
Call(r) ==
    \/ Fails(r) \/ VerifyFails(r) \/ CheckOwner(r) \/ MarkVerified(r)
    \/ EnsureDomainCertificate(r) \/ EnsureGatewayListener(r)
    \/ ReadDomains(r) \/ Apply(r)
    \/ DropRow(r) \/ RemoveGatewayListener(r) \/ RemoveDomainCertificate(r)
    \/ Uninstall(r) \/ DropApp(r)

\* A step adds a domain, begins a request or makes one of its calls (DomainNext).
LEMMA NextCases ==
    ASSUME Typed, [DomainNext]_domainVars
    PROVE  \/ \E o \in Orgs, h \in HostNames : AddDomain(o, h)
           \/ \E r \in Requests : Begins(r)
           \/ \E r \in Requests : Call(r)
           \/ UNCHANGED domainVars
<1>1. ASSUME NEW r \in Requests, NEW o \in Orgs, NEW d \in Ids, VerifyDomain(r, o, d) \/ DeleteDomain(r, o, d)
      PROVE  \E s \in Requests : Begins(s)
  BY <1>1, BeginSteps
<1>2. ASSUME NEW r \in Requests, NEW o \in Orgs, Deploy(r, o) \/ Delete(r, o)
      PROVE  \E s \in Requests : Begins(s)
  BY <1>2, BeginSteps
<1> QED
  BY <1>1, <1>2, Zenon DEF DomainNext, Call

\* Only the request that makes a call moves, and it stays the same request.
Continues(r) ==
    /\ req[r].pc # "idle"
    /\ \A s \in Requests \ {r} : req'[s] = req[s]
    /\ req'[r] = Idle \/ (SameRequest(req'[r], req[r]) /\ req'[r].pc # "idle")
    /\ overlapped \subseteq overlapped' /\ UNCHANGED proven

\* A call ends its request or leads to another, and forgets nothing (Call).
LEMMA CallContinues == ASSUME Typed, NEW r \in Requests, Call(r) PROVE Continues(r)
<1> USE DEF Continues
<1>0. req[r] \in RequestRecord /\ Shape(req[r])
  BY DEF Typed
<1>1. ASSUME Fails(r) PROVE Continues(r)
  BY <1>1, DoneTypes DEF Fails
<1>2. ASSUME VerifyFails(r) PROVE Continues(r)
  BY <1>2, DoneTypes DEF VerifyFails
<1>3. ASSUME CheckOwner(r) PROVE Continues(r)
  BY <1>0, <1>3, Operation, DoneTypes, ProceedTypes DEF CheckOwner, GoesTo, Follows, history
<1>4. ASSUME MarkVerified(r) PROVE Continues(r)
  BY <1>0, <1>4, Operation, DoneTypes, ProceedTypes DEF MarkVerified, GoesTo, Follows, history
<1>5. ASSUME EnsureDomainCertificate(r) PROVE Continues(r)
  BY <1>0, <1>5, Operation, ProceedTypes DEF EnsureDomainCertificate, GoesTo, Follows, history
<1>6. ASSUME EnsureGatewayListener(r) PROVE Continues(r)
  BY <1>0, <1>6, Operation, DoneTypes, ProceedTypes DEF EnsureGatewayListener, GoesTo, Follows, history
<1>7. ASSUME ReadDomains(r) PROVE Continues(r)
  <2>1. PICK hosts \in {appDomains(req[r].org), {}} :
          /\ req' = [req EXCEPT ![r].hosts = hosts, ![r].pc = "apply"]
          /\ overlapped' = IF hosts = appDomains(req[r].org) THEN overlapped ELSE overlapped \union Reach(req[r])
    BY <1>7 DEF ReadDomains
  <2>2. req'[r] = [req[r] EXCEPT !.hosts = hosts, !.pc = "apply"] /\ \A s \in Requests \ {r} : req'[s] = req[s]
    BY <2>1 DEF Typed
  <2>3. SameRequest(req'[r], req[r]) /\ req'[r].pc = "apply"
    BY <1>0, <2>2 DEF SameRequest, RequestRecord
  <2> QED
    BY <1>7, <2>1, <2>2, <2>3 DEF ReadDomains
<1>8. ASSUME Apply(r) PROVE Continues(r)
  BY <1>0, <1>8, Operation, DoneTypes, ProceedTypes DEF Apply, GoesTo, Follows, history
<1>9. ASSUME DropRow(r) PROVE Continues(r)
  BY <1>0, <1>9, Operation, DoneTypes, ProceedTypes DEF DropRow, GoesTo, Follows, history
<1>10. ASSUME RemoveGatewayListener(r) PROVE Continues(r)
  BY <1>0, <1>10, Operation, ProceedTypes DEF RemoveGatewayListener, GoesTo, Follows, history
<1>11. ASSUME RemoveDomainCertificate(r) PROVE Continues(r)
  BY <1>11, DoneTypes DEF RemoveDomainCertificate, history
<1>12. ASSUME Uninstall(r) PROVE Continues(r)
  BY <1>0, <1>12, Operation, ProceedTypes DEF Uninstall, GoesTo, Follows, history
<1>13. ASSUME DropApp(r) PROVE Continues(r)
  BY <1>13, DoneTypes DEF DropApp
<1> QED
  BY <1>1, <1>2, <1>3, <1>4, <1>5, <1>6, <1>7, <1>8, <1>9, <1>10, <1>11, <1>12, <1>13 DEF Call

\* Only these calls touch a row.
LEMMA RowKept ==
    ASSUME NEW r \in Requests, Call(r), ~(VerifyFails(r) \/ MarkVerified(r) \/ DropRow(r) \/ DropApp(r))
    PROVE  row' = row
  BY DEF Call, Fails, CheckOwner, EnsureDomainCertificate, EnsureGatewayListener, ReadDomains,
     Apply, RemoveGatewayListener, RemoveDomainCertificate, Uninstall

\* What a call makes of a row: its status changes, or it goes; it may only do so to a
\* row of its organization.
RowChange(r, d) ==
    \/ row'[d] = row[d]
    \/ /\ row[d] # NoRow /\ row[d].org = req[r].org
       /\ req[r].op \in {"verify", "delete", "remove"}
       /\ req[r].op # "remove" => d = req[r].id /\ row[d].host = req[r].host
       /\ \/ row'[d] = NoRow /\ req[r].op # "verify"
          \/ /\ req[r].op = "verify"
             /\ row'[d] \in RowRecord /\ row'[d].org = row[d].org /\ row'[d].host = row[d].host

Copies == \A r \in Requests :
    req[r].id # None /\ HasRow(req[r].id) =>
        row[req[r].id].org = req[r].org /\ row[req[r].id].host = req[r].host

\* A call changes the row of its request, or those of its organization (VerifyFails, MarkVerified, DropRow, DropApp).
LEMMA CallChanges ==
    ASSUME Typed, Copies, NEW r \in Requests, Call(r), NEW d \in Ids PROVE RowChange(r, d)
<1>0. /\ req[r] \in RequestRecord /\ Shape(req[r])
      /\ row \in [Ids -> RowRecord \union {NoRow}]
  BY DEF Typed, DomainTypes, RowRecord
<1>1. CASE VerifyFails(r)
  <2>1. req[r].op = "verify" /\ req[r].id \in Ids /\ req[r].id # None
    BY <1>0, <1>1, Operation, NoneAssumption DEF VerifyFails
  <2> QED
    BY <1>0, <1>1, <2>1 DEF VerifyFails, RowChange, Copies, HasRow, RowRecord, Statuses
<1>2. CASE MarkVerified(r)
  <2>1. req[r].op = "verify" /\ req[r].id \in Ids /\ req[r].id # None
    BY <1>0, <1>2, Operation, NoneAssumption DEF MarkVerified
  <2> QED
    BY <1>0, <1>2, <2>1 DEF MarkVerified, RowChange, Copies, HasRow, RowRecord, Statuses
<1>3. CASE DropRow(r)
  <2>1. req[r].op = "delete" /\ req[r].id \in Ids /\ req[r].id # None
    BY <1>0, <1>3, Operation, NoneAssumption DEF DropRow
  <2> QED
    BY <1>0, <1>3, <2>1 DEF DropRow, RowChange, Copies, HasRow
<1>4. CASE DropApp(r)
  <2>1. req[r].op = "remove"  /\ req[r].org \in Orgs
    BY <1>0, <1>4, Operation DEF DropApp
  <2> QED
    BY <1>0, <1>4, <2>1, RowTypes DEF DropApp, RowChange, Of
<1>5. CASE ~(VerifyFails(r) \/ MarkVerified(r) \/ DropRow(r) \/ DropApp(r))
  <2>1. row' = row
    BY <1>5, RowKept
  <2> QED
    BY <2>1 DEF RowChange
<1> QED
  BY <1>1, <1>2, <1>3, <1>4, <1>5

-----------------------------------------------------------------------------
\* A request's copy of its row stays true while the row is there.
LEMMA CopiesStep == Typed /\ Copies /\ [DomainNext]_domainVars => Copies'
<1> SUFFICES ASSUME Typed, Copies, [DomainNext]_domainVars, NEW s \in Requests,
                    req'[s].id # None, HasRow(req[s].id)'
             PROVE  row'[req'[s].id].org = req'[s].org /\ row'[req'[s].id].host = req'[s].host
  BY DEF Copies
<1> DEFINE d == req'[s].id
<1>0. /\ req[s] \in RequestRecord /\ Shape(req[s])
      /\ req'[s] \in RequestRecord
      /\ row \in [Ids -> RowRecord \union {NoRow}]
  BY TypedStep DEF Typed, DomainTypes, RowRecord
<1>d. d \in Ids
  BY <1>0 DEF RequestRecord
<1>1. ASSUME NEW o \in Orgs, NEW h \in HostNames, AddDomain(o, h)
      PROVE  row'[d].org = req'[s].org /\ row'[d].host = req'[s].host
  <2>1. req'[s] = req[s] /\ row'[d] = row[d]
    BY <1>1, <1>d, <1>0 DEF AddDomain
  <2> QED
    BY <2>1 DEF Copies, HasRow
<1>2. ASSUME NEW r \in Requests, Begins(r)
      PROVE  row'[d].org = req'[s].org /\ row'[d].host = req'[s].host
  <2>1. CASE r = s
    <3>1. req'[s].op \in {"verify", "delete"}
      BY <1>2, <2>1, Operation DEF Begins, Fresh, Shape, RequestRecord
    <3> QED
      BY <1>2, <2>1, <3>1 DEF Begins, About, Of
  <2>2. CASE r # s
    <3>1. req'[s] = req[s] /\ row' = row
      BY <1>2, <2>2, BeginTypes DEF Begins
    <3> QED
      BY <3>1 DEF Copies, HasRow
  <2> QED
    BY <2>1, <2>2
<1>3. ASSUME NEW r \in Requests, Call(r)
      PROVE  row'[d].org = req'[s].org /\ row'[d].host = req'[s].host
  <2>1. SameRequest(req'[s], req[s])
    BY <1>3, CallContinues DEF Continues, SameRequest, Idle
  <2>2. RowChange(r, d)
    BY <1>3, <1>d, CallChanges
  <2>3. row[d] # NoRow => row[d].org = req[s].org /\ row[d].host = req[s].host
    BY <2>1 DEF Copies, HasRow, SameRequest
  <2> QED
    BY <2>1, <2>2, <2>3 DEF RowChange, HasRow, SameRequest
<1>4. CASE UNCHANGED domainVars
  BY <1>4 DEF domainVars, Copies, HasRow
<1> QED
  BY <1>1, <1>2, <1>3, <1>4, NextCases

\* Two requests that share an organization or a host have overlapped.
Meet(q, s) == q.org = s.org \/ Reach(q) \intersect Reach(s) # {}

Overlap == \A r, s \in Requests :
    r # s /\ req[r].pc # "idle" /\ req[s].pc # "idle" /\ Meet(req[r], req[s])
        => Reach(req[r]) \subseteq overlapped

\* The hosts a request may touch become no more while it is under way, but by the host that
\* another of its organization verifies (MarkVerified).
LEMMA ReachGrows ==
    ASSUME Typed, Copies, NEW r \in Requests, Call(r), NEW s \in Requests
    PROVE  \/ Reach(req[s])' \subseteq Reach(req[s])
           \/ /\ req[s].org = req[r].org /\ req[r].host \in Reach(req[r])
              /\ Reach(req[s])' \subseteq Reach(req[s]) \union {req[r].host}
<1>0. /\ req[s] \in RequestRecord /\ Shape(req[s])
      /\ req[r] \in RequestRecord /\ Shape(req[r]) /\ req[r].pc # "idle"
  BY CallContinues DEF Continues, Typed
<1>1. req'[s] = Idle \/ (SameRequest(req'[s], req[s]) /\ (req[s].pc = "idle" => req'[s].pc = "idle"))
  BY CallContinues DEF Continues, SameRequest
<1>2. ASSUME NEW o \in Orgs
      PROVE  \/ appDomains(o)' \subseteq appDomains(o)
             \/ /\ o = req[r].org /\ req[r].host \in Reach(req[r])
                /\ appDomains(o)' \subseteq appDomains(o) \union {req[r].host}
  <2>1. ASSUME NEW d \in Ids, row'[d].org = o
        PROVE  row[d].org = o /\ row[d].host = row'[d].host
    BY <2>1, CallChanges, NoneAssumption DEF RowChange, NoRow
  <2>2. ASSUME NEW d \in Ids, row'[d].org = o, row'[d] # row[d]
        PROVE  o = req[r].org /\ req[r].op = "verify" /\ row[d].host = req[r].host
    BY <2>2, CallChanges, NoneAssumption DEF RowChange, NoRow
  <2>3. CASE req[r].op = "verify" /\ o = req[r].org
    <3>1. req[r].host \in Reach(req[r])
      BY <1>0, <2>3, Operation, NoneAssumption DEF Reach
    <3>2. appDomains(o)' \subseteq appDomains(o) \union {req[r].host}
      BY <2>1, <2>2 DEF appDomains, Of
    <3> QED
      BY <2>3, <3>1, <3>2
  <2>4. CASE ~(req[r].op = "verify" /\ o = req[r].org)
    BY <2>1, <2>2, <2>4 DEF appDomains, Of
  <2> QED
    BY <2>3, <2>4
<1>3. CASE req'[s] = Idle
  BY <1>3 DEF Reach, Idle
<1>4. CASE SameRequest(req'[s], req[s]) /\ req[s].pc # "idle"
  <2>1. PICK o \in Orgs : o = req[s].org
    BY <1>0, <1>4, Operation
  <2>2. req'[s].org = o /\ req'[s].host = req[s].host
    BY <1>4, <2>1 DEF SameRequest
  <2>3. Reach(req[s])' \subseteq ({req[s].host} \ {None}) \union appDomains(o)'
    <3>1. appDomains(req[s].org)' = appDomains(o)'
      BY <2>2 DEF appDomains, Of
    <3> QED
      BY <2>2, <3>1 DEF Reach
  <2>4. Reach(req[s]) = ({req[s].host} \ {None}) \union appDomains(o)
    BY <1>4, <2>1 DEF Reach
  <2> QED
    BY <1>2, <2>1, <2>3, <2>4
<1>5. CASE req'[s].pc = "idle"
  BY <1>5 DEF Reach
<1> QED
  BY <1>1, <1>3, <1>4, <1>5

\* A new domain is not verified (AddDomain).
LEMMA AddReaches ==
    ASSUME Typed, NEW o \in Orgs, NEW h \in HostNames, AddDomain(o, h), NEW s \in Requests
    PROVE  Reach(req[s])' = Reach(req[s])
<1>1. PICK d \in Ids :
          /\ ~HasRow(d)
          /\ row' = [row EXCEPT ![d] = [org |-> o, host |-> h, status |-> "pending"]]
  BY DEF AddDomain
<1>2. req'[s] = req[s]
  BY DEF AddDomain
<1>3. \A e \in Ids : row'[e] = row[e] \/ (row'[e].status # "verified" /\ row[e].status # "verified")
  BY <1>1 DEF Typed, DomainTypes, HasRow, NoRow
<1>4. appDomains(req[s].org)' = appDomains(req[s].org)
  BY <1>2, <1>3 DEF appDomains, Of
<1> QED
  BY <1>2, <1>4 DEF Reach

\* Requests that meet have been noted (Begin).
LEMMA OverlapStep == Typed /\ Copies /\ Overlap /\ [DomainNext]_domainVars => Overlap'
<1> SUFFICES ASSUME Typed, Copies, Overlap, [DomainNext]_domainVars, NEW r \in Requests, NEW s \in Requests,
                    r # s, req'[r].pc # "idle", req'[s].pc # "idle", Meet(req[r], req[s])'
             PROVE  Reach(req[r])' \subseteq overlapped'
  BY DEF Overlap
<1>1. ASSUME NEW o \in Orgs, NEW h \in HostNames, AddDomain(o, h) PROVE Reach(req[r])' \subseteq overlapped'
  <2>1. Reach(req[r])' = Reach(req[r]) /\ Reach(req[s])' = Reach(req[s])
    BY <1>1, AddReaches
  <2>2. req' = req /\ overlapped' = overlapped
    BY <1>1 DEF AddDomain, history
  <2>3. Meet(req[r], req[s])
    BY <2>1, <2>2 DEF Meet
  <2> QED
    BY <2>1, <2>2, <2>3 DEF Overlap
<1>2. ASSUME NEW q \in Requests, Begins(q) PROVE Reach(req[r])' \subseteq overlapped'
  <2>1. row' = row /\ req'[q] = req'[q] /\ \A t \in Requests \ {q} : req'[t] = req[t]
    BY <1>2, BeginTypes DEF Begins
  <2>2. \A t \in Requests : Reach(req[t])' = Reach(req'[t])
    BY <2>1 DEF Reach, appDomains, Of
  <2>3. Meet(req'[r], req'[s])
    BY <2>2 DEF Meet
  <2>4. overlapped' = overlapped \union
          LET with == {t \in Requests \ {q} :
                         req[t].pc # "idle" /\ (req[t].org = req'[q].org
                                                \/ Reach(req[t]) \intersect Reach(req'[q]) # {})}
          IN  IF with = {} THEN {} ELSE Reach(req'[q]) \union UNION {Reach(req[t]) : t \in with}
    BY <1>2 DEF Begins, Begin
  <2>5. CASE r # q /\ s # q
    BY <2>1, <2>2, <2>3, <2>4, <2>5 DEF Overlap
  <2>6. CASE r = q \/ s = q
    <3>1. PICK t \in {r, s} : t # q
      BY <2>6
    <3>2. req[t].pc # "idle" /\ (req[t].org = req'[q].org \/ Reach(req[t]) \intersect Reach(req'[q]) # {})
      BY <2>1, <2>3, <2>6, <3>1 DEF Meet
    <3>3. Reach(req'[q]) \subseteq overlapped' /\ Reach(req[t]) \subseteq overlapped'
      BY <2>4, <3>1, <3>2
    <3> QED
      BY <2>1, <2>2, <2>6, <3>1, <3>3
  <2> QED
    BY <2>5, <2>6
<1>3. ASSUME NEW q \in Requests, Call(q) PROVE Reach(req[r])' \subseteq overlapped'
  <2>1. /\ req'[r].org = req[r].org /\ req[r].pc # "idle"
        /\ req'[s].org = req[s].org /\ req[s].pc # "idle" /\ overlapped \subseteq overlapped'
        /\ req[q].pc # "idle"
    BY <1>3, CallContinues DEF Continues, SameRequest, Idle
  <2>2. ASSUME NEW t \in Requests
        PROVE  \/ Reach(req[t])' \subseteq Reach(req[t])
               \/ /\ req[t].org = req[q].org /\ req[q].host \in Reach(req[q])
                  /\ Reach(req[t])' \subseteq Reach(req[t]) \union {req[q].host}
    BY <1>3, ReachGrows
  <2>3. Reach(req[q])' \subseteq Reach(req[q])
    BY <2>2
  \* What a request of the organization gains, it and the one that verifies have in common.
  <2>4. CASE ~(Reach(req[r])' \subseteq Reach(req[r]))
    <3>1. r # q /\ req[r].org = req[q].org /\ req[q].host \in Reach(req[q])
          /\ Reach(req[r])' \subseteq Reach(req[r]) \union {req[q].host}
      BY <2>2, <2>3, <2>4
    <3>2. Reach(req[r]) \subseteq overlapped /\ Reach(req[q]) \subseteq overlapped
      BY <2>1, <3>1 DEF Overlap, Meet
    <3> QED
      BY <2>1, <3>1, <3>2
  <2>5. CASE Reach(req[r])' \subseteq Reach(req[r])
    <3>1. CASE Meet(req[r], req[s])
      BY <2>1, <2>5, <3>1 DEF Overlap
    <3>2. CASE ~Meet(req[r], req[s])
      <4>1. req[r].org # req[s].org /\ Reach(req[r])' \intersect Reach(req[s])' # {}
        BY <2>1, <3>2 DEF Meet
      <4>2. req[q].host \in Reach(req[r]) \intersect Reach(req[q]) /\ req[s].org = req[q].org
        BY <2>2, <2>5, <3>2, <4>1 DEF Meet
      <4>3. r # q
        BY <4>1, <4>2
      <4> QED
        BY <2>1, <2>5, <4>2, <4>3 DEF Overlap, Meet
    <3> QED
      BY <3>1, <3>2
  <2> QED
    BY <2>4, <2>5
<1>4. CASE UNCHANGED domainVars
  <2>1. Reach(req[r])' = Reach(req[r]) /\ Reach(req[s])' = Reach(req[s]) /\ req' = req /\ overlapped' = overlapped
    BY <1>4 DEF domainVars, Reach, appDomains, Of
  <2> QED
    BY <2>1 DEF Overlap, Meet
<1> QED
  BY <1>1, <1>2, <1>3, <1>4, NextCases

-----------------------------------------------------------------------------
\* A row is verified because it was, or by MarkVerified, which finds no other of its host.
LEMMA VerifiedBefore ==
    ASSUME Typed, Copies, [DomainNext]_domainVars, NEW d \in Ids, row'[d].status = "verified"
    PROVE  \/ row[d].status = "verified" /\ row'[d] = row[d]
           \/ \E r \in Requests :
                 /\ MarkVerified(r) /\ d = req[r].id /\ row[d] # NoRow
                 /\ req[r].op = "verify"
                 /\ row[d].org = req[r].org /\ row[d].host = req[r].host
                 /\ row'[d].org = row[d].org /\ row'[d].host = row[d].host
                 /\ VerifiedByHost(row[d].host) \subseteq {d}
                 /\ \A e \in Ids \ {d} : row'[e] = row[e]
<1>0. row \in [Ids -> RowRecord \union {NoRow}]
  BY DEF Typed, DomainTypes, RowRecord
<1>1. ASSUME NEW o \in Orgs, NEW h \in HostNames, AddDomain(o, h) PROVE row'[d] = row[d]
  BY <1>0, <1>1 DEF AddDomain
<1>2. ASSUME NEW r \in Requests, Call(r), ~MarkVerified(r) PROVE row'[d] = row[d]
  <2>0. req[r] \in RequestRecord /\ Shape(req[r])
    BY DEF Typed
  <2>1. CASE VerifyFails(r)
    <3>1. req[r].id \in Ids
      BY <2>0, <2>1, Operation DEF VerifyFails
    <3>2. row' = row \/ row' = [row EXCEPT ![req[r].id].status = "failed"]
      BY <2>1 DEF VerifyFails
    <3>3. CASE row' = [row EXCEPT ![req[r].id].status = "failed"]
      <4>1. d # req[r].id \/ row'[d] = [row[d] EXCEPT !.status = "failed"]
        BY <1>0, <3>1, <3>3
      <4>2. row[d] \in RowRecord \union {NoRow}
        BY <1>0
      <4>3. [row[d] EXCEPT !.status = "failed"].status = "failed"
        BY <4>2 DEF RowRecord, NoRow
      <4> QED
        BY <1>0, <3>1, <3>3, <4>1, <4>3
    <3> QED
      BY <3>2, <3>3
  <2>2. CASE DropRow(r)
    <3>1. req[r].id \in Ids
      BY <2>0, <2>2, Operation DEF DropRow
    <3> QED
      BY <1>0, <2>2, <3>1 DEF DropRow, NoRow
  <2>3. CASE DropApp(r)
    BY <1>0, <2>3 DEF DropApp, NoRow
  <2>4. CASE ~(VerifyFails(r) \/ MarkVerified(r) \/ DropRow(r) \/ DropApp(r))
    BY <1>2, <2>4, RowKept
  <2> QED
    BY <1>2, <2>1, <2>2, <2>3, <2>4
<1>3. ASSUME NEW r \in Requests, MarkVerified(r)
      PROVE  \/ row'[d] = row[d]
             \/ /\ d = req[r].id /\ row[d] # NoRow /\ req[r].op = "verify"
                /\ row[d].org = req[r].org /\ row[d].host = req[r].host
                /\ row'[d].org = row[d].org /\ row'[d].host = row[d].host
                /\ VerifiedByHost(row[d].host) \subseteq {d}
                /\ \A e \in Ids \ {d} : row'[e] = row[e]
  <2>0. req[r] \in RequestRecord /\ Shape(req[r])
    BY DEF Typed
  <2>1. req[r].op = "verify" /\ req[r].id \in Ids /\ req[r].id # None
    BY <1>3, <2>0, Operation, NoneAssumption DEF MarkVerified
  <2>2. CASE HasRow(req[r].id) /\ VerifiedByHost(req[r].host) \subseteq {req[r].id}
    <3>1. row' = [row EXCEPT ![req[r].id].status = "verified"]
      BY <1>3, <2>2 DEF MarkVerified
    <3>2. row[req[r].id].org = req[r].org /\ row[req[r].id].host = req[r].host /\ row[req[r].id] \in RowRecord
      BY <1>0, <2>1, <2>2 DEF Copies, HasRow
    <3>3. \A e \in Ids \ {req[r].id} : row'[e] = row[e]
      BY <1>0, <3>1
    <3>4. row'[req[r].id].org = row[req[r].id].org /\ row'[req[r].id].host = row[req[r].id].host
      BY <1>0, <2>1, <3>1, <3>2 DEF RowRecord
    <3> QED
      BY <2>1, <2>2, <3>2, <3>3, <3>4 DEF HasRow
  <2>3. CASE ~(HasRow(req[r].id) /\ VerifiedByHost(req[r].host) \subseteq {req[r].id})
    BY <1>3, <2>3 DEF MarkVerified
  <2> QED
    BY <2>2, <2>3
<1>4. ASSUME NEW r \in Requests, Begins(r) PROVE row'[d] = row[d]
  BY <1>4 DEF Begins
<1>5. CASE UNCHANGED domainVars
  BY <1>5 DEF domainVars
<1> QED
  BY <1>1, <1>2, <1>3, <1>4, <1>5, NextCases

\* No two verified rows of a host.
OneVerified == \A d, e \in Ids :
    row[d].status = "verified" /\ row[e].status = "verified" /\ row[d].host = row[e].host => d = e

\* No step verifies a second domain of a host (MarkVerified).
LEMMA OneVerifiedStep == Typed /\ Copies /\ OneVerified /\ [DomainNext]_domainVars => OneVerified'
<1> SUFFICES ASSUME Typed, Copies, OneVerified, [DomainNext]_domainVars, NEW d \in Ids, NEW e \in Ids,
                    row'[d].status = "verified", row'[e].status = "verified", row'[d].host = row'[e].host
             PROVE  d = e
  BY DEF OneVerified
<1>1. CASE /\ row[d].status = "verified" /\ row'[d] = row[d]
           /\ row[e].status = "verified" /\ row'[e] = row[e]
  BY <1>1 DEF OneVerified
<1>2. CASE ~(row[d].status = "verified" /\ row'[d] = row[d])
  BY <1>2, VerifiedBefore DEF VerifiedByHost
<1>3. CASE ~(row[e].status = "verified" /\ row'[e] = row[e])
  BY <1>3, VerifiedBefore DEF VerifiedByHost
<1> QED
  BY <1>1, <1>2, <1>3

\* No host has two owners (OneOwner).
LEMMA OneOwnerHolds == Typed /\ OneVerified => OneOwner
  BY AtMostOne DEF OneOwner, OneVerified, VerifiedByHost

-----------------------------------------------------------------------------
\* What is verified, about to be or applied was proven.
Proven ==
    /\ NothingUnproven
    /\ \A d \in Ids : row[d].status = "verified" => row[d].host \in proven[row[d].org]
    /\ \A r \in Requests :
        /\ req[r].pc \in {"owner", "mark", "cert", "listen"} => req[r].host \in proven[req[r].org]
        /\ req[r].pc = "apply" => req[r].hosts \subseteq proven[req[r].org]

\* A token that was found stays found.
LEMMA ProvenGrows ==
    ASSUME Typed, [DomainNext]_domainVars PROVE \A o \in Orgs : proven[o] \subseteq proven'[o]
<1>1. ASSUME NEW r \in Requests, NEW o \in Orgs, NEW d \in Ids, VerifyDomain(r, o, d)
      PROVE  \A p \in Orgs : proven[p] \subseteq proven'[p]
  <2>1. PICK found \in {TRUE, FALSE} : proven' = [proven EXCEPT ![o] = @ \union {h \in {row[d].host} : found}]
    BY <1>1 DEF VerifyDomain
  <2> QED
    BY <2>1 DEF Typed
<1>2. ASSUME NEW r \in Requests, Call(r) PROVE proven' = proven
  BY <1>2, CallContinues DEF Continues
<1>3. ASSUME NEW r \in Requests, NEW o \in Orgs, NEW d \in Ids, DeleteDomain(r, o, d) PROVE proven' = proven
  BY <1>3 DEF DeleteDomain
<1>4. ASSUME NEW r \in Requests, NEW o \in Orgs, Deploy(r, o) \/ Delete(r, o) PROVE proven' = proven
  BY <1>4 DEF Deploy, Delete
<1>5. ASSUME NEW o \in Orgs, NEW h \in HostNames, AddDomain(o, h) PROVE proven' = proven
  BY <1>5 DEF AddDomain, history
<1>6. CASE UNCHANGED domainVars
  BY <1>6 DEF domainVars
<1> QED
  BY <1>1, <1>2, <1>3, <1>4, <1>5, <1>6, Zenon DEF DomainNext, Call

\* A call that leads to another one.
LEMMA CallPcs ==
    ASSUME Typed, NEW r \in Requests, Call(r), req'[r].pc # "idle"
    PROVE  /\ SameRequest(req'[r], req[r])
           /\ req'[r].pc = "mark" => CheckOwner(r) /\ req[r].pc = "owner"
           /\ req'[r].pc = "cert" => MarkVerified(r) /\ req[r].pc = "mark"
           /\ req'[r].pc = "listen" => EnsureDomainCertificate(r) /\ req[r].pc = "cert"
           /\ req'[r].pc = "read" => \/ EnsureGatewayListener(r) /\ req[r].pc = "listen" /\ req[r].dep
                                     \/ DropRow(r) /\ req[r].pc = "drop" /\ req[r].dep
           /\ req'[r].pc = "apply" => ReadDomains(r) /\ req[r].pc = "read"
           /\ req'[r].pc = "unlisten" => \/ DropRow(r) /\ req[r].pc = "drop" /\ ~req[r].dep
                                         \/ Apply(r) /\ req[r].pc = "apply"
           /\ req'[r].pc = "uncert" => RemoveGatewayListener(r) /\ req[r].pc = "unlisten"
           /\ req'[r].pc = "dropapp" => Uninstall(r) /\ req[r].pc = "uninstall"
           /\ req'[r].pc \notin {"owner", "fail", "drop", "uninstall"}
<1>0. req[r] \in RequestRecord /\ Shape(req[r]) /\ Idle.pc = "idle"
  BY DEF Typed, Idle
<1>s. SameRequest(req'[r], req[r])
  BY <1>0, CallContinues DEF Continues
<1>1. CASE Fails(r) \/ VerifyFails(r) \/ RemoveDomainCertificate(r) \/ DropApp(r)
  BY <1>0, <1>1, DoneTypes DEF Fails, VerifyFails, RemoveDomainCertificate, DropApp
<1>2. CASE CheckOwner(r)
  BY <1>0, <1>2, <1>s, Operation, DoneTypes, ProceedTypes DEF CheckOwner, GoesTo, Follows
<1>3. CASE MarkVerified(r)
  BY <1>0, <1>3, <1>s, Operation, DoneTypes, ProceedTypes DEF MarkVerified, GoesTo, Follows
<1>4. CASE EnsureDomainCertificate(r)
  BY <1>0, <1>4, <1>s, Operation, DoneTypes, ProceedTypes DEF EnsureDomainCertificate, GoesTo, Follows
<1>5. CASE EnsureGatewayListener(r)
  BY <1>0, <1>5, <1>s, Operation, DoneTypes, ProceedTypes DEF EnsureGatewayListener, GoesTo, Follows
<1>6. CASE ReadDomains(r)
  <2>1. req'[r].pc = "apply" /\ req[r].pc = "read"
    BY <1>6, <1>0 DEF ReadDomains, Typed, RequestRecord
  <2> QED
    BY <1>6, <1>s, <2>1
<1>7. CASE Apply(r)
  BY <1>0, <1>7, <1>s, Operation, DoneTypes, ProceedTypes DEF Apply, GoesTo, Follows
<1>8. CASE DropRow(r)
  BY <1>0, <1>8, <1>s, Operation, DoneTypes, ProceedTypes DEF DropRow, GoesTo, Follows
<1>9. CASE RemoveGatewayListener(r)
  BY <1>0, <1>9, <1>s, Operation, DoneTypes, ProceedTypes DEF RemoveGatewayListener, GoesTo, Follows
<1>10. CASE Uninstall(r)
  BY <1>0, <1>10, <1>s, Operation, DoneTypes, ProceedTypes DEF Uninstall, GoesTo, Follows
<1> QED
  BY <1>1, <1>2, <1>3, <1>4, <1>5, <1>6, <1>7, <1>8, <1>9, <1>10 DEF Call

\* What the calls make of the cluster.
LEMMA ClusterSteps ==
    ASSUME Typed, NEW r \in Requests, Call(r)
    PROVE  /\ cert' = cert \/ (cert' = cert \union {req[r].host} /\ EnsureDomainCertificate(r))
              \/ (cert' = cert \ {req[r].host} /\ RemoveDomainCertificate(r))
           /\ listener' = listener \/ (listener' = listener \union {req[r].host} /\ EnsureGatewayListener(r))
              \/ (listener' = listener \ {req[r].host} /\ RemoveGatewayListener(r))
           /\ \/ route' = route
              \/ Apply(r) /\ route'[req[r].org] = req[r].hosts
                 /\ \A o \in Orgs \ {req[r].org} : route'[o] = route[o]
              \/ Uninstall(r) /\ route'[req[r].org] = {}
                 /\ \A o \in Orgs \ {req[r].org} : route'[o] = route[o]
  BY DEF Call, Typed, DomainTypes, Fails, VerifyFails, CheckOwner, MarkVerified, EnsureDomainCertificate,
     EnsureGatewayListener, ReadDomains, Apply, DropRow, RemoveGatewayListener, RemoveDomainCertificate,
     Uninstall, DropApp, cluster

\* Nothing is verified or served that was not proven (VerifyDomain, ReadDomains, Apply).
LEMMA ProvenStep == Typed /\ Copies /\ Proven /\ [DomainNext]_domainVars => Proven'
<1> SUFFICES ASSUME Typed, Copies, Proven, [DomainNext]_domainVars PROVE Proven'
  OBVIOUS
<1>0. /\ Typed' /\ \A o \in Orgs : proven[o] \subseteq proven'[o]
      /\ row \in [Ids -> RowRecord \union {NoRow}]
      /\ \A r \in Requests : req[r] \in RequestRecord /\ Shape(req[r])
  BY TypedStep, ProvenGrows DEF Typed, DomainTypes, RowRecord
<1>1. ASSUME NEW d \in Ids, row'[d].status = "verified" PROVE row'[d].host \in proven'[row'[d].org]
  <2>1. CASE row[d].status = "verified" /\ row'[d] = row[d]
    BY <1>0, <2>1, RowTypes DEF Proven
  <2>2. ASSUME NEW r \in Requests, MarkVerified(r), row[d].org = req[r].org, row[d].host = req[r].host,
               row'[d].org = row[d].org, row'[d].host = row[d].host, req[r].op = "verify"
        PROVE  row'[d].host \in proven'[row'[d].org]
    BY <1>0, <2>2, Operation DEF Proven, MarkVerified
  <2> QED
    BY <1>1, <2>1, <2>2, VerifiedBefore
<1>2. ASSUME NEW s \in Requests
      PROVE  /\ req'[s].pc \in {"owner", "mark", "cert", "listen"} => req'[s].host \in proven'[req'[s].org]
             /\ req'[s].pc = "apply" => req'[s].hosts \subseteq proven'[req'[s].org]
  <2>1. CASE req'[s] = req[s]
    BY <1>0, <2>1, Operation DEF Proven
  <2>2. CASE Begins(s)
    BY <2>2 DEF Begins, About, Fresh, Shape, RequestRecord
  <2>3. CASE Call(s) /\ req'[s].pc # "idle"
    <3>1. /\ SameRequest(req'[s], req[s]) /\ req[s].org \in Orgs
          /\ req'[s].pc \in {"mark", "cert", "listen"} => req[s].pc \in {"owner", "mark", "cert"}
          /\ req'[s].pc # "owner"
      BY <1>0, <2>3, CallPcs, CallContinues, Operation DEF Continues
    <3>2. ASSUME req'[s].pc = "apply" PROVE req'[s].hosts \subseteq proven'[req'[s].org]
      <4>1. ReadDomains(s)
        BY <2>3, <3>2, CallPcs
      <4>2. req'[s].hosts \subseteq appDomains(req[s].org)
        BY <1>0, <4>1 DEF ReadDomains, Typed, RequestRecord
      <4>3. appDomains(req[s].org) \subseteq proven[req[s].org]
        BY DEF appDomains, Of, Proven
      <4> QED
        BY <1>0, <3>1, <4>2, <4>3 DEF SameRequest
    <3> QED
      BY <1>0, <3>1, <3>2 DEF SameRequest, Proven
  <2>4. CASE req'[s].pc = "idle"
    BY <2>4
  <2>5. \/ req'[s] = req[s] \/ Begins(s) \/ Call(s)
    <3>1. ASSUME NEW r \in Requests, Begins(r) PROVE req'[s] = req[s] \/ r = s
      BY <3>1, BeginTypes DEF Begins
    <3>2. ASSUME NEW r \in Requests, Call(r) PROVE req'[s] = req[s] \/ r = s
      BY <3>2, CallContinues DEF Continues
    <3>3. ASSUME NEW o \in Orgs, NEW h \in HostNames, AddDomain(o, h) PROVE req'[s] = req[s]
      BY <3>3 DEF AddDomain
    <3> QED
      BY <3>1, <3>2, <3>3, NextCases DEF domainVars
  <2> QED
    BY <2>1, <2>2, <2>3, <2>4, <2>5
<1>3. ASSUME NEW r \in Requests, Call(r) PROVE NothingUnproven'
  <2>1. req[r].org \in Orgs
    BY <1>0, <1>3, CallContinues, Operation DEF Continues
  <2>2. ASSUME NEW o \in Orgs PROVE route'[o] \subseteq proven'[o]
    BY <1>0, <1>3, <2>1, ClusterSteps DEF Proven, NothingUnproven, Apply
  <2>3. EnsureDomainCertificate(r) \/ EnsureGatewayListener(r) => req[r].host \in proven[req[r].org]
    BY DEF Proven, EnsureDomainCertificate, EnsureGatewayListener
  <2>4. cert' \union listener' \subseteq (cert \union listener) \union UNION {proven[o] : o \in Orgs}
    BY <1>3, <2>1, <2>3, ClusterSteps
  <2>5. UNION {proven[o] : o \in Orgs} \subseteq UNION {proven'[o] : o \in Orgs}
    BY <1>0
  <2> QED
    BY <2>2, <2>4, <2>5 DEF Proven, NothingUnproven
<1>4. ASSUME UNCHANGED <<route, cert, listener>> PROVE NothingUnproven'
  <2>1. UNION {proven[o] : o \in Orgs} \subseteq UNION {proven'[o] : o \in Orgs}
    BY <1>0
  <2> QED
    BY <1>0, <1>4, <2>1 DEF Proven, NothingUnproven
<1>5. NothingUnproven'
  <2>1. ASSUME NEW o \in Orgs, NEW h \in HostNames, AddDomain(o, h) PROVE UNCHANGED <<route, cert, listener>>
    BY <2>1 DEF AddDomain, cluster
  <2>2. ASSUME NEW r \in Requests, Begins(r) PROVE UNCHANGED <<route, cert, listener>>
    BY <2>2 DEF Begins, cluster
  <2> QED
    BY <1>3, <1>4, <2>1, <2>2, NextCases DEF domainVars
<1> QED
  BY <1>1, <1>2, <1>5 DEF Proven

-----------------------------------------------------------------------------
\* A delete past its row, and a verify past its own.
Deleting(q) == q.op = "delete" /\ q.pc # "drop"
Attaching(q) == q.op = "verify" /\ q.pc \in {"cert", "listen", "read", "apply"}

\* What a request has read is still so, but for what overlapped it.
Knows(q) ==
    /\ q.op \in {"verify", "delete"} =>
          /\ q.host \notin overlapped => (q.dep <=> q.org \in deployed)
          /\ q.pc \in {"read", "apply"} => q.dep
          /\ q.dep /\ q.org \notin deployed => q.org \notin app
    /\ q.pc = "drop" /\ q.host \notin overlapped /\ HasRow(q.id) =>
          (q.was <=> row[q.id].status = "verified")
    /\ Deleting(q) /\ q.host \notin overlapped => VerifiedByHost(q.host) = {}
    /\ q.pc = "uncert" /\ q.host \notin overlapped => q.host \notin listener
    /\ Attaching(q) /\ q.host \notin overlapped => row[q.id].status = "verified"
    /\ q.pc = "apply" => q.hosts \ overlapped = appDomains(q.org) \ overlapped

Known == \A r \in Requests : Knows(req[r])

\* Who touches a host that nothing overlapped is alone with it.
LEMMA Alone ==
    ASSUME Overlap, NEW r \in Requests, NEW s \in Requests \ {r}, NEW h \in Reach(req[s]), h \notin overlapped,
           req[r].pc # "idle"
    PROVE  req[r].org # req[s].org /\ Reach(req[r]) \intersect Reach(req[s]) = {}
<1>1. req[s].pc # "idle"
  BY DEF Reach
<1> QED
  BY <1>1 DEF Overlap, Meet

\* A call only touches what belongs to its request.
LEMMA OwnCalls ==
    ASSUME Typed, Copies, NEW r \in Requests, Call(r)
    PROVE  /\ req[r].org \in Orgs
           /\ \A d \in Ids : row[d].org # req[r].org => row'[d] = row[d]
           /\ \A d \in Ids : row'[d] # row[d] =>
                 /\ row[d].org = req[r].org
                 /\ row'[d].host = row[d].host \/ row'[d] = NoRow
                 /\ row[d].host \in Reach(req[r]) \/ (row[d].status # "verified" /\ row'[d] = NoRow)
           /\ \A o \in Orgs \ {req[r].org} : route'[o] = route[o] /\ (o \in deployed' <=> o \in deployed)
                                           /\ (o \in app' <=> o \in app)
           /\ \A h \in HostNames \ {req[r].host} : (h \in cert' <=> h \in cert) /\ (h \in listener' <=> h \in listener)
           /\ app' \subseteq app /\ deployed \ deployed' \subseteq app \ app'
<1>0. /\ req[r] \in RequestRecord /\ Shape(req[r]) /\ req[r].pc # "idle"
      /\ row \in [Ids -> RowRecord \union {NoRow}]
  BY CallContinues DEF Continues, Typed, DomainTypes, RowRecord
<1>1. req[r].org \in Orgs
  BY <1>0, Operation
<1>2. ASSUME NEW d \in Ids, row'[d] # row[d]
      PROVE  /\ row[d].org = req[r].org
             /\ row'[d].host = row[d].host \/ row'[d] = NoRow
             /\ row[d].host \in Reach(req[r]) \/ (row[d].status # "verified" /\ row'[d] = NoRow)
  <2>1. RowChange(r, d)
    BY CallChanges
  <2>2. row[d].org = req[r].org /\ row[d] # NoRow /\ (row'[d].host = row[d].host \/ row'[d] = NoRow)
    BY <1>2, <2>1 DEF RowChange
  <2>3. CASE req[r].op = "remove"
    <3>1. row'[d] = NoRow
      BY <1>2, <2>1, <2>3 DEF RowChange
    <3>2. row[d].status = "verified" => row[d].host \in appDomains(req[r].org)
      BY <2>2 DEF appDomains, Of
    <3> QED
      BY <1>0, <2>2, <3>1, <3>2 DEF Reach
  <2>4. CASE req[r].op # "remove"
    <3>1. row[d].host = req[r].host /\ req[r].host # None
      BY <1>0, <1>2, <2>1, <2>4, RowTypes, NoneAssumption DEF RowChange
    <3> QED
      BY <1>0, <2>2, <3>1 DEF Reach
  <2> QED
    BY <2>3, <2>4
<1>3. \A o \in Orgs \ {req[r].org} : route'[o] = route[o]
  BY ClusterSteps
<1>4. \A h \in HostNames \ {req[r].host} : (h \in cert' <=> h \in cert) /\ (h \in listener' <=> h \in listener)
  BY ClusterSteps
<1>5. /\ app' \subseteq app /\ deployed \ deployed' \subseteq app \ app'
      /\ \A o \in Orgs \ {req[r].org} : (o \in deployed' <=> o \in deployed) /\ (o \in app' <=> o \in app)
  <2>1. CASE DropApp(r)
    BY <2>1 DEF DropApp, Typed, DomainTypes
  <2>2. CASE Apply(r)
    BY <2>2 DEF Apply
  <2>3. CASE ~(DropApp(r) \/ Apply(r))
    BY <2>3 DEF Call, Fails, VerifyFails, CheckOwner, MarkVerified, EnsureDomainCertificate,
       EnsureGatewayListener, ReadDomains, DropRow, RemoveGatewayListener, RemoveDomainCertificate, Uninstall
  <2> QED
    BY <2>1, <2>2, <2>3
<1> QED
  BY <1>1, <1>2, <1>3, <1>4, <1>5

\* The verified hosts of another request's organization change only where they overlapped.
LEMMA DomainsKept ==
    ASSUME Typed, Copies, Overlap, NEW r \in Requests, Call(r), NEW s \in Requests \ {r}, req[s].pc # "idle"
    PROVE  appDomains(req[s].org)' \ overlapped = appDomains(req[s].org) \ overlapped
<1>0. req[s] \in RequestRecord /\ req'[s] = req[s] /\ req[r].pc # "idle"
  BY CallContinues DEF Continues, Typed
<1>1. CASE req[s].org = req[r].org
  <2>1. Reach(req[r]) \subseteq overlapped
    BY <1>0, <1>1 DEF Overlap, Meet
  <2>2. ASSUME NEW d \in Ids, row[d].host \notin overlapped \/ row'[d].host \notin overlapped, row'[d] # NoRow
        PROVE  row'[d] = row[d]
    BY <2>1, <2>2, OwnCalls
  <2>3. ASSUME NEW d \in Ids, row[d].host \notin overlapped, row[d].status = "verified" PROVE row'[d] = row[d]
    BY <2>1, <2>3, OwnCalls
  <2>4. req[s].org \in Orgs
    BY <1>0, Operation DEF Typed
  <2>5. \A d \in Ids : (row'[d].org = req[s].org => row'[d] # NoRow) /\ (row[d].org = req[s].org => row[d] # NoRow)
    BY <2>4, NoneAssumption DEF NoRow
  <2> QED
    BY <1>0, <2>2, <2>3, <2>5 DEF appDomains, Of
<1>2. CASE req[s].org # req[r].org
  <2>1. \A d \in Ids : row[d].org = req[s].org => row'[d] = row[d]
    BY <1>2, OwnCalls
  <2>2. req[s].org \in Orgs
    BY <1>0, Operation DEF Typed
  <2>3. \A d \in Ids : row'[d].org = req[s].org => row'[d] = row[d]
    <3>1. ASSUME NEW d \in Ids, row'[d] # row[d] PROVE row'[d].org # req[s].org
      BY <1>2, <2>2, <3>1, CallChanges, NoneAssumption DEF RowChange, NoRow
    <3> QED
      BY <3>1
  <2> QED
    BY <1>0, <2>1, <2>3 DEF appDomains, Of
<1> QED
  BY <1>1, <1>2

\* ... and so do the verified rows of a host it touches.
LEMMA VerifiedKept ==
    ASSUME Typed, Copies, Overlap, NEW r \in Requests, Call(r), NEW s \in Requests \ {r},
           NEW h \in Reach(req[s]), h \notin overlapped
    PROVE  /\ req[r].org # req[s].org /\ req[r].host # h
           /\ \A d \in Ids :
                 /\ row[d].host = h \/ row'[d].host = h
                 /\ row[d].status = "verified" \/ row'[d].status = "verified" \/ row[d].org = req[s].org
                 => row'[d] = row[d]
<1>0. req[r] \in RequestRecord /\ Shape(req[r]) /\ req[r].pc # "idle" /\ h \in HostNames /\ req[s] \in RequestRecord
  BY CallContinues, ReachTypes DEF Continues, Typed
<1>1. req[r].org # req[s].org /\ h \notin Reach(req[r])
  BY <1>0, Alone
<1>2. req[r].host # h
  BY <1>0, <1>1, NoneAssumption DEF Reach
<1>3. ASSUME NEW d \in Ids, row'[d] # row[d],
             row[d].status = "verified" \/ row'[d].status = "verified" \/ row[d].org = req[s].org
      PROVE  row[d].host # h /\ row'[d].host # h
  BY <1>0, <1>1, <1>3, OwnCalls, NoneAssumption DEF NoRow
<1> QED
  BY <1>1, <1>2, <1>3

\* No call changes what another request has read, but where they crossed (Call).
LEMMA KnownOthers ==
    ASSUME Typed, Copies, Overlap, Known, NEW r \in Requests, Call(r), NEW s \in Requests \ {r}
    PROVE  Knows(req[s])'
<1>0. /\ req[s] \in RequestRecord /\ Shape(req[s]) /\ req'[s] = req[s] /\ overlapped \subseteq overlapped'
      /\ Knows(req[s])
  BY CallContinues DEF Continues, Typed, Known
<1>a. CASE req[s].pc = "idle"
  BY <1>0, <1>a, Operation DEF Knows, Deleting, Attaching, Shape
<1>b. CASE req[s].pc # "idle"
  <2> DEFINE q == req[s]
  <2>0. /\ q.org \in Orgs
        /\ q.op \in {"verify", "delete"} => q.id \in Ids /\ q.host \in HostNames /\ q.host \in Reach(q)
        /\ (q.pc = "drop" \/ q.pc = "uncert" \/ Deleting(q) \/ Attaching(q)) => q.op \in {"verify", "delete"}
    BY <1>0, <1>b, Operation, NoneAssumption DEF Reach, Deleting, Attaching
  <2>1. ASSUME q.op \in {"verify", "delete"}, q.host \notin overlapped
        PROVE  /\ q.org \in deployed' <=> q.org \in deployed
               /\ VerifiedByHost(q.host)' = VerifiedByHost(q.host)
               /\ q.host \in listener' <=> q.host \in listener
               /\ (row[q.id].host = q.host /\ row[q.id].org = q.org => row'[q.id] = row[q.id])
    <3>1. /\ req[r].org # q.org /\ req[r].host # q.host
          /\ \A d \in Ids :
                /\ row[d].host = q.host \/ row'[d].host = q.host
                /\ row[d].status = "verified" \/ row'[d].status = "verified" \/ row[d].org = q.org
                => row'[d] = row[d]
      BY <2>0, <2>1, VerifiedKept
    <3>2. VerifiedByHost(q.host)' = VerifiedByHost(q.host)
      BY <1>0, <3>1 DEF VerifiedByHost
    <3> QED
      BY <2>0, <2>1, <3>1, <3>2, OwnCalls
  <2>2. ASSUME q.op \in {"verify", "delete"}, q.dep, q.org \notin deployed' PROVE q.org \notin app'
    BY <1>0, <2>0, <2>2, OwnCalls DEF Knows
  <2>3. ASSUME q.pc = "apply" PROVE q.hosts \ overlapped' = appDomains(q.org)' \ overlapped'
    BY <1>0, <1>b, <2>3, DomainsKept DEF Knows
  <2>4. ASSUME q.pc = "drop", q.host \notin overlapped', HasRow(q.id)' PROVE q.was <=> row'[q.id].status = "verified"
    <3>1. row'[q.id] = row[q.id]
      <4>1. q.id \in Ids /\ q.id # None
        BY <2>0, <2>4, NoneAssumption
      <4>2. row[q.id] # NoRow => row[q.id].host = q.host /\ row[q.id].org = q.org
        BY <4>1 DEF Copies, HasRow
      <4>3. row[q.id] # NoRow
        BY <1>0, <2>4, <4>1, CallChanges DEF RowChange, HasRow
      <4> QED
        BY <1>0, <2>0, <2>1, <2>4, <4>2, <4>3
    <3> QED
      BY <1>0, <2>4, <3>1 DEF Knows, HasRow
  <2>5. ASSUME Attaching(q), q.host \notin overlapped' PROVE row'[q.id].status = "verified"
    <3>1. row[q.id].status = "verified" /\ q.id \in Ids /\ q.id # None
      BY <1>0, <2>0, <2>5, NoneAssumption DEF Knows
    <3>2. row[q.id].host = q.host /\ row[q.id].org = q.org
      BY <3>1 DEF Copies, HasRow, NoRow
    <3> QED
      BY <1>0, <2>0, <2>1, <2>5, <3>1, <3>2
  <2>6. Knows(q)' <=>
          /\ q.op \in {"verify", "delete"} =>
                /\ q.host \notin overlapped' => (q.dep <=> q.org \in deployed')
                /\ q.pc \in {"read", "apply"} => q.dep
                /\ q.dep /\ q.org \notin deployed' => q.org \notin app'
          /\ q.pc = "drop" /\ q.host \notin overlapped' /\ HasRow(q.id)' =>
                (q.was <=> row'[q.id].status = "verified")
          /\ Deleting(q) /\ q.host \notin overlapped' => VerifiedByHost(q.host)' = {}
          /\ q.pc = "uncert" /\ q.host \notin overlapped' => q.host \notin listener'
          /\ Attaching(q) /\ q.host \notin overlapped' => row'[q.id].status = "verified"
          /\ q.pc = "apply" => q.hosts \ overlapped' = appDomains(q.org)' \ overlapped'
    BY <1>0 DEF Knows, Deleting, Attaching
  <2> QED
    BY <1>0, <2>0, <2>1, <2>2, <2>3, <2>4, <2>5, <2>6 DEF Knows
<1> QED
  BY <1>a, <1>b

\* A request knows what its own calls have done (MarkVerified, DropRow, ReadDomains, RemoveGatewayListener).
LEMMA KnownItself ==
    ASSUME Typed, Copies, OneVerified, Known, NEW r \in Requests, Call(r)
    PROVE  Knows(req[r])'
<1>0. /\ req[r] \in RequestRecord /\ Shape(req[r]) /\ overlapped \subseteq overlapped' /\ Knows(req[r])
      /\ row \in [Ids -> RowRecord \union {NoRow}] /\ req[r].pc # "idle"
      /\ req'[r] \in RequestRecord /\ Shape(req'[r])
  BY CallContinues, TypedStep DEF Continues, Typed, DomainTypes, RowRecord, Known, DomainNext, Call
<1> DEFINE q == req[r]  p == req'[r]
<1>a. CASE p.pc = "idle"
  BY <1>0, <1>a, Operation DEF Knows, Deleting, Attaching, Shape
<1>b. CASE p.pc # "idle"
  <2>0. /\ SameRequest(p, q) /\ q.org \in Orgs
        /\ q.op \in {"verify", "delete"} => q.id \in Ids /\ q.host \in HostNames
    BY <1>0, <1>b, CallPcs, Operation
  <2>8. p.op = q.op
    BY <2>0 DEF SameRequest
  <2>1. ASSUME q.op \in {"verify", "delete"}
        PROVE  /\ p.host \notin overlapped' => (p.dep <=> p.org \in deployed')
               /\ p.pc \in {"read", "apply"} => p.dep
               /\ p.dep /\ p.org \notin deployed' => p.org \notin app'
    <3>1. deployed' = deployed /\ app' = app
      <4>1. ~DropApp(r)
        BY <1>0, <2>1, Operation DEF DropApp
      <4> QED
        BY <2>1, <4>1 DEF Call, Fails, VerifyFails, CheckOwner, MarkVerified, EnsureDomainCertificate,
       EnsureGatewayListener, ReadDomains, Apply, DropRow, RemoveGatewayListener, RemoveDomainCertificate, Uninstall
    <3>2. p.pc \in {"read", "apply"} => p.dep
      BY <1>0, <1>b, <2>0, <2>1, CallPcs DEF Knows, SameRequest
    <3> QED
      BY <1>0, <2>0, <2>1, <3>1, <3>2 DEF Knows, SameRequest
  <2>2. ASSUME Deleting(p), p.host \notin overlapped' PROVE VerifiedByHost(req[r].host)' = {}
    <3>0. q.op = "delete" /\ p.host = q.host /\ p.host \notin overlapped
      BY <1>0, <2>0, <2>2 DEF SameRequest, Deleting
    <3>1. CASE q.pc = "drop"
      <4>1. DropRow(r) /\ p.pc \in {"read", "unlisten"}
        BY <1>0, <1>b, <2>2, <3>0, <3>1, CallPcs DEF Deleting, Shape
      <4>2. HasRow(q.id) /\ q.was /\ row' = [row EXCEPT ![q.id] = NoRow]
        BY <1>b, <4>1, DoneTypes DEF DropRow, Idle
      <4>3. row[q.id].status = "verified" /\ row[q.id].host = q.host
        BY <1>0, <2>0, <3>0, <3>1, <4>2, NoneAssumption DEF Knows, Copies
      <4>4. \A d \in Ids : row'[d].status = "verified" => d # q.id /\ row[d] = row'[d]
        BY <1>0, <2>0, <3>0, <4>2 DEF NoRow
      <4>5. \A d \in Ids : row'[d].status = "verified" => row'[d].host # q.host
        BY <2>0, <3>0, <4>3, <4>4 DEF OneVerified
      <4> QED
        BY <3>0, <4>5 DEF VerifiedByHost
    <3>2. CASE q.pc # "drop"
      <4>1. row' = row
        <5>1. q.pc \in {"read", "apply", "unlisten", "uncert"}
          BY <1>0, <3>0, <3>2 DEF Shape
        <5> QED
          BY <5>1 DEF Call, Fails, VerifyFails, CheckOwner, MarkVerified, EnsureDomainCertificate,
       EnsureGatewayListener, ReadDomains, Apply, DropRow, RemoveGatewayListener, RemoveDomainCertificate, Uninstall, DropApp
      <4> QED
        BY <1>0, <3>0, <3>2, <4>1 DEF Knows, Deleting, VerifiedByHost
    <3> QED
      BY <3>1, <3>2
  <2>3. ASSUME p.pc = "uncert" PROVE p.host \notin listener'
    <3>1. RemoveGatewayListener(r)
      BY <1>b, <2>3, CallPcs
    <3> QED
      BY <2>0, <3>1 DEF RemoveGatewayListener, SameRequest
  <2>4. ASSUME Attaching(p), p.host \notin overlapped' PROVE row'[p.id].status = "verified"
    <3>0. q.op = "verify" /\ p.host = q.host /\ p.id = q.id /\ p.host \notin overlapped /\ q.id \in Ids
      BY <1>0, <2>0, <2>4 DEF SameRequest, Attaching
    <3>1. CASE MarkVerified(r)
      <4>1. HasRow(q.id) /\ row' = [row EXCEPT ![q.id].status = "verified"]
        BY <1>b, <3>1, DoneTypes DEF MarkVerified, Idle
      <4>2. row[q.id] \in RowRecord
        BY <1>0, <3>0, <4>1 DEF HasRow
      <4> QED
        BY <1>0, <3>0, <4>1, <4>2 DEF RowRecord
    <3>2. CASE ~MarkVerified(r)
      <4>1. q.pc \in {"cert", "listen", "read"}
        BY <1>0, <1>b, <2>4, <3>0, <3>2, CallPcs DEF Attaching, Shape
      <4>2. row' = row
        BY <4>1 DEF Call, Fails, VerifyFails, CheckOwner, MarkVerified, EnsureDomainCertificate,
       EnsureGatewayListener, ReadDomains, Apply, DropRow, RemoveGatewayListener, RemoveDomainCertificate, Uninstall, DropApp
      <4> QED
        BY <1>0, <3>0, <4>1, <4>2 DEF Knows, Attaching
    <3> QED
      BY <3>1, <3>2
  <2>5. ASSUME p.pc = "apply" PROVE p.hosts \ overlapped' = appDomains(req[r].org)' \ overlapped'
    <3>1. ReadDomains(r)
      BY <1>b, <2>5, CallPcs
    <3>2. PICK hosts \in {appDomains(q.org), {}} :
          /\ req' = [req EXCEPT ![r].hosts = hosts, ![r].pc = "apply"]
          /\ overlapped' = IF hosts = appDomains(q.org) THEN overlapped ELSE overlapped \union Reach(q)
      BY <3>1 DEF ReadDomains
    <3>3. p.hosts = hosts /\ p.org = q.org
      BY <1>0, <2>0, <3>2 DEF SameRequest, RequestRecord, Typed
    <3>5. appDomains(req[r].org)' = appDomains(q.org)
      BY <3>3, <3>1 DEF ReadDomains, appDomains, Of
    <3>6. appDomains(q.org) \subseteq Reach(q)
      BY <1>0 DEF Reach
    <3> QED
      BY <3>2, <3>3, <3>5, <3>6
  <2>6. p.pc # "drop" /\ p.op = q.op
    BY <1>b, <2>0, CallPcs DEF SameRequest
  <2>7. Knows(req[r])' <=>
          /\ p.op \in {"verify", "delete"} =>
                /\ p.host \notin overlapped' => (p.dep <=> p.org \in deployed')
                /\ p.pc \in {"read", "apply"} => p.dep
                /\ p.dep /\ p.org \notin deployed' => p.org \notin app'
          /\ p.pc = "drop" /\ p.host \notin overlapped' /\ HasRow(req[r].id)' =>
                (p.was <=> row'[p.id].status = "verified")
          /\ Deleting(p) /\ p.host \notin overlapped' => VerifiedByHost(req[r].host)' = {}
          /\ p.pc = "uncert" /\ p.host \notin overlapped' => p.host \notin listener'
          /\ Attaching(p) /\ p.host \notin overlapped' => row'[p.id].status = "verified"
          /\ p.pc = "apply" => p.hosts \ overlapped' = appDomains(req[r].org)' \ overlapped'
    BY DEF Knows, Deleting, Attaching
  <2> QED
    BY <2>1, <2>2, <2>3, <2>4, <2>5, <2>6, <2>7
<1> QED
  BY <1>a, <1>b

\* Nothing it has read of changes.
LEMMA KnownKept ==
    ASSUME Typed, Known, NEW s \in Requests, req'[s] = req[s], overlapped \subseteq overlapped',
           UNCHANGED <<app, deployed, listener>>,
           \A d \in Ids : row'[d] = row[d] \/
               /\ ~HasRow(d) /\ row'[d].status = "pending"
               /\ req[s].id # d
    PROVE  Knows(req[s])'
<1>0. /\ req[s] \in RequestRecord /\ Shape(req[s]) /\ Knows(req[s])
      /\ row \in [Ids -> RowRecord \union {NoRow}]
  BY DEF Typed, DomainTypes, RowRecord, Known
<1>1. \A d \in Ids : (row'[d].status = "verified" \/ row[d].status = "verified") => row'[d] = row[d]
  BY DEF HasRow, NoRow
<1>2. VerifiedByHost(req[s].host)' = VerifiedByHost(req[s].host)
  BY <1>1 DEF VerifiedByHost
<1>3. appDomains(req[s].org)' = appDomains(req[s].org)
  <2>1. \A d \in Ids : row'[d].org = req[s].org /\ row'[d].status = "verified"
                       <=> row[d].org = req[s].org /\ row[d].status = "verified"
    BY <1>1
  <2>2. ASSUME NEW h \in appDomains(req[s].org)' PROVE h \in appDomains(req[s].org)
    BY <1>1, <2>1, <2>2 DEF appDomains, Of
  <2>3. ASSUME NEW h \in appDomains(req[s].org) PROVE h \in appDomains(req[s].org)'
    BY <1>1, <2>1, <2>3 DEF appDomains, Of
  <2> QED
    BY <2>2, <2>3
<1>4. req[s].id \in Ids => row'[req[s].id] = row[req[s].id]
  OBVIOUS
<1>5. (req[s].pc = "drop" \/ Attaching(req[s])) => req[s].id \in Ids
  BY <1>0, Operation DEF Attaching
<1> QED
  BY <1>0, <1>2, <1>3, <1>4, <1>5 DEF Knows, Deleting, Attaching, HasRow

\* What requests have read stays so (DomainNext).
LEMMA KnownStep == Typed /\ Copies /\ Overlap /\ OneVerified /\ Known /\ [DomainNext]_domainVars => Known'
<1> SUFFICES ASSUME Typed, Copies, Overlap, OneVerified, Known, [DomainNext]_domainVars, NEW s \in Requests
             PROVE  Knows(req[s])'
  BY DEF Known
<1>1. ASSUME NEW o \in Orgs, NEW h \in HostNames, AddDomain(o, h) PROVE Knows(req[s])'
  <2>1. PICK d \in Ids :
            /\ ~HasRow(d) /\ \A r \in Requests : req[r].id # d
            /\ row' = [row EXCEPT ![d] = [org |-> o, host |-> h, status |-> "pending"]]
    BY <1>1 DEF AddDomain
  <2>2. req'[s] = req[s] /\ overlapped' = overlapped /\ UNCHANGED <<app, deployed, listener>>
    BY <1>1 DEF AddDomain, history, cluster
  <2>3. \A e \in Ids : e # d => row'[e] = row[e]
    BY <2>1 DEF Typed, DomainTypes
  <2>4. row'[d] = [org |-> o, host |-> h, status |-> "pending"]
    BY <2>1 DEF Typed, DomainTypes
  <2> QED
    BY <2>1, <2>2, <2>3, <2>4, KnownKept
<1>2. ASSUME NEW r \in Requests, Begins(r) PROVE Knows(req[s])'
  <2>1. CASE r = s
    <3>1. /\ req'[s].op \in {"verify", "delete", "deploy", "remove"}
          /\ req'[s] \in RequestRecord /\ Shape(req'[s]) /\ About(req'[s])
          /\ row' = row /\ deployed' = deployed /\ app' = app
      BY <1>2, <2>1 DEF Begins, Fresh, Shape, RequestRecord
    <3>2. /\ ~Deleting(req'[s]) /\ ~Attaching(req'[s])
          /\ req'[s].pc \in {"owner", "fail", "drop", "read", "uninstall", "dropapp"}
          /\ req'[s].pc = "read" => req'[s].op = "deploy"
      BY <3>1 DEF About, Deleting, Attaching, Shape
    <3>3. req'[s].op \in {"verify", "delete"} => (req'[s].dep <=> req'[s].org \in deployed)
      BY <3>1, Zenon DEF About
    <3>4. req'[s].pc = "drop" => (req'[s].was <=> row[req'[s].id].status = "verified")
      <4>1. req'[s].pc = "drop" => req'[s].op = "delete"
        BY <3>1, Operation
      <4> QED
        BY <3>1, <4>1, Zenon DEF About
    <3> QED
      BY <3>1, <3>2, <3>3, <3>4 DEF Knows, Deleting, Attaching
  <2>2. CASE r # s
    <3>1. req'[s] = req[s] /\ overlapped \subseteq overlapped'
      BY <1>2, <2>2, BeginTypes DEF Begins, Begin
    <3>2. row' = row /\ UNCHANGED <<app, deployed, listener>>
      BY <1>2 DEF Begins, cluster
    <3> QED
      BY <3>1, <3>2, KnownKept
  <2> QED
    BY <2>1, <2>2
<1>3. ASSUME NEW r \in Requests, Call(r) PROVE Knows(req[s])'
  BY <1>3, KnownOthers, KnownItself
<1>4. CASE UNCHANGED domainVars
  BY <1>4, KnownKept DEF domainVars
<1> QED
  BY <1>1, <1>2, <1>3, <1>4, NextCases

-----------------------------------------------------------------------------
\* What is noted of a host stays noted (overlapped, left).
LEMMA HistoryGrows == ASSUME Typed, [DomainNext]_domainVars PROVE overlapped \subseteq overlapped' /\ left \subseteq left'
<1>1. ASSUME NEW o \in Orgs, NEW h \in HostNames, AddDomain(o, h) PROVE overlapped \subseteq overlapped' /\ left \subseteq left'
  BY <1>1 DEF AddDomain, history
<1>2. ASSUME NEW r \in Requests, Begins(r) PROVE overlapped \subseteq overlapped' /\ left \subseteq left'
  BY <1>2 DEF Begins, Begin
<1>3. ASSUME NEW r \in Requests, Call(r) PROVE overlapped \subseteq overlapped' /\ left \subseteq left'
  <2>1. overlapped \subseteq overlapped'
    BY <1>3, CallContinues DEF Continues
  <2>2. left \subseteq left'
    BY <1>3 DEF Call, Fails, VerifyFails, CheckOwner, MarkVerified, EnsureDomainCertificate, history,
       EnsureGatewayListener, ReadDomains, Apply, DropRow, RemoveGatewayListener, RemoveDomainCertificate, Uninstall, DropApp
  <2> QED
    BY <2>1, <2>2
<1> QED
  BY <1>1, <1>2, <1>3, NextCases DEF domainVars

\* The call a request makes, by where it is, unless the call fails.
LEMMA CallAt ==
    ASSUME Typed, NEW r \in Requests, Call(r), req[r].host \notin overlapped', req[r].host \in HostNames
    PROVE  /\ ~Fails(r)
           /\ req[r].pc = "cert" => EnsureDomainCertificate(r)
           /\ req[r].pc = "listen" => EnsureGatewayListener(r)
           /\ req[r].pc = "read" => ReadDomains(r)
           /\ req[r].pc = "apply" => Apply(r)
           /\ req[r].pc = "unlisten" => RemoveGatewayListener(r)
           /\ req[r].pc = "uncert" => RemoveDomainCertificate(r)
<1>1. req[r].host \in Reach(req[r])
  BY CallContinues, NoneAssumption DEF Continues, Reach
<1>2. ~Fails(r)
  BY <1>1 DEF Fails
<1> QED
  BY <1>2 DEF Call, VerifyFails, CheckOwner, MarkVerified, EnsureDomainCertificate, 
     EnsureGatewayListener, ReadDomains, Apply, DropRow, RemoveGatewayListener, RemoveDomainCertificate, Uninstall, DropApp

\* A host loses its verified row to DeleteDomain, or is left.
LEMMA VerifiedLost ==
    ASSUME Typed, Copies, NEW r \in Requests, Call(r), NEW d \in Ids,
           row[d].status = "verified", row[d].host \notin left'
    PROVE  \/ row'[d].status = "verified" /\ row'[d].org = row[d].org /\ row'[d].host = row[d].host
           \/ DropRow(r) /\ req[r].id = d /\ req[r].host = row[d].host /\ req[r].org = row[d].org
<1>0. /\ req[r] \in RequestRecord /\ Shape(req[r])
      /\ row \in [Ids -> RowRecord \union {NoRow}] /\ row[d] # NoRow
  BY RowTypes DEF Typed, DomainTypes, RowRecord
<1>1. RowChange(r, d)
  BY CallChanges
<1>2. CASE VerifyFails(r)
  <2>1. req[r].op = "verify"
    BY <1>0, <1>2, Operation DEF VerifyFails
  <2>2. d # req[r].id
    <3>1. ASSUME d = req[r].id PROVE FALSE
      <4>1. row[d].host = req[r].host
        BY <1>0, <3>1, NoneAssumption DEF Copies, HasRow
      <4> QED
        BY <1>2, <3>1, <4>1 DEF VerifyFails
    <3> QED
      BY <3>1
  <2> QED
    BY <1>1, <2>1, <2>2 DEF RowChange
<1>3. CASE DropApp(r)
  <2>1. d \notin Of(req[r].org)
    BY <1>3 DEF DropApp, HostsOf
  <2> QED
    BY <1>3, <2>1 DEF DropApp
<1>4. CASE DropRow(r)
  <2>1. req[r].op = "delete"
    BY <1>0, <1>4, Operation DEF DropRow
  <2> QED
    BY <1>1, <1>4, <2>1 DEF RowChange
<1>5. CASE MarkVerified(r)
  <2>1. req[r].op = "verify" /\ req[r].id \in Ids
    BY <1>0, <1>5, Operation DEF MarkVerified
  <2>2. row' = row \/ row' = [row EXCEPT ![req[r].id].status = "verified"]
    BY <1>5 DEF MarkVerified
  <2>3. row'[d] = row[d] \/ row'[d] = [row[d] EXCEPT !.status = "verified"]
    BY <1>0, <2>1, <2>2
  <2> QED
    BY <1>0, <2>3 DEF RowRecord
<1>6. CASE ~(VerifyFails(r) \/ MarkVerified(r) \/ DropRow(r) \/ DropApp(r))
  <2>1. row' = row
    BY <1>6, RowKept
  <2> QED
    BY <2>1
<1> QED
  BY <1>2, <1>3, <1>4, <1>5, <1>6

At(d, pcs) == \E r \in Requests : req[r].op = "verify" /\ req[r].id = d /\ req[r].pc \in pcs

\* A verified domain is served, or the request that verified it is on its way to it, or
\* the app is on its way out.
Served == \A d \in Ids :
    row[d].status = "verified" /\ row[d].host \notin overlapped =>
        /\ row[d].host \in cert \/ At(d, {"cert"})
        /\ row[d].host \in listener \/ At(d, {"cert", "listen"})
        /\ row[d].org \in deployed =>
              \/ row[d].host \in route[row[d].org]
              \/ At(d, {"cert", "listen", "read", "apply"})
              \/ \E r \in Requests : req[r].pc = "dropapp" /\ req[r].org = row[d].org

\* A request that is under way is still so after a step of another.
LEMMA OthersStay ==
    ASSUME Typed, NEW r \in Requests, NEW s \in Requests, req[s].pc # "idle",
           (Call(r) /\ s # r) \/ Begins(r)
    PROVE  req'[s] = req[s]
<1>1. CASE Call(r) /\ s # r
  BY <1>1, CallContinues DEF Continues
<1>2. CASE Begins(r)
  BY <1>2, BeginTypes DEF Begins
<1> QED
  BY <1>1, <1>2

\* A call leaves a verified domain served, or on its way to it (attachVerifiedDomain, applyApp, Delete).
LEMMA ServedCall ==
    ASSUME Typed, Copies, Known, Served, NEW r \in Requests, Call(r), NEW d \in Ids,
           row[d].status = "verified", row'[d] = row[d], row[d].host \notin overlapped'
    PROVE  /\ row[d].host \in cert' \/ At(d, {"cert"})'
           /\ row[d].host \in listener' \/ At(d, {"cert", "listen"})'
           /\ row[d].org \in deployed' =>
                 \/ row[d].host \in route'[row[d].org]
                 \/ At(d, {"cert", "listen", "read", "apply"})'
                 \/ \E s \in Requests : req'[s].pc = "dropapp" /\ req'[s].org = row[d].org
<1> DEFINE h == row[d].host  o == row[d].org
<1>0. /\ req[r] \in RequestRecord /\ Shape(req[r]) /\ Knows(req[r]) /\ req[r].pc # "idle"
      /\ h \in HostNames /\ o \in Orgs /\ d # None /\ row[d] # NoRow /\ d \in VerifiedByHost(h)
      /\ h \notin overlapped /\ overlapped \subseteq overlapped'
  BY RowTypes, CallContinues, NoneAssumption DEF Continues, Typed, DomainTypes, RowRecord, Known, VerifiedByHost
<1>1. Deleting(req[r]) => req[r].host # h
  BY <1>0 DEF Knows
<1>2. ASSUME NEW s \in Requests, req[s].id = d PROVE req[s].org = o /\ req[s].host = h
  BY <1>0, <1>2 DEF Copies, HasRow
<1>3. ASSUME NEW pcs \in SUBSET {"cert", "listen", "read", "apply"}, At(d, pcs)
      PROVE  At(d, pcs)' \/ (req[r].op = "verify" /\ req[r].id = d /\ req[r].pc \in pcs)
  BY <1>3, OthersStay DEF At
<1>4. h \in cert' \/ At(d, {"cert"})'
  <2>1. CASE h \in cert
    BY <1>0, <1>1, <2>1, ClusterSteps, Operation DEF RemoveDomainCertificate, Deleting
  <2>2. CASE req[r].op = "verify" /\ req[r].id = d /\ req[r].pc = "cert"
    BY <1>0, <1>2, <2>2, CallAt DEF EnsureDomainCertificate
  <2> QED
    BY <1>0, <1>3, <2>1, <2>2 DEF Served
<1>5. h \in listener' \/ At(d, {"cert", "listen"})'
  <2>1. CASE h \in listener
    BY <1>0, <1>1, <2>1, ClusterSteps, Operation DEF RemoveGatewayListener, Deleting
  <2>2. CASE req[r].op = "verify" /\ req[r].id = d /\ req[r].pc = "listen"
    BY <1>0, <1>2, <2>2, CallAt DEF EnsureGatewayListener
  <2>3. CASE req[r].op = "verify" /\ req[r].id = d /\ req[r].pc = "cert"
    <3>1. GoesTo(r, "listen")
      BY <1>0, <1>2, <2>3, CallAt, ProceedTypes DEF EnsureDomainCertificate, Follows
    <3> QED
      BY <2>3, <3>1 DEF At, GoesTo, SameRequest
  <2> QED
    BY <1>0, <1>3, <2>1, <2>2, <2>3 DEF Served
<1>6. ASSUME o \in deployed'
      PROVE  \/ h \in route'[o]
             \/ At(d, {"cert", "listen", "read", "apply"})'
             \/ \E s \in Requests : req'[s].pc = "dropapp" /\ req'[s].org = o
  <2>1. CASE Apply(r) /\ req[r].org = o
    <3>1. h \in appDomains(o)
      BY <1>0 DEF appDomains, Of
    <3>2. h \in req[r].hosts
      BY <1>0, <2>1, <3>1 DEF Knows, Apply
    <3> QED
      BY <1>0, <2>1, <3>2 DEF Apply, Typed, DomainTypes
  <2>2. CASE Uninstall(r) /\ req[r].org = o
    <3>1. GoesTo(r, "dropapp")
      BY <1>0, <2>2, ProceedTypes, Operation DEF Uninstall, Follows
    <3> QED
      BY <2>2, <3>1 DEF GoesTo, SameRequest
  <2>3. CASE ~(Apply(r) /\ req[r].org = o) /\ ~(Uninstall(r) /\ req[r].org = o)
    <3>1. route'[o] = route[o]
      BY <1>0, <2>3, ClusterSteps
    <3>2. o \in deployed
      BY <1>6, <2>3 DEF Call, Fails, VerifyFails, CheckOwner, MarkVerified, EnsureDomainCertificate,
         EnsureGatewayListener, ReadDomains, Apply, DropRow, RemoveGatewayListener, RemoveDomainCertificate,
         Uninstall, DropApp
    <3>3. CASE req[r].op = "verify" /\ req[r].id = d /\ req[r].pc \in {"cert", "listen", "read", "apply"}
      <4>0. req[r].host = h /\ req[r].org = o /\ req[r].dep
        BY <1>0, <1>2, <3>2, <3>3 DEF Knows
      <4>1. req[r].pc # "apply"
        BY <1>0, <2>3, <4>0, CallAt
      <4>2. req'[r].pc \in {"listen", "read", "apply"} /\ SameRequest(req'[r], req[r])
        <5>1. CASE req[r].pc = "cert"
          BY <1>0, <3>3, <4>0, <5>1, CallAt, ProceedTypes DEF EnsureDomainCertificate, Follows, GoesTo
        <5>2. CASE req[r].pc = "listen"
          BY <1>0, <3>3, <4>0, <5>2, CallAt, ProceedTypes DEF EnsureGatewayListener, Follows, GoesTo
        <5>3. CASE req[r].pc = "read"
          <6>1. ReadDomains(r)
            BY <1>0, <4>0, <5>3, CallAt
          <6>2. req'[r].pc = "apply"
            BY <1>0, <6>1 DEF ReadDomains, Typed, RequestRecord
          <6> QED
            BY <6>2, CallPcs
        <5> QED
          BY <3>3, <4>1, <5>1, <5>2, <5>3
      <4> QED
        BY <3>3, <4>2 DEF At, SameRequest
    <3>4. ASSUME NEW s \in Requests, req[s].pc = "dropapp", req[s].org = o
          PROVE  \E t \in Requests : req'[t].pc = "dropapp" /\ req'[t].org = o
      <4>1. CASE s = r
        <5>1. DropApp(r)
          BY <3>4, <4>1 DEF Call, Fails, VerifyFails, CheckOwner, MarkVerified, EnsureDomainCertificate,
             EnsureGatewayListener, ReadDomains, Apply, DropRow, RemoveGatewayListener, RemoveDomainCertificate,
             Uninstall
        <5>2. row'[d] = NoRow
          BY <3>4, <4>1, <5>1 DEF DropApp, Of
        <5> QED
          BY <1>0, <5>2
      <4> QED
        BY <3>4, <4>1, OthersStay
    <3> QED
      BY <1>0, <1>3, <3>1, <3>2, <3>3, <3>4 DEF Served
  <2> QED
    BY <2>1, <2>2, <2>3
<1> QED
  BY <1>4, <1>5, <1>6

\* The domains and the cluster stay, and the requests under way.
Quiets ==
    /\ UNCHANGED <<cert, listener, route, deployed>>
    /\ \A s \in Requests : req[s].pc # "idle" => req'[s] = req[s]
    /\ \A d \in Ids : row[d].status = "verified" \/ row'[d].status = "verified" => row'[d] = row[d]

\* Adding a domain and beginning a request leave the cluster alone (AddDomain, Begin).
LEMMA QuietSteps ==
    ASSUME Typed
    PROVE  /\ \A o \in Orgs, h \in HostNames : AddDomain(o, h) => Quiets
           /\ \A r \in Requests : Begins(r) => Quiets
           /\ UNCHANGED domainVars => Quiets
<1>1. ASSUME NEW o \in Orgs, NEW h \in HostNames, AddDomain(o, h) PROVE Quiets
  BY <1>1 DEF AddDomain, Quiets, cluster, Typed, DomainTypes, HasRow, NoRow
<1>2. ASSUME NEW r \in Requests, Begins(r) PROVE Quiets
  <2>1. \A s \in Requests : req[s].pc # "idle" => req'[s] = req[s]
    BY <1>2, OthersStay
  <2> QED
    BY <1>2, <2>1 DEF Begins, Quiets, cluster
<1>3. ASSUME UNCHANGED domainVars PROVE Quiets
  BY <1>3 DEF domainVars, Quiets
<1> QED
  BY <1>1, <1>2, <1>3

\* A verified domain stays served (DomainNext).
LEMMA ServedStep == Typed /\ Copies /\ Known /\ Served /\ [DomainNext]_domainVars => Served'
<1> SUFFICES ASSUME Typed, Copies, Known, Served, [DomainNext]_domainVars, NEW d \in Ids,
                    row'[d].status = "verified", row'[d].host \notin overlapped'
             PROVE  /\ row'[d].host \in cert' \/ At(d, {"cert"})'
                    /\ row'[d].host \in listener' \/ At(d, {"cert", "listen"})'
                    /\ row'[d].org \in deployed' =>
                          \/ row'[d].host \in route'[row'[d].org]
                          \/ At(d, {"cert", "listen", "read", "apply"})'
                          \/ \E r \in Requests : req'[r].pc = "dropapp" /\ req'[r].org = row'[d].org
  BY DEF Served
<1>0. overlapped \subseteq overlapped'
  BY HistoryGrows
<1>1. ASSUME NEW r \in Requests, MarkVerified(r), d = req[r].id, row[d] # NoRow, req[r].op = "verify",
             row[d].host = req[r].host, VerifiedByHost(row[d].host) \subseteq {d}
      PROVE  At(d, {"cert"})' /\ At(d, {"cert", "listen"})' /\ At(d, {"cert", "listen", "read", "apply"})'
  <2>1. GoesTo(r, "cert")
    BY <1>1, ProceedTypes DEF MarkVerified, Follows, HasRow
  <2> QED
    BY <1>1, <2>1 DEF At, GoesTo, SameRequest
<1>2. ASSUME row[d].status = "verified", row'[d] = row[d]
      PROVE  /\ row'[d].host \in cert' \/ At(d, {"cert"})'
             /\ row'[d].host \in listener' \/ At(d, {"cert", "listen"})'
             /\ row'[d].org \in deployed' =>
                   \/ row'[d].host \in route'[row'[d].org]
                   \/ At(d, {"cert", "listen", "read", "apply"})'
                   \/ \E r \in Requests : req'[r].pc = "dropapp" /\ req'[r].org = row'[d].org
  <2>1. CASE Quiets
    <3>1. \A pcs \in SUBSET {"cert", "listen", "read", "apply"} : At(d, pcs) => At(d, pcs)'
      BY <2>1 DEF At, Quiets
    <3>2. /\ row[d].host \in cert \/ At(d, {"cert"})
          /\ row[d].host \in listener \/ At(d, {"cert", "listen"})
          /\ row[d].org \in deployed =>
                \/ row[d].host \in route[row[d].org]
                \/ At(d, {"cert", "listen", "read", "apply"})
                \/ \E r \in Requests : req[r].pc = "dropapp" /\ req[r].org = row[d].org
      BY <1>0, <1>2 DEF Served
    <3> QED
      BY <1>2, <2>1, <3>1, <3>2 DEF Quiets
  <2>2. ASSUME NEW r \in Requests, Call(r)
        PROVE  /\ row'[d].host \in cert' \/ At(d, {"cert"})'
               /\ row'[d].host \in listener' \/ At(d, {"cert", "listen"})'
               /\ row'[d].org \in deployed' =>
                     \/ row'[d].host \in route'[row'[d].org]
                     \/ At(d, {"cert", "listen", "read", "apply"})'
                     \/ \E s \in Requests : req'[s].pc = "dropapp" /\ req'[s].org = row'[d].org
    BY <1>2, <2>2, ServedCall
  <2> QED
    BY <2>1, <2>2, QuietSteps, NextCases
<1> QED
  BY <1>1, <1>2, VerifiedBefore

\* A host with a listener or a certificate has an owner, or a delete under way.
Standing == \A h \in (cert \union listener) \ (overlapped \union left) :
    \/ VerifiedByHost(h) # {}
    \/ \E r \in Requests : Deleting(req[r]) /\ req[r].host = h

\* A call leaves no listener or certificate without a cause (DeleteDomain, EnsureGatewayListener).
LEMMA StandingCall ==
    ASSUME Typed, Copies, Known, Standing, NEW r \in Requests, Call(r), NEW h \in cert' \union listener',
           h \notin overlapped', h \notin left'
    PROVE  \/ VerifiedByHost(h)' # {}
           \/ \E s \in Requests : Deleting(req'[s]) /\ req'[s].host = h
<1>0. /\ req[r] \in RequestRecord /\ Shape(req[r]) /\ Knows(req[r]) /\ req[r].pc # "idle"
      /\ overlapped \subseteq overlapped' /\ h \notin overlapped
  BY CallContinues DEF Continues, Typed, Known
<1>g. h \notin left
  BY HistoryGrows DEF DomainNext, Call
<1>1. CASE h \notin cert \union listener
  <2>1. EnsureDomainCertificate(r) \/ EnsureGatewayListener(r)
    BY <1>1, ClusterSteps
  <2>2. req[r].host = h /\ row' = row /\ Attaching(req[r]) /\ req[r].id \in Ids
    BY <1>0, <1>1, <2>1, Operation DEF EnsureDomainCertificate, EnsureGatewayListener, Attaching
  <2>3. row[req[r].id].status = "verified"
    BY <1>0, <2>2 DEF Knows
  <2>4. row[req[r].id].host = h
    BY <2>2, <2>3, NoneAssumption DEF Copies, HasRow, NoRow
  <2> QED
    BY <2>2, <2>3, <2>4 DEF VerifiedByHost
<1>2. ASSUME NEW d \in VerifiedByHost(h)
      PROVE  \/ VerifiedByHost(h)' # {}
             \/ \E s \in Requests : Deleting(req'[s]) /\ req'[s].host = h
  <2>0. d \in Ids /\ row[d].host = h /\ row[d].status = "verified" /\ row[d] # NoRow
    BY DEF VerifiedByHost, NoRow
  <2>1. CASE DropRow(r) /\ req[r].id = d /\ req[r].host = h
    <3>1. req[r].was /\ HasRow(d)
      BY <1>0, <2>0, <2>1 DEF Knows, DropRow, HasRow
    <3>2. PICK p \in {"read", "unlisten"} : Proceed(r, p)
      BY <2>1, <3>1 DEF DropRow
    <3>3. req[r].op = "delete"
      BY <1>0, <2>1, Operation DEF DropRow
    <3>4. GoesTo(r, p)
      BY <3>2, <3>3, ProceedTypes DEF Follows
    <3> QED
      BY <2>1, <3>2, <3>3, <3>4 DEF Deleting, GoesTo, SameRequest
  <2>2. CASE row'[d].status = "verified" /\ row'[d].host = row[d].host
    BY <2>0, <2>2 DEF VerifiedByHost
  <2> QED
    BY <2>0, <2>1, <2>2, VerifiedLost
<1>3. ASSUME NEW s \in Requests, Deleting(req[s]), req[s].host = h
      PROVE  \E t \in Requests : Deleting(req'[t]) /\ req'[t].host = h
  <2>0. req[s] \in RequestRecord /\ Shape(req[s]) /\ req[s].pc \in {"read", "apply", "unlisten", "uncert"} /\ h \in HostNames
    BY <1>3, Operation DEF Deleting, Shape, Typed
  <2>1. CASE s # r
    BY <1>3, <2>0, <2>1, OthersStay
  <2>2. CASE s = r
    <3>1. req[r].pc # "uncert"
      <4>1. ASSUME req[r].pc = "uncert" PROVE FALSE
        <5>1. RemoveDomainCertificate(r)
          BY <1>3, <2>0, <2>2, <4>1, CallAt
        <5> QED
          BY <1>0, <1>3, <2>2, <4>1, <5>1 DEF RemoveDomainCertificate, Knows
      <4> QED
        BY <4>1
    <3>2. req[r].op = "delete"
      BY <1>3, <2>2 DEF Deleting
    <3>3. req'[r].pc \in {"apply", "unlisten", "uncert"} /\ SameRequest(req'[r], req[r])
      <4>1. CASE req[r].pc = "read"
        <5>1. ReadDomains(r)
          BY <1>3, <2>0, <2>2, <4>1, CallAt
        <5>2. req'[r].pc = "apply"
          BY <1>0, <5>1 DEF ReadDomains, Typed, RequestRecord
        <5> QED
          BY <5>2, CallPcs
      <4>2. CASE req[r].pc = "apply"
        BY <1>3, <2>0, <2>2, <3>2, <4>2, CallAt, ProceedTypes DEF Apply, Follows, GoesTo
      <4>3. CASE req[r].pc = "unlisten"
        BY <1>3, <2>0, <2>2, <3>2, <4>3, CallAt, ProceedTypes DEF RemoveGatewayListener, Follows, GoesTo
      <4> QED
        BY <2>0, <2>2, <3>1, <4>1, <4>2, <4>3
    <3> QED
      BY <1>3, <2>2, <3>2, <3>3 DEF Deleting, SameRequest
  <2> QED
    BY <2>1, <2>2
<1> QED
  BY <1>0, <1>g, <1>1, <1>2, <1>3 DEF Standing

\* What stands has a cause (DomainNext).
LEMMA StandingStep == Typed /\ Copies /\ Known /\ Standing /\ [DomainNext]_domainVars => Standing'
<1> SUFFICES ASSUME Typed, Copies, Known, Standing, [DomainNext]_domainVars, NEW h \in cert' \union listener',
                    h \notin overlapped', h \notin left'
             PROVE  \/ VerifiedByHost(h)' # {}
                    \/ \E r \in Requests : Deleting(req'[r]) /\ req'[r].host = h
  BY DEF Standing, Deleting
<1>1. CASE Quiets
  <2>1. h \in (cert \union listener) \ (overlapped \union left)
    BY <1>1, HistoryGrows DEF Quiets
  <2>2. VerifiedByHost(h) \subseteq VerifiedByHost(h)'
    BY <1>1 DEF Quiets, VerifiedByHost
  <2>3. ASSUME NEW s \in Requests, Deleting(req[s]) PROVE req'[s] = req[s]
    BY <1>1, <2>3 DEF Quiets, Deleting, Typed, Shape
  <2> QED
    BY <2>1, <2>2, <2>3 DEF Standing
<1>2. ASSUME NEW r \in Requests, Call(r)
      PROVE  \/ VerifiedByHost(h)' # {}
             \/ \E s \in Requests : Deleting(req'[s]) /\ req'[s].host = h
  BY <1>2, StandingCall
<1> QED
  BY <1>1, <1>2, QuietSteps, NextCases

\* A host in an app's route is one of its domains, or a delete is about to apply it.
Routed == \A o \in Orgs : \A h \in route[o] \ (overlapped \union left) :
    \/ h \in appDomains(o)
    \/ \E r \in Requests : /\ req[r].op = "delete" /\ req[r].pc \in {"read", "apply"}
                           /\ req[r].org = o /\ req[r].host = h

\* An app with no release has no route.
Undeployed == \A o \in Orgs : o \notin deployed => route[o] \subseteq overlapped \union left

\* A call leaves no host in a route without a cause (Apply, DropRow).
LEMMA RoutedCall ==
    ASSUME Typed, Copies, Known, Routed, Undeployed, NEW r \in Requests, Call(r),
           NEW o \in Orgs, NEW h \in route'[o], h \notin overlapped', h \notin left'
    PROVE  \/ h \in appDomains(o)'
           \/ \E s \in Requests : /\ req'[s].op = "delete" /\ req'[s].pc \in {"read", "apply"}
                                  /\ req'[s].org = o /\ req'[s].host = h
<1>0. /\ req[r] \in RequestRecord /\ Shape(req[r]) /\ Knows(req[r]) /\ req[r].pc # "idle"
      /\ overlapped \subseteq overlapped' /\ h \notin overlapped
  BY CallContinues DEF Continues, Typed, Known
<1>g. h \notin left
  BY HistoryGrows DEF DomainNext, Call
<1>1. CASE Apply(r) /\ req[r].org = o
  <2>1. h \in req[r].hosts /\ row' = row
    BY <1>1 DEF Apply, Typed, DomainTypes
  <2>2. h \in appDomains(o)
    BY <1>0, <1>1, <2>1 DEF Knows, Apply
  <2> QED
    BY <2>1, <2>2 DEF appDomains, Of
<1>2. CASE Uninstall(r) /\ req[r].org = o
  BY <1>2 DEF Uninstall, Typed, DomainTypes
<1>3. CASE ~(Apply(r) /\ req[r].org = o) /\ ~(Uninstall(r) /\ req[r].org = o)
  <2>0. h \in route[o] \ (overlapped \union left) /\ o \in deployed
    BY <1>0, <1>g, <1>3, ClusterSteps DEF Undeployed
  <2>1. ASSUME NEW d \in Ids, row[d].org = o, row[d].status = "verified", row[d].host = h
        PROVE  \/ h \in appDomains(o)'
               \/ \E s \in Requests : /\ req'[s].op = "delete" /\ req'[s].pc \in {"read", "apply"}
                                      /\ req'[s].org = o /\ req'[s].host = h
    <3>1. CASE row'[d].status = "verified" /\ row'[d].org = o /\ row'[d].host = h
      BY <3>1 DEF appDomains, Of
    <3>2. CASE DropRow(r) /\ req[r].id = d /\ req[r].host = h /\ req[r].org = o
      <4>1. HasRow(d)
        BY <2>1 DEF HasRow, NoRow
      <4>2. req[r].op = "delete"
        BY <1>0, <3>2, Operation DEF DropRow
      <4>3. req[r].was /\ req[r].dep
        BY <1>0, <2>0, <2>1, <3>2, <4>1, <4>2 DEF Knows, DropRow
      <4>4. Proceed(r, "read")
        BY <3>2, <4>1, <4>3 DEF DropRow
      <4>5. GoesTo(r, "read")
        BY <4>2, <4>4, ProceedTypes DEF Follows
      <4> QED
        BY <3>2, <4>2, <4>5 DEF GoesTo, SameRequest
    <3> QED
      BY <2>1, <3>1, <3>2, VerifiedLost
  <2>2. ASSUME NEW s \in Requests, req[s].op = "delete", req[s].pc \in {"read", "apply"},
               req[s].org = o, req[s].host = h
        PROVE  \E t \in Requests : /\ req'[t].op = "delete" /\ req'[t].pc \in {"read", "apply"}
                                   /\ req'[t].org = o /\ req'[t].host = h
    <3>1. CASE s # r
      BY <2>2, <3>1, OthersStay
    <3>2. CASE s = r
      <4>0. h \in HostNames
        BY <2>0 DEF Typed, DomainTypes
      <4>1. req[r].pc = "read"
        BY <1>3, <2>2, <3>2, <4>0, CallAt
      <4>2. ReadDomains(r)
        BY <2>2, <3>2, <4>0, <4>1, CallAt
      <4>3. req'[r].pc = "apply"
        BY <1>0, <4>2 DEF ReadDomains, Typed, RequestRecord
      <4>4. SameRequest(req'[r], req[r])
        BY <4>3, CallPcs
      <4> QED
        BY <2>2, <3>2, <4>3, <4>4 DEF SameRequest
    <3> QED
      BY <3>1, <3>2
  <2>3. ASSUME h \in appDomains(o)
        PROVE  \E d \in Ids : row[d].org = o /\ row[d].status = "verified" /\ row[d].host = h
    BY <2>3 DEF appDomains, Of
  <2> QED
    BY <2>0, <2>1, <2>2, <2>3 DEF Routed
<1> QED
  BY <1>1, <1>2, <1>3

\* What is routed has a cause (DomainNext).
LEMMA RoutedStep == Typed /\ Copies /\ Known /\ Routed /\ Undeployed /\ [DomainNext]_domainVars => Routed'
<1> SUFFICES ASSUME Typed, Copies, Known, Routed, Undeployed, [DomainNext]_domainVars,
                    NEW o \in Orgs, NEW h \in route'[o], h \notin overlapped', h \notin left'
             PROVE  \/ h \in appDomains(o)'
                    \/ \E r \in Requests : /\ req'[r].op = "delete" /\ req'[r].pc \in {"read", "apply"}
                                           /\ req'[r].org = o /\ req'[r].host = h
  BY DEF Routed
<1>1. CASE Quiets
  <2>1. h \in route[o] \ (overlapped \union left)
    BY <1>1, HistoryGrows DEF Quiets
  <2>2. h \in appDomains(o) => h \in appDomains(o)'
    BY <1>1 DEF Quiets, appDomains, Of
  <2> QED
    BY <1>1, <2>1, <2>2 DEF Routed, Quiets
<1>2. ASSUME NEW r \in Requests, Call(r)
      PROVE  \/ h \in appDomains(o)'
             \/ \E s \in Requests : /\ req'[s].op = "delete" /\ req'[s].pc \in {"read", "apply"}
                                    /\ req'[s].org = o /\ req'[s].host = h
  BY <1>2, RoutedCall
<1> QED
  BY <1>1, <1>2, QuietSteps, NextCases

\* An app with no release has no route (Apply, DropApp).
LEMMA UndeployedStep ==
    Typed /\ Copies /\ Overlap /\ Known /\ Routed /\ Undeployed /\ [DomainNext]_domainVars => Undeployed'
<1> SUFFICES ASSUME Typed, Copies, Overlap, Known, Routed, Undeployed, [DomainNext]_domainVars,
                    NEW o \in Orgs, o \notin deployed', NEW h \in route'[o]
             PROVE  h \in overlapped' \/ h \in left'
  BY DEF Undeployed
<1>0. overlapped \subseteq overlapped' /\ left \subseteq left'
  BY HistoryGrows
<1>1. CASE Quiets
  BY <1>0, <1>1 DEF Quiets, Undeployed
<1>2. ASSUME NEW r \in Requests, Call(r) PROVE h \in overlapped' \/ h \in left'
  <2>0. req[r] \in RequestRecord /\ Shape(req[r]) /\ Knows(req[r]) /\ req[r].pc # "idle"
    BY <1>2, CallContinues DEF Continues, Typed, Known
  <2>1. CASE o \in deployed
    <3>1. DropApp(r) /\ req[r].org = o
      BY <1>2, <2>1 DEF Call, Fails, VerifyFails, CheckOwner, MarkVerified, EnsureDomainCertificate,
         EnsureGatewayListener, ReadDomains, Apply, DropRow, RemoveGatewayListener, RemoveDomainCertificate,
         Uninstall, DropApp
    <3>2. h \in route[o] /\ left' = left \union HostsOf(o)
      BY <3>1 DEF DropApp, cluster
    <3>3. appDomains(o) \subseteq HostsOf(o)
      BY DEF appDomains, HostsOf
    <3>4. ASSUME NEW s \in Requests, req[s].op = "delete", req[s].org = o, req[s].host = h
          PROVE  h \in overlapped
      <4>1. s # r /\ req[s].pc # "idle" /\ h \in Reach(req[s])
        BY <3>1, <3>4, <2>0, Operation, NoneAssumption DEF DropApp, Typed, Shape, Reach
      <4> QED
        BY <2>0, <3>1, <3>4, <4>1 DEF Overlap, Meet
    <3> QED
      BY <1>0, <3>2, <3>3, <3>4 DEF Routed
  <2>2. CASE o \notin deployed /\ Apply(r) /\ req[r].org = o
    <3>1. h \in req[r].hosts /\ o \notin app
      <4>1. h \in req[r].hosts
        BY <2>2 DEF Apply, Typed, DomainTypes
      <4>2. req[r].op = "deploy" => o \notin app
        BY <2>2 DEF Apply
      <4>3. req[r].op \in {"verify", "delete"} => o \notin app
        BY <2>0, <2>2 DEF Knows, Apply
      <4> QED
        BY <2>0, <2>2, <4>1, <4>2, <4>3, Operation DEF Apply
    <3>2. appDomains(o) = {}
      <4>1. \A d \in Ids : row[d].org # o
        BY <3>1, NoneAssumption DEF Typed, HasRow, NoRow
      <4> QED
        BY <4>1 DEF appDomains, Of
    <3> QED
      BY <1>0, <2>0, <2>2, <3>1, <3>2 DEF Knows, Apply
  <2>3. CASE o \notin deployed /\ ~(Apply(r) /\ req[r].org = o)
    <3>1. route'[o] = route[o] \/ route'[o] = {}
      BY <1>2, <2>3, ClusterSteps
    <3> QED
      BY <1>0, <2>3, <3>1 DEF Undeployed
  <2> QED
    BY <2>1, <2>2, <2>3
<1> QED
  BY <1>1, <1>2, QuietSteps, NextCases

-----------------------------------------------------------------------------
(* The invariant, and what follows from it.                                *)

DomainsInv ==
    /\ Typed /\ Copies /\ Proven /\ OneVerified
    /\ Overlap /\ Known /\ Served /\ Standing /\ Routed /\ Undeployed

\* There are no domains, releases and requests yet (DomainInit).
LEMMA DomainsInit == DomainInit => DomainsInv
<1> SUFFICES ASSUME DomainInit PROVE DomainsInv
  OBVIOUS
<1>1. \A r \in Requests : req[r] = Idle /\ req[r].pc = "idle" /\ req[r].op = "none" /\ req[r].id = None
  BY DEF DomainInit, Idle
<1>2. \A d \in Ids : row[d] = NoRow /\ row[d].status = "none" /\ row[d].org = None
  BY DEF DomainInit, NoRow
<1>3. Typed
  BY <1>1, <1>2, IdleTypes, NoneAssumption DEF DomainInit, Typed, DomainTypes, HasRow
<1>4. Copies /\ Proven /\ OneVerified
  BY <1>1, <1>2 DEF DomainInit, Copies, Proven, NothingUnproven, OneVerified
<1>5. Overlap /\ Known /\ Served
  BY <1>1, <1>2 DEF Overlap, Known, Knows, Deleting, Attaching, Served
<1>6. Standing /\ Routed /\ Undeployed
  BY DEF DomainInit, Standing, Routed, Undeployed
<1> QED
  BY <1>3, <1>4, <1>5, <1>6 DEF DomainsInv

\* The invariant is inductive (DomainNext).
LEMMA DomainsStep == DomainsInv /\ [DomainNext]_domainVars => DomainsInv'
  BY TypedStep, CopiesStep, ProvenStep, OneVerifiedStep, OverlapStep, KnownStep, ServedStep,
     StandingStep, RoutedStep, UndeployedStep DEF DomainsInv

\* In a quiet moment no request stands between a host and what it is due.
LEMMA QuietHosts ==
    ASSUME DomainsInv, NEW h \in HostNames, Quiet(h), h \notin overlapped
    PROVE  /\ \A d \in Ids : row[d].status = "verified" /\ row[d].host = h =>
                 /\ h \in cert /\ h \in listener
                 /\ row[d].org \in deployed => h \in route[row[d].org]
           /\ h \notin left /\ h \in cert \union listener => VerifiedByHost(h) # {}
           /\ h \notin left => \A o \in Orgs : h \in route[o] => h \in appDomains(o)
<1> USE DEF DomainsInv
<1>1. ASSUME NEW s \in Requests, req[s].host = h, req[s].op \in {"verify", "delete"} PROVE FALSE
  <2>1. req[s].pc # "idle"
    BY <1>1 DEF Typed, Shape
  <2> QED
    BY <1>1, <2>1, NoneAssumption DEF Quiet, Reach
<1>2. ASSUME NEW d \in Ids, row[d].status = "verified", row[d].host = h
      PROVE  /\ h \in cert /\ h \in listener
             /\ row[d].org \in deployed => h \in route[row[d].org]
  <2>1. \A pcs : ~At(d, pcs)
    <3>1. row[d] # NoRow /\ d # None
      BY <1>2, NoneAssumption DEF NoRow
    <3> QED
      BY <1>1, <1>2, <3>1 DEF At, Copies, HasRow
  <2>2. ASSUME NEW s \in Requests, req[s].pc = "dropapp", req[s].org = row[d].org PROVE FALSE
    BY <1>2, <2>2 DEF Quiet, Reach, appDomains, Of
  <2> QED
    BY <1>2, <2>1, <2>2 DEF Served
<1>3. h \notin left /\ h \in cert \union listener => VerifiedByHost(h) # {}
  BY <1>1 DEF Standing, Deleting
<1>4. h \notin left => \A o \in Orgs : h \in route[o] => h \in appDomains(o)
  BY <1>1 DEF Routed
<1> QED
  BY <1>2, <1>3, <1>4

\* What the invariant says of the quiet moments (HostsServedByOwner).
LEMMA HostsFollow == DomainsInv => HostsServedByOwner
<1> SUFFICES ASSUME DomainsInv PROVE HostsServedByOwner
  OBVIOUS
<1>0. Typed /\ DomainTypes /\ NothingUnproven /\ OneOwner
  BY OneOwnerHolds DEF DomainsInv, Typed, Proven
<1>1. VerifiedIsServed
  <2> SUFFICES ASSUME NEW d \in Ids, row[d].status = "verified", row[d].host \notin overlapped, Quiet(row[d].host)
               PROVE  /\ row[d].host \in cert /\ row[d].host \in listener
                      /\ row[d].org \in deployed => row[d].host \in route[row[d].org]
    BY DEF VerifiedIsServed
  <2>1. row[d].host \in HostNames
    BY <1>0, RowTypes DEF DomainTypes, RowRecord
  <2> QED
    BY <2>1, QuietHosts
<1>2. NothingLeftBehind
  BY <1>0, QuietHosts DEF NothingLeftBehind, DomainTypes
<1>3. OneRoute
  <2> SUFFICES ASSUME NEW h \in HostNames \ (overlapped \union left), Quiet(h)
               PROVE  Cardinality({o \in Orgs : h \in route[o]}) <= 1
    BY DEF OneRoute
  <2>1. \A o \in Orgs : h \in route[o] =>
            \E d \in Ids : row[d].org = o /\ row[d].status = "verified" /\ row[d].host = h
    BY QuietHosts DEF appDomains, Of
  <2>2. \A o, p \in Orgs : h \in route[o] /\ h \in route[p] => o = p
    BY <2>1 DEF DomainsInv, OneVerified
  <2> QED
    BY <2>2, AtMostOne
<1> QED
  BY <1>0, <1>1, <1>2, <1>3 DEF HostsServedByOwner

\* For any organizations, hosts, requests and ids: a host is served by the one organization that has
\* proven it, completely, and by nobody once it is given up, but where requests overlapped or
\* failed half-way (VerifyDomain, attachVerifiedDomain, applyApp, DeleteDomain).
THEOREM DomainsHosts == DomainSpec => []HostsServedByOwner
<1>1. DomainSpec => []DomainsInv
  BY DomainsInit, DomainsStep, PTL DEF DomainSpec
<1> QED
  BY <1>1, HostsFollow, PTL

=============================================================================
