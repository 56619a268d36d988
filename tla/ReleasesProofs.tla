--------------------------- MODULE ReleasesProofs ---------------------------
(***************************************************************************)
(* Proofs about Releases for every set of writers and reconcilers and      *)
(* every number of attempts.                                               *)
(*                                                                         *)
(* The argument: the unique constraint makes the inserted revision a       *)
(* witness.  A transaction that holds the key max + 1 knows that nothing   *)
(* was committed since it listed the rows, because any commit would have   *)
(* taken that key; so the live rows it listed are all there are, and it    *)
(* ends them together with adding its own.                                 *)
(***************************************************************************)
EXTENDS Releases, FiniteSetTheorems, TLAPS

\* What a writer's list of the rows still says about the committed rows.
ListInv(w) ==
    pc[w] \in InTx =>
        /\ max[w] <= Len(rel)
        /\ todo[w] \cup held[w] \subseteq 1 .. max[w]
        /\ \A r \in 1 .. max[w] : rel[r] \in Live => r \in todo[w] \cup held[w]
        /\ max[w] = Len(rel) =>
              \A r \in todo[w] \cup held[w] : rel[r] \in Live \cup {"failed"}

\* A writer that inserts has updated every row it listed live, and one that
\* has inserted knows that no other writer committed since it listed them.
InsertInv(w) ==
    /\ pc[w] \in {"insert", "commit"} => todo[w] = {}
    /\ pc[w] = "commit" => max[w] = Len(rel)

TxInv == \A w \in Writers : ListInv(w) /\ InsertInv(w)

\* The key of the next revision is held by at most one transaction.
OneCommitting ==
    \A v, w \in Writers : pc[v] = "commit" /\ pc[w] = "commit" => v = w

NoDeploying == \A r \in DOMAIN rel : rel[r] # "deploying"

RecInv ==
    \A t \in Reconcilers : cur[t] # 0 => cur[t] \in DOMAIN rel /\ to[t] = "failed"

IInv == TypeOK /\ TxInv /\ OneCommitting /\ NoDeploying /\ RecInv /\ OnlyNewestLive

-----------------------------------------------------------------------------
\* Appending to a function on the positions of a sequence.
LEMMA AppendMap ==
    ASSUME NEW S, NEW s \in Seq(S), NEW f \in [DOMAIN s -> S], NEW e \in S
    PROVE  /\ f \in Seq(S)
           /\ Append(f, e) \in Seq(S)
           /\ Len(Append(f, e)) = Len(s) + 1
           /\ DOMAIN Append(f, e) = 1 .. (Len(s) + 1)
           /\ \A i \in 1 .. Len(s) : Append(f, e)[i] = f[i]
           /\ Append(f, e)[Len(s) + 1] = e
<1>1. DOMAIN s = 1 .. Len(s) /\ Len(s) \in Nat
  OBVIOUS
<1>2. f \in Seq(S) /\ Len(f) = Len(s)
  BY <1>1
<1> QED
  BY <1>1, <1>2

\* The committed rows as a function on 1 .. Len(rel).
LEMMA RelTypes ==
    ASSUME TypeOK
    PROVE  /\ Len(rel) \in Nat
           /\ DOMAIN rel = 1 .. Len(rel)
           /\ \A r \in DOMAIN rel : rel[r] \in Status
  BY DEF TypeOK

\* Live and ended statuses are disjoint.
LEMMA Statuses ==
    /\ Live \cap Ended = {}
    /\ Superseding \subseteq Ended
    /\ Status = Live \cup Ended
  BY DEF Live, Ended, Superseding, Status

-----------------------------------------------------------------------------
LEMMA InitIInv == Init => IInv
<1> SUFFICES ASSUME Init PROVE IInv
  OBVIOUS
<1>1. TypeOK
  BY DEF Init, TypeOK, WriterPc, Status, Live, Superseding
<1>2. DOMAIN rel = {}
  BY DEF Init
<1>3. \A w \in Writers : pc[w] = "begin"
  BY DEF Init
<1>4. \A t \in Reconcilers : cur[t] = 0
  BY DEF Init
<1> QED
  BY <1>1, <1>2, <1>3, <1>4
  DEF IInv, TxInv, ListInv, InsertInv, OneCommitting, NoDeploying, RecInv,
      OnlyNewestLive, InTx

\* A step of writer w that leaves the committed rows alone preserves the
\* invariant when it preserves w's own part of it.
LEMMA WriterOnlyStep ==
    ASSUME IInv, NEW w \in Writers, UNCHANGED <<rel, sup, cur, to>>, TypeOK',
           \A v \in Writers \ {w} :
              pc'[v] = pc[v] /\ max'[v] = max[v] /\ todo'[v] = todo[v] /\ held'[v] = held[v],
           ListInv(w)', InsertInv(w)',
           pc'[w] = "commit" => \A v \in Writers \ {w} : pc[v] # "commit"
    PROVE  IInv'
<1>1. TxInv'
  <2> SUFFICES ASSUME NEW v \in Writers PROVE ListInv(v)' /\ InsertInv(v)'
    BY DEF TxInv
  <2>1. CASE v = w
    BY <2>1
  <2>2. CASE v # w
    BY <2>2 DEF IInv, TxInv, ListInv, InsertInv
  <2> QED
    BY <2>1, <2>2
<1>2. OneCommitting'
  BY DEF IInv, OneCommitting
<1>3. NoDeploying' /\ RecInv' /\ OnlyNewestLive'
  BY DEF IInv, NoDeploying, RecInv, OnlyNewestLive
<1> QED
  BY <1>1, <1>2, <1>3 DEF IInv

LEMMA BeginStep ==
    ASSUME IInv, NEW w \in Writers, Begin(w)
    PROVE  IInv'
<1> TypeOK
  BY DEF IInv
<1>1. LiveRevs \in SUBSET (Nat \ {0}) /\ LiveRevs \subseteq 1 .. Len(rel)
  BY RelTypes DEF LiveRevs
<1>2. \A r \in 1 .. Len(rel) : rel[r] \in Live <=> r \in LiveRevs
  BY RelTypes DEF LiveRevs
<1>3. TypeOK'
  BY <1>1, RelTypes DEF Begin, TypeOK, WriterPc, InTx
<1>4. /\ rel' = rel
      /\ pc'[w] = "supersede"
      /\ max'[w] = Len(rel)
      /\ todo'[w] \cup held'[w] = LiveRevs
  BY DEF Begin, TypeOK
<1>5. ListInv(w)' /\ InsertInv(w)'
  <2>1. ListInv(w)'
    <3>1. max'[w] <= Len(rel') /\ todo'[w] \cup held'[w] \subseteq 1 .. max'[w]
      <4>1. max'[w] = Len(rel) /\ Len(rel') = Len(rel) /\ Len(rel) \in Nat
        BY <1>4, RelTypes
      <4>2. max'[w] <= Len(rel')
        BY <4>1
      <4>3. todo'[w] \cup held'[w] \subseteq 1 .. max'[w]
        BY <1>1, <1>4
      <4> QED
        BY <4>2, <4>3
    <3>2. \A r \in 1 .. max'[w] : rel'[r] \in Live => r \in todo'[w] \cup held'[w]
      BY <1>2, <1>4
    <3>3. \A r \in todo'[w] \cup held'[w] : rel'[r] \in Live \cup {"failed"}
      BY <1>1, <1>2, <1>4
    <3> QED
      BY <3>1, <3>2, <3>3 DEF ListInv, Live
  <2>2. InsertInv(w)'
    BY <1>4 DEF InsertInv
  <2> QED
    BY <2>1, <2>2
<1> QED
  BY <1>3, <1>4, <1>5, WriterOnlyStep DEF Begin, TypeOK

LEMMA SupersedeStep ==
    ASSUME IInv, NEW w \in Writers, Supersede(w)
    PROVE  IInv'
<1> TypeOK /\ ListInv(w) /\ InsertInv(w)
  BY DEF IInv, TxInv
<1>1. PICK r \in todo[w] : /\ todo' = [todo EXCEPT ![w] = @ \ {r}]
                           /\ held' = [held EXCEPT ![w] = @ \cup {r}]
  BY DEF Supersede
<1>2. TypeOK'
  BY <1>1 DEF Supersede, TypeOK
<1>3. ListInv(w)' /\ InsertInv(w)' /\ pc'[w] = "supersede"
  BY <1>1 DEF Supersede, TypeOK, ListInv, InsertInv, InTx
<1> QED
  BY <1>1, <1>2, <1>3, WriterOnlyStep DEF Supersede, TypeOK

LEMMA SupersededAllStep ==
    ASSUME IInv, NEW w \in Writers, SupersededAll(w)
    PROVE  IInv'
<1> TypeOK /\ ListInv(w) /\ InsertInv(w)
  BY DEF IInv, TxInv
<1>1. TypeOK'
  BY DEF SupersededAll, TypeOK, WriterPc, InTx
<1>2. ListInv(w)' /\ InsertInv(w)' /\ pc'[w] = "insert"
  BY DEF SupersededAll, TypeOK, ListInv, InsertInv, InTx
<1> QED
  BY <1>1, <1>2, WriterOnlyStep DEF SupersededAll, TypeOK

LEMMA InsertStep ==
    ASSUME IInv, NEW w \in Writers, Insert(w)
    PROVE  IInv'
<1> TypeOK /\ TxInv /\ ListInv(w) /\ InsertInv(w)
  BY DEF IInv, TxInv
<1>1. TypeOK'
  BY DEF Insert, TypeOK, WriterPc, InTx
<1>2. max[w] = Len(rel)
  BY RelTypes DEF Insert, ListInv, InTx, TypeOK
<1>3. ListInv(w)' /\ InsertInv(w)'
  BY <1>2 DEF Insert, TypeOK, ListInv, InsertInv, InTx
<1>4. ASSUME NEW v \in Writers \ {w} PROVE pc[v] # "commit"
  <2>1. pc[v] = "commit" => max[v] = Len(rel)
    BY DEF TxInv, InsertInv
  <2> QED
    BY <1>2, <2>1 DEF Insert, FreeFor, Locked
<1> QED
  BY <1>1, <1>3, <1>4, WriterOnlyStep DEF Insert, TypeOK

LEMMA ConflictStep ==
    ASSUME IInv, NEW w \in Writers, Conflict(w)
    PROVE  IInv'
<1> TypeOK
  BY DEF IInv
<1>1. pc'[w] \in {"begin", "lost"}
  BY DEF Conflict, TypeOK
<1>2. TypeOK'
  BY <1>1 DEF Conflict, TypeOK, WriterPc, InTx, Returned
<1>3. ListInv(w)' /\ InsertInv(w)'
  BY <1>1 DEF ListInv, InsertInv, InTx
<1> QED
  BY <1>1, <1>2, <1>3, WriterOnlyStep DEF Conflict, TypeOK

LEMMA ErrorStep ==
    ASSUME IInv, NEW w \in Writers, Error(w)
    PROVE  IInv'
<1> TypeOK
  BY DEF IInv
<1>1. pc'[w] = "errored"
  BY DEF Error, TypeOK
<1>2. TypeOK'
  BY <1>1 DEF Error, TypeOK, WriterPc, InTx, Returned
<1>3. ListInv(w)' /\ InsertInv(w)'
  BY <1>1 DEF ListInv, InsertInv, InTx
<1> QED
  BY <1>1, <1>2, <1>3, WriterOnlyStep DEF Error, TypeOK


\* COMMIT: the committed rows after the step, and what they mean.
LEMMA CommitRows ==
    ASSUME IInv, NEW w \in Writers, Commit(w)
    PROVE  /\ rel' \in Seq(Status)
           /\ Len(rel') = Len(rel) + 1
           /\ DOMAIN rel' = 1 .. (Len(rel) + 1)
           /\ \A r \in 1 .. Len(rel) :
                 /\ rel'[r] = IF r \in held[w] THEN sup[w] ELSE rel[r]
                 /\ rel'[r] \in Ended
           /\ rel'[Len(rel) + 1] = "active"
<1> DEFINE f == [r \in DOMAIN rel |-> IF r \in held[w] THEN sup[w] ELSE rel[r]]
<1> TypeOK
  BY DEF IInv
<1>1. f \in [DOMAIN rel -> Status]
  BY RelTypes, Statuses DEF TypeOK
<1>2. "active" \in Status
  BY DEF Status, Live
<1>3. rel' = Append(f, "active")
  BY DEF Commit
<1>4. rel \in Seq(Status)
  BY DEF TypeOK
<1> HIDE DEF f
<1>5. /\ rel' \in Seq(Status)
      /\ Len(rel') = Len(rel) + 1
      /\ DOMAIN rel' = 1 .. (Len(rel) + 1)
      /\ \A r \in 1 .. Len(rel) : rel'[r] = f[r]
      /\ rel'[Len(rel) + 1] = "active"
  BY <1>1, <1>2, <1>3, <1>4, AppendMap
<1>6. ASSUME NEW r \in 1 .. Len(rel)
      PROVE  /\ f[r] = IF r \in held[w] THEN sup[w] ELSE rel[r]
             /\ f[r] \in Ended
  <2>1. f[r] = IF r \in held[w] THEN sup[w] ELSE rel[r]
    BY RelTypes DEF f
  <2>2. sup[w] \in Ended
    BY Statuses DEF TypeOK
  <2>3. max[w] = Len(rel) /\ todo[w] = {}
    BY DEF IInv, TxInv, InsertInv, Commit
  <2>4. rel[r] \in Live => r \in held[w]
    BY <2>3 DEF IInv, TxInv, ListInv, Commit, InTx
  <2>5. rel[r] \in Live \cup Ended
    BY RelTypes, Statuses
  <2> QED
    BY <2>1, <2>2, <2>4, <2>5
<1> QED
  BY <1>5, <1>6

LEMMA CommitStep ==
    ASSUME IInv, NEW w \in Writers, Commit(w)
    PROVE  IInv'
<1> TypeOK
  BY DEF IInv
<1>1. TypeOK'
  BY CommitRows DEF Commit, TypeOK, WriterPc, Returned
<1>2. ASSUME NEW v \in Writers PROVE ListInv(v)' /\ InsertInv(v)'
  <2>1. CASE v = w
    BY <2>1 DEF Commit, TypeOK, ListInv, InsertInv, InTx
  <2>2. CASE v # w
    <3>1. ListInv(v) /\ InsertInv(v)
      BY DEF IInv, TxInv
    <3>2. pc'[v] = pc[v] /\ max'[v] = max[v] /\ todo'[v] = todo[v] /\ held'[v] = held[v]
      BY <2>2 DEF Commit, TypeOK
    <3>3. pc[v] # "commit"
      BY <2>2 DEF IInv, OneCommitting, Commit
    <3>4. max[v] \in Nat
      BY DEF TypeOK
    <3>5. \A r \in 1 .. Len(rel) : rel'[r] \notin Live
      BY CommitRows, Statuses
    <3>6. Len(rel') = Len(rel) + 1 /\ Len(rel) \in Nat
      BY CommitRows, RelTypes
    <3> QED
      BY <3>1, <3>2, <3>3, <3>4, <3>5, <3>6 DEF ListInv, InsertInv
  <2> QED
    BY <2>1, <2>2
<1>3. OneCommitting'
  BY DEF IInv, OneCommitting, Commit, TypeOK
<1>4. NoDeploying'
  BY CommitRows, RelTypes DEF NoDeploying, Ended
<1>5. RecInv'
  BY CommitRows, RelTypes DEF IInv, RecInv, Commit
<1>6. OnlyNewestLive'
  BY CommitRows, RelTypes, Statuses DEF OnlyNewestLive
<1> QED
  BY <1>1, <1>2, <1>3, <1>4, <1>5, <1>6 DEF IInv, TxInv

-----------------------------------------------------------------------------
\* The current release, when there is one, is an active committed row.
LEMMA CurrentIsActive ==
    ASSUME IInv, CurrentRelease # 0
    PROVE  /\ CurrentRelease \in DOMAIN rel
           /\ rel[CurrentRelease] = "active"
<1> TypeOK /\ NoDeploying /\ OnlyNewestLive
  BY DEF IInv
<1>1. LiveRevs # {}
  BY DEF CurrentRelease
<1>2. \A r \in LiveRevs : r = Len(rel)
  BY DEF LiveRevs, OnlyNewestLive
<1>3. \E r \in LiveRevs : \A q \in LiveRevs : q <= r
  BY <1>1, <1>2, RelTypes
<1>4. CurrentRelease \in LiveRevs
  BY <1>1, <1>3 DEF CurrentRelease
<1> QED
  BY <1>4, RelTypes DEF LiveRevs, NoDeploying, Live

LEMMA ReconcileReadStep ==
    ASSUME IInv, NEW t \in Reconcilers, NEW m \in {"running", "failed"}, ReconcileRead(t, m)
    PROVE  IInv'
<1> TypeOK
  BY DEF IInv
<1>1. CurrentRelease \in DOMAIN rel /\ rel[CurrentRelease] = "active"
  BY CurrentIsActive DEF ReconcileRead
<1>2. Target(m) = "failed"
  BY <1>1 DEF ReconcileRead, Target
<1>3. CurrentRelease \in Nat
  BY <1>1, RelTypes
<1>4. TypeOK'
  BY <1>2, <1>3 DEF ReconcileRead, TypeOK, Status, Ended, writerVars
<1>5. RecInv'
  BY <1>1, <1>2 DEF IInv, RecInv, ReconcileRead, TypeOK
<1>6. UNCHANGED <<rel, pc, max, todo, held>>
  BY DEF ReconcileRead, writerVars
<1> QED
  BY <1>4, <1>5, <1>6
  DEF IInv, TxInv, ListInv, InsertInv, OneCommitting, NoDeploying, OnlyNewestLive

\* The row the reconciler writes was failed by it: nothing becomes live.
LEMMA ReconcileWriteRows ==
    ASSUME IInv, NEW t \in Reconcilers, ReconcileWrite(t)
    PROVE  /\ cur[t] \in DOMAIN rel
           /\ rel' = [rel EXCEPT ![cur[t]] = "failed"]
           /\ rel' \in Seq(Status)
           /\ Len(rel') = Len(rel)
           /\ DOMAIN rel' = DOMAIN rel
           /\ \A r \in DOMAIN rel : rel'[r] = rel[r] \/ rel'[r] = "failed"
<1>1. cur[t] \in DOMAIN rel /\ to[t] = "failed"
  BY DEF IInv, RecInv, ReconcileWrite
<1>2. rel' = [rel EXCEPT ![cur[t]] = "failed"]
  BY <1>1 DEF ReconcileWrite
<1>3. rel \in Seq(Status) /\ "failed" \in Status
  BY DEF IInv, TypeOK, Status, Ended
<1> QED
  BY <1>1, <1>2, <1>3

LEMMA ReconcileWriteStep ==
    ASSUME IInv, NEW t \in Reconcilers, ReconcileWrite(t)
    PROVE  IInv'
<1> TypeOK
  BY DEF IInv
<1>1. TypeOK'
  BY ReconcileWriteRows DEF ReconcileWrite, TypeOK, writerVars
<1>2. UNCHANGED <<pc, max, todo, held, to>>
  BY DEF ReconcileWrite, writerVars
<1>3. "failed" \notin Live
  BY DEF Live
<1>4. TxInv'
  <2> SUFFICES ASSUME NEW w \in Writers PROVE ListInv(w)' /\ InsertInv(w)'
    BY DEF TxInv
  <2>1. ListInv(w) /\ InsertInv(w) /\ max[w] \in Nat
    BY DEF IInv, TxInv, TypeOK
  <2> QED
    BY <1>2, <1>3, <2>1, ReconcileWriteRows, RelTypes DEF ListInv, InsertInv
<1>5. OneCommitting'
  BY <1>2 DEF IInv, OneCommitting
<1>6. NoDeploying' /\ OnlyNewestLive'
  BY <1>3, ReconcileWriteRows DEF IInv, NoDeploying, OnlyNewestLive
<1>7. RecInv'
  BY <1>2, ReconcileWriteRows DEF IInv, RecInv, ReconcileWrite, TypeOK
<1> QED
  BY <1>1, <1>4, <1>5, <1>6, <1>7 DEF IInv

-----------------------------------------------------------------------------
LEMMA NextIInv == IInv /\ [Next]_vars => IInv'
<1> SUFFICES ASSUME IInv, [Next]_vars PROVE IInv'
  OBVIOUS
<1>1. ASSUME NEW w \in Writers, WriterStep(w) PROVE IInv'
  BY <1>1, BeginStep, SupersedeStep, SupersededAllStep, InsertStep, ConflictStep, CommitStep
  DEF WriterStep
<1>2. ASSUME NEW w \in Writers, Error(w) PROVE IInv'
  BY <1>2, ErrorStep
<1>3. ASSUME NEW t \in Reconcilers, Tick(t) PROVE IInv'
  BY <1>3, ReconcileReadStep, ReconcileWriteStep DEF Tick
<1>4. CASE UNCHANGED vars
  BY <1>4 DEF vars, writerVars, IInv, TypeOK, TxInv, ListInv, InsertInv, OneCommitting,
              NoDeploying, RecInv, OnlyNewestLive
<1> QED
  BY <1>1, <1>2, <1>3, <1>4 DEF Next

LEMMA Invariance == Spec => []IInv
<1> QED
  BY InitIInv, NextIInv, PTL DEF Spec

\* The rows, the transactions and the ticks are always well typed.
THEOREM TypeCorrect == Spec => []TypeOK
<1>1. IInv => TypeOK
  BY DEF IInv
<1> QED
  BY <1>1, Invariance, PTL

\* However many deploys and reconcilers write the history of an app at once,
\* at most one release is current and it is the newest.
THEOREM OneLiveRelease == Spec => []OnlyNewestLive
<1>1. IInv => OnlyNewestLive
  BY DEF IInv
<1> QED
  BY <1>1, Invariance, PTL

-----------------------------------------------------------------------------
\* What a step does to the committed rows: nothing, a commit, or a failure.
LEMMA RowSteps ==
    ASSUME IInv, [Next]_vars
    PROVE  \/ UNCHANGED rel
           \/ \E w \in Writers : Commit(w)
           \/ \E t \in Reconcilers : ReconcileWrite(t)
  BY DEF Next, WriterStep, Tick, vars, Begin, Supersede, SupersededAll, Insert, Conflict,
         Error, ReconcileRead

\* A release that has been superseded, rolled back or marked failed never
\* becomes current again.
THEOREM EndedForGood == Spec => NeverReanimated
<1>1. ASSUME IInv, [Next]_vars
      PROVE  [\A r \in DOMAIN rel : rel[r] \in Ended => rel'[r] \in Ended]_rel
  <2> DOMAIN rel = 1 .. Len(rel)
    BY <1>1, RelTypes DEF IInv
  <2>1. ASSUME NEW w \in Writers, Commit(w)
        PROVE  \A r \in DOMAIN rel : rel'[r] \in Ended
    BY <1>1, <2>1, CommitRows
  <2>2. ASSUME NEW t \in Reconcilers, ReconcileWrite(t)
        PROVE  \A r \in DOMAIN rel : rel[r] \in Ended => rel'[r] \in Ended
    BY <1>1, <2>2, ReconcileWriteRows DEF Ended
  <2> QED
    BY <1>1, <2>1, <2>2, RowSteps
<1> QED
  BY <1>1, Invariance, PTL DEF Spec, NeverReanimated

\* The rows implement the atomic history: each execution with racing
\* transactions, retries and late reconciler writes is one in which deploys are
\* recorded one at a time.
THEOREM Refinement == Spec => ImplementsHistory
<1>1. Init => History!Init
  BY DEF Init, History!Init
<1>2. ASSUME IInv, [Next]_vars PROVE [History!Next]_rel
  <2> DOMAIN rel = 1 .. Len(rel) /\ rel \in Seq(Status)
    BY <1>2, RelTypes DEF IInv, TypeOK
  <2>1. ASSUME NEW w \in Writers, Commit(w) PROVE History!Record
    <3> DEFINE f == [r \in DOMAIN rel |-> IF r \in held[w] THEN sup[w] ELSE rel[r]]
    <3>1. rel' = Append(f, "active")
      BY <2>1 DEF Commit
    <3>2. ASSUME NEW r \in DOMAIN rel
          PROVE  f[r] \in Ended /\ (f[r] = rel[r] \/ rel[r] \in Live \cup {"failed"})
      <4>1. f[r] \in Ended
        BY <1>2, <2>1, CommitRows
      <4>2. max[w] = Len(rel) /\ ListInv(w)
        BY <1>2, <2>1 DEF IInv, TxInv, InsertInv, Commit
      <4>3. r \in held[w] => rel[r] \in Live \cup {"failed"}
        BY <2>1, <4>2 DEF ListInv, Commit, InTx
      <4> QED
        BY <4>1, <4>3
    <3>3. f \in [DOMAIN rel -> Ended]
      BY <3>2
    <3>4. History!Ended = Ended /\ History!Live = Live
      BY DEF History!Ended, History!Live, Ended, Live
    <3> QED
      BY <3>1, <3>2, <3>3, <3>4 DEF History!Record
  <2>2. ASSUME NEW t \in Reconcilers, ReconcileWrite(t) PROVE History!Fail
    BY <1>2, <2>2, ReconcileWriteRows DEF History!Fail
  <2> QED
    BY <1>2, <2>1, <2>2, RowSteps DEF History!Next
<1> QED
  BY <1>1, <1>2, Invariance, PTL DEF Spec, ImplementsHistory, History!Spec

-----------------------------------------------------------------------------
(* Counting attempts: every conflict a writer meets is a revision that     *)
(* another writer has recorded.                                            *)

Recorded == {w \in Writers : pc[w] = "recorded"}

CountInv ==
    /\ Len(rel) = Cardinality(Recorded)
    /\ \A w \in Writers :
          /\ try[w] <= Len(rel)
          /\ pc[w] \in InTx => try[w] <= max[w]
          /\ pc[w] = "lost" => try[w] >= MaxAttempts

LEMMA InitCountInv == Init => CountInv
<1> SUFFICES ASSUME Init PROVE CountInv
  OBVIOUS
<1>1. Recorded = {}
  BY DEF Init, Recorded
<1>2. Cardinality(Recorded) = 0
  BY <1>1, FS_EmptySet
<1>3. Len(rel) = 0
  BY DEF Init
<1>4. \A w \in Writers : try[w] = 0 /\ pc[w] = "begin"
  BY DEF Init
<1> QED
  BY <1>2, <1>3, <1>4 DEF CountInv, InTx

LEMMA RecordedFinite == IsFiniteSet(Recorded)
  BY FS_Subset, WritersAssumption DEF Recorded

LEMMA NextCountInv == IInv /\ CountInv /\ [Next]_vars => CountInv'
<1> SUFFICES ASSUME IInv, CountInv, [Next]_vars PROVE CountInv'
  OBVIOUS
<1> TypeOK /\ TxInv
  BY DEF IInv
<1> Len(rel) \in Nat
  BY RelTypes
<1>1. ASSUME NEW w \in Writers, Begin(w) PROVE CountInv'
  <2>1. Recorded' = Recorded /\ rel' = rel /\ try' = try
    BY <1>1 DEF Begin, Recorded, TypeOK
  <2> QED
    BY <1>1, <2>1 DEF Begin, CountInv, TypeOK, InTx
<1>2. ASSUME NEW w \in Writers, Supersede(w) \/ SupersededAll(w) \/ Insert(w) \/ Error(w)
      PROVE CountInv'
  <2>1. Recorded' = Recorded /\ rel' = rel /\ try' = try /\ max' = max
    BY <1>2 DEF Supersede, SupersededAll, Insert, Error, Recorded, TypeOK, InTx
  <2>2. \A v \in Writers : /\ pc'[v] \in InTx => pc[v] \in InTx
                           /\ pc'[v] = "lost" => pc[v] = "lost"
    BY <1>2 DEF Supersede, SupersededAll, Insert, Error, TypeOK, InTx
  <2>3. (Len(rel) = Cardinality(Recorded))'
    BY <2>1 DEF CountInv
  <2>4. \A v \in Writers : /\ try'[v] <= Len(rel')
                           /\ pc'[v] \in InTx => try'[v] <= max'[v]
                           /\ pc'[v] = "lost" => try'[v] >= MaxAttempts
    BY <2>1, <2>2 DEF CountInv
  <2> QED
    BY <2>3, <2>4 DEF CountInv, InTx
<1>3. ASSUME NEW w \in Writers, Conflict(w) PROVE CountInv'
  <2>1. Recorded' = Recorded /\ rel' = rel /\ max' = max
    BY <1>3 DEF Conflict, Recorded, TypeOK
  <2>2. pc[w] = "insert" /\ max[w] + 1 <= Len(rel) /\ try[w] <= max[w]
    BY <1>3, RelTypes DEF Conflict, CountInv, InTx
  <2>3. try'[w] = try[w] + 1 /\ try[w] \in Nat /\ max[w] \in Nat /\ MaxAttempts \in Nat
    BY <1>3, MaxAttemptsAssumption DEF Conflict, TypeOK
  <2>4. pc'[w] = IF try[w] + 1 < MaxAttempts THEN "begin" ELSE "lost"
    BY <1>3 DEF Conflict, TypeOK
  <2>5. \A v \in Writers \ {w} : try'[v] = try[v] /\ pc'[v] = pc[v]
    BY <1>3 DEF Conflict, TypeOK
  <2> QED
    BY <2>1, <2>2, <2>3, <2>4, <2>5 DEF CountInv, InTx
<1>4. ASSUME NEW w \in Writers, Commit(w) PROVE CountInv'
  <2>1. Recorded' = Recorded \cup {w} /\ w \notin Recorded
    BY <1>4 DEF Commit, Recorded, TypeOK
  <2>2. Cardinality(Recorded') = Cardinality(Recorded) + 1
    BY <2>1, RecordedFinite, FS_AddElement
  <2>3. Len(rel') = Len(rel) + 1
    BY <1>4, CommitRows
  <2>4. try' = try /\ max' = max /\ \A v \in Writers : try[v] \in Nat
    BY <1>4 DEF Commit, TypeOK
  <2>5. \A v \in Writers : /\ pc'[v] \in InTx => pc[v] \in InTx
                           /\ pc'[v] = "lost" => pc[v] = "lost"
    BY <1>4 DEF Commit, TypeOK, InTx
  <2>6. (Len(rel) = Cardinality(Recorded))'
    BY <2>2, <2>3 DEF CountInv
  <2>7. \A v \in Writers : /\ try'[v] <= Len(rel')
                           /\ pc'[v] \in InTx => try'[v] <= max'[v]
                           /\ pc'[v] = "lost" => try'[v] >= MaxAttempts
    BY <2>3, <2>4, <2>5 DEF CountInv
  <2> QED
    BY <2>6, <2>7 DEF CountInv, InTx
<1>5. ASSUME NEW t \in Reconcilers, Tick(t) PROVE CountInv'
  <2>1. UNCHANGED <<pc, max, try>>
    BY <1>5 DEF Tick, ReconcileRead, ReconcileWrite, writerVars
  <2>2. Len(rel') = Len(rel)
    BY <1>5, ReconcileWriteRows DEF Tick, ReconcileRead
  <2> QED
    BY <2>1, <2>2 DEF CountInv, Recorded
<1>6. CASE UNCHANGED vars
  BY <1>6 DEF vars, writerVars, CountInv, Recorded
<1> QED
  BY <1>1, <1>2, <1>3, <1>4, <1>5, <1>6 DEF Next, WriterStep

\* As long as no more deploys of an app race than recordRelease has attempts,
\* racing deploys never push one out of the history.
THEOREM NoReleaseLost == Spec => []NoneLost
<1>1. ASSUME IInv, CountInv PROVE NoneLost
  <2> SUFFICES ASSUME Cardinality(Writers) <= MaxAttempts,
                      NEW w \in Writers, pc[w] = "lost"
               PROVE  FALSE
    BY DEF NoneLost
  <2>1. Recorded \subseteq Writers \ {w}
    BY DEF Recorded
  <2>2. /\ IsFiniteSet(Writers \ {w})
        /\ Cardinality(Writers \ {w}) = Cardinality(Writers) - 1
    BY WritersAssumption, FS_RemoveElement
  <2>3. Cardinality(Recorded) <= Cardinality(Writers \ {w})
    BY <2>1, <2>2, FS_Subset
  <2>4. /\ Cardinality(Writers) \in Nat
        /\ Cardinality(Recorded) \in Nat
    BY WritersAssumption, RecordedFinite, FS_CardinalityType
  <2>5. try[w] <= Cardinality(Recorded) /\ try[w] >= MaxAttempts /\ try[w] \in Nat
    BY <1>1 DEF CountInv, IInv, TypeOK
  <2> QED
    BY <2>2, <2>3, <2>4, <2>5, MaxAttemptsAssumption
<1> QED
  BY <1>1, InitCountInv, NextCountInv, Invariance, PTL DEF Spec

=============================================================================
