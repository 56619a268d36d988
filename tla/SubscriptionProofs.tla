-------------------------- MODULE SubscriptionProofs --------------------------
(***************************************************************************)
(* The subscription row for any number of deliveries at a time, events and *)
(* failures: its types, that an event which will not come again has had    *)
(* its effect, that no payment revives a canceled subscription, and that   *)
(* events applied in their order leave the row at what the provider says.  *)
(***************************************************************************)
EXTENDS Subscription, TLAPS

EventRecord == [type : Types, status : Statuses \union {"none", "paused"}, period : 0..MaxPeriod, known : BOOLEAN]

\* A delivery works on an event that was sent, with the row it has read, and marks it once it
\* is settled.
Locals ==
    \A h \in Handlers :
        /\ pc[h] # "idle" => ev[h] \in DOMAIN sent
        /\ pc[h] = "write" => copy[h] \in Row
        /\ pc[h] = "mark" => ev[h] \in applied \union dropped

Inv == TypeOK /\ Locals /\ MarkedWasApplied

-----------------------------------------------------------------------------

\* What applying an event makes of a row is a row (applySubscriptionEvent, AdvanceDunning,
\* ClearDunning).
LEMMA AppliedType == ASSUME NEW e \in EventRecord, NEW c \in Row PROVE Applied(e, c) \in Row
<1>1. SubscriptionStatusFromStripe(e.status) \in Statuses
  BY DEF SubscriptionStatusFromStripe, Statuses
<1>2. AdvanceDunning(c) \in Row /\ ClearDunning(c) \in Row
  BY DEF AdvanceDunning, ClearDunning, Row, Statuses
<1>3. e.type \in Types /\ e.period \in 0..MaxPeriod
  BY DEF EventRecord
<1>4. CASE e.type = "checkout"
  BY <1>4 DEF Applied, Row, Statuses
<1>5. CASE e.type = "updated"
  BY <1>1, <1>3, <1>5 DEF Applied, Row
<1>6. CASE e.type = "deleted"
  BY <1>3, <1>6 DEF Applied, Row, Statuses
<1>7. CASE e.type \in {"failed", "succeeded"}
  BY <1>2, <1>7 DEF Applied
<1> QED
  BY <1>3, <1>4, <1>5, <1>6, <1>7 DEF Types

\* A payment leaves a canceled row alone (AdvanceDunning, ClearDunning).
LEMMA CanceledStays ==
    ASSUME NEW e \in EventRecord, NEW c \in Row, c.status = "canceled", Applied(e, c).status # "canceled"
    PROVE  e.type \in {"checkout", "updated"}
  BY DEF EventRecord, Row, Applied, AdvanceDunning, ClearDunning, Types

\* The row of a new subscription (Subscribe).
LEMMA NewRowType == \A p \in Plans : NewRow(p) \in Row
  BY MaxPeriodAssumption DEF NewRow, Row, Statuses

\* Initially nothing was sent (Init).
LEMMA InitInv == Init => Inv
<1> SUFFICES ASSUME Init PROVE Inv
  OBVIOUS
<1>1. row \in Row
  <2>1. CASE \E p \in Plans : row = NewRow(p)
    BY <2>1, NewRowType
  <2>2. CASE \E p \in Plans, s \in {"active", "unpaid"} :
                 row = [status |-> s, plan |-> p, period |-> 0, item |-> TRUE]
    BY <2>2, MaxPeriodAssumption DEF Row, Statuses
  <2> QED
    BY <2>1, <2>2 DEF Init
<1>2. prov \in [status : Statuses \cup {"none", "paused"}, period : 0..MaxPeriod]
  BY MaxPeriodAssumption DEF Init, Statuses
<1>3. /\ sent = <<>> /\ processed = {} /\ applied = {} /\ dropped = {} /\ ordered = TRUE
      /\ subs = 0 /\ faults = 0
      /\ pc = [h \in Handlers |-> "idle"] /\ ev = [h \in Handlers |-> 0]
      /\ copy = [h \in Handlers |-> NoRow]
  BY DEF Init
<1>4. TypeOK
  BY <1>1, <1>2, <1>3 DEF TypeOK
<1>5. Locals /\ MarkedWasApplied
  BY <1>3 DEF Locals, MarkedWasApplied
<1> QED
  BY <1>4, <1>5 DEF Inv

\* The provider only adds to what it has sent (Emits).
LEMMA ProviderStep == Inv /\ Provider => Inv'
<1> SUFFICES ASSUME Inv, Provider PROVE Inv'
  OBVIOUS
<1> USE DEF Inv, TypeOK
<1>1. ASSUME NEW events \in Seq(EventRecord), sent' = sent \o events,
             prov' \in [status : Statuses \cup {"none", "paused"}, period : 0..MaxPeriod],
             UNCHANGED <<row, subs, processed, pc, ev, copy, applied, ordered, dropped, faults>>
      PROVE  Inv'
  <2>1. sent' \in Seq(EventRecord) /\ DOMAIN sent \subseteq DOMAIN sent' /\ Len(sent) <= Len(sent')
    BY <1>1 DEF EventRecord
  <2>2. ev \in [Handlers -> 0..Len(sent')]
    <3>1. Len(sent) \in Nat /\ Len(sent') \in Nat
      BY <2>1 DEF EventRecord
    <3>2. 0..Len(sent) \subseteq 0..Len(sent')
      BY <2>1, <3>1
    <3> QED
      BY <3>2
  <2>3. TypeOK'
    BY <1>1, <2>1, <2>2 DEF EventRecord
  <2>4. Locals' /\ MarkedWasApplied'
    BY <1>1, <2>1 DEF Locals, MarkedWasApplied
  <2> QED
    BY <2>3, <2>4
<1>2. ASSUME NEW s \in Statuses \cup {"none", "paused"}, NEW p \in Nat, NEW types \in Seq(Types),
             Emits(s, p, types)
      PROVE  Inv'
  <2>1. prov' = [status |-> s, period |-> p] /\ p \in 0..MaxPeriod
    BY <1>2, MaxPeriodAssumption DEF Emits
  <2>2. \A i \in 1..Len(types) : Event(types[i]) \in EventRecord
    BY <2>1 DEF Event, EventRecord
  <2>3. [i \in 1..Len(types) |-> Event(types[i])] \in Seq(EventRecord)
    BY <2>2
  <2>4. prov' \in [status : Statuses \cup {"none", "paused"}, period : 0..MaxPeriod]
    BY <2>1
  <2>5. /\ sent' = sent \o [i \in 1..Len(types) |-> Event(types[i])]
        /\ UNCHANGED <<row, subs, processed, pc, ev, copy, applied, ordered, dropped, faults>>
    BY <1>2 DEF Emits
  <2> QED
    BY ONLY <1>1, <2>3, <2>4, <2>5
<1>3. prov.status \in Statuses \cup {"none", "paused"} /\ prov.period \in Nat /\ prov.period + 1 \in Nat
  BY MaxPeriodAssumption
<1>4. /\ {"active", "past_due", "canceled"} \union Announced \subseteq Statuses \cup {"none", "paused"}
      /\ "active" \in Statuses \cup {"none", "paused"} /\ "past_due" \in Statuses \cup {"none", "paused"}
      /\ "canceled" \in Statuses \cup {"none", "paused"}
  BY AnnouncedAssumption DEF Statuses
<1>t. \A a, b \in Types : <<a>> \in Seq(Types) /\ <<a, b>> \in Seq(Types)
  OBVIOUS
<1>u. /\ "checkout" \in Types /\ "updated" \in Types /\ "failed" \in Types
      /\ "succeeded" \in Types /\ "deleted" \in Types
  BY DEF Types
<1>5. CASE CheckoutPaid
  <2>1. Emits("active", prov.period + 1, <<"checkout", "updated">>)
    BY <1>5 DEF CheckoutPaid
  <2> QED
    BY ONLY <1>2, <1>3, <1>4, <1>t, <1>u, <2>1
<1>6. CASE PaymentFails
  <2>1. \E types \in {<<"failed", "updated">>, <<"updated", "failed">>} : Emits("past_due", prov.period, types)
    BY <1>6 DEF PaymentFails
  <2> QED
    BY ONLY <1>2, <1>3, <1>4, <1>t, <1>u, <2>1
<1>7. CASE PaymentSucceeds
  <2>1. \E types \in {<<"succeeded", "updated">>, <<"updated", "succeeded">>} : Emits("active", prov.period, types)
    BY <1>7 DEF PaymentSucceeds
  <2> QED
    BY ONLY <1>2, <1>3, <1>4, <1>t, <1>u, <2>1
<1>8. CASE Renews
  <2>1. Emits("active", prov.period + 1, <<"updated">>)
    BY <1>8 DEF Renews
  <2> QED
    BY ONLY <1>2, <1>3, <1>4, <1>t, <1>u, <2>1
<1>9. CASE Changes
  <2>1. PICK s \in Announced : Emits(s, prov.period, <<"updated">>)
    BY <1>9 DEF Changes
  <2>2. s \in Statuses \cup {"none", "paused"} /\ <<"updated">> \in Seq(Types)
    BY <1>4 DEF Types
  <2> QED
    BY <1>2, <1>3, <2>1, <2>2
<1>10. CASE Cancels
  <2>1. Emits("canceled", prov.period, <<"deleted">>)
    BY <1>10 DEF Cancels
  <2> QED
    BY ONLY <1>2, <1>3, <1>4, <1>t, <1>u, <2>1
<1>11. CASE Unmapped
  <2> DEFINE e == [type |-> "updated", status |-> "active", period |-> 0, known |-> FALSE]
  <2>1. e \in EventRecord
    BY MaxPeriodAssumption DEF EventRecord, Types, Statuses
  <2>2. sent' = Append(sent, e)
    BY <1>11 DEF Unmapped
  <2> HIDE DEF e
  <2>3. sent' = sent \o <<e>> /\ <<e>> \in Seq(EventRecord)
    BY <2>1, <2>2 DEF EventRecord
  <2> QED
    BY <1>1, <1>11, <2>3 DEF Unmapped
<1> QED
  BY <1>5, <1>6, <1>7, <1>8, <1>9, <1>10, <1>11 DEF Provider

\* The event of a delivery, and the row it writes (ProcessEvent).
LEMMA Handled ==
    ASSUME TypeOK, Locals, NEW h \in Handlers
    PROVE  /\ pc[h] # "idle" => sent[ev[h]] \in EventRecord /\ ev[h] \in DOMAIN sent
           /\ pc[h] = "write" => Applied(sent[ev[h]], copy[h]) \in Row
<1>1. pc[h] # "idle" => ev[h] \in DOMAIN sent
  BY DEF Locals
<1>2. \A i \in DOMAIN sent : sent[i] \in EventRecord
  <2>1. sent \in Seq(EventRecord)
    BY DEF TypeOK, EventRecord
  <2> QED
    BY <2>1
<1>3. pc[h] = "write" => copy[h] \in Row
  BY DEF Locals
<1> QED
  BY <1>1, <1>2, <1>3, AppliedType

\* Every call of a delivery and of Subscribe (ProcessEvent, MarkEventProcessed).
LEMMA ServiceStep == Inv /\ [Next]_vars => Inv'
<1> SUFFICES ASSUME Inv, [Next]_vars PROVE Inv'
  OBVIOUS
<1> USE DEF Inv, TypeOK, Locals, MarkedWasApplied
<1>1. CASE Provider
  BY <1>1, ProviderStep
<1>2. ASSUME NEW p \in Plans, Subscribe(p) PROVE Inv'
  BY <1>2, NewRowType DEF Subscribe
<1>3. ASSUME NEW h \in Handlers, NEW i \in Ids, Deliver(h, i) PROVE Inv'
  <2>1. i \in DOMAIN sent /\ i \in 0..Len(sent)
    BY <1>3 DEF Deliver
  <2> QED
    BY <1>3, <2>1 DEF Deliver
<1>4. ASSUME NEW h \in Handlers, NEW i \in Ids, Answer(h, i) PROVE Inv'
  BY <1>4 DEF Answer, vars
<1>5. ASSUME NEW h \in Handlers, Read(h) PROVE Inv'
  BY <1>5, Handled DEF Read, Settles
<1>6. ASSUME NEW h \in Handlers, Write(h) PROVE Inv'
  BY <1>6, Handled DEF Write, Settles
<1>7. ASSUME NEW h \in Handlers, MarkEventProcessed(h) PROVE Inv'
  BY <1>7, Handled DEF MarkEventProcessed, Return
<1>8. ASSUME NEW h \in Handlers, ReadErrs(h) PROVE Inv'
  BY <1>8, Handled DEF ReadErrs
<1>9. ASSUME NEW h \in Handlers, Fail(h) PROVE Inv'
  BY <1>9 DEF Fail, Return
<1>10. CASE UNCHANGED vars
  BY <1>10 DEF vars
<1> QED
  BY <1>1, <1>2, <1>3, <1>4, <1>5, <1>6, <1>7, <1>8, <1>9, <1>10 DEF Next, Handle

\* The invariant (Spec).
LEMMA Invariant == Spec => []Inv
  BY InitInv, ServiceStep, PTL DEF Spec

\* Types (TypeOK).
THEOREM TypeCorrect == Spec => []TypeOK
<1>1. Inv => TypeOK
  BY DEF Inv
<1> QED
  BY <1>1, Invariant, PTL

\* An event that will not be delivered again has been applied, or its row could not be read
\* (ProcessEvent, resolveOrg).
THEOREM NoEventIsLost == Spec => []MarkedWasApplied
<1>1. Inv => MarkedWasApplied
  BY DEF Inv
<1> QED
  BY <1>1, Invariant, PTL

\* No step lets a payment revive a canceled subscription, but with a row it read before
\* (ClearDunning, AdvanceDunning).
THEOREM CanceledForGood == Spec => PaymentNeverRevives
<1> DEFINE Revives ==
             row.status = "canceled" /\ row'.status # "canceled" =>
                 \/ subs' # subs
                 \/ \E h \in Handlers : /\ pc[h] = "write" /\ pc'[h] = "mark"
                                        /\ sent[ev[h]].type \in {"checkout", "updated"} \/ copy[h] # row
<1>1. Inv /\ [Next]_vars => [Revives]_vars
  <2> SUFFICES ASSUME Inv, Next, row.status = "canceled", row'.status # "canceled" PROVE Revives
    BY DEF vars
  <2>1. ASSUME NEW p \in Plans, Subscribe(p) PROVE Revives
    BY <2>1 DEF Subscribe, Inv, TypeOK
  <2>2. ASSUME NEW h \in Handlers, Write(h) PROVE Revives
    <3>1. pc[h] = "write" /\ pc'[h] = "mark" /\ row' = Applied(sent[ev[h]], copy[h])
      BY <2>2 DEF Write, Inv, TypeOK
    <3>2. copy[h] \in Row /\ sent[ev[h]] \in EventRecord
      BY <3>1, Handled DEF Inv, Locals
    <3> QED
      BY <3>1, <3>2, CanceledStays
  <2>3. ASSUME UNCHANGED row PROVE Revives
    BY <2>3
  <2>4. CASE Provider
    BY <2>3, <2>4 DEF Provider, CheckoutPaid, PaymentFails, PaymentSucceeds, Renews, Changes, Cancels, Unmapped, Emits
  <2>5. ASSUME NEW h \in Handlers,
               \/ \E i \in Ids : Deliver(h, i) \/ Answer(h, i)
               \/ Read(h) \/ MarkEventProcessed(h) \/ ReadErrs(h) \/ Fail(h)
        PROVE  Revives
    BY <2>3, <2>5 DEF Deliver, Answer, Read, MarkEventProcessed, ReadErrs, Fail, vars
  <2> HIDE DEF Revives
  <2> QED
    BY <2>1, <2>2, <2>4, <2>5 DEF Next, Handle
<1> QED
  BY <1>1, Invariant, PTL DEF Spec, PaymentNeverRevives

-----------------------------------------------------------------------------
(* The row tells what the provider said last.                              *)

\* The last event up to the k-th that is of this org, and that there is none.
LastKnown(q, j, k) == j \in 1..k /\ q[j].known /\ \A i \in (j + 1)..k : ~q[i].known
NoneKnown(q, k) == \A i \in 1..k : ~q[i].known

\* The event e tells of the status that it leads to.
Tells(e) ==
    /\ e.type \in {"checkout", "succeeded"} => e.status = "active"
    /\ e.type = "failed" => e.status = "past_due"
    /\ e.type = "deleted" => e.status = "canceled"

\* It may come after the status s of period p was announced: a payment moves no period.
MayFollow(e, s, p) ==
    /\ e.type = "failed" => s \in {"active", "past_due"} /\ e.period = p
    /\ e.type = "succeeded" => s \in {"active", "past_due", "unpaid"} /\ e.period = p

\* Each event of the org follows from the one announced before it; a checkout, which says
\* nothing of the period, is followed by the event that does.
Chained(q) ==
    \A i \in DOMAIN q : q[i].known =>
        /\ Tells(q[i])
        /\ \A j \in DOMAIN q : LastKnown(q, j, i - 1) =>
              /\ MayFollow(q[i], q[j].status, q[j].period)
              /\ q[j].type = "checkout" => q[i].type = "updated"

\* The last one announced is the status s of period p.
EndsWith(q, s, p) ==
    /\ \A j \in DOMAIN q : LastKnown(q, j, Len(q)) => q[j].status = s /\ q[j].period = p
    /\ \A k \in 0..Len(q) : NoneKnown(q, k) \/ \E j \in DOMAIN q : LastKnown(q, j, k)

\* ... by an event that says all of it.
EndsWhole(q) == \A j \in DOMAIN q : LastKnown(q, j, Len(q)) => q[j].type # "checkout"

\* The row w, once the first k events were applied to it in order: it says what the last of
\* them announced, or else what the provider said before all of them.
Agrees(q, w, k, s, p) == w.item =>
    /\ \A j \in DOMAIN q : LastKnown(q, j, k) =>
          /\ w.status = SubscriptionStatusFromStripe(q[j].status)
          /\ q[j].type # "checkout" => w.period = q[j].period
    /\ NoneKnown(q, k) =>
          /\ NoneKnown(q, Len(q)) => w.status = s /\ w.period = p
          /\ \A i \in DOMAIN q : q[i].known /\ NoneKnown(q, i - 1) => MayFollow(q[i], w.status, w.period)

\* Nothing was sent out of turn; while nothing is applied out of turn either, the row is what
\* the events up to the last applied one make of it.
Follows ==
    /\ Chained(sent) /\ EndsWith(sent, prov.status, prov.period) /\ EndsWhole(sent)
    /\ \A h \in Handlers : pc[h] = "write" => sent[ev[h]].known
    /\ ordered => \A k \in 0..Len(sent) : applied = 1..k => Agrees(sent, row, k, prov.status, prov.period)

\* What is sent later changes nothing of what came before (Emits).
LEMMA SameBefore ==
    ASSUME NEW q \in Seq(EventRecord), NEW e \in EventRecord, NEW r, r = Append(q, e)
    PROVE  /\ Len(r) = Len(q) + 1 /\ Len(q) \in Nat
           /\ DOMAIN q = 1..Len(q) /\ DOMAIN r = 1..(Len(q) + 1)
           /\ \A i \in 1..Len(q) : r[i] = q[i]
           /\ r[Len(q) + 1] = e
           /\ \A k \in 0..Len(q) : NoneKnown(r, k) <=> NoneKnown(q, k)
           /\ \A k \in 0..Len(q) : \A j : LastKnown(r, j, k) <=> LastKnown(q, j, k)
<1>1. /\ Len(r) = Len(q) + 1 /\ Len(q) \in Nat
      /\ DOMAIN q = 1..Len(q) /\ DOMAIN r = 1..(Len(q) + 1)
      /\ \A i \in 1..Len(q) : r[i] = q[i]
      /\ r[Len(q) + 1] = e
  OBVIOUS
<1>2. \A k \in 0..Len(q) : NoneKnown(r, k) <=> NoneKnown(q, k)
  BY <1>1 DEF NoneKnown
<1>3. ASSUME NEW k \in 0..Len(q), NEW j PROVE LastKnown(r, j, k) <=> LastKnown(q, j, k)
  <2>1. \A i \in 1..k : r[i] = q[i]
    BY <1>1
  <2>2. j \in 1..k => \A i \in (j + 1)..k : i \in 1..k
    BY <1>1
  <2> QED
    BY <2>1, <2>2 DEF LastKnown
<1> QED
  BY <1>1, <1>2, <1>3

\* An event of the org that may follow keeps the chain, and becomes its end (Emits).
LEMMA Announces ==
    ASSUME NEW q \in Seq(EventRecord), NEW e \in EventRecord, NEW s, NEW p, NEW r, r = Append(q, e),
           e.known, Tells(e), MayFollow(e, s, p), EndsWhole(q) \/ e.type = "updated",
           Chained(q), EndsWith(q, s, p)
    PROVE  /\ Chained(r) /\ EndsWith(r, e.status, e.period)
           /\ e.type # "checkout" => EndsWhole(r)
           /\ \A k \in 0..Len(q) : \A w : Agrees(q, w, k, s, p) => Agrees(r, w, k, e.status, e.period)
<1> DEFINE n == Len(q) + 1
<1>1. /\ Len(r) = n /\ Len(q) \in Nat /\ n \in Nat /\ n - 1 = Len(q)
      /\ DOMAIN q = 1..Len(q) /\ DOMAIN r = 1..n
      /\ \A i \in 1..Len(q) : r[i] = q[i] /\ i - 1 \in 0..Len(q)
      /\ r[n] = e
      /\ \A i \in 1..n : i \in 1..Len(q) \/ i = n
      /\ \A k \in 0..Len(q) : \A j \in 1..k : j \in 1..Len(q)
      /\ n \in 1..n /\ Len(q) \in 0..Len(q) /\ \A i \in 1..Len(q) : i # n /\ i \in 1..n
  BY SameBefore
<1>2. \A k \in 0..Len(q) : NoneKnown(r, k) <=> NoneKnown(q, k)
  BY SameBefore
<1>3. \A k \in 0..Len(q) : \A j : LastKnown(r, j, k) <=> LastKnown(q, j, k)
  BY SameBefore
<1>4. \A k \in 0..Len(q) : \A j : LastKnown(q, j, k) => j \in 1..Len(q)
  BY <1>1 DEF LastKnown
<1>5. \A j : LastKnown(r, j, n) <=> j = n
  <2>1. \A j \in 1..n : j # n => n \in (j + 1)..n
    BY <1>1
  <2>2. \A j : LastKnown(r, j, n) => j \in 1..n /\ \A i \in (j + 1)..n : ~r[i].known
    BY DEF LastKnown
  <2>3. LastKnown(r, n, n)
    BY <1>1 DEF LastKnown
  <2> QED
    BY <1>1, <2>1, <2>2, <2>3
<1>6. ~NoneKnown(r, n)
  BY <1>1 DEF NoneKnown
<1> HIDE DEF n
<1>7. Chained(r)
  <2> SUFFICES ASSUME NEW i \in DOMAIN r, r[i].known
               PROVE  /\ Tells(r[i])
                      /\ \A j \in DOMAIN r : LastKnown(r, j, i - 1) =>
                            /\ MayFollow(r[i], r[j].status, r[j].period)
                            /\ r[j].type = "checkout" => r[i].type = "updated"
    BY DEF Chained
  <2>1. CASE i \in 1..Len(q)
    BY <1>1, <1>3, <1>4, <2>1 DEF Chained
  <2>2. CASE i = n
    <3> SUFFICES ASSUME NEW j \in DOMAIN r, LastKnown(r, j, Len(q))
                 PROVE  /\ MayFollow(e, r[j].status, r[j].period)
                        /\ r[j].type = "checkout" => e.type = "updated"
      BY <1>1, <2>2
    <3>1. LastKnown(q, j, Len(q)) /\ j \in DOMAIN q /\ r[j] = q[j]
      BY <1>1, <1>3, <1>4
    <3>2. q[j].status = s /\ q[j].period = p
      BY <3>1 DEF EndsWith
    <3> QED
      BY <3>1, <3>2 DEF EndsWhole
  <2> QED
    BY <1>1, <2>1, <2>2
<1>8. EndsWith(r, e.status, e.period)
  <2>1. \A j \in DOMAIN r : LastKnown(r, j, Len(r)) => r[j].status = e.status /\ r[j].period = e.period
    BY <1>1, <1>5
  <2>2. ASSUME NEW k \in 0..Len(r) PROVE NoneKnown(r, k) \/ \E j \in DOMAIN r : LastKnown(r, j, k)
    <3>1. k \in 0..Len(q) \/ k = n
      BY <1>1
    <3>2. CASE k \in 0..Len(q)
      BY <1>1, <1>2, <1>3, <3>2 DEF EndsWith
    <3>3. CASE k = n
      BY <1>1, <1>5, <3>3
    <3> QED
      BY <3>1, <3>2, <3>3
  <2> QED
    BY <2>1, <2>2 DEF EndsWith
<1>9. e.type # "checkout" => EndsWhole(r)
  BY <1>1, <1>5 DEF EndsWhole
<1>10. ASSUME NEW k \in 0..Len(q), NEW w, Agrees(q, w, k, s, p), w.item
       PROVE  /\ \A j \in DOMAIN r : LastKnown(r, j, k) =>
                    /\ w.status = SubscriptionStatusFromStripe(r[j].status)
                    /\ r[j].type # "checkout" => w.period = r[j].period
              /\ NoneKnown(r, k) => \A i \in DOMAIN r : r[i].known /\ NoneKnown(r, i - 1) =>
                    MayFollow(r[i], w.status, w.period)
  <2>1. ASSUME NEW j \in DOMAIN r, LastKnown(r, j, k)
        PROVE  /\ w.status = SubscriptionStatusFromStripe(r[j].status)
               /\ r[j].type # "checkout" => w.period = r[j].period
    <3>1. LastKnown(q, j, k) /\ j \in DOMAIN q /\ r[j] = q[j]
      BY <1>1, <1>3, <1>4, <2>1
    <3> QED
      BY <3>1, <1>10 DEF Agrees
  <2>2. ASSUME NoneKnown(r, k), NEW i \in DOMAIN r, r[i].known, NoneKnown(r, i - 1)
        PROVE  MayFollow(r[i], w.status, w.period)
    <3>1. NoneKnown(q, k)
      BY <1>2, <2>2
    <3>2. CASE i \in 1..Len(q)
      <4>1. r[i] = q[i] /\ i \in DOMAIN q /\ NoneKnown(q, i - 1)
        BY <1>1, <1>2, <2>2, <3>2
      <4> QED
        BY <1>10, <2>2, <3>1, <4>1 DEF Agrees
    <3>3. CASE i = n
      <4>1. r[i] = e /\ NoneKnown(q, Len(q))
        BY <1>1, <1>2, <2>2, <3>3
      <4>2. w.status = s /\ w.period = p
        BY <1>10, <3>1, <4>1 DEF Agrees
      <4> QED
        BY <4>1, <4>2
    <3> QED
      BY <1>1, <3>2, <3>3
  <2> QED
    BY <2>1, <2>2
<1>11. ~NoneKnown(r, Len(r))
  BY <1>1, <1>6
<1>12. \A k \in 0..Len(q) : \A w : Agrees(q, w, k, s, p) => Agrees(r, w, k, e.status, e.period)
  BY <1>10, <1>11 DEF Agrees
<1> QED
  BY <1>7, <1>8, <1>9, <1>12

\* An event of no org changes nothing of the chain (Unmapped).
LEMMA Ignores ==
    ASSUME NEW q \in Seq(EventRecord), NEW e \in EventRecord, NEW s, NEW p, NEW r, r = Append(q, e),
           ~e.known, Chained(q), EndsWith(q, s, p), EndsWhole(q)
    PROVE  /\ Chained(r) /\ EndsWith(r, s, p) /\ EndsWhole(r)
           /\ \A k \in 0..Len(q) : \A w : Agrees(q, w, k, s, p) => Agrees(r, w, k, s, p)
<1> DEFINE n == Len(q) + 1
<1>1. /\ Len(r) = n /\ Len(q) \in Nat /\ n \in Nat /\ n - 1 = Len(q)
      /\ DOMAIN q = 1..Len(q) /\ DOMAIN r = 1..n
      /\ \A i \in 1..Len(q) : r[i] = q[i] /\ i - 1 \in 0..Len(q)
      /\ r[n] = e
      /\ \A i \in 1..n : i \in 1..Len(q) \/ i = n
      /\ \A k \in 0..n : k \in 0..Len(q) \/ k = n
      /\ n \in 1..n /\ Len(q) \in 0..Len(q) /\ \A i \in 1..Len(q) : i # n /\ i \in 1..n
  BY SameBefore
<1>2. \A k \in 0..Len(q) : NoneKnown(r, k) <=> NoneKnown(q, k)
  BY SameBefore
<1>3. \A k \in 0..Len(q) : \A j : LastKnown(r, j, k) <=> LastKnown(q, j, k)
  BY SameBefore
<1>4. \A k \in 0..Len(q) : \A j : LastKnown(q, j, k) => j \in 1..Len(q)
  BY <1>1 DEF LastKnown
<1>5. \A j : LastKnown(r, j, n) <=> LastKnown(q, j, Len(q))
  <2>1. LastKnown(r, n, n) => FALSE
    BY <1>1 DEF LastKnown
  <2>2. \A j \in 1..Len(q) : \A i \in (j + 1)..n : i \in (j + 1)..Len(q) \/ i = n
    BY <1>1
  <2>3. \A j \in 1..Len(q) : \A i \in (j + 1)..Len(q) : i \in (j + 1)..n /\ i \in 1..Len(q)
    BY <1>1
  <2>4. ASSUME NEW j \in 1..Len(q) PROVE LastKnown(r, j, n) <=> LastKnown(q, j, Len(q))
    BY <1>1, <2>2, <2>3 DEF LastKnown
  <2>5. \A j : LastKnown(r, j, n) => j \in 1..Len(q)
    <3>1. \A j : LastKnown(r, j, n) => j \in 1..n
      BY DEF LastKnown
    <3> QED
      BY <1>1, <2>1, <3>1
  <2> QED
    BY <1>1, <1>4, <2>4, <2>5
<1>6. NoneKnown(r, n) <=> NoneKnown(q, Len(q))
  BY <1>1 DEF NoneKnown
<1> HIDE DEF n
<1>7. Chained(r)
  BY <1>1, <1>3, <1>4 DEF Chained
<1>8. EndsWith(r, s, p) /\ EndsWhole(r)
  <2>1. ASSUME NEW j \in DOMAIN r, LastKnown(r, j, Len(r))
        PROVE  r[j].status = s /\ r[j].period = p /\ r[j].type # "checkout"
    <3>1. LastKnown(q, j, Len(q)) /\ j \in DOMAIN q /\ r[j] = q[j]
      BY <1>1, <1>4, <1>5, <2>1
    <3> QED
      BY <3>1 DEF EndsWith, EndsWhole
  <2>2. ASSUME NEW k \in 0..Len(r) PROVE NoneKnown(r, k) \/ \E j \in DOMAIN r : LastKnown(r, j, k)
    <3>1. \A m \in 0..Len(q) : NoneKnown(q, m) \/ \E j \in DOMAIN q : LastKnown(q, j, m)
      BY DEF EndsWith
    <3>2. CASE k \in 0..Len(q)
      BY <1>1, <1>2, <1>3, <3>1, <3>2
    <3>3. CASE k = n
      BY <1>1, <1>5, <1>6, <3>1, <3>3
    <3> QED
      BY <1>1, <3>2, <3>3
  <2> QED
    BY <2>1, <2>2 DEF EndsWith, EndsWhole
<1>9. ASSUME NEW k \in 0..Len(q), NEW w, Agrees(q, w, k, s, p), w.item
      PROVE  /\ \A j \in DOMAIN r : LastKnown(r, j, k) =>
                   /\ w.status = SubscriptionStatusFromStripe(r[j].status)
                   /\ r[j].type # "checkout" => w.period = r[j].period
             /\ NoneKnown(r, k) =>
                   /\ NoneKnown(r, Len(r)) => w.status = s /\ w.period = p
                   /\ \A i \in DOMAIN r : r[i].known /\ NoneKnown(r, i - 1) => MayFollow(r[i], w.status, w.period)
  <2>1. ASSUME NEW j \in DOMAIN r, LastKnown(r, j, k)
        PROVE  /\ w.status = SubscriptionStatusFromStripe(r[j].status)
               /\ r[j].type # "checkout" => w.period = r[j].period
    <3>1. LastKnown(q, j, k) /\ j \in DOMAIN q /\ r[j] = q[j]
      BY <1>1, <1>3, <1>4, <2>1
    <3> QED
      BY <3>1, <1>9 DEF Agrees
  <2>2. ASSUME NoneKnown(r, k), NoneKnown(r, Len(r)) PROVE w.status = s /\ w.period = p
    <3>1. NoneKnown(q, k) /\ NoneKnown(q, Len(q))
      BY <1>1, <1>2, <1>6, <2>2
    <3> QED
      BY <1>9, <3>1 DEF Agrees
  <2>3. ASSUME NoneKnown(r, k), NEW i \in DOMAIN r, r[i].known, NoneKnown(r, i - 1)
        PROVE  MayFollow(r[i], w.status, w.period)
    <3>1. NoneKnown(q, k) /\ i \in DOMAIN q /\ r[i] = q[i] /\ NoneKnown(q, i - 1)
      BY <1>1, <1>2, <2>3
    <3> QED
      BY <1>9, <2>3, <3>1 DEF Agrees
  <2> QED
    BY <2>1, <2>2, <2>3
<1>10. \A k \in 0..Len(q) : \A w : Agrees(q, w, k, s, p) => Agrees(r, w, k, s, p)
  BY <1>9 DEF Agrees
<1> QED
  BY <1>7, <1>8, <1>10

\* The event i applied to the row as it was before it, or after it: the row as it is after it
\* (ProcessEvent: an event applied twice in a row is as if applied once).
LEMMA AppliesNext ==
    ASSUME NEW q \in Seq(EventRecord), NEW s, NEW p, NEW i \in DOMAIN q, q[i].known,
           NEW w \in Row, NEW k \in {i - 1, i}, Agrees(q, w, k, s, p), Chained(q), EndsWith(q, s, p)
    PROVE  Agrees(q, Applied(q[i], w), i, s, p)
<1> DEFINE e == q[i]
           v == Applied(e, w)
<1>1. i \in Nat /\ i \in 1..i /\ i \in 1..Len(q) /\ i - 1 \in 0..Len(q) /\ e \in EventRecord /\ Len(q) \in Nat
  OBVIOUS
<1>2. ~NoneKnown(q, i)
  BY <1>1 DEF NoneKnown
<1>3. \A j : LastKnown(q, j, i) <=> j = i
  <2>1. \A j \in 1..i : j # i => i \in (j + 1)..i
    BY <1>1
  <2>2. \A j : LastKnown(q, j, i) => j \in 1..i /\ \A m \in (j + 1)..i : ~q[m].known
    BY DEF LastKnown
  <2>3. LastKnown(q, i, i)
    BY <1>1 DEF LastKnown
  <2> QED
    BY <1>1, <2>1, <2>2, <2>3
<1>4. Tells(e)
  BY DEF Chained
<1>5. e.type \in Types /\ e.status \in Statuses \union {"none", "paused"}
  BY <1>1 DEF EventRecord
<1>6. ASSUME v.item
      PROVE  v.status = SubscriptionStatusFromStripe(e.status) /\ (e.type # "checkout" => v.period = e.period)
  <2>1. CASE e.type = "checkout"
    <3>1. e.status = "active"
      BY <1>4, <2>1 DEF Tells
    <3> QED
      BY <2>1, <3>1 DEF Applied, SubscriptionStatusFromStripe, Statuses, Row
  <2>2. CASE e.type = "updated"
    BY <2>2 DEF Applied, Row
  <2>3. CASE e.type = "deleted"
    <3>1. e.status = "canceled"
      BY <1>4, <2>3 DEF Tells
    <3> QED
      BY <2>3, <3>1 DEF Applied, SubscriptionStatusFromStripe, Statuses, Row
  <2>4. ASSUME e.type \in {"failed", "succeeded"}
        PROVE  /\ w.item
               /\ \/ w.status = SubscriptionStatusFromStripe(e.status) /\ w.period = e.period
                  \/ MayFollow(e, w.status, w.period)
    <3>1. w.item
      BY <1>6, <2>4 DEF Applied, AdvanceDunning, ClearDunning, Row
    <3>2. CASE k = i
      BY <1>3, <2>4, <3>1, <3>2 DEF Agrees
    <3>3. CASE k = i - 1
      <4>1. CASE NoneKnown(q, i - 1)
        BY <3>1, <3>3, <4>1 DEF Agrees
      <4>2. ASSUME NEW j \in DOMAIN q, LastKnown(q, j, i - 1) PROVE MayFollow(e, w.status, w.period)
        <5>1. MayFollow(e, q[j].status, q[j].period) /\ q[j].type # "checkout"
          BY <2>4, <4>2 DEF Chained
        <5>2. w.status = SubscriptionStatusFromStripe(q[j].status) /\ w.period = q[j].period
          BY <3>1, <3>3, <4>2, <5>1 DEF Agrees
        <5>3. q[j].status \in {"active", "past_due", "unpaid"}
          BY <2>4, <5>1 DEF MayFollow
        <5>4. w.status = q[j].status
          BY <5>2, <5>3 DEF SubscriptionStatusFromStripe, Statuses
        <5> QED
          BY <5>1, <5>2, <5>4
      <4> QED
        BY <1>1, <3>1, <4>1, <4>2 DEF EndsWith
    <3> QED
      BY <3>1, <3>2, <3>3
  <2>5. CASE e.type = "failed"
    <3>1. e.status = "past_due" /\ SubscriptionStatusFromStripe(e.status) = "past_due"
      BY <1>4, <2>5 DEF Tells, SubscriptionStatusFromStripe, Statuses
    <3>2. w.status \in {"active", "past_due"} /\ w.period = e.period
      BY <2>4, <2>5, <3>1 DEF MayFollow
    <3>3. v = AdvanceDunning(w)
      BY <2>5 DEF Applied
    <3> QED
      BY <3>1, <3>2, <3>3 DEF AdvanceDunning, Row
  <2>6. CASE e.type = "succeeded"
    <3>1. e.status = "active" /\ SubscriptionStatusFromStripe(e.status) = "active"
      BY <1>4, <2>6 DEF Tells, SubscriptionStatusFromStripe, Statuses
    <3>2. w.status \in {"active", "past_due", "unpaid"} /\ w.period = e.period
      BY <2>4, <2>6, <3>1 DEF MayFollow
    <3>3. v = ClearDunning(w)
      BY <2>6 DEF Applied
    <3> QED
      BY <3>1, <3>2, <3>3 DEF ClearDunning, Row
  <2> QED
    BY <1>5, <2>1, <2>2, <2>3, <2>5, <2>6 DEF Types
<1> QED
  BY <1>2, <1>3, <1>6 DEF Agrees

\* An event of no org leaves the row what it was (resolveOrg).
LEMMA PassesOver ==
    ASSUME NEW q \in Seq(EventRecord), NEW s, NEW p, NEW i \in DOMAIN q, ~q[i].known,
           NEW w, NEW k \in {i - 1, i}, Agrees(q, w, k, s, p)
    PROVE  Agrees(q, w, i, s, p)
<1>1. i \in Nat /\ i >= 1
  OBVIOUS
<1>2. NoneKnown(q, i) => NoneKnown(q, i - 1)
  BY <1>1 DEF NoneKnown
<1>3. \A j : LastKnown(q, j, i) => LastKnown(q, j, i - 1)
  <2> SUFFICES ASSUME NEW j, LastKnown(q, j, i) PROVE LastKnown(q, j, i - 1)
    OBVIOUS
  <2>1. j \in 1..i /\ q[j].known /\ \A m \in (j + 1)..i : ~q[m].known
    BY DEF LastKnown
  <2>2. j # i
    BY <2>1
  <2>3. j \in 1..(i - 1) /\ \A m \in (j + 1)..(i - 1) : m \in (j + 1)..i
    BY <1>1, <2>1, <2>2
  <2> QED
    BY <2>1, <2>3 DEF LastKnown
<1>4. CASE k = i
  BY <1>4
<1>5. CASE k = i - 1
  BY <1>2, <1>3, <1>5 DEF Agrees
<1> QED
  BY <1>4, <1>5

\* A delivery has its effect in turn: the row is then what the events up to its own make of it
\* (Settles).
LEMMA InTurn ==
    ASSUME NEW q \in Seq(EventRecord), NEW s, NEW p, NEW i \in DOMAIN q, NEW w \in Row, NEW v,
           NEW A \in SUBSET DOMAIN q, \A x \in A : x <= i,
           v = IF q[i].known THEN Applied(q[i], w) ELSE w,
           \A k \in 0..Len(q) : A = 1..k => Agrees(q, w, k, s, p),
           Chained(q), EndsWith(q, s, p)
    PROVE  \A k \in 0..Len(q) : A \union {i} = 1..k => Agrees(q, v, k, s, p)
<1> SUFFICES ASSUME NEW k \in 0..Len(q), A \union {i} = 1..k PROVE Agrees(q, v, k, s, p)
  OBVIOUS
<1>1. i \in Nat /\ Len(q) \in Nat /\ i \in 1..Len(q) /\ i \in 1..k /\ k \in 1..k /\ k \in Nat
  BY DOMAIN q = 1..Len(q)
<1>2. k = i
  BY <1>1
<1>3. A = 1..i \/ A = 1..(i - 1)
  <2>1. CASE i \in A
    BY <1>2, <2>1
  <2>2. CASE i \notin A
    <3>1. A = (1..i) \ {i}
      BY <1>2, <2>2
    <3>2. (1..i) \ {i} = 1..(i - 1)
      BY <1>1
    <3> QED
      BY <3>1, <3>2
  <2> QED
    BY <2>1, <2>2
<1>4. i \in 0..Len(q) /\ i - 1 \in 0..Len(q)
  BY <1>1
<1>5. PICK m \in {i - 1, i} : Agrees(q, w, m, s, p)
  BY <1>3, <1>4
<1>6. CASE q[i].known
  BY <1>2, <1>5, <1>6, AppliesNext
<1>7. CASE ~q[i].known
  BY <1>2, <1>5, <1>7, PassesOver
<1> QED
  BY <1>6, <1>7

\* Initially the row says what the provider does (Init).
LEMMA InitFollows == Init => Follows
<1> SUFFICES ASSUME Init PROVE Follows
  OBVIOUS
<1>1. /\ sent = <<>> /\ applied = {} /\ pc = [h \in Handlers |-> "idle"]
  BY DEF Init
<1>2. Len(sent) = 0 /\ DOMAIN sent = {}
  BY <1>1
<1>3. row.item => row.status = prov.status /\ row.period = prov.period
  BY DEF Init, NewRow
<1>4. Chained(sent) /\ EndsWhole(sent)
  BY <1>2 DEF Chained, EndsWhole
<1>5. \A k \in 0..Len(sent) : NoneKnown(sent, k)
  BY <1>2 DEF NoneKnown
<1>6. EndsWith(sent, prov.status, prov.period)
  BY <1>2, <1>5 DEF EndsWith
<1>7. \A k \in 0..Len(sent) : Agrees(sent, row, k, prov.status, prov.period)
  BY <1>2, <1>3 DEF Agrees
<1> QED
  BY <1>1, <1>4, <1>6, <1>7 DEF Follows

\* The provider emits in turn: each of its steps announces what it leads to (Emits).
LEMMA ProviderFollows == Inv /\ Follows /\ Provider => Follows'
<1> SUFFICES ASSUME Inv, Follows, Provider PROVE Follows'
  OBVIOUS
<1>1. /\ sent \in Seq(EventRecord) /\ Len(sent) \in Nat /\ DOMAIN sent = 1..Len(sent)
      /\ applied \subseteq 1..Len(sent)
      /\ \A h \in Handlers : pc[h] = "write" => ev[h] \in 1..Len(sent)
  BY DEF Inv, TypeOK, Locals, EventRecord
<1>2. ASSUME NEW q \in Seq(EventRecord), sent' = q, NEW s, NEW p, prov'.status = s, prov'.period = p,
             UNCHANGED <<row, pc, ev, applied, ordered>>,
             Len(sent) <= Len(q), \A i \in 1..Len(sent) : q[i] = sent[i],
             Chained(q), EndsWith(q, s, p), EndsWhole(q),
             \A k \in 0..Len(sent) : \A w : Agrees(sent, w, k, prov.status, prov.period) => Agrees(q, w, k, s, p)
      PROVE  Follows'
  <2>1. \A h \in Handlers : pc'[h] = "write" => sent'[ev'[h]].known
    BY <1>1, <1>2 DEF Follows
  <2>2. ASSUME ordered', NEW k \in 0..Len(q), applied' = 1..k PROVE Agrees(q, row', k, s, p)
    <3>1. k \in 0..Len(sent)
      <4>1. k \in Nat /\ (k > 0 => k \in applied)
        BY <1>2, <2>2
      <4> QED
        BY <1>1, <4>1
    <3> QED
      BY <1>2, <2>2, <3>1 DEF Follows
  <2> QED
    BY <1>2, <2>1, <2>2 DEF Follows
<1>3. /\ Chained(sent) /\ EndsWith(sent, prov.status, prov.period) /\ EndsWhole(sent)
  BY DEF Follows
<1>4. ASSUME NEW s \in Statuses \cup {"none", "paused"}, NEW p \in Nat, NEW t \in Types,
             Emits(s, p, <<t>>), t \in {"updated", "deleted"}, t = "deleted" => s = "canceled"
      PROVE  Follows'
  <2>1. prov' = [status |-> s, period |-> p] /\ p \in 0..MaxPeriod
    BY <1>4, MaxPeriodAssumption DEF Emits
  <2>2. PICK e : e = [type |-> t, status |-> s, period |-> p, known |-> TRUE]
    OBVIOUS
  <2>3. e \in EventRecord /\ e.known /\ Tells(e) /\ MayFollow(e, prov.status, prov.period) /\ e.type # "checkout"
        /\ e.status = s /\ e.period = p
    BY <1>4, <2>1, <2>2 DEF EventRecord, Tells, MayFollow
  <2>4. PICK q : q = Append(sent, e)
    OBVIOUS
  <2>5. sent' = q
    <3>1. sent' = sent \o [i \in 1..1 |-> e]
      BY <1>4, <2>1, <2>2 DEF Emits, Event
    <3> QED
      BY <1>1, <2>3, <2>4, <3>1
  <2>6. q \in Seq(EventRecord) /\ Len(sent) <= Len(q) /\ \A i \in 1..Len(sent) : q[i] = sent[i]
    BY <1>1, <2>3, <2>4
  <2>7. /\ Chained(q) /\ EndsWith(q, s, p) /\ EndsWhole(q)
        /\ \A k \in 0..Len(sent) : \A w : Agrees(sent, w, k, prov.status, prov.period) => Agrees(q, w, k, s, p)
    BY <1>1, <1>3, <2>3, <2>4, Announces
  <2>8. UNCHANGED <<row, pc, ev, applied, ordered>>
    BY <1>4 DEF Emits
  <2> QED
    BY <1>2, <2>1, <2>5, <2>6, <2>7, <2>8
<1>5. ASSUME NEW s \in {"active", "past_due"}, NEW p \in Nat, NEW t \in Types, NEW u \in Types,
             Emits(s, p, <<t, u>>),
             MayFollow([type |-> t, status |-> s, period |-> p, known |-> TRUE], prov.status, prov.period),
             MayFollow([type |-> u, status |-> s, period |-> p, known |-> TRUE], s, p),
             Tells([type |-> t, status |-> s, period |-> p, known |-> TRUE]),
             Tells([type |-> u, status |-> s, period |-> p, known |-> TRUE]),
             u # "checkout", t = "checkout" => u = "updated"
      PROVE  Follows'
  <2>1. prov' = [status |-> s, period |-> p] /\ p \in 0..MaxPeriod
    BY <1>5, MaxPeriodAssumption DEF Emits
  <2>2. PICK e : e = [type |-> t, status |-> s, period |-> p, known |-> TRUE]
    OBVIOUS
  <2>3. PICK f : f = [type |-> u, status |-> s, period |-> p, known |-> TRUE]
    OBVIOUS
  <2>4. e \in EventRecord /\ e.known /\ Tells(e) /\ MayFollow(e, prov.status, prov.period)
        /\ e.status = s /\ e.period = p /\ e.type = t
    BY <1>5, <2>1, <2>2 DEF EventRecord, Statuses
  <2>5. f \in EventRecord /\ f.known /\ Tells(f) /\ MayFollow(f, s, p)
        /\ f.status = s /\ f.period = p /\ f.type = u
    BY <1>5, <2>1, <2>3 DEF EventRecord, Statuses
  <2>6. PICK q : q = Append(sent, e)
    OBVIOUS
  <2>7. PICK r : r = Append(q, f)
    OBVIOUS
  <2>8. q \in Seq(EventRecord) /\ Len(q) = Len(sent) + 1 /\ \A i \in 1..Len(sent) : q[i] = sent[i]
    BY <1>1, <2>4, <2>6
  <2>9. r \in Seq(EventRecord) /\ Len(r) = Len(q) + 1 /\ \A i \in 1..Len(q) : r[i] = q[i]
    BY <2>5, <2>7, <2>8
  <2>10. sent' = r
    <3>1. sent' = sent \o [i \in 1..Len(<<t, u>>) |-> Event(<<t, u>>[i])]
      BY <1>5 DEF Emits
    <3>2. \A i \in 1..2 : Event(<<t, u>>[i]) = <<e, f>>[i]
      <4>1. Event(t) = e /\ Event(u) = f
        BY <2>1, <2>2, <2>3 DEF Event
      <4> QED
        BY <4>1
    <3>3. [i \in 1..Len(<<t, u>>) |-> Event(<<t, u>>[i])] = <<e, f>>
      BY <3>2
    <3>4. sent' = sent \o <<e, f>>
      BY <3>1, <3>3
    <3>5. sent \o <<e, f>> = r
      BY <1>1, <2>4, <2>5, <2>6, <2>7
    <3> QED
      BY <3>4, <3>5
  <2>11. /\ Chained(q) /\ EndsWith(q, s, p)
         /\ e.type # "checkout" => EndsWhole(q)
         /\ \A k \in 0..Len(sent) : \A w : Agrees(sent, w, k, prov.status, prov.period) => Agrees(q, w, k, s, p)
    <3>1. /\ Chained(q) /\ EndsWith(q, e.status, e.period)
          /\ e.type # "checkout" => EndsWhole(q)
          /\ \A k \in 0..Len(sent) : \A w :
                Agrees(sent, w, k, prov.status, prov.period) => Agrees(q, w, k, e.status, e.period)
      BY <1>1, <1>3, <2>4, <2>6, Announces
    <3> QED
      BY <2>4, <3>1
  <2>12. EndsWhole(q) \/ f.type = "updated"
    BY <1>5, <2>4, <2>5, <2>11
  <2>13. /\ Chained(r) /\ EndsWith(r, s, p) /\ EndsWhole(r)
         /\ \A k \in 0..Len(q) : \A w : Agrees(q, w, k, s, p) => Agrees(r, w, k, s, p)
    <3>1. /\ Chained(r) /\ EndsWith(r, f.status, f.period)
          /\ f.type # "checkout" => EndsWhole(r)
          /\ \A k \in 0..Len(q) : \A w : Agrees(q, w, k, s, p) => Agrees(r, w, k, f.status, f.period)
      BY <2>5, <2>7, <2>8, <2>11, <2>12, Announces
    <3> QED
      BY <1>5, <2>5, <3>1
  <2>14. \A k \in 0..Len(sent) : \A w : Agrees(sent, w, k, prov.status, prov.period) => Agrees(r, w, k, s, p)
    <3>1. \A k \in 0..Len(sent) : k \in 0..Len(q)
      BY <1>1, <2>8
    <3> QED
      BY <2>11, <2>13, <3>1
  <2>15. Len(sent) <= Len(r) /\ \A i \in 1..Len(sent) : r[i] = sent[i]
    BY <1>1, <2>8, <2>9
  <2>16. UNCHANGED <<row, pc, ev, applied, ordered>>
    BY <1>5 DEF Emits
  <2> QED
    BY <1>2, <2>1, <2>9, <2>10, <2>13, <2>14, <2>15, <2>16
<1>6. prov.status \in Statuses \cup {"none", "paused"} /\ prov.period \in Nat /\ prov.period + 1 \in Nat
  BY MaxPeriodAssumption DEF Inv, TypeOK
<1>7. /\ Announced \subseteq Statuses \cup {"none", "paused"}
      /\ "active" \in Statuses \cup {"none", "paused"} /\ "canceled" \in Statuses \cup {"none", "paused"}
  BY AnnouncedAssumption DEF Statuses
<1>8. /\ "checkout" \in Types /\ "updated" \in Types /\ "failed" \in Types
      /\ "succeeded" \in Types /\ "deleted" \in Types
  BY DEF Types
<1>9. CASE CheckoutPaid
  <2>1. Emits("active", prov.period + 1, <<"checkout", "updated">>)
    BY <1>9 DEF CheckoutPaid
  <2> QED
    BY <1>5, <1>6, <1>8, <2>1 DEF MayFollow, Tells
<1>10. CASE PaymentFails
  <2>1. \/ Emits("past_due", prov.period, <<"failed", "updated">>)
        \/ Emits("past_due", prov.period, <<"updated", "failed">>)
    BY <1>10 DEF PaymentFails
  <2>2. prov.status = "active"
    BY <1>10 DEF PaymentFails
  <2> QED
    BY <1>5, <1>6, <1>8, <2>1, <2>2 DEF MayFollow, Tells
<1>11. CASE PaymentSucceeds
  <2>1. \/ Emits("active", prov.period, <<"succeeded", "updated">>)
        \/ Emits("active", prov.period, <<"updated", "succeeded">>)
    BY <1>11 DEF PaymentSucceeds
  <2>2. prov.status \in {"past_due", "unpaid"}
    BY <1>11 DEF PaymentSucceeds
  <2> QED
    BY <1>5, <1>6, <1>8, <2>1, <2>2 DEF MayFollow, Tells
<1>12. CASE Renews
  <2>1. Emits("active", prov.period + 1, <<"updated">>)
    BY <1>12 DEF Renews
  <2> QED
    BY <1>4, <1>6, <1>7, <1>8, <2>1
<1>13. CASE Changes
  <2>1. PICK s \in Announced : Emits(s, prov.period, <<"updated">>)
    BY <1>13 DEF Changes
  <2> QED
    BY <1>4, <1>6, <1>7, <1>8, <2>1
<1>14. CASE Cancels
  <2>1. Emits("canceled", prov.period, <<"deleted">>)
    BY <1>14 DEF Cancels
  <2> QED
    BY <1>4, <1>6, <1>7, <1>8, <2>1
<1>15. CASE Unmapped
  <2>1. PICK e : e = [type |-> "updated", status |-> "active", period |-> 0, known |-> FALSE]
    OBVIOUS
  <2>2. e \in EventRecord /\ ~e.known
    BY <2>1, MaxPeriodAssumption DEF EventRecord, Types, Statuses
  <2>3. PICK q : q = Append(sent, e)
    OBVIOUS
  <2>4. sent' = q /\ UNCHANGED <<row, prov, pc, ev, applied, ordered>>
    BY <1>15, <2>1, <2>3 DEF Unmapped
  <2>5. q \in Seq(EventRecord) /\ Len(sent) <= Len(q) /\ \A i \in 1..Len(sent) : q[i] = sent[i]
    BY <1>1, <2>2, <2>3
  <2>6. /\ Chained(q) /\ EndsWith(q, prov.status, prov.period) /\ EndsWhole(q)
        /\ \A k \in 0..Len(sent) : \A w : Agrees(sent, w, k, prov.status, prov.period)
                                              => Agrees(q, w, k, prov.status, prov.period)
    BY <1>1, <1>3, <2>2, <2>3, Ignores
  <2>7. prov'.status = prov.status /\ prov'.period = prov.period
    BY <2>4
  <2> QED
    BY <1>2, <2>4, <2>5, <2>6, <2>7
<1> QED
  BY <1>9, <1>10, <1>11, <1>12, <1>13, <1>14, <1>15 DEF Provider

\* A delivery that has its effect in turn brings the row up to its event; any other ends the
\* order (Settles).
LEMMA EffectFollows ==
    ASSUME Inv, Follows, NEW h \in Handlers, NEW c \in Row, pc[h] # "idle", Settles(h, c),
           row' = IF sent[ev[h]].known THEN Applied(sent[ev[h]], c) ELSE c
    PROVE  ordered' => \A k \in 0..Len(sent) :
              applied' = 1..k => Agrees(sent, row', k, prov.status, prov.period)
<1> SUFFICES ASSUME ordered' PROVE \A k \in 0..Len(sent) :
                 applied' = 1..k => Agrees(sent, row', k, prov.status, prov.period)
  OBVIOUS
<1>1. /\ sent \in Seq(EventRecord) /\ ev[h] \in DOMAIN sent /\ applied \in SUBSET DOMAIN sent
  BY DEF Inv, TypeOK, Locals, EventRecord
<1>2. /\ ordered /\ c = row /\ \A x \in applied : x <= ev[h]
      /\ applied' = applied \union {ev[h]}
  BY DEF Settles
<1>3. /\ \A k \in 0..Len(sent) : applied = 1..k => Agrees(sent, c, k, prov.status, prov.period)
      /\ Chained(sent) /\ EndsWith(sent, prov.status, prov.period)
  BY <1>2 DEF Follows
<1>4. PICK v : v = row'
  OBVIOUS
<1>5. \A k \in 0..Len(sent) : applied \union {ev[h]} = 1..k => Agrees(sent, v, k, prov.status, prov.period)
  BY <1>1, <1>2, <1>3, <1>4, InTurn
<1> QED
  BY <1>2, <1>4, <1>5

\* Every step keeps the row in turn (ProcessEvent, Subscribe).
LEMMA NextFollows == Inv /\ Follows /\ [Next]_vars => Follows'
<1> SUFFICES ASSUME Inv, Follows, [Next]_vars PROVE Follows'
  OBVIOUS
<1>1. /\ pc \in [Handlers -> {"idle", "read", "write", "mark"}] /\ ev \in [Handlers -> 0..Len(sent)]
      /\ row \in Row
      /\ \A h \in Handlers : pc[h] = "write" => copy[h] \in Row
      /\ \A h \in Handlers : pc[h] # "idle" => ev[h] \in DOMAIN sent
  BY DEF Inv, TypeOK, Locals
<1>2. ASSUME UNCHANGED <<sent, prov>>,
             \A h \in Handlers : pc'[h] = "write" => sent[ev'[h]].known,
             ordered' => \A k \in 0..Len(sent) :
                 applied' = 1..k => Agrees(sent, row', k, prov.status, prov.period)
      PROVE  Follows'
  BY <1>2 DEF Follows
<1>3. \A h \in Handlers : pc[h] = "write" => sent[ev[h]].known
  BY DEF Follows
<1>4. ordered => \A k \in 0..Len(sent) : applied = 1..k => Agrees(sent, row, k, prov.status, prov.period)
  BY DEF Follows
<1>5. CASE Provider
  BY <1>5, ProviderFollows
<1>6. ASSUME NEW p \in Plans, Subscribe(p) PROVE Follows'
  <2>1. row' = NewRow(p) /\ UNCHANGED <<sent, prov, pc, ev, applied, ordered>>
    BY <1>6 DEF Subscribe
  <2>2. ~row'.item
    BY <2>1 DEF NewRow
  <2>3. \A k \in 0..Len(sent) : Agrees(sent, row', k, prov.status, prov.period)
    BY <2>2 DEF Agrees
  <2> QED
    BY <1>2, <1>3, <2>1, <2>3
<1>7. ASSUME NEW h \in Handlers, NEW i \in Ids, Deliver(h, i) PROVE Follows'
  BY <1>1, <1>2, <1>3, <1>4, <1>7 DEF Deliver
<1>8. ASSUME NEW h \in Handlers, NEW i \in Ids, Answer(h, i) PROVE Follows'
  BY <1>2, <1>3, <1>4, <1>8 DEF Answer, vars
<1>9. ASSUME NEW h \in Handlers, Read(h) PROVE Follows'
  <2>1. UNCHANGED <<row, sent, prov, ev>> /\ pc[h] = "read"
    BY <1>9 DEF Read
  <2>2. CASE sent[ev[h]].known /\ ~Skips(sent[ev[h]], row)
    <3>1. pc' = [pc EXCEPT ![h] = "write"] /\ UNCHANGED <<applied, ordered>>
      BY <1>9, <2>2 DEF Read
    <3>2. \A g \in Handlers : pc'[g] = "write" => sent[ev'[g]].known
      BY <1>1, <1>3, <2>1, <2>2, <3>1
    <3> QED
      BY <1>2, <1>4, <2>1, <3>1, <3>2
  <2>3. CASE ~sent[ev[h]].known \/ Skips(sent[ev[h]], row)
    <3>1. pc' = [pc EXCEPT ![h] = "mark"] /\ Settles(h, row)
      BY <1>9, <2>3 DEF Read
    <3>2. row' = IF sent[ev[h]].known THEN Applied(sent[ev[h]], row) ELSE row
      BY <2>1, <2>3 DEF Skips
    <3>3. ordered' => \A k \in 0..Len(sent) :
              applied' = 1..k => Agrees(sent, row', k, prov.status, prov.period)
      BY <1>1, <2>1, <3>1, <3>2, EffectFollows
    <3>4. \A g \in Handlers : pc'[g] = "write" => sent[ev'[g]].known
      BY <1>1, <1>3, <2>1, <3>1
    <3> QED
      BY <1>2, <2>1, <3>3, <3>4
  <2> QED
    BY <2>2, <2>3
<1>10. ASSUME NEW h \in Handlers, Write(h) PROVE Follows'
  <2>1. /\ pc[h] = "write" /\ row' = Applied(sent[ev[h]], copy[h]) /\ Settles(h, copy[h])
        /\ pc' = [pc EXCEPT ![h] = "mark"] /\ UNCHANGED <<sent, prov, ev>>
    BY <1>10 DEF Write
  <2>2. sent[ev[h]].known /\ copy[h] \in Row
    BY <1>1, <1>3, <2>1
  <2>3. ordered' => \A k \in 0..Len(sent) :
            applied' = 1..k => Agrees(sent, row', k, prov.status, prov.period)
    BY <2>1, <2>2, EffectFollows
  <2>4. \A g \in Handlers : pc'[g] = "write" => sent[ev'[g]].known
    BY <1>1, <1>3, <2>1
  <2> QED
    BY <1>2, <2>1, <2>3, <2>4
<1>11. ASSUME NEW h \in Handlers, MarkEventProcessed(h) \/ Fail(h) PROVE Follows'
  BY <1>1, <1>2, <1>3, <1>4, <1>11 DEF MarkEventProcessed, Fail, Return
<1>12. ASSUME NEW h \in Handlers, ReadErrs(h) PROVE Follows'
  BY <1>1, <1>2, <1>3, <1>4, <1>12 DEF ReadErrs
<1>13. CASE UNCHANGED vars
  BY <1>2, <1>3, <1>4, <1>13 DEF vars
<1> QED
  BY <1>5, <1>6, <1>7, <1>8, <1>9, <1>10, <1>11, <1>12, <1>13 DEF Next, Handle

\* When every event has had its effect, none after a later one and some perhaps twice, the row
\* says what the provider last announced (applySubscriptionEvent, AdvanceDunning,
\* ClearDunning), for any number of events, deliveries at a time and failures.
THEOREM RowFollowsProvider == Spec => []InSync
<1>1. Inv /\ Follows => InSync
  <2> SUFFICES ASSUME Inv, Follows, ordered, applied = DOMAIN sent, row.item
               PROVE  row.status = SubscriptionStatusFromStripe(prov.status) /\ row.period = prov.period
    BY DEF InSync
  <2>1. /\ sent \in Seq(EventRecord) /\ row.status \in Statuses
    BY DEF Inv, TypeOK, EventRecord, Row
  <2>2. Len(sent) \in 0..Len(sent) /\ DOMAIN sent = 1..Len(sent)
    BY <2>1
  <2>3. Agrees(sent, row, Len(sent), prov.status, prov.period)
    BY <2>2 DEF Follows
  <2>4. CASE NoneKnown(sent, Len(sent))
    BY <2>1, <2>3, <2>4 DEF Agrees, SubscriptionStatusFromStripe
  <2>5. ASSUME NEW j \in DOMAIN sent, LastKnown(sent, j, Len(sent))
        PROVE  row.status = SubscriptionStatusFromStripe(prov.status) /\ row.period = prov.period
    <3>1. sent[j].status = prov.status /\ sent[j].period = prov.period /\ sent[j].type # "checkout"
      BY <2>5 DEF Follows, EndsWith, EndsWhole
    <3> QED
      BY <2>3, <2>5, <3>1 DEF Agrees
  <2> QED
    BY <2>2, <2>4, <2>5 DEF Follows, EndsWith
<1>2. Spec => [](Inv /\ Follows)
  BY InitInv, ServiceStep, InitFollows, NextFollows, PTL DEF Spec
<1> QED
  BY <1>1, <1>2, PTL

=============================================================================
