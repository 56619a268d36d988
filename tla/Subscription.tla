---------------------------- MODULE Subscription ----------------------------
(***************************************************************************)
(* One org's subscription row, kept by the payment provider's webhooks     *)
(* (billing/webhook.go, ProcessEvent; billing/invoices.go) and by Subscribe.*)
(*                                                                         *)
(* The provider numbers its events as it emits them.  It delivers each one *)
(* until a delivery is answered with success, in any order, also two at a  *)
(* time.  A delivery looks the event up among the processed ones, reads    *)
(* the row, writes the row back whole, and marks the event processed: each *)
(* a store call of its own.                                                *)
(***************************************************************************)
EXTENDS Naturals, Sequences

CONSTANTS
    Handlers,      \* deliveries handled at a time
    Plans,
    MaxEvents,     \* bound: events the provider emits
    MaxPeriod,     \* bound: billing periods
    MaxSubscribes, \* bound: calls of Subscribe
    MaxFaults,     \* bound: deliveries that fail
    MaxTogether,   \* bound: all three together
    Announced,     \* statuses the provider may announce besides active, past_due, canceled
    Strangers,     \* whether it sends events of customers that are no org's
    ReadErrors     \* whether the store may fail to read the row

ASSUME BoundsAssumption == {MaxEvents, MaxSubscribes, MaxFaults, MaxTogether} \subseteq Nat
ASSUME MaxPeriodAssumption == MaxPeriod \in Nat \ {0}
ASSUME FlagsAssumption == {Strangers, ReadErrors} \subseteq BOOLEAN
ASSUME AnnouncedAssumption == Announced \subseteq {"trialing", "unpaid", "paused"}

Statuses == {"active", "trialing", "past_due", "unpaid", "canceled", "incomplete"}
Row == [status : Statuses, plan : Plans, period : 0..MaxPeriod, item : BOOLEAN]
Types == {"checkout", "updated", "deleted", "failed", "succeeded"}
Ids == 1..MaxEvents

VARIABLES
    row,        \* the subscription row
    subs,       \* calls of Subscribe
    prov,       \* the provider's subscription: its status and period
    sent,       \* the events it has emitted
    processed,  \* processed_stripe_events
    pc, ev, copy,  \* a delivery: where it is, its event, the row it read
    applied,    \* the events that some delivery applied
    ordered,    \* none of them was applied after a later one, or to a row that was no longer there
    dropped,    \* the events whose row could not be read
    faults

vars == <<row, subs, prov, sent, processed, pc, ev, copy, applied, ordered, dropped, faults>>

\* The copy of a delivery that has read no row.
NoRow == <<>>

NewRow(p) == [status |-> "incomplete", plan |-> p, period |-> 0, item |-> FALSE]

\* The org has subscribed; its checkout is not paid yet, or it is and the events
\* that say so, or that it did not pay for long, are processed.
Init ==
    /\ \/ /\ \E p \in Plans : row = NewRow(p)
          /\ prov = [status |-> "none", period |-> 0]
       \/ \E p \in Plans, s \in {"active", "unpaid"} :
             /\ row = [status |-> s, plan |-> p, period |-> 0, item |-> TRUE]
             /\ prov = [status |-> s, period |-> 0]
    /\ subs = 0
    /\ sent = <<>>
    /\ processed = {}
    /\ pc = [h \in Handlers |-> "idle"]
    /\ ev = [h \in Handlers |-> 0]
    /\ copy = [h \in Handlers |-> NoRow]
    /\ applied = {}
    /\ ordered = TRUE
    /\ dropped = {}
    /\ faults = 0

\* There is room for n more.
Room(n) == Len(sent) + subs + faults + n <= MaxTogether

-----------------------------------------------------------------------------
(* The provider.                                                           *)

Event(t) == [type |-> t, status |-> prov'.status, period |-> prov'.period, known |-> TRUE]

\* The provider moves to a status and emits events, which may overtake each other.
Emits(status, period, types) ==
    /\ Len(sent) + Len(types) <= MaxEvents /\ Room(Len(types))
    /\ period <= MaxPeriod
    /\ prov' = [status |-> status, period |-> period]
    /\ sent' = sent \o [i \in 1..Len(types) |-> Event(types[i])]
    /\ UNCHANGED <<row, subs, processed, pc, ev, copy, applied, ordered, dropped, faults>>

Live == prov.status \notin {"none", "canceled"}

CheckoutPaid ==
    /\ row.status = "incomplete"
    /\ Emits("active", prov.period + 1, <<"checkout", "updated">>)
PaymentFails ==
    /\ prov.status = "active"
    /\ \E types \in {<<"failed", "updated">>, <<"updated", "failed">>} :
          Emits("past_due", prov.period, types)
PaymentSucceeds ==
    /\ prov.status \in {"past_due", "unpaid"}
    /\ \E types \in {<<"succeeded", "updated">>, <<"updated", "succeeded">>} :
          Emits("active", prov.period, types)
Renews == prov.status = "active" /\ Emits("active", prov.period + 1, <<"updated">>)
\* Also to a status this code does not know (paused).
Changes == Live /\ \E s \in Announced : Emits(s, prov.period, <<"updated">>)
Cancels == Live /\ Emits("canceled", prov.period, <<"deleted">>)

\* An event of a customer that is no org's.
Unmapped ==
    /\ Strangers
    /\ Len(sent) < MaxEvents /\ Room(1)
    /\ sent' = Append(sent, [type |-> "updated", status |-> "active", period |-> 0, known |-> FALSE])
    /\ UNCHANGED <<row, subs, prov, processed, pc, ev, copy, applied, ordered, dropped, faults>>

Provider ==
    \/ CheckoutPaid \/ PaymentFails \/ PaymentSucceeds \/ Renews \/ Changes \/ Cancels \/ Unmapped

-----------------------------------------------------------------------------
(* The service.                                                            *)

\* Subscribe: a new row replaces the old one, whatever it says.
Subscribe(p) ==
    /\ subs < MaxSubscribes /\ Room(1)
    /\ subs' = subs + 1
    /\ row' = NewRow(p)
    /\ UNCHANGED <<prov, sent, processed, pc, ev, copy, applied, ordered, dropped, faults>>

SubscriptionStatusFromStripe(s) == IF s \in Statuses THEN s ELSE "incomplete"

\* Mutant: a second failed payment escalates.
AdvanceDunningEscalates(c) ==
    CASE c.status \in {"canceled", "unpaid"} -> c
      [] c.status = "past_due" -> [c EXCEPT !.status = "unpaid"]
      [] OTHER -> [c EXCEPT !.status = "past_due"]

AdvanceDunning(c) ==
    IF c.status \in {"canceled", "unpaid", "past_due"} THEN c ELSE [c EXCEPT !.status = "past_due"]

\* Mutant: any status but active is cleared.
ClearDunningAny(c) == [c EXCEPT !.status = "active"]

ClearDunning(c) ==
    IF c.status \in {"past_due", "unpaid"} THEN [c EXCEPT !.status = "active"] ELSE c

\* The row that applying event e to the row c asks for.
Applied(e, c) ==
    CASE e.type = "checkout" -> [c EXCEPT !.status = "active"]
      [] e.type = "updated" -> [c EXCEPT !.status = SubscriptionStatusFromStripe(e.status),
                                         !.period = e.period, !.item = TRUE]
      [] e.type = "deleted" -> [c EXCEPT !.status = "canceled", !.period = e.period, !.item = TRUE]
      [] e.type = "failed" -> AdvanceDunning(c)
      [] e.type = "succeeded" -> ClearDunning(c)

\* The invoice events write nothing when there is nothing to change.
Skips(e, c) == e.type \in {"failed", "succeeded"} /\ Applied(e, c) = c

\* Mutant: the event is marked before it is applied.
MarkFirst(h, i) ==
    /\ pc[h] = "idle"
    /\ i \in DOMAIN sent \ processed
    /\ processed' = processed \cup {i}
    /\ pc' = [pc EXCEPT ![h] = "read"]
    /\ ev' = [ev EXCEPT ![h] = i]
    /\ UNCHANGED <<row, subs, prov, sent, copy, applied, ordered, dropped, faults>>

\* Event i is delivered and not among the processed ones.
Deliver(h, i) ==
    /\ pc[h] = "idle"
    /\ i \in DOMAIN sent \ processed
    /\ pc' = [pc EXCEPT ![h] = "read"]
    /\ ev' = [ev EXCEPT ![h] = i]
    /\ UNCHANGED <<row, subs, prov, sent, processed, copy, applied, ordered, dropped, faults>>

\* A processed one is delivered again: it is answered at once.
Answer(h, i) ==
    /\ pc[h] = "idle"
    /\ i \in processed
    /\ UNCHANGED vars

\* The event of handler h has had its effect, on the row that c is a copy of.
Settles(h, c) ==
    /\ applied' = applied \cup {ev[h]}
    /\ ordered' = (ordered /\ c = row /\ \A i \in applied : i <= ev[h])

\* The delivery is over, with its locals.
Return(h) ==
    /\ pc' = [pc EXCEPT ![h] = "idle"]
    /\ ev' = [ev EXCEPT ![h] = 0]
    /\ copy' = [copy EXCEPT ![h] = NoRow]

\* Mutant: an event of no org is an error.
ReadMapped(h) ==
    /\ pc[h] = "read"
    /\ \/ /\ sent[ev[h]].known
          /\ copy' = [copy EXCEPT ![h] = row]
          /\ pc' = [pc EXCEPT ![h] = "write"]
          /\ UNCHANGED ev
       \/ ~sent[ev[h]].known /\ Return(h)
    /\ UNCHANGED <<row, subs, prov, sent, processed, applied, ordered, dropped, faults>>

\* resolveOrg finds the row, or the event is of no org; without a change to make
\* the event counts as applied.
Read(h) ==
    /\ pc[h] = "read"
    /\ \/ /\ sent[ev[h]].known /\ ~Skips(sent[ev[h]], row)
          /\ copy' = [copy EXCEPT ![h] = row]
          /\ pc' = [pc EXCEPT ![h] = "write"]
          /\ UNCHANGED <<applied, ordered, dropped>>
       \/ /\ ~sent[ev[h]].known \/ Skips(sent[ev[h]], row)
          /\ pc' = [pc EXCEPT ![h] = "mark"]
          /\ UNCHANGED copy
          /\ Settles(h, row)
    /\ UNCHANGED <<row, subs, prov, sent, processed, ev, dropped, faults>>

\* The store fails: resolveOrg takes it for an event of no org.
ReadErrs(h) ==
    /\ ReadErrors
    /\ faults < MaxFaults /\ Room(1)
    /\ faults' = faults + 1
    /\ pc[h] = "read"
    /\ pc' = [pc EXCEPT ![h] = "mark"]
    /\ dropped' = dropped \cup {ev[h]}
    /\ UNCHANGED <<row, subs, prov, sent, processed, ev, copy, applied, ordered>>

\* UpsertSubscription of the whole row.
Write(h) ==
    /\ pc[h] = "write"
    /\ row' = Applied(sent[ev[h]], copy[h])
    /\ Settles(h, copy[h])
    /\ pc' = [pc EXCEPT ![h] = "mark"]
    /\ UNCHANGED <<subs, prov, sent, processed, ev, copy, dropped, faults>>

MarkEventProcessed(h) ==
    /\ pc[h] = "mark"
    /\ processed' = processed \cup {ev[h]}
    /\ Return(h)
    /\ UNCHANGED <<row, subs, prov, sent, applied, ordered, dropped, faults>>

\* A store call fails or the process stops: the provider gets no success and will
\* deliver again.
Fail(h) ==
    /\ pc[h] # "idle"
    /\ faults < MaxFaults /\ Room(1)
    /\ faults' = faults + 1
    /\ Return(h)
    /\ UNCHANGED <<row, subs, prov, sent, processed, applied, ordered, dropped>>

Handle(h) == Read(h) \/ Write(h) \/ MarkEventProcessed(h)

Next ==
    \/ Provider
    \/ \E p \in Plans : Subscribe(p)
    \/ \E h \in Handlers :
          \/ \E i \in Ids : Deliver(h, i) \/ Answer(h, i)
          \/ Handle(h) \/ ReadErrs(h) \/ Fail(h)

Spec == Init /\ [][Next]_vars

\* The provider keeps delivering while an event is not processed, and a delivery goes on.
FairSpec ==
    /\ Spec
    /\ \A h \in Handlers : WF_vars(Handle(h) \/ \E i \in Ids : Deliver(h, i))

-----------------------------------------------------------------------------
(* Properties.                                                             *)

TypeOK ==
    /\ row \in Row
    /\ subs \in Nat /\ faults \in Nat
    /\ prov \in [status : Statuses \cup {"none", "paused"}, period : 0..MaxPeriod]
    /\ sent \in Seq([type : Types, status : Statuses \cup {"none", "paused"},
                     period : 0..MaxPeriod, known : BOOLEAN])
    /\ processed \subseteq DOMAIN sent
    /\ applied \subseteq DOMAIN sent /\ dropped \subseteq DOMAIN sent
    /\ ordered \in BOOLEAN
    /\ pc \in [Handlers -> {"idle", "read", "write", "mark"}]
    /\ ev \in [Handlers -> 0..Len(sent)]
    /\ copy \in [Handlers -> Row \cup {NoRow}]

\* An event that will not be delivered again has been applied (ProcessEvent: a
\* failed apply does not mark the event, so the retry applies it).
MarkedWasApplied == processed \subseteq applied \cup dropped

\* A canceled subscription is not revived by a payment: only Subscribe, a checkout
\* or a subscription event changes it (ClearDunning, AdvanceDunning).
PaymentNeverRevives ==
    [][row.status = "canceled" /\ row'.status # "canceled" =>
          \/ subs' # subs
          \/ \E h \in Handlers : /\ pc[h] = "write" /\ pc'[h] = "mark"
                                 /\ sent[ev[h]].type \in {"checkout", "updated"} \/ copy[h] # row]_vars

\* When every event is applied and none after a later one, some of them twice, the
\* row says what the provider last announced, unless a Subscribe has reset it since
\* (applySubscriptionEvent, AdvanceDunning, ClearDunning).
InSync ==
    /\ ordered
    /\ prov.status # "none"
    /\ applied = DOMAIN sent
    /\ row.item
    => /\ row.status = SubscriptionStatusFromStripe(prov.status)
       /\ row.period = prov.period

\* Every event is processed in the end, those of no org too.
EveryEventProcessed == \A i \in Ids : i \in DOMAIN sent ~> i \in processed

=============================================================================
