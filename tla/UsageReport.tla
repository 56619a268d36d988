---------------------------- MODULE UsageReport ----------------------------
(***************************************************************************)
(* Reporting one org's metered usage to the payment provider               *)
(* (billing/invoice.go, ReportUsage), run after each metering tick of each *)
(* control-plane replica.                                                  *)
(*                                                                         *)
(* The provider adds up increments, so a call reports the period's usage   *)
(* less what a watermark says is already reported, and then moves the      *)
(* watermark.  Usage is summed from the start of the period that the       *)
(* subscription row names, with no end; that row follows the provider's    *)
(* month when its webhook is applied.                                      *)
(***************************************************************************)
EXTENDS Integers

CONSTANTS
    Reporters,      \* the replicas that report
    Quantities,     \* the micro-cents a usage record may hold
    Unit,           \* micro-cents in a cent (1000)
    MaxPeriod,      \* bound: billing months
    MaxUsed,        \* bound: micro-cents recorded in all
    MaxFailures     \* bound: calls that fail, answers that are lost

Periods == 1..MaxPeriod

ASSUME QuantitiesAssumption == Quantities \subseteq Nat \ {0}
ASSUME UnitAssumption == Unit \in Nat \ {0}
ASSUME MaxPeriodAssumption == MaxPeriod \in Nat \ {0}

VARIABLES
    month,     \* the provider's billing month
    sub,       \* the month of the subscription row's current period
    used,      \* the micro-cents recorded since the start of each month
    wmPeriod,  \* usage_report_state.period_start (0: no row)
    wmCents,   \* usage_report_state.reported_cents
    stage, per, cents, already, \* a call: where it is, and its periodStart, cents and already
    billed,    \* the cents the provider took from the calls of each period
    kept,      \* of these, the cents of increments whose answer arrived and whose call
               \* has not failed to save them
    failures

call == <<stage, per, cents, already>>
reportVars == <<month, sub, used, wmPeriod, wmCents, call, billed, kept, failures>>

ReportInit ==
    /\ month = 1 /\ sub = 1
    /\ used = [p \in Periods |-> 0]
    /\ wmPeriod = 0 /\ wmCents = 0
    /\ stage = [r \in Reporters |-> "idle"]
    /\ per = [r \in Reporters |-> 0]
    /\ cents = [r \in Reporters |-> 0]
    /\ already = [r \in Reporters |-> 0]
    /\ billed = [p \in Periods |-> 0]
    /\ kept = [p \in Periods |-> 0]
    /\ failures = 0

-----------------------------------------------------------------------------
(* The world around the calls.                                             *)

\* A usage record is written for an hour of month m: the current one or, in a
\* catch-up, an earlier one.
Meter(m, q) ==
    /\ m <= month
    /\ used[1] + q <= MaxUsed
    /\ used' = [p \in Periods |-> IF p <= m THEN used[p] + q ELSE used[p]]
    /\ UNCHANGED <<month, sub, wmPeriod, wmCents, call, billed, kept, failures>>

\* The provider starts the next billing month.
RollOver ==
    /\ month < MaxPeriod
    /\ month' = month + 1
    /\ UNCHANGED <<sub, used, wmPeriod, wmCents, call, billed, kept, failures>>

\* The webhook that moves CurrentPeriodEnd is applied.
Renew ==
    /\ sub < month
    /\ sub' = sub + 1
    /\ UNCHANGED <<month, used, wmPeriod, wmCents, call, billed, kept, failures>>

-----------------------------------------------------------------------------
(* One call of ReportUsage.                                                *)

\* It reads the subscription and takes the start of its period.
PeriodStart(r) ==
    /\ stage[r] = "idle"
    /\ stage' = [stage EXCEPT ![r] = "list"]
    /\ per' = [per EXCEPT ![r] = sub]
    /\ UNCHANGED <<month, sub, used, wmPeriod, wmCents, cents, already, billed, kept, failures>>

\* Mutant: a part of a cent is rounded up.
UsageSoFarCentsUp(p) == (used[p] + Unit - 1) \div Unit

\* usageSoFarCents of the records since then: the whole cents.
UsageSoFarCents(p) == used[p] \div Unit

ListUsage(r) ==
    /\ stage[r] = "list"
    /\ stage' = [stage EXCEPT ![r] = "load"]
    /\ cents' = [cents EXCEPT ![r] = UsageSoFarCents(per[r])]
    /\ UNCHANGED <<month, sub, used, wmPeriod, wmCents, per, already, billed, kept, failures>>

\* Mutant: the watermark counts whatever period it is of.
ReportedCentsAnyPeriod(p) == wmCents

\* What the watermark says is reported for the period: nothing when it is of an
\* earlier one.
ReportedCents(p) == IF wmPeriod >= p THEN wmCents ELSE 0

\* It loads the watermark; with nothing new it only anchors the period.
Load(r) ==
    /\ stage[r] = "load"
    /\ already' = [already EXCEPT ![r] = ReportedCents(per[r])]
    /\ stage' = [stage EXCEPT
                   ![r] = IF cents[r] <= ReportedCents(per[r]) THEN "anchor" ELSE "push"]
    /\ UNCHANGED <<month, sub, used, wmPeriod, wmCents, per, cents, billed, kept, failures>>

\* The provider takes the increment.
Push(r) ==
    /\ stage[r] = "push"
    /\ stage' = [stage EXCEPT ![r] = "save"]
    /\ billed' = [billed EXCEPT ![per[r]] = @ + (cents[r] - already[r])]
    /\ kept' = [kept EXCEPT ![per[r]] = @ + (cents[r] - already[r])]
    /\ UNCHANGED <<month, sub, used, wmPeriod, wmCents, per, cents, already, failures>>

\* The provider takes the increment and its answer is lost: post sends the same
\* request again, or has no attempt left and the call fails.
AnswerLost(r) ==
    /\ stage[r] = "push"
    /\ failures < MaxFailures
    /\ failures' = failures + 1
    /\ \/ UNCHANGED stage
       \/ stage' = [stage EXCEPT ![r] = "idle"]
    /\ billed' = [billed EXCEPT ![per[r]] = @ + (cents[r] - already[r])]
    /\ UNCHANGED <<month, sub, used, wmPeriod, wmCents, per, cents, already, kept>>

\* persistReportState(periodStart, already).
Anchor(r) ==
    /\ stage[r] = "anchor"
    /\ stage' = [stage EXCEPT ![r] = "idle"]
    /\ wmPeriod' = per[r]
    /\ wmCents' = already[r]
    /\ UNCHANGED <<month, sub, used, per, cents, already, billed, kept, failures>>

\* persistReportState(periodStart, cents).
Save(r) ==
    /\ stage[r] = "save"
    /\ stage' = [stage EXCEPT ![r] = "idle"]
    /\ wmPeriod' = per[r]
    /\ wmCents' = cents[r]
    /\ UNCHANGED <<month, sub, used, per, cents, already, billed, kept, failures>>

\* Mutant: an error of the provider is not looked at.
FailIgnored(r) ==
    /\ stage[r] # "idle"
    /\ failures < MaxFailures
    /\ failures' = failures + 1
    /\ stage' = [stage EXCEPT ![r] = IF stage[r] = "push" THEN "save" ELSE "idle"]
    /\ kept' = IF stage[r] = "save"
               THEN [kept EXCEPT ![per[r]] = @ - (cents[r] - already[r])] ELSE kept
    /\ UNCHANGED <<month, sub, used, wmPeriod, wmCents, per, cents, already, billed>>

\* The call ends early: the store or the provider returns an error, the process stops.
Fail(r) ==
    /\ stage[r] # "idle"
    /\ failures < MaxFailures
    /\ failures' = failures + 1
    /\ stage' = [stage EXCEPT ![r] = "idle"]
    /\ kept' = IF stage[r] = "save"
               THEN [kept EXCEPT ![per[r]] = @ - (cents[r] - already[r])] ELSE kept
    /\ UNCHANGED <<month, sub, used, wmPeriod, wmCents, per, cents, already, billed>>

-----------------------------------------------------------------------------
ReportUsage(r) ==
    PeriodStart(r) \/ ListUsage(r) \/ Load(r) \/ Push(r) \/ Anchor(r) \/ Save(r)

ReportNext ==
    \/ \E m \in Periods, q \in Quantities : Meter(m, q)
    \/ RollOver \/ Renew
    \/ \E r \in Reporters : ReportUsage(r) \/ AnswerLost(r) \/ Fail(r)

ReportSpec == ReportInit /\ [][ReportNext]_reportVars

\* The metering ticker calls ReportUsage again and again; the provider delivers
\* its webhook until it is applied.
ReportFairSpec ==
    ReportSpec /\ WF_reportVars(Renew) /\ \A r \in Reporters : WF_reportVars(ReportUsage(r))

-----------------------------------------------------------------------------
(* Properties.                                                             *)

ReportTypeOK ==
    /\ month \in Periods /\ sub \in Periods /\ sub <= month
    /\ used \in [Periods -> Nat]
    /\ wmPeriod \in 0..MaxPeriod /\ wmCents \in Nat
    /\ stage \in [Reporters -> {"idle", "list", "load", "push", "anchor", "save"}]
    /\ per \in [Reporters -> 0..MaxPeriod]
    /\ cents \in [Reporters -> Nat]
    /\ already \in [Reporters -> Nat]
    /\ billed \in [Periods -> Nat]
    /\ kept \in [Periods -> Int]
    /\ failures \in Nat

\* The watermark never runs ahead of what the provider took (persistReportState),
\* whatever fails: cents it would make later calls skip are really billed.
WatermarkBacked == wmPeriod # 0 => wmCents <= billed[wmPeriod]

\* The calls of a period bill no more than its usage, but for the increments that
\* were sent and not recorded, across retries, rejections and rollovers
\* (ReportUsage: the same cents exactly once).
PeriodBilledOnce == \A p \in Periods : kept[p] * Unit <= used[p]

\* What the watermark says was reported was billed, and no more than was used
\* (reportUsageForOrg).
BilledAsUsed == WatermarkBacked /\ PeriodBilledOnce

\* When no more usage comes, all whole cents of the current period get billed, and
\* saved as billed (ReportAllUsage: a failed org is retried on the next tick).
CurrentPeriodBilled ==
    \A p \in Periods, u \in 0..MaxUsed :
        <>[](sub = p /\ used[p] = u) => <>[](kept[p] = u \div Unit)

=============================================================================
