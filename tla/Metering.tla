------------------------------ MODULE Metering ------------------------------
(***************************************************************************)
(* The hourly metering of every org's cost (billing/pricing.go,            *)
(* MeterUsage), run by a ticker in every control-plane replica.            *)
(*                                                                         *)
(* Each (org, hour, dimension) has one usage record, inserted if absent.   *)
(* A single watermark remembers the last hour that was metered for every   *)
(* org; a tick meters the hours after it, up to the current one, and moves *)
(* it over the hours that succeeded.  Replicas share the records and the   *)
(* watermark and nothing else.  What an org costs at the moment it is      *)
(* metered is any member of Costs.                                         *)
(***************************************************************************)
EXTENDS Naturals, FiniteSets

CONSTANTS
    Orgs,
    Replicas,
    Costs,        \* what an org may cost in an hour, per dimension (0: no record)
    MaxCatchup,   \* hours a tick meters at most (maxCatchupHours, 48)
    MaxHour,      \* bound: the clock stops here
    MaxFaults     \* bound: failed writes, crashed and interrupted ticks

Hours == 1..MaxHour
Dims == {"compute", "storage"}

ASSUME CostsAssumption == Costs \subseteq [Dims -> Nat]
ASSUME MaxCatchupAssumption == MaxCatchup \in Nat \ {0}
ASSUME MaxHourAssumption == MaxHour \in Nat \ {0}
ASSUME MaxFaultsAssumption == MaxFaults \in Nat

VARIABLES
    clock,   \* the current whole hour
    usage,   \* the amount recorded in each bucket (0: no record)
    mark,    \* the last metered hour in meter_state (0: no row)
    pc,      \* where each replica's tick is
    now,     \* the current hour as the tick took it
    at,      \* the hour it is metering
    hi,      \* the last hour it will meter
    todo,    \* the orgs it has left in that hour
    good,    \* hourOK: that hour has had no failure
    all,     \* fullyOK: no hour before it has
    last,    \* lastDone (0: none)
    first,   \* the tick takes itself for the first run
    done,    \* the (org, hour) pairs that some tick metered in full
    base,    \* the latest hour such a tick has put the watermark on (0: none)
    faults

tick == <<pc, now, at, hi, todo, good, all, last, first>>
vars == <<clock, usage, mark, tick, done, base, faults>>

MinOf(a, b) == IF a <= b THEN a ELSE b
MaxOf(a, b) == IF a <= b THEN b ELSE a

Init ==
    /\ clock = 1
    /\ usage = [b \in Orgs \X Hours \X Dims |-> 0]
    /\ mark = 0
    /\ pc = [r \in Replicas |-> "idle"]
    /\ now = [r \in Replicas |-> 0]
    /\ at = [r \in Replicas |-> 0]
    /\ hi = [r \in Replicas |-> 0]
    /\ todo = [r \in Replicas |-> {}]
    /\ good = [r \in Replicas |-> FALSE]
    /\ all = [r \in Replicas |-> FALSE]
    /\ last = [r \in Replicas |-> 0]
    /\ first = [r \in Replicas |-> FALSE]
    /\ done = {}
    /\ base = 0
    /\ faults = 0

\* The hour strikes.
Strike ==
    /\ clock < MaxHour
    /\ clock' = clock + 1
    /\ UNCHANGED <<usage, mark, tick, done, base, faults>>

-----------------------------------------------------------------------------
(* One tick.                                                               *)

\* MeterUsage takes the current hour.
Wake(r) ==
    /\ pc[r] = "idle"
    /\ pc' = [pc EXCEPT ![r] = "read"]
    /\ now' = [now EXCEPT ![r] = clock]
    /\ UNCHANGED <<clock, usage, mark, at, hi, todo, good, all, last, first, done, base, faults>>

\* The tick meters the hours from lo to h.
MeterHours(r, lo, h) ==
    /\ pc' = [pc EXCEPT ![r] = "meter"]
    /\ at' = [at EXCEPT ![r] = lo]
    /\ hi' = [hi EXCEPT ![r] = h]
    /\ todo' = [todo EXCEPT ![r] = Orgs]
    /\ good' = [good EXCEPT ![r] = TRUE]
    /\ all' = [all EXCEPT ![r] = TRUE]
    /\ last' = [last EXCEPT ![r] = 0]
    /\ UNCHANGED <<clock, usage, mark, now, done, base, faults>>

\* Mutant: the hour in progress is left to a later tick.
HoursToMeterNotCurrent(r) ==
    /\ pc[r] = "read"
    /\ first' = [first EXCEPT ![r] = mark = 0]
    /\ \/ /\ mark = 0
          /\ MeterHours(r, now[r], now[r])
       \/ /\ mark # 0 /\ mark < now[r] - 1
          /\ MeterHours(r, mark + 1, MinOf(now[r] - 1, mark + MaxCatchup))

\* hoursToMeter: without a watermark, or with one ahead of its own clock, the
\* current hour; with one behind, the hours after it, MaxCatchup at most.
HoursToMeter(r) ==
    /\ pc[r] = "read"
    /\ first' = [first EXCEPT ![r] = mark = 0]
    /\ \/ /\ mark = 0 \/ mark > now[r]
          /\ MeterHours(r, now[r], now[r])
       \/ /\ mark # 0 /\ mark < now[r]
          /\ MeterHours(r, mark + 1, MinOf(now[r], mark + MaxCatchup))

\* The current hour is metered already: there is nothing to do or to save.
UpToDate(r) ==
    /\ pc[r] = "read"
    /\ mark = now[r]
    /\ pc' = [pc EXCEPT ![r] = "idle"]
    /\ UNCHANGED <<clock, usage, mark, now, at, hi, todo, good, all, last, first, done, base, faults>>

\* GetMeterState fails: hoursToMeter takes the error for a first run.
HoursToMeterBlind(r) ==
    /\ pc[r] = "read"
    /\ first' = [first EXCEPT ![r] = TRUE]
    /\ MeterHours(r, now[r], now[r])

\* Mutant: the bucket is upserted.
AddUsageOrUpdate(r, o, ds, cost) ==
    usage' = [b \in DOMAIN usage |->
                IF b[1] = o /\ b[2] = at[r] /\ b[3] \in ds
                THEN cost[b[3]] ELSE usage[b]]

\* AddUsageIfAbsent of the buckets of org o for the dimensions ds.
AddUsageIfAbsent(r, o, ds, cost) ==
    usage' = [b \in DOMAIN usage |->
                IF b[1] = o /\ b[2] = at[r] /\ b[3] \in ds /\ usage[b] = 0
                THEN cost[b[3]] ELSE usage[b]]

\* meterOrgHour succeeds for org o.
MeterOrgHour(r, o) ==
    /\ pc[r] = "meter"
    /\ o \in todo[r]
    /\ \E cost \in Costs : AddUsageIfAbsent(r, o, Dims, cost)
    /\ todo' = [todo EXCEPT ![r] = @ \ {o}]
    /\ done' = done \cup {<<o, at[r]>>}
    /\ UNCHANGED <<clock, mark, pc, now, at, hi, good, all, last, first, base, faults>>

\* It fails, before anything is written or between the two dimensions; the tick
\* goes on with the other orgs.
MeterOrgHourFails(r, o) ==
    /\ pc[r] = "meter"
    /\ o \in todo[r]
    /\ faults < MaxFaults
    /\ faults' = faults + 1
    /\ \E cost \in Costs, ds \in {{}, {"compute"}} : AddUsageIfAbsent(r, o, ds, cost)
    /\ todo' = [todo EXCEPT ![r] = @ \ {o}]
    /\ good' = [good EXCEPT ![r] = FALSE]
    /\ UNCHANGED <<clock, mark, pc, now, at, hi, all, last, first, done, base>>

\* Mutant: an hour counts when it succeeded, whatever the hours before it did.
HourDoneAlone(r) ==
    /\ pc[r] = "meter"
    /\ todo[r] = {}
    /\ all' = [all EXCEPT ![r] = good[r]]
    /\ last' = IF good[r] THEN [last EXCEPT ![r] = at[r]] ELSE last
    /\ \/ /\ at[r] < hi[r]
          /\ at' = [at EXCEPT ![r] = @ + 1]
          /\ todo' = [todo EXCEPT ![r] = Orgs]
          /\ good' = [good EXCEPT ![r] = TRUE]
          /\ UNCHANGED pc
       \/ /\ at[r] = hi[r]
          /\ pc' = [pc EXCEPT ![r] = "save"]
          /\ UNCHANGED <<at, todo, good>>
    /\ UNCHANGED <<clock, usage, mark, now, hi, first, done, base, faults>>

\* Every org has had its turn: the hour counts if it and all before it succeeded.
\* The next hour is metered either way.
HourDone(r) ==
    /\ pc[r] = "meter"
    /\ todo[r] = {}
    /\ all' = [all EXCEPT ![r] = @ /\ good[r]]
    /\ last' = IF all[r] /\ good[r] THEN [last EXCEPT ![r] = at[r]] ELSE last
    /\ \/ /\ at[r] < hi[r]
          /\ at' = [at EXCEPT ![r] = @ + 1]
          /\ todo' = [todo EXCEPT ![r] = Orgs]
          /\ good' = [good EXCEPT ![r] = TRUE]
          /\ UNCHANGED pc
       \/ /\ at[r] = hi[r]
          /\ pc' = [pc EXCEPT ![r] = "save"]
          /\ UNCHANGED <<at, todo, good>>
    /\ UNCHANGED <<clock, usage, mark, now, hi, first, done, base, faults>>

\* persistAndReturn: the watermark is set, to whatever hour this tick reached.
Persist(r) ==
    /\ pc[r] = "save"
    /\ pc' = [pc EXCEPT ![r] = "idle"]
    /\ mark' = IF last[r] = 0 THEN mark ELSE last[r]
    /\ base' = IF first[r] THEN MaxOf(base, last[r]) ELSE base
    /\ UNCHANGED <<clock, usage, now, at, hi, todo, good, all, last, first, done, faults>>

\* The context is cancelled between two orgs: the tick saves what it has.
Interrupt(r) ==
    /\ pc[r] = "meter"
    /\ faults < MaxFaults
    /\ faults' = faults + 1
    /\ pc' = [pc EXCEPT ![r] = "save"]
    /\ UNCHANGED <<clock, usage, mark, now, at, hi, todo, good, all, last, first, done, base>>

\* The tick ends where it is: a panic, a failed SetMeterState, a restart.
Crash(r) ==
    /\ pc[r] # "idle"
    /\ faults < MaxFaults
    /\ faults' = faults + 1
    /\ pc' = [pc EXCEPT ![r] = "idle"]
    /\ UNCHANGED <<clock, usage, mark, now, at, hi, todo, good, all, last, first, done, base>>

-----------------------------------------------------------------------------
Step(r) ==
    \/ Wake(r) \/ HoursToMeter(r) \/ UpToDate(r) \/ HourDone(r) \/ Persist(r)
    \/ \E o \in Orgs : MeterOrgHour(r, o)

Fault(r) ==
    \/ HoursToMeterBlind(r) \/ Interrupt(r) \/ Crash(r)
    \/ \E o \in Orgs : MeterOrgHourFails(r, o)

Next ==
    \/ Strike
    \/ \E r \in Replicas : Step(r) \/ Fault(r)

Spec == Init /\ [][Next]_vars

\* Time passes and the tickers keep ticking.
FairSpec == Spec /\ WF_vars(Strike) /\ \A r \in Replicas : WF_vars(Step(r))

-----------------------------------------------------------------------------
(* Properties.                                                             *)

TypeOK ==
    /\ clock \in Hours
    /\ usage \in [Orgs \X Hours \X Dims -> Nat]
    /\ mark \in 0..MaxHour
    /\ pc \in [Replicas -> {"idle", "read", "meter", "save"}]
    /\ now \in [Replicas -> 0..MaxHour]
    /\ at \in [Replicas -> 0..MaxHour]
    /\ hi \in [Replicas -> 0..MaxHour]
    /\ todo \in [Replicas -> SUBSET Orgs]
    /\ good \in [Replicas -> BOOLEAN]
    /\ all \in [Replicas -> BOOLEAN]
    /\ last \in [Replicas -> 0..MaxHour]
    /\ first \in [Replicas -> BOOLEAN]
    /\ done \subseteq Orgs \X Hours
    /\ base \in 0..MaxHour
    /\ faults \in Nat

\* The watermark never passes an hour that was not metered for every org: from
\* the last tick that took itself for the first run on, each hour up to it was
\* metered in full by some tick, whatever failed, crashed or ran at the same time
\* (MeterUsage: the last-metered hour is advanced only over hours that fully
\* succeeded for every org).
WatermarkSafe ==
    \A o \in Orgs, h \in Hours : base <= h /\ h <= mark => <<o, h>> \in done

\* A record is written once: a retry, a second replica or a catch-up at other
\* prices neither changes nor removes what an hour was charged.
WrittenOnce ==
    [][\A b \in DOMAIN usage : usage[b] # 0 => usage'[b] = usage[b]]_usage

\* Once the failures end, metering catches up with the clock and stays there.
CatchesUp == <>[](mark = MaxHour)

=============================================================================
