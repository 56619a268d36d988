---------------------------- MODULE UsageProofs ----------------------------
(***************************************************************************)
(* Proofs about Metering, the hourly records of what each org uses, and    *)
(* UsageReport, what of them is reported to the payment provider, for any  *)
(* orgs, replicas, costs, hours, months and faults.                        *)
(***************************************************************************)
EXTENDS Metering, UsageReport, TLAPS

-----------------------------------------------------------------------------
(* Metering: every bucket is written once and the watermark is safe.       *)

\* A tick under way has taken an hour, and meters hours up to a later one.
Started(r) ==
    /\ pc[r] # "idle" => now[r] \in Hours
    /\ pc[r] = "meter" => at[r] \in Hours

\* Each hour since the last first run and up to h was metered for every org.
DoneUpTo(h) == \A o \in Orgs, k \in Hours : base <= k /\ k <= h => <<o, k>> \in done

\* What a tick knows about the hour it is metering and the hours before it.
Meters(r) ==
    /\ good[r] => \A o \in Orgs \ todo[r] : <<o, at[r]>> \in done
    /\ all[r] /\ ~first[r] => \A o \in Orgs, k \in Hours : base <= k /\ k < at[r] => <<o, k>> \in done

\* What it knows about the hour it would save as the watermark.
MaySave(r) ==
    /\ last[r] # 0 /\ first[r] => \A o \in Orgs : <<o, last[r]>> \in done
    /\ last[r] # 0 /\ ~first[r] => DoneUpTo(last[r])

TypeInv == TypeOK /\ \A r \in Replicas : Started(r)

WatermarkInv ==
    /\ TypeInv
    /\ WatermarkSafe
    /\ \A r \in Replicas : /\ pc[r] = "meter" => Meters(r)
                           /\ pc[r] \in {"meter", "save"} => MaySave(r)

-----------------------------------------------------------------------------
\* The steps of Next, one by one.
LEMMA NextCases ==
    ASSUME Next
    PROVE  \/ Strike
           \/ \E r \in Replicas :
                \/ Wake(r) \/ HoursToMeter(r) \/ UpToDate(r) \/ HourDone(r) \/ Persist(r)
                \/ HoursToMeterBlind(r) \/ Interrupt(r) \/ Crash(r)
                \/ \E o \in Orgs : MeterOrgHour(r, o) \/ MeterOrgHourFails(r, o)
BY DEF Next, Step, Fault

\* A tick that takes its hours from lo to h keeps the types.
LEMMA MeterHoursType ==
    ASSUME TypeInv, NEW r \in Replicas, NEW lo \in Hours, NEW h \in 0..MaxHour,
           now[r] \in Hours, MeterHours(r, lo, h), first' \in [Replicas -> BOOLEAN]
    PROVE  TypeInv'
<1>1. TypeOK'
  <2>1. lo \in 0..MaxHour
    BY DEF Hours
  <2>2. /\ pc' \in [Replicas -> {"idle", "read", "meter", "save"}]
        /\ at' \in [Replicas -> 0..MaxHour]
        /\ hi' \in [Replicas -> 0..MaxHour]
        /\ todo' \in [Replicas -> SUBSET Orgs]
        /\ last' \in [Replicas -> 0..MaxHour]
    BY <2>1, MaxHourAssumption DEF TypeInv, TypeOK, MeterHours
  <2>3. good' \in [Replicas -> BOOLEAN] /\ all' \in [Replicas -> BOOLEAN]
    BY DEF TypeInv, TypeOK, MeterHours
  <2>q. QED
    BY <2>2, <2>3 DEF TypeInv, TypeOK, MeterHours, Hours
<1>2. ASSUME NEW q \in Replicas PROVE Started(q)'
  <2>1. now'[q] = now[q] /\ (q # r => pc'[q] = pc[q] /\ at'[q] = at[q])
    BY DEF TypeInv, TypeOK, MeterHours
  <2>2. pc'[r] = "meter" /\ at'[r] = lo
    BY DEF TypeInv, TypeOK, MeterHours
  <2>3. CASE q # r
    BY <2>1, <2>3 DEF TypeInv, Started, Hours
  <2>q. QED
    BY <2>1, <2>2, <2>3 DEF TypeInv, Started, Hours
<1>q. QED
  BY <1>1, <1>2 DEF TypeInv

\* Writing buckets keeps the records naturals.
LEMMA AddUsageType ==
    ASSUME TypeInv, NEW r \in Replicas, NEW o \in Orgs, NEW ds, NEW cost \in Costs,
           AddUsageIfAbsent(r, o, ds, cost)
    PROVE  usage' \in [Orgs \X Hours \X Dims -> Nat]
<1>1. ASSUME NEW b \in Orgs \X Hours \X Dims PROVE cost[b[3]] \in Nat
  BY CostsAssumption
<1>q. QED
  BY <1>1 DEF TypeInv, TypeOK, AddUsageIfAbsent

LEMMA TypeInit == Init => TypeInv
BY MaxHourAssumption DEF Init, TypeInv, TypeOK, Started, Hours

LEMMA TypeStep == TypeInv /\ [Next]_vars => TypeInv'
<1> SUFFICES ASSUME TypeInv, [Next]_vars PROVE TypeInv'
  OBVIOUS
<1> USE MaxHourAssumption
<1>1. CASE Strike
  BY <1>1 DEF Strike, tick, TypeInv, TypeOK, Started, Hours
<1>2. ASSUME NEW r \in Replicas, Wake(r) PROVE TypeInv'
  BY <1>2 DEF Wake, TypeInv, TypeOK, Started, Hours
<1>3. ASSUME NEW r \in Replicas, HoursToMeter(r) PROVE TypeInv'
  <2>1. first' \in [Replicas -> BOOLEAN]
    BY <1>3 DEF HoursToMeter, TypeInv, TypeOK
  <2>2. now[r] \in Hours /\ mark \in 0..MaxHour
    BY <1>3 DEF HoursToMeter, TypeInv, TypeOK, Started
  <2>3. CASE MeterHours(r, now[r], now[r])
    BY <2>1, <2>2, <2>3, MeterHoursType DEF Hours
  <2>4. CASE mark < now[r] /\ MeterHours(r, mark + 1, MinOf(now[r], mark + MaxCatchup))
    <3>1. mark + 1 \in Hours /\ MinOf(now[r], mark + MaxCatchup) \in 0..MaxHour
      BY <2>2, <2>4, MaxCatchupAssumption DEF Hours, MinOf
    <3>q. QED
      BY <2>1, <2>2, <2>4, <3>1, MeterHoursType
  <2>q. QED
    BY <1>3, <2>3, <2>4 DEF HoursToMeter
<1>4. ASSUME NEW r \in Replicas, UpToDate(r) PROVE TypeInv'
  BY <1>4 DEF UpToDate, TypeInv, TypeOK, Started, Hours
<1>5. ASSUME NEW r \in Replicas, HoursToMeterBlind(r) PROVE TypeInv'
  <2>1. first' \in [Replicas -> BOOLEAN]
    BY <1>5 DEF HoursToMeterBlind, TypeInv, TypeOK
  <2>2. now[r] \in Hours
    BY <1>5 DEF HoursToMeterBlind, TypeInv, TypeOK, Started
  <2>q. QED
    BY <1>5, <2>1, <2>2, MeterHoursType DEF HoursToMeterBlind, Hours
<1>6. ASSUME NEW r \in Replicas, NEW o \in Orgs, MeterOrgHour(r, o) PROVE TypeInv'
  <2>1. usage' \in [Orgs \X Hours \X Dims -> Nat]
    BY <1>6, AddUsageType DEF MeterOrgHour
  <2>2. at[r] \in Hours
    BY <1>6 DEF MeterOrgHour, TypeInv, Started
  <2>q. QED
    BY <1>6, <2>1, <2>2 DEF MeterOrgHour, TypeInv, TypeOK, Started
<1>7. ASSUME NEW r \in Replicas, NEW o \in Orgs, MeterOrgHourFails(r, o) PROVE TypeInv'
  <2>1. usage' \in [Orgs \X Hours \X Dims -> Nat]
    BY <1>7, AddUsageType DEF MeterOrgHourFails
  <2>q. QED
    BY <1>7, <2>1 DEF MeterOrgHourFails, TypeInv, TypeOK, Started
<1>8. ASSUME NEW r \in Replicas, HourDone(r) PROVE TypeInv'
  <2>1. CASE at[r] < hi[r] /\ at' = [at EXCEPT ![r] = @ + 1] /\ UNCHANGED pc
    <3>1. at[r] + 1 \in Hours
      BY <1>8, <2>1 DEF HourDone, TypeInv, TypeOK, Hours
    <3>2. at' \in [Replicas -> 0..MaxHour] /\ last' \in [Replicas -> 0..MaxHour]
      BY <1>8, <2>1, <3>1 DEF HourDone, TypeInv, TypeOK, Hours
    <3>3. all' \in [Replicas -> BOOLEAN] /\ good' \in [Replicas -> BOOLEAN] /\ todo' \in [Replicas -> SUBSET Orgs]
      BY <1>8, <2>1 DEF HourDone, TypeInv, TypeOK
    <3>4. TypeOK'
      BY <1>8, <2>1, <3>2, <3>3 DEF HourDone, TypeInv, TypeOK, Hours
    <3>5. ASSUME NEW q \in Replicas PROVE Started(q)'
      <4>1. at'[q] \in {at[q], at[r] + 1} /\ (at'[q] # at[q] => q = r)
        BY <2>1 DEF TypeInv, TypeOK
      <4>q. QED
        BY <1>8, <2>1, <3>1, <4>1 DEF HourDone, TypeInv, Started, Hours
    <3>q. QED
      BY <3>4, <3>5 DEF TypeInv
  <2>2. CASE pc' = [pc EXCEPT ![r] = "save"] /\ UNCHANGED <<at, todo, good>>
    BY <1>8, <2>2 DEF HourDone, TypeInv, TypeOK, Started, Hours
  <2>q. QED
    BY <1>8, <2>1, <2>2 DEF HourDone
<1>9. ASSUME NEW r \in Replicas, Persist(r) PROVE TypeInv'
  BY <1>9 DEF Persist, MaxOf, TypeInv, TypeOK, Started, Hours
<1>10. ASSUME NEW r \in Replicas, Interrupt(r) \/ Crash(r) PROVE TypeInv'
  BY <1>10 DEF Interrupt, Crash, TypeInv, TypeOK, Started, Hours
<1>11. CASE UNCHANGED vars
  BY <1>11 DEF vars, tick, TypeInv, TypeOK, Started
<1>q. QED
  BY <1>1, <1>2, <1>3, <1>4, <1>5, <1>6, <1>7, <1>8, <1>9, <1>10, <1>11, NextCases

\* The state stays well typed: the hours a tick takes from the watermark and the
\* catch-up bound never leave the clock's range (hoursToMeter).
THEOREM TypeCorrect == Spec => []TypeOK
<1>1. TypeInv => TypeOK
  BY DEF TypeInv
<1>q. QED
  BY <1>1, TypeInit, TypeStep, PTL DEF Spec

-----------------------------------------------------------------------------
\* A bucket that holds a record is left alone (AddUsageIfAbsent).
LEMMA AddUsageKeeps ==
    ASSUME TypeOK, NEW r, NEW o, NEW ds, NEW cost, AddUsageIfAbsent(r, o, ds, cost),
           NEW b \in DOMAIN usage, usage[b] # 0
    PROVE  usage'[b] = usage[b]
BY DEF AddUsageIfAbsent

\* Whatever replicas, retries, crashes, unreadable watermarks and price changes
\* do, a usage record is never changed or removed (AddUsageIfAbsent, MeterUsage).
THEOREM ChargedOnce == Spec => WrittenOnce
<1> DEFINE Kept == \A b \in DOMAIN usage : usage[b] # 0 => usage'[b] = usage[b]
<1>1. ASSUME TypeOK, Next PROVE Kept \/ UNCHANGED usage
  <2>1. CASE UNCHANGED usage
    BY <2>1
  <2>2. ASSUME NEW r \in Replicas, NEW o \in Orgs, MeterOrgHour(r, o) \/ MeterOrgHourFails(r, o)
        PROVE  Kept
    <3>1. PICK ds \in SUBSET Dims, cost \in Costs : AddUsageIfAbsent(r, o, ds, cost)
      BY <2>2 DEF MeterOrgHour, MeterOrgHourFails, Dims
    <3>q. QED
      BY <1>1, <3>1, AddUsageKeeps
  <2>q. QED
    BY <1>1, <2>1, <2>2, NextCases
       DEF Strike, Wake, HoursToMeter, MeterHours, UpToDate, HourDone, Persist,
           HoursToMeterBlind, Interrupt, Crash
<1>2. TypeOK /\ [Next]_vars => [Kept]_usage
  BY <1>1 DEF vars
<1>q. QED
  BY <1>2, TypeCorrect, PTL DEF Spec, WrittenOnce

-----------------------------------------------------------------------------
(* The watermark.                                                          *)

\* What one replica knows survives a step of another that adds to done and
\* base and changes nothing else of it.
LEMMA OthersKeep ==
    ASSUME WatermarkInv, NEW q \in Replicas, base \in Nat, base' \in Nat,
           done \subseteq done', base <= base',
           pc'[q] = pc[q], at'[q] = at[q], todo'[q] = todo[q], good'[q] = good[q],
           all'[q] = all[q], last'[q] = last[q], first'[q] = first[q]
    PROVE  /\ pc'[q] = "meter" => Meters(q)'
           /\ pc'[q] \in {"meter", "save"} => MaySave(q)'
<1>1. ASSUME pc[q] = "meter" PROVE Meters(q)'
  <2>1. Meters(q)
    BY <1>1 DEF WatermarkInv
  <2>q. QED
    BY <2>1 DEF Meters, Hours
<1>2. ASSUME pc[q] \in {"meter", "save"} PROVE MaySave(q)'
  <2>1. MaySave(q)
    BY <1>2 DEF WatermarkInv
  <2>q. QED
    BY <2>1 DEF MaySave, DoneUpTo, Hours
<1>q. QED
  BY <1>1, <1>2

\* The watermark stays safe when only done grows.
LEMMA SafeKept ==
    ASSUME WatermarkSafe, mark' = mark, base' = base, done \subseteq done'
    PROVE  WatermarkSafe'
BY DEF WatermarkSafe, Hours

LEMMA WatermarkInit == Init => WatermarkInv
<1> SUFFICES ASSUME Init PROVE WatermarkInv
  OBVIOUS
<1>1. TypeInv
  BY TypeInit
<1>2. WatermarkSafe
  BY MaxHourAssumption DEF Init, WatermarkSafe, Hours
<1>q. QED
  BY <1>1, <1>2 DEF Init, WatermarkInv

LEMMA WatermarkStep == WatermarkInv /\ [Next]_vars => WatermarkInv'
<1> SUFFICES ASSUME WatermarkInv, [Next]_vars PROVE WatermarkInv'
  OBVIOUS
<1> DEFINE Knows(q) == /\ pc[q] = "meter" => Meters(q)
                       /\ pc[q] \in {"meter", "save"} => MaySave(q)
<1>t. TypeInv /\ TypeInv' /\ TypeOK /\ WatermarkSafe /\ base \in Nat /\ base' \in Nat
  <2>1. TypeInv /\ TypeInv'
    BY TypeStep DEF WatermarkInv
  <2>q. QED
    BY <2>1, MaxHourAssumption DEF WatermarkInv, TypeInv, TypeOK
<1>1. CASE Strike
  <2>1. WatermarkSafe'
    BY <1>1, <1>t, SafeKept DEF Strike
  <2>2. ASSUME NEW q \in Replicas PROVE Knows(q)'
    BY <1>1, <1>t, OthersKeep DEF Strike, tick
  <2>q. QED
    BY <1>t, <2>1, <2>2 DEF WatermarkInv
<1>2. ASSUME NEW r \in Replicas, Wake(r) \/ UpToDate(r) \/ Crash(r) PROVE WatermarkInv'
  <2>1. WatermarkSafe'
    BY <1>2, <1>t, SafeKept DEF Wake, UpToDate, Crash
  <2>2. ASSUME NEW q \in Replicas PROVE Knows(q)'
    <3>1. CASE q = r
      <4>1. pc'[r] \in {"idle", "read"}
        BY <1>2, <1>t DEF Wake, UpToDate, Crash, TypeOK
      <4>q. QED
        BY <3>1, <4>1
    <3>2. CASE q # r
      <4>1. pc'[q] = pc[q]
        BY <1>2, <1>t, <3>2 DEF Wake, UpToDate, Crash, TypeOK
      <4>q. QED
        BY <1>2, <1>t, <4>1, OthersKeep DEF Wake, UpToDate, Crash
    <3>q. QED
      BY <3>1, <3>2
  <2>q. QED
    BY <1>t, <2>1, <2>2 DEF WatermarkInv
<1>3. ASSUME NEW r \in Replicas, HoursToMeter(r) PROVE WatermarkInv'
  <2>1. PICK lo, h : MeterHours(r, lo, h) /\ (mark # 0 => lo - 1 <= mark) /\ lo \in Nat
    <3>1. now[r] \in Nat /\ mark \in Nat
      BY <1>3, <1>t DEF TypeOK
    <3>2. CASE mark = 0 \/ mark > now[r]
      BY <1>3, <3>1, <3>2 DEF HoursToMeter
    <3>3. CASE mark # 0 /\ mark < now[r]
      BY <1>3, <3>1, <3>3 DEF HoursToMeter
    <3>q. QED
      BY <1>3, <3>2, <3>3 DEF HoursToMeter
  <2>2. WatermarkSafe'
    BY <2>1, <1>t, SafeKept DEF MeterHours
  <2>3. ASSUME NEW q \in Replicas PROVE Knows(q)'
    <3>1. CASE q = r
      <4>1. /\ at'[r] = lo /\ todo'[r] = Orgs /\ last'[r] = 0 /\ first'[r] = (mark = 0)
            /\ base' = base /\ done' = done
        BY <1>3, <1>t, <2>1 DEF HoursToMeter, MeterHours, TypeOK
      <4>2. ASSUME mark # 0, NEW o \in Orgs, NEW k \in Hours, base <= k, k < lo
            PROVE  <<o, k>> \in done
        BY <1>t, <2>1, <4>2 DEF WatermarkSafe, Hours, TypeOK
      <4>3. Meters(r)'
        BY <4>1, <4>2 DEF Meters, Hours
      <4>4. MaySave(r)'
        BY <4>1 DEF MaySave
      <4>q. QED
        BY <3>1, <4>3, <4>4
    <3>2. CASE q # r
      <4>1. /\ pc'[q] = pc[q] /\ at'[q] = at[q] /\ todo'[q] = todo[q] /\ good'[q] = good[q]
            /\ all'[q] = all[q] /\ last'[q] = last[q] /\ first'[q] = first[q]
        BY <1>3, <1>t, <2>1, <3>2 DEF HoursToMeter, MeterHours, TypeOK
      <4>2. done \subseteq done' /\ base <= base'
        BY <1>t, <2>1 DEF MeterHours
      <4>q. QED
        BY <1>t, <4>1, <4>2, OthersKeep
    <3>q. QED
      BY <3>1, <3>2
  <2>q. QED
    BY <1>t, <2>2, <2>3 DEF WatermarkInv
<1>4. ASSUME NEW r \in Replicas, NEW o \in Orgs, MeterOrgHour(r, o) PROVE WatermarkInv'
  <2>1. WatermarkSafe'
    BY <1>4, <1>t, SafeKept DEF MeterOrgHour
  <2>2. ASSUME NEW q \in Replicas PROVE Knows(q)'
    <3>1. CASE q = r
      <4>1. /\ pc'[r] = "meter" /\ pc[r] = "meter" /\ at'[r] = at[r] /\ todo'[r] = todo[r] \ {o}
            /\ good'[r] = good[r] /\ all'[r] = all[r] /\ last'[r] = last[r] /\ first'[r] = first[r]
            /\ base' = base /\ done' = done \cup {<<o, at[r]>>}
        BY <1>4, <1>t DEF MeterOrgHour, TypeOK
      <4>2. Meters(r) /\ MaySave(r)
        BY <4>1 DEF WatermarkInv
      <4>3. Meters(r)'
        BY <4>1, <4>2 DEF Meters, Hours
      <4>4. MaySave(r)'
        BY <4>1, <4>2 DEF MaySave, DoneUpTo, Hours
      <4>q. QED
        BY <3>1, <4>3, <4>4
    <3>2. CASE q # r
      <4>1. todo'[q] = todo[q]
        BY <1>4, <1>t, <3>2 DEF MeterOrgHour, TypeOK
      <4>q. QED
        BY <1>4, <1>t, <4>1, OthersKeep DEF MeterOrgHour
    <3>q. QED
      BY <3>1, <3>2
  <2>q. QED
    BY <1>t, <2>1, <2>2 DEF WatermarkInv
<1>5. ASSUME NEW r \in Replicas, NEW o \in Orgs, MeterOrgHourFails(r, o) PROVE WatermarkInv'
  <2>1. WatermarkSafe'
    BY <1>5, <1>t, SafeKept DEF MeterOrgHourFails
  <2>2. ASSUME NEW q \in Replicas PROVE Knows(q)'
    <3>1. CASE q = r
      <4>1. /\ pc'[r] = "meter" /\ pc[r] = "meter" /\ at'[r] = at[r] /\ good'[r] = FALSE
            /\ all'[r] = all[r] /\ last'[r] = last[r] /\ first'[r] = first[r]
            /\ base' = base /\ done' = done
        BY <1>5, <1>t DEF MeterOrgHourFails, TypeOK
      <4>2. Meters(r) /\ MaySave(r)
        BY <4>1 DEF WatermarkInv
      <4>3. Meters(r)'
        BY <4>1, <4>2 DEF Meters, Hours
      <4>4. MaySave(r)'
        BY <4>1, <4>2 DEF MaySave, DoneUpTo, Hours
      <4>q. QED
        BY <3>1, <4>3, <4>4
    <3>2. CASE q # r
      <4>1. todo'[q] = todo[q] /\ good'[q] = good[q]
        BY <1>5, <1>t, <3>2 DEF MeterOrgHourFails, TypeOK
      <4>2. /\ pc'[q] = pc[q] /\ at'[q] = at[q] /\ all'[q] = all[q] /\ last'[q] = last[q]
            /\ first'[q] = first[q] /\ done \subseteq done' /\ base <= base'
        BY <1>5, <1>t DEF MeterOrgHourFails
      <4>q. QED
        BY <1>t, <4>1, <4>2, OthersKeep
    <3>q. QED
      BY <3>1, <3>2
  <2>q. QED
    BY <1>t, <2>1, <2>2 DEF WatermarkInv
<1>6. ASSUME NEW r \in Replicas, HourDone(r) PROVE WatermarkInv'
  <2>1. WatermarkSafe'
    BY <1>6, <1>t, SafeKept DEF HourDone
  <2>2. ASSUME NEW q \in Replicas PROVE Knows(q)'
    <3>1. CASE q = r
      <4>1. /\ pc[r] = "meter" /\ todo[r] = {} /\ at[r] \in Nat
            /\ all'[r] = (all[r] /\ good[r]) /\ first'[r] = first[r]
            /\ last'[r] = IF all[r] /\ good[r] THEN at[r] ELSE last[r]
            /\ base' = base /\ done' = done
        BY <1>6, <1>t DEF HourDone, TypeOK
      <4>2. Meters(r) /\ MaySave(r)
        BY <4>1 DEF WatermarkInv
      <4>3. ASSUME all[r], good[r], ~first[r], NEW o \in Orgs, NEW k \in Hours, base <= k, k <= at[r]
            PROVE  <<o, k>> \in done
        BY <1>t, <4>1, <4>2, <4>3 DEF Meters, Hours
      <4>4. ASSUME good[r], NEW o \in Orgs PROVE <<o, at[r]>> \in done
        BY <4>1, <4>2, <4>4 DEF Meters
      <4>5. MaySave(r)'
        BY <4>1, <4>2, <4>3, <4>4 DEF MaySave, DoneUpTo, Hours
      <4>6. ASSUME pc'[r] = "meter" PROVE Meters(r)'
        <5>1. at'[r] = at[r] + 1 /\ todo'[r] = Orgs
          BY <1>6, <1>t, <4>6 DEF HourDone, TypeOK
        <5>2. ASSUME all'[r], ~first'[r], NEW o \in Orgs, NEW k \in Hours, base' <= k, k < at'[r]
              PROVE  <<o, k>> \in done'
          <6>1. k <= at[r]
            BY <4>1, <5>1, <5>2 DEF Hours
          <6>q. QED
            BY <4>1, <4>3, <5>2, <6>1
        <5>q. QED
          BY <5>1, <5>2 DEF Meters, Hours
      <4>q. QED
        BY <3>1, <4>5, <4>6
    <3>2. CASE q # r
      <4>1. /\ pc'[q] = pc[q] /\ at'[q] = at[q] /\ todo'[q] = todo[q] /\ good'[q] = good[q]
            /\ all'[q] = all[q] /\ last'[q] = last[q]
        BY <1>6, <1>t, <3>2 DEF HourDone, TypeOK
      <4>q. QED
        BY <1>6, <1>t, <4>1, OthersKeep DEF HourDone
    <3>q. QED
      BY <3>1, <3>2
  <2>q. QED
    BY <1>t, <2>1, <2>2 DEF WatermarkInv
<1>7. ASSUME NEW r \in Replicas, Persist(r) PROVE WatermarkInv'
  <2>1. last[r] \in Nat /\ mark \in Nat /\ base <= base'
    BY <1>7, <1>t DEF Persist, MaxOf, TypeOK
  <2>2. MaySave(r) /\ done' = done
    BY <1>7 DEF WatermarkInv, Persist
  <2>3. WatermarkSafe'
    <3>1. CASE last[r] = 0
      <4>1. mark' = mark
        BY <1>7, <3>1 DEF Persist
      <4>q. QED
        BY <1>t, <2>1, <2>2, <4>1 DEF WatermarkSafe, Hours
    <3>2. CASE last[r] # 0 /\ first[r]
      <4>1. mark' = last[r] /\ last[r] <= base'
        BY <1>7, <1>t, <2>1, <3>2 DEF Persist, MaxOf
      <4>2. \A o \in Orgs : <<o, last[r]>> \in done
        BY <2>2, <3>2 DEF MaySave
      <4>q. QED
        BY <1>t, <2>1, <2>2, <4>1, <4>2 DEF WatermarkSafe, Hours
    <3>3. CASE last[r] # 0 /\ ~first[r]
      <4>1. mark' = last[r] /\ base' = base
        BY <1>7, <3>3 DEF Persist
      <4>2. DoneUpTo(last[r])
        BY <2>2, <3>3 DEF MaySave
      <4>q. QED
        BY <2>2, <4>1, <4>2 DEF WatermarkSafe, DoneUpTo, Hours
    <3>q. QED
      BY <3>1, <3>2, <3>3
  <2>4. ASSUME NEW q \in Replicas PROVE Knows(q)'
    <3>1. CASE q = r
      BY <1>7, <1>t, <3>1 DEF Persist, TypeOK
    <3>2. CASE q # r
      <4>1. pc'[q] = pc[q]
        BY <1>7, <1>t, <3>2 DEF Persist, TypeOK
      <4>q. QED
        BY <1>7, <1>t, <2>1, <4>1, OthersKeep DEF Persist
    <3>q. QED
      BY <3>1, <3>2
  <2>q. QED
    BY <1>t, <2>3, <2>4 DEF WatermarkInv
<1>8. ASSUME NEW r \in Replicas, Interrupt(r) PROVE WatermarkInv'
  <2>1. WatermarkSafe'
    BY <1>8, <1>t, SafeKept DEF Interrupt
  <2>2. ASSUME NEW q \in Replicas PROVE Knows(q)'
    <3>1. CASE q = r
      <4>1. pc'[r] = "save" /\ MaySave(r)
        BY <1>8, <1>t DEF Interrupt, TypeOK, WatermarkInv
      <4>2. MaySave(r)'
        BY <1>8, <4>1 DEF Interrupt, MaySave, DoneUpTo
      <4>q. QED
        BY <3>1, <4>1, <4>2
    <3>2. CASE q # r
      <4>1. pc'[q] = pc[q]
        BY <1>8, <1>t, <3>2 DEF Interrupt, TypeOK
      <4>q. QED
        BY <1>8, <1>t, <4>1, OthersKeep DEF Interrupt
    <3>q. QED
      BY <3>1, <3>2
  <2>q. QED
    BY <1>t, <2>1, <2>2 DEF WatermarkInv
<1>9. ASSUME NEW r \in Replicas, HoursToMeterBlind(r) PROVE WatermarkInv'
  <2>1. MeterHours(r, now[r], now[r])
    BY <1>9 DEF HoursToMeterBlind
  <2>2. WatermarkSafe'
    BY <2>1, <1>t, SafeKept DEF MeterHours
  <2>3. ASSUME NEW q \in Replicas PROVE Knows(q)'
    <3>1. CASE q = r
      <4>1. todo'[r] = Orgs /\ last'[r] = 0 /\ first'[r]
        BY <1>9, <1>t, <2>1 DEF HoursToMeterBlind, MeterHours, TypeOK
      <4>2. Meters(r)' /\ MaySave(r)'
        BY <4>1 DEF Meters, MaySave
      <4>q. QED
        BY <3>1, <4>2
    <3>2. CASE q # r
      <4>1. /\ pc'[q] = pc[q] /\ at'[q] = at[q] /\ todo'[q] = todo[q] /\ good'[q] = good[q]
            /\ all'[q] = all[q] /\ last'[q] = last[q] /\ first'[q] = first[q]
        BY <1>9, <1>t, <2>1, <3>2 DEF HoursToMeterBlind, MeterHours, TypeOK
      <4>2. done \subseteq done' /\ base <= base'
        BY <1>t, <2>1 DEF MeterHours
      <4>q. QED
        BY <1>t, <4>1, <4>2, OthersKeep
    <3>q. QED
      BY <3>1, <3>2
  <2>q. QED
    BY <1>t, <2>2, <2>3 DEF WatermarkInv
<1>10. CASE UNCHANGED vars
  <2>1. WatermarkSafe'
    BY <1>10, <1>t, SafeKept DEF vars
  <2>2. ASSUME NEW q \in Replicas PROVE Knows(q)'
    BY <1>10, <1>t, OthersKeep DEF vars, tick
  <2>q. QED
    BY <1>t, <2>1, <2>2 DEF WatermarkInv
<1>q. QED
  BY <1>1, <1>2, <1>3, <1>4, <1>5, <1>6, <1>7, <1>8, <1>9, <1>10, NextCases

\* The watermark never passes an hour that was not metered for every org since
\* the last tick that took itself for the first run, however many replicas tick at
\* once and whatever fails (MeterUsage, hoursToMeter, persistAndReturn).
THEOREM WatermarkIsSafe == Spec => []WatermarkSafe
<1>1. WatermarkInv => WatermarkSafe
  BY DEF WatermarkInv
<1>q. QED
  BY <1>1, WatermarkStep, WatermarkInit, PTL DEF Spec

-----------------------------------------------------------------------------
(* UsageReport: the watermark is backed and each period is billed once.    *)

\* One replica of the control plane reports.
Solo == \A q, r \in Reporters : q = r

\* A call under way has a period the row has had, and pushes a positive increment.
CallInv(r) ==
    /\ stage[r] # "idle" => per[r] \in Periods /\ per[r] <= sub
    /\ stage[r] \in {"push", "save"} => already[r] < cents[r]

ReportTypeInv == ReportTypeOK /\ \A r \in Reporters : CallInv(r)

\* What a call knows of what the provider has taken for its period.
Backed(r) ==
    /\ stage[r] # "idle" => wmPeriod <= per[r]
    /\ stage[r] \in {"push", "anchor"} => already[r] <= billed[per[r]]
    /\ stage[r] = "save" => cents[r] <= billed[per[r]]

BackedInv ==
    /\ ReportTypeInv
    /\ WatermarkBacked
    /\ wmPeriod <= sub
    /\ \A r \in Reporters : Backed(r)

\* A period whose increment is billed and not yet in the watermark.
Pending(p) == \E r \in Reporters : stage[r] = "save" /\ per[r] = p

\* What a call knows of the increments that were recorded.
Exact(r) ==
    /\ stage[r] \in {"load", "push", "anchor", "save"} => cents[r] * Unit <= used[per[r]]
    /\ stage[r] \in {"push", "anchor"} => already[r] = kept[per[r]]
    /\ stage[r] = "save" => cents[r] = kept[per[r]]
    /\ stage[r] \in {"push", "save"} => already[r] = ReportedCents(per[r])

OnceInv ==
    /\ BackedInv
    /\ PeriodBilledOnce
    /\ \A r \in Reporters : Exact(r)
    /\ \A p \in Periods : wmPeriod < p /\ ~Pending(p) => kept[p] = 0
    /\ wmPeriod # 0 /\ ~Pending(wmPeriod) => kept[wmPeriod] = wmCents

-----------------------------------------------------------------------------
LEMMA ReportNextCases ==
    ASSUME ReportNext
    PROVE  \/ \E m \in Periods, q \in Quantities : Meter(m, q)
           \/ RollOver \/ Renew
           \/ \E r \in Reporters : \/ PeriodStart(r) \/ ListUsage(r) \/ Load(r) \/ Push(r)
                                  \/ Anchor(r) \/ Save(r) \/ AnswerLost(r) \/ Fail(r)
BY DEF ReportNext, ReportUsage

\* The whole cents of an amount are at most the amount.
LEMMA WholeCents ==
    ASSUME NEW n \in Nat
    PROVE  n \div Unit \in Nat /\ (n \div Unit) * Unit <= n
BY UnitAssumption, SMT

\* Fewer cents are no more micro-cents.
LEMMA LessCents ==
    ASSUME NEW a \in Nat, NEW b \in Nat, NEW c \in Nat, NEW n \in Nat, a < b, b * n <= c
    PROVE  a * n <= c
<1>1. a * n <= b * n
  OBVIOUS
<1>q. QED
  BY <1>1

LEMMA ReportTypeInit == ReportInit => ReportTypeInv
BY MaxPeriodAssumption DEF ReportInit, ReportTypeInv, ReportTypeOK, CallInv, Periods

LEMMA ReportTypeStep == ReportTypeInv /\ [ReportNext]_reportVars => ReportTypeInv'
<1> SUFFICES ASSUME ReportTypeInv, [ReportNext]_reportVars PROVE ReportTypeInv'
  OBVIOUS
<1> USE MaxPeriodAssumption
<1>1. ASSUME NEW m \in Periods, NEW q \in Quantities, Meter(m, q) PROVE ReportTypeInv'
  <2>1. q \in Nat
    BY QuantitiesAssumption
  <2>2. used' \in [Periods -> Nat]
    BY <1>1, <2>1 DEF Meter, ReportTypeInv, ReportTypeOK, Periods
  <2>q. QED
    BY <1>1, <2>2 DEF Meter, call, ReportTypeInv, ReportTypeOK, CallInv
<1>2. CASE RollOver \/ Renew
  <2>1. /\ month' \in Periods /\ sub' \in Periods /\ sub' <= month' /\ sub <= sub'
        /\ sub \in Nat /\ sub' \in Nat
    <3>1. month \in Periods /\ sub \in Periods /\ sub <= month
      BY DEF ReportTypeInv, ReportTypeOK
    <3>2. \/ month < MaxPeriod /\ month' = month + 1 /\ sub' = sub
          \/ sub < month /\ month' = month /\ sub' = sub + 1
      BY <1>2 DEF RollOver, Renew
    <3>q. QED
      BY <3>1, <3>2 DEF Periods
  <2>2. ReportTypeOK'
    BY <1>2, <2>1 DEF RollOver, Renew, call, ReportTypeInv, ReportTypeOK
  <2>3. ASSUME NEW r \in Reporters PROVE CallInv(r)'
    BY <1>2, <2>1 DEF RollOver, Renew, call, ReportTypeInv, CallInv, Periods
  <2>q. QED
    BY <2>2, <2>3 DEF ReportTypeInv
<1>3. ASSUME NEW r \in Reporters, PeriodStart(r) PROVE ReportTypeInv'
  <2>a. sub \in 0..MaxPeriod
    BY DEF ReportTypeInv, ReportTypeOK, Periods
  <2>1. ReportTypeOK'
    BY <1>3, <2>a DEF PeriodStart, ReportTypeInv, ReportTypeOK
  <2>2. ASSUME NEW q \in Reporters PROVE CallInv(q)'
    <3>1. /\ q = r => stage'[q] = "list" /\ per'[q] = sub
          /\ q # r => stage'[q] = stage[q] /\ per'[q] = per[q]
          /\ sub \in Periods /\ sub <= sub
      BY <1>3 DEF PeriodStart, ReportTypeInv, ReportTypeOK, Periods
    <3>q. QED
      BY <1>3, <3>1 DEF PeriodStart, ReportTypeInv, CallInv
  <2>q. QED
    BY <2>1, <2>2 DEF ReportTypeInv
<1>4. ASSUME NEW r \in Reporters, ListUsage(r) PROVE ReportTypeInv'
  <2>1. per[r] \in Periods
    BY <1>4 DEF ListUsage, ReportTypeInv, CallInv
  <2>2. UsageSoFarCents(per[r]) \in Nat
    BY <2>1, WholeCents DEF UsageSoFarCents, ReportTypeInv, ReportTypeOK
  <2>q. QED
    BY <1>4, <2>2 DEF ListUsage, ReportTypeInv, ReportTypeOK, CallInv
<1>5. ASSUME NEW r \in Reporters, Load(r) PROVE ReportTypeInv'
  <2>1. ReportedCents(per[r]) \in Nat
    BY DEF ReportedCents, ReportTypeInv, ReportTypeOK
  <2>q. QED
    BY <1>5, <2>1 DEF Load, ReportTypeInv, ReportTypeOK, CallInv
<1>6. ASSUME NEW r \in Reporters, Push(r) \/ AnswerLost(r) PROVE ReportTypeInv'
  <2>1. /\ stage[r] = "push" /\ per[r] \in Periods /\ cents[r] - already[r] \in Nat
    BY <1>6 DEF Push, AnswerLost, ReportTypeInv, ReportTypeOK, CallInv
  <2>2. billed' \in [Periods -> Nat]
    BY <1>6, <2>1 DEF Push, AnswerLost, ReportTypeInv, ReportTypeOK
  <2>3. stage' \in [Reporters -> {"idle", "list", "load", "push", "anchor", "save"}] /\ failures' \in Nat
    BY <1>6 DEF Push, AnswerLost, ReportTypeInv, ReportTypeOK
  <2>4. ReportTypeOK'
    BY <1>6, <2>2, <2>3 DEF Push, AnswerLost, ReportTypeInv, ReportTypeOK
  <2>5. ASSUME NEW q \in Reporters PROVE CallInv(q)'
    <3>1. stage'[q] = stage[q] \/ (q = r /\ stage'[q] \in {"save", "idle"})
      BY <1>6 DEF Push, AnswerLost, ReportTypeInv, ReportTypeOK
    <3>q. QED
      BY <1>6, <2>1, <3>1 DEF Push, AnswerLost, ReportTypeInv, CallInv
  <2>q. QED
    BY <2>4, <2>5 DEF ReportTypeInv
<1>7. ASSUME NEW r \in Reporters, Anchor(r) \/ Save(r) PROVE ReportTypeInv'
  BY <1>7 DEF Anchor, Save, ReportTypeInv, ReportTypeOK, CallInv
<1>8. ASSUME NEW r \in Reporters, Fail(r) PROVE ReportTypeInv'
  BY <1>8 DEF Fail, ReportTypeInv, ReportTypeOK, CallInv
<1>9. CASE UNCHANGED reportVars
  BY <1>9 DEF reportVars, call, ReportTypeInv, ReportTypeOK, CallInv
<1>q. QED
  BY <1>1, <1>2, <1>3, <1>4, <1>5, <1>6, <1>7, <1>8, <1>9, ReportNextCases

\* The state stays well typed for any number of replicas; every increment that
\* reaches the provider is positive (ReportUsage).
THEOREM ReportTypeCorrect == ReportSpec => []ReportTypeOK
<1>1. ReportTypeInv => ReportTypeOK
  BY DEF ReportTypeInv
<1>q. QED
  BY <1>1, ReportTypeInit, ReportTypeStep, PTL DEF ReportSpec

-----------------------------------------------------------------------------
(* The watermark is backed.                                                *)

LEMMA BackedInit == ReportInit => BackedInv
<1> SUFFICES ASSUME ReportInit PROVE BackedInv
  OBVIOUS
<1>1. ReportTypeInv
  BY ReportTypeInit
<1>q. QED
  BY <1>1 DEF ReportInit, BackedInv, WatermarkBacked, Backed

LEMMA BackedStep == Solo /\ BackedInv /\ [ReportNext]_reportVars => BackedInv'
<1> SUFFICES ASSUME Solo, BackedInv, [ReportNext]_reportVars PROVE BackedInv'
  OBVIOUS
<1>t. ReportTypeInv /\ ReportTypeInv' /\ ReportTypeOK /\ WatermarkBacked /\ wmPeriod <= sub
  BY ReportTypeStep DEF BackedInv, ReportTypeInv
<1>1. ASSUME NEW m \in Periods, NEW q \in Quantities, Meter(m, q) PROVE BackedInv'
  BY <1>t, <1>1 DEF Meter, call, BackedInv, WatermarkBacked, Backed
<1>2. CASE RollOver \/ Renew
  <2>1. wmPeriod' <= sub'
    BY <1>2, <1>t DEF RollOver, Renew, ReportTypeOK, Periods
  <2>q. QED
    BY <1>2, <1>t, <2>1 DEF RollOver, Renew, call, BackedInv, WatermarkBacked, Backed
<1>3. ASSUME NEW r \in Reporters, PeriodStart(r) PROVE BackedInv'
  <2>1. stage'[r] = "list" /\ per'[r] = sub
    BY <1>3, <1>t DEF PeriodStart, ReportTypeOK
  <2>2. Backed(r)'
    BY <1>3, <1>t, <2>1 DEF PeriodStart, Backed
  <2>q. QED
    BY <1>3, <1>t, <2>2 DEF PeriodStart, BackedInv, WatermarkBacked, Solo
<1>4. ASSUME NEW r \in Reporters, ListUsage(r) PROVE BackedInv'
  <2>1. stage'[r] = "load" /\ Backed(r)
    BY <1>4, <1>t DEF ListUsage, ReportTypeOK, BackedInv
  <2>2. Backed(r)'
    BY <1>4, <2>1 DEF ListUsage, Backed
  <2>q. QED
    BY <1>4, <1>t, <2>2 DEF ListUsage, BackedInv, WatermarkBacked, Solo
<1>5. ASSUME NEW r \in Reporters, Load(r) PROVE BackedInv'
  <2>1. /\ stage'[r] \in {"push", "anchor"} /\ already'[r] = ReportedCents(per[r])
        /\ per[r] \in Periods /\ wmPeriod <= per[r]
    BY <1>5, <1>t DEF Load, ReportTypeOK, ReportTypeInv, CallInv, BackedInv, Backed
  <2>2. ReportedCents(per[r]) <= billed[per[r]]
    <3>1. CASE wmPeriod >= per[r]
      <4>1. wmPeriod = per[r] /\ wmPeriod # 0
        BY <1>t, <2>1, <3>1 DEF ReportTypeOK, Periods
      <4>q. QED
        BY <1>t, <3>1, <4>1 DEF WatermarkBacked, ReportedCents
    <3>2. CASE ~(wmPeriod >= per[r])
      BY <1>t, <2>1, <3>2 DEF ReportedCents, ReportTypeOK
    <3>q. QED
      BY <3>1, <3>2
  <2>3. Backed(r)'
    BY <1>5, <2>1, <2>2 DEF Load, Backed
  <2>q. QED
    BY <1>5, <1>t, <2>3 DEF Load, BackedInv, WatermarkBacked, Solo
<1>6. ASSUME NEW r \in Reporters, Push(r) \/ AnswerLost(r) PROVE BackedInv'
  <2>1. /\ stage[r] = "push" /\ per[r] \in Periods /\ already[r] < cents[r]
        /\ already[r] <= billed[per[r]] /\ wmPeriod <= per[r]
    BY <1>6, <1>t DEF Push, AnswerLost, ReportTypeInv, CallInv, BackedInv, Backed
  <2>2. /\ billed'[per[r]] = billed[per[r]] + (cents[r] - already[r])
        /\ \A p \in Periods : billed[p] <= billed'[p]
    BY <1>6, <1>t, <2>1 DEF Push, AnswerLost, ReportTypeOK
  <2>3. WatermarkBacked'
    <3>1. wmPeriod' = wmPeriod /\ wmCents' = wmCents
      BY <1>6 DEF Push, AnswerLost
    <3>2. CASE wmPeriod # 0
      <4>a. wmPeriod \in Periods /\ wmCents \in Nat
        BY <1>t, <3>2, MaxPeriodAssumption DEF ReportTypeOK, Periods
      <4>b. billed[wmPeriod] \in Nat
        BY <1>t, <4>a DEF ReportTypeOK
      <4>c. billed' \in [Periods -> Nat]
        BY <1>t DEF ReportTypeInv, ReportTypeOK
      <4>1. /\ wmPeriod \in Periods /\ wmCents \in Nat /\ billed[wmPeriod] \in Nat
            /\ billed'[wmPeriod] \in Nat
        BY <4>a, <4>b, <4>c
      <4>q. QED
        BY <1>t, <2>2, <3>1, <3>2, <4>1 DEF WatermarkBacked
    <3>q. QED
      BY <3>1, <3>2 DEF WatermarkBacked
  <2>4. cents[r] <= billed'[per[r]] /\ already[r] <= billed'[per[r]]
    BY <1>t, <2>1, <2>2 DEF ReportTypeOK
  <2>5. Backed(r)'
    BY <1>6, <2>1, <2>4 DEF Push, AnswerLost, Backed
  <2>q. QED
    BY <1>6, <1>t, <2>3, <2>5 DEF Push, AnswerLost, BackedInv, Solo
<1>7. ASSUME NEW r \in Reporters, Anchor(r) \/ Save(r) PROVE BackedInv'
  <2>1. /\ stage'[r] = "idle" /\ per[r] <= sub /\ wmPeriod' = per[r]
        /\ wmCents' <= billed[per[r]] /\ billed' = billed /\ sub' = sub
    BY <1>7, <1>t DEF Anchor, Save, ReportTypeOK, ReportTypeInv, CallInv, BackedInv, Backed
  <2>2. Backed(r)'
    BY <2>1 DEF Backed
  <2>q. QED
    BY <1>t, <2>1, <2>2 DEF BackedInv, WatermarkBacked, Solo
<1>8. ASSUME NEW r \in Reporters, Fail(r) PROVE BackedInv'
  <2>1. stage'[r] = "idle"
    BY <1>8, <1>t DEF Fail, ReportTypeOK
  <2>2. Backed(r)'
    BY <2>1 DEF Backed
  <2>q. QED
    BY <1>8, <1>t, <2>2 DEF Fail, BackedInv, WatermarkBacked, Solo
<1>9. CASE UNCHANGED reportVars
  BY <1>9, <1>t DEF reportVars, call, BackedInv, WatermarkBacked, Backed
<1>q. QED
  BY <1>1, <1>2, <1>3, <1>4, <1>5, <1>6, <1>7, <1>8, <1>9, ReportNextCases

\* With one replica the watermark never runs ahead of what the provider took,
\* wherever calls fail and however late a renewal is applied (persistReportState).
THEOREM WatermarkIsBacked == Solo /\ ReportSpec => []WatermarkBacked
<1>1. BackedInv => WatermarkBacked
  BY DEF BackedInv
<1>2. CASE Solo
  <2>1. BackedInv /\ [ReportNext]_reportVars => BackedInv'
    BY <1>2, BackedStep
  <2>q. QED
    BY <1>1, <2>1, BackedInit, PTL DEF ReportSpec
<1>q. QED
  BY <1>2

-----------------------------------------------------------------------------
(* Each period is billed once.                                           *)

LEMMA OnceInit == ReportInit => OnceInv
<1> SUFFICES ASSUME ReportInit PROVE OnceInv
  OBVIOUS
<1>1. BackedInv
  BY BackedInit
<1>q. QED
  BY <1>1, UnitAssumption DEF ReportInit, OnceInv, PeriodBilledOnce, Exact

LEMMA OnceStep == Solo /\ OnceInv /\ [ReportNext]_reportVars => OnceInv'
<1> SUFFICES ASSUME Solo, OnceInv, [ReportNext]_reportVars PROVE OnceInv'
  OBVIOUS
<1> DEFINE Unbilled == \A p \in Periods : wmPeriod < p /\ ~Pending(p) => kept[p] = 0
           Settled == wmPeriod # 0 /\ ~Pending(wmPeriod) => kept[wmPeriod] = wmCents
<1>t. /\ BackedInv /\ BackedInv' /\ ReportTypeInv /\ ReportTypeInv' /\ ReportTypeOK /\ ReportTypeOK'
      /\ PeriodBilledOnce /\ Unbilled /\ Settled
  <2>1. BackedInv /\ BackedInv'
    BY BackedStep DEF OnceInv
  <2>q. QED
    BY <2>1 DEF OnceInv, BackedInv, ReportTypeInv
<1>u. Unit \in Nat /\ Unit # 0
  BY UnitAssumption
<1>1. ASSUME NEW m \in Periods, NEW q \in Quantities, Meter(m, q) PROVE OnceInv'
  <2>1. /\ \A p \in Periods : used[p] \in Nat /\ used'[p] \in Nat /\ used[p] <= used'[p]
        /\ \A p \in Periods : kept[p] * Unit \in Int
    <3>1. q \in Nat
      BY QuantitiesAssumption
    <3>2. ASSUME NEW p \in Periods
          PROVE  used[p] \in Nat /\ used'[p] \in Nat /\ used[p] <= used'[p]
      BY <1>1, <1>t, <3>1 DEF Meter, ReportTypeOK
    <3>3. ASSUME NEW p \in Periods PROVE kept[p] * Unit \in Int
      <4>1. kept[p] \in Int
        BY <1>t DEF ReportTypeOK
      <4>q. QED
        BY <1>u, <4>1
    <3>q. QED
      BY <3>2, <3>3
  <2>2. PeriodBilledOnce'
    BY <1>1, <1>t, <2>1 DEF Meter, PeriodBilledOnce, Periods
  <2>3. ASSUME NEW r \in Reporters PROVE Exact(r)'
    <3>1. Exact(r) /\ cents[r] * Unit \in Nat /\ (stage[r] # "idle" => per[r] \in Periods)
      BY <1>t, <1>u DEF OnceInv, ReportTypeOK, ReportTypeInv, CallInv
    <3>q. QED
      BY <1>1, <2>1, <3>1 DEF Meter, call, Exact, ReportedCents
  <2>4. Unbilled' /\ Settled'
    BY <1>1, <1>t DEF Meter, call, Pending, Periods
  <2>q. QED
    BY <1>t, <2>2, <2>3, <2>4 DEF OnceInv
<1>2. CASE RollOver \/ Renew \/ UNCHANGED reportVars
  <2>1. UNCHANGED <<used, wmPeriod, wmCents, stage, per, cents, already, kept>>
    BY <1>2 DEF RollOver, Renew, reportVars, call
  <2>q. QED
    BY <1>t, <2>1 DEF OnceInv, PeriodBilledOnce, Exact, Pending, ReportedCents
<1>3. ASSUME NEW r \in Reporters, PeriodStart(r) \/ (Fail(r) /\ stage[r] # "save") PROVE OnceInv'
  <2>1. /\ stage[r] # "save" /\ stage'[r] \in {"list", "idle"}
        /\ UNCHANGED <<used, wmPeriod, wmCents, kept>>
    BY <1>3, <1>t DEF PeriodStart, Fail, ReportTypeOK
  <2>2. Exact(r)'
    BY <2>1 DEF Exact
  <2>3. \A p \in Periods : ~Pending(p) /\ ~Pending(p)'
    BY <2>1 DEF Pending, Solo
  <2>4. wmPeriod # 0 => wmPeriod \in Periods
    BY <1>t DEF ReportTypeOK, Periods
  <2>5. Unbilled' /\ Settled'
    BY <1>t, <2>1, <2>3, <2>4 DEF Periods
  <2>q. QED
    BY <1>t, <2>1, <2>2, <2>5 DEF OnceInv, PeriodBilledOnce, Solo, Periods
<1>4. ASSUME NEW r \in Reporters, ListUsage(r) PROVE OnceInv'
  <2>1. /\ stage[r] # "save" /\ stage'[r] = "load" /\ per'[r] = per[r] /\ per[r] \in Periods
        /\ cents'[r] = UsageSoFarCents(per[r])
        /\ UNCHANGED <<used, wmPeriod, wmCents, kept>>
    BY <1>4, <1>t DEF ListUsage, ReportTypeOK, ReportTypeInv, CallInv
  <2>2. Exact(r)'
    BY <1>t, <2>1, WholeCents DEF Exact, UsageSoFarCents, ReportTypeOK
  <2>3. \A p \in Periods : ~Pending(p) /\ ~Pending(p)'
    BY <2>1 DEF Pending, Solo
  <2>4. wmPeriod # 0 => wmPeriod \in Periods
    BY <1>t DEF ReportTypeOK, Periods
  <2>5. Unbilled' /\ Settled'
    BY <1>t, <2>1, <2>3, <2>4 DEF Periods
  <2>q. QED
    BY <1>t, <2>1, <2>2, <2>5 DEF OnceInv, PeriodBilledOnce, Solo, Periods
<1>5. ASSUME NEW r \in Reporters, Load(r) PROVE OnceInv'
  <2>1. /\ stage[r] = "load" /\ stage'[r] \in {"push", "anchor"} /\ per[r] \in Periods
        /\ already'[r] = ReportedCents(per[r])
        /\ UNCHANGED <<used, wmPeriod, wmCents, kept, per, cents>>
    BY <1>5, <1>t DEF Load, ReportTypeOK, ReportTypeInv, CallInv
  <2>2. \A p \in Periods : ~Pending(p) /\ ~Pending(p)'
    BY <2>1 DEF Pending, Solo
  <2>3. wmPeriod # 0 => wmPeriod \in Periods
    BY <1>t DEF ReportTypeOK, Periods
  <2>4. ReportedCents(per[r]) = kept[per[r]]
    <3>1. wmPeriod <= per[r] /\ wmPeriod \in Nat /\ per[r] \in Nat /\ per[r] # 0
      BY <1>t, <2>1 DEF BackedInv, Backed, ReportTypeOK, Periods
    <3>2. CASE wmPeriod = per[r]
      BY <1>t, <2>2, <2>3, <3>1, <3>2 DEF ReportedCents
    <3>3. CASE wmPeriod < per[r]
      BY <1>t, <2>1, <2>2, <3>1, <3>3 DEF ReportedCents
    <3>q. QED
      BY <3>1, <3>2, <3>3
  <2>5. Exact(r)'
    <3>1. ReportedCents(per[r])' = ReportedCents(per[r])
      BY <2>1 DEF ReportedCents
    <3>q. QED
      BY <2>1, <2>4, <3>1 DEF Exact, OnceInv
  <2>6. Unbilled' /\ Settled'
    BY <1>t, <2>1, <2>2, <2>3 DEF Periods
  <2>q. QED
    BY <1>t, <2>1, <2>5, <2>6 DEF OnceInv, PeriodBilledOnce, Solo, Periods
<1>6. ASSUME NEW r \in Reporters, Push(r) PROVE OnceInv'
  <2>1. /\ stage[r] = "push" /\ stage'[r] = "save" /\ per[r] \in Periods
        /\ already[r] = kept[per[r]] /\ cents[r] * Unit <= used[per[r]]
        /\ already[r] = ReportedCents(per[r])
        /\ UNCHANGED <<used, wmPeriod, wmCents, per, cents, already>>
    BY <1>6, <1>t DEF Push, ReportTypeOK, ReportTypeInv, CallInv, OnceInv, Exact
  <2>2. /\ kept'[per[r]] = cents[r]
        /\ \A p \in Periods : p # per[r] => kept'[p] = kept[p]
    BY <1>6, <1>t, <2>1 DEF Push, ReportTypeOK
  <2>3. PeriodBilledOnce'
    BY <1>t, <2>1, <2>2 DEF PeriodBilledOnce, Periods
  <2>4. Exact(r)'
    <3>1. ReportedCents(per[r])' = ReportedCents(per[r])
      BY <2>1 DEF ReportedCents
    <3>q. QED
      BY <2>1, <2>2, <3>1 DEF Exact
  <2>5. /\ \A p \in Periods : ~Pending(p)
        /\ \A p \in Periods : Pending(p)' <=> p = per[r]
    BY <2>1 DEF Pending, Solo
  <2>6. wmPeriod # 0 => wmPeriod \in Periods
    BY <1>t DEF ReportTypeOK, Periods
  <2>7. Unbilled' /\ Settled'
    BY <1>t, <2>1, <2>2, <2>5, <2>6 DEF Periods
  <2>q. QED
    BY <1>t, <2>3, <2>4, <2>7 DEF OnceInv, Solo
<1>7. ASSUME NEW r \in Reporters, Anchor(r) \/ Save(r) PROVE OnceInv'
  <2>1. /\ stage[r] \in {"anchor", "save"} /\ stage'[r] = "idle" /\ per[r] \in Periods
        /\ wmPeriod' = per[r] /\ wmCents' = kept[per[r]] /\ wmPeriod <= per[r]
        /\ UNCHANGED <<used, kept, per>>
    BY <1>7, <1>t DEF Anchor, Save, ReportTypeOK, ReportTypeInv, CallInv, OnceInv, Exact, BackedInv, Backed
  <2>2. Exact(r)'
    BY <2>1 DEF Exact
  <2>3. \A p \in Periods : ~Pending(p)' /\ (p # per[r] => ~Pending(p))
    BY <2>1 DEF Pending, Solo
  <2>4. wmPeriod \in Nat /\ \A p \in Periods : per[r] < p => wmPeriod < p /\ p # per[r]
    <3>1. wmPeriod \in Nat /\ per[r] \in Nat /\ wmPeriod <= per[r]
      BY <1>t, <2>1 DEF ReportTypeOK, Periods
    <3>q. QED
      BY <3>1 DEF Periods
  <2>5. Unbilled' /\ Settled'
    BY <1>t, <2>1, <2>3, <2>4 DEF Periods
  <2>q. QED
    BY <1>t, <2>1, <2>2, <2>5 DEF OnceInv, PeriodBilledOnce, Solo, Periods
<1>8. ASSUME NEW r \in Reporters, AnswerLost(r) PROVE OnceInv'
  <2>1. /\ stage[r] = "push" /\ stage'[r] \in {"push", "idle"} /\ Exact(r)
        /\ UNCHANGED <<used, wmPeriod, wmCents, kept, per, cents, already>>
    BY <1>8, <1>t DEF AnswerLost, ReportTypeOK, OnceInv
  <2>2. Exact(r)'
    BY <2>1 DEF Exact, ReportedCents
  <2>3. \A p \in Periods : ~Pending(p) /\ ~Pending(p)'
    BY <2>1 DEF Pending, Solo
  <2>4. wmPeriod # 0 => wmPeriod \in Periods
    BY <1>t DEF ReportTypeOK, Periods
  <2>5. Unbilled' /\ Settled'
    BY <1>t, <2>1, <2>3, <2>4 DEF Periods
  <2>q. QED
    BY <1>t, <2>1, <2>2, <2>5 DEF OnceInv, PeriodBilledOnce, Solo, Periods
<1>9. ASSUME NEW r \in Reporters, Fail(r), stage[r] = "save" PROVE OnceInv'
  <2>1. /\ stage'[r] = "idle" /\ per[r] \in Periods /\ wmPeriod <= per[r]
        /\ cents[r] = kept[per[r]] /\ already[r] = ReportedCents(per[r])
        /\ already[r] < cents[r] /\ cents[r] * Unit <= used[per[r]]
        /\ UNCHANGED <<used, wmPeriod, wmCents>>
    BY <1>9, <1>t DEF Fail, ReportTypeOK, ReportTypeInv, CallInv, OnceInv, Exact, BackedInv, Backed
  <2>2. /\ kept'[per[r]] = already[r]
        /\ \A p \in Periods : p # per[r] => kept'[p] = kept[p]
    BY <1>9, <1>t, <2>1 DEF Fail, ReportTypeOK
  <2>3. already[r] * Unit <= used[per[r]]
    <3>1. cents[r] \in Nat /\ already[r] \in Nat /\ used[per[r]] \in Nat
      BY <1>t, <2>1 DEF ReportTypeOK
    <3>q. QED
      BY <2>1, <3>1, <1>u, LessCents
  <2>4. PeriodBilledOnce'
    BY <1>t, <2>1, <2>2, <2>3 DEF PeriodBilledOnce, Periods
  <2>5. Exact(r)'
    BY <2>1 DEF Exact
  <2>6. \A p \in Periods : ~Pending(p)' /\ (p # per[r] => ~Pending(p))
    BY <1>9, <2>1 DEF Pending, Solo
  <2>7. /\ wmPeriod # 0 => wmPeriod \in Periods
        /\ wmPeriod \in Nat /\ per[r] \in Nat /\ per[r] # 0
    BY <1>t, <2>1 DEF ReportTypeOK, Periods
  <2>8. /\ wmPeriod < per[r] => kept'[per[r]] = 0
        /\ wmPeriod = per[r] => kept'[per[r]] = wmCents
    BY <2>1, <2>2, <2>7 DEF ReportedCents
  <2>9. Unbilled'
    BY <1>t, <2>1, <2>2, <2>6, <2>8 DEF Periods
  <2>10. Settled'
    BY <1>t, <2>1, <2>2, <2>6, <2>7, <2>8
  <2>q. QED
    BY <1>t, <2>4, <2>5, <2>9, <2>10 DEF OnceInv, Solo
<1>q. QED
  BY <1>1, <1>2, <1>3, <1>4, <1>5, <1>6, <1>7, <1>8, <1>9, ReportNextCases

\* One replica bills each period's cents once, but for the increments that were
\* sent and not recorded, wherever calls fail and however late records and renewals
\* come (ReportUsage: re-billing the same cents exactly once, never twice).
THEOREM BilledOnce == Solo /\ ReportSpec => []PeriodBilledOnce
<1>1. OnceInv => PeriodBilledOnce
  BY DEF OnceInv
<1>2. CASE Solo
  <2>1. OnceInv /\ [ReportNext]_reportVars => OnceInv'
    BY <1>2, OnceStep
  <2>q. QED
    BY <1>1, <2>1, OnceInit, PTL DEF ReportSpec
<1>q. QED
  BY <1>2

\* Of one replica, what is saved as reported was billed and no period is billed above its
\* usage, whatever fails (reportUsageForOrg).
THEOREM BillingIsSound == Solo /\ ReportSpec => []BilledAsUsed
<1>1. WatermarkBacked /\ PeriodBilledOnce => BilledAsUsed
  BY DEF BilledAsUsed
<1> QED
  BY <1>1, WatermarkIsBacked, BilledOnce, PTL

=============================================================================
