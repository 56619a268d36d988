\* Two replicas, a failure; prices change between ticks.
SPECIFICATION FairSpec
CONSTANTS
    o1 = o1
    r1 = r1
    r2 = r2
    Orgs = {o1}
    Replicas = {r1, r2}
    Costs <- MCCosts
    MaxCatchup = 2
    MaxHour = 3
    MaxFaults = 1
INVARIANT WatermarkSafe
PROPERTIES WrittenOnce CatchesUp
