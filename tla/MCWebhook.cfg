\* Two deliveries at a time, in any order, one that fails or whose row cannot be read, a
\* Subscribe in between; fair deliveries.
SPECIFICATION FairSpec
CONSTANTS
    h1 = h1
    h2 = h2
    basic = basic
    Handlers = {h1, h2}
    Plans = {basic}
    MaxEvents = 3
    MaxPeriod = 1
    MaxSubscribes = 1
    MaxFaults = 1
    MaxTogether = 4
    Announced = {"paused"}
    Strangers = TRUE
    ReadErrors = TRUE
INVARIANTS MarkedWasApplied InSync
PROPERTIES PaymentNeverRevives EveryEventProcessed
