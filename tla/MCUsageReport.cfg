\* One replica, three months, calls that fail anywhere, a fair ticker.
SPECIFICATION ReportFairSpec
CONSTANTS
    r1 = r1
    Reporters = {r1}
    Quantities = {1, 3}
    Unit = 2
    MaxPeriod = 3
    MaxUsed = 5
    MaxFailures = 2
INVARIANT BilledAsUsed
PROPERTY CurrentPeriodBilled
