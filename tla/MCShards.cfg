\* Two requests, two hosts, a wildcard; calls fail; fair requests.
CONSTANTS
    a = a  b = b
    w1 = w1
    p1 = p1  p2 = p2
    NoHost = NoHost
    Hosts = {a, b}
    OrgListeners = {w1}
    Procs = {p1, p2}
    Ceiling = 2
    Override = 2
    Reserve = 1
    MaxAttempts = 2
    MaxTries = 2
    MaxShard = 2
    Removes = TRUE
    CallsFail = TRUE
SPECIFICATION FairSpec
INVARIANTS WithinLimits OneListener
PROPERTIES WritesKeepOthers EveryRequestAnswers
