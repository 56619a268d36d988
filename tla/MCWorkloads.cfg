SPECIFICATION MCSpec
CONSTANTS
    r1 = r1
    r2 = r2
    s1 = s1
    s2 = s2
    d1 = d1
    d2 = d2
    None = None
    Requests = {r1, r2}
    Names = {"db"}
    Namespaces = {s1, s2}
    Ids = {d1, d2}
    MaxApps = 1
INVARIANTS QuotaOvershoot ConnectionWorks ReleasesMatchRows
PROPERTY NoUnpaidRevival
SYMMETRY Symmetry
CHECK_DEADLOCK FALSE
