SPECIFICATION MCSpec
CONSTANTS
    o1 = o1
    o2 = o2
    h1 = h1
    d1 = d1
    d2 = d2
    None = None
    r1 = r1
    r2 = r2
    Orgs = {o1, o2}
    HostNames = {h1}
    Requests = {r1, r2}
    Ids = {d1, d2}
    x = x
    y = y
    z = z
    Dbs = {o1, o2}
    Shorts = {"s"}
    Short <- MCShort
    MaxTime = 1
    MaxTries = 2
    MaxData = 1
    Builds = {x, y, z}
    Tags = {"t1", "t2"}
    Tag <- MCTag
INVARIANTS HostsServedByOwner PhaseHonest DumpsStayOwn
PROPERTY NoStaleImage
SYMMETRY Symmetry
CHECK_DEADLOCK FALSE
