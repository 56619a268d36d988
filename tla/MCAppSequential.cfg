\* One request at a time, a fair reconciler.
SPECIFICATION FairSpec
CONSTANTS
    r1 = r1
    r2 = r2
    b1 = b1
    i1 = i1
    i2 = i2
    g1 = g1
    rec = rec
    Reqs = {r1}
    Builds = {}
    Images = {i1, i2}
    Gits = {}
    Reconciler = rec
    Ops <- AllOps
    MaxOps = 4
    MaxAborts = 0
    MaxFlaps = 1
INVARIANT ClusterMatchesRow
PROPERTY Converges
