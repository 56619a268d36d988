\* Two requests, a build and the reconciler race.
SPECIFICATION Spec
CONSTANTS
    r1 = r1
    r2 = r2
    b1 = b1
    i1 = i1
    i2 = i2
    g1 = g1
    rec = rec
    Reqs = {r1, r2}
    Builds = {b1}
    Images = {i1}
    Gits = {g1}
    Reconciler = rec
    Ops <- AllOps
    MaxOps = 3
    MaxAborts = 1
    MaxFlaps = 0
SYMMETRY Symmetry
PROPERTIES NoUnpaidApply StopHolds DeletedForGood
