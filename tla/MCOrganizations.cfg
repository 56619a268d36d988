\* Two requests at a time, a founder and one more user, two projects, an invitation.
SPECIFICATION OrgSpec
CONSTANTS
    r1 = r1
    r2 = r2
    ann = ann
    bob = bob
    cat = cat
    main = main
    side = side
    Calls = {r1, r2}
    Users = {ann, bob}
    Founder = ann
    Projects = {main, side}
    Default = main
    Values = {1}
    GivenRoles = {"admin", "owner"}
    MaxInvites = 1
SYMMETRY Symmetry
PROPERTIES OwnerRemains OnlyPendingAdmits AppReachable SettingsKept
CHECK_DEADLOCK FALSE
