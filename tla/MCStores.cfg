SPECIFICATION Spec
CONSTANTS
    Ids <- MCIds
    Values <- MCValues
    Hosts <- MCHosts
    Pages <- MCPages
    Groups <- MCGroups
    DefaultPageLimit = 1
    MaxPageLimit = 2
INVARIANT StoresAgree
PROPERTIES SameAnswers DeletedStaysDeleted
CHECK_DEADLOCK FALSE
