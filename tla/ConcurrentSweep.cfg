SPECIFICATION GCFairSpec
CONSTANTS
    Helpers = {h, s1}
    Mutator = m
    Marker = k
    Collectors = {m, h}
    MaxRounds = 3
    MaxPages = 2
CHECK_DEADLOCK FALSE
INVARIANTS
    SafepointHolds
    SweepersKeptApart
    ShutdownFindsNobody
PROPERTY
    LoneCollectionsEnd
