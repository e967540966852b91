SPECIFICATION FairSpec
CONSTANTS
    Servers = {s1, s2}
    Addresses = {a1, a2}
    Nodes = {x, y}
    Nothing = nothing
INVARIANTS
    UpcallsReachTheirObject
    ServedSpaceIsComplete
    ServesOnlyOnce
PROPERTY
    StopEndsEveryRun
CHECK_DEADLOCK FALSE
