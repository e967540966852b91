SPECIFICATION Spec
CONSTANTS
    Servers = {s1, s2}
    Addresses = {a1, a2}
    Nodes = {x}
    Nothing = nothing
INVARIANT
    RunEndsWhenAsked
CHECK_DEADLOCK FALSE
