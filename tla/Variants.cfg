SPECIFICATION Spec
CONSTANTS
    Objects = {o1, o2, o3}
    Values <- Samples
    Empty = empty
    Cells = {d1, d2, d3}
    Nothing = nothing
    Beyond = beyond
    Decimals <- MCDecimals
SYMMETRY Interchangeable
INVARIANTS
    ReadsAreConversions
    PrintsWhatItHolds
PROPERTY
    ObjectsAreValues
