SPECIFICATION FairSpec
CONSTANTS
    Writers = {w1, w2}
    Loop = loop
    Sessions = {7}
    Nothing = nothing
    Remote = remote
    MaxChanges = 3
INVARIANTS
    QuietMeansCurrent
    ReadsAreFresh
PROPERTY
    EverythingEnds
