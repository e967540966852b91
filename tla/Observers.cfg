SPECIFICATION FairSpec
CONSTANTS
    Notifiers = {n1, n2}
    Views = {v1}
    Controllers = {k1}
    Nobody = nobody
    MaxChanges = 2
INVARIANTS
    RegistryFollowsLife
    LoopIsStable
    QuietMeansUpToDate
PROPERTY
    EverybodyFinishes
CHECK_DEADLOCK FALSE
