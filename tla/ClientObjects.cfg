SPECIFICATION FairSpec
CONSTANTS
    Clients = {c1, c2}
    Servers = {s1, s2}
    Nobody = nobody
    MaxIds = 2
CHECK_DEADLOCK FALSE
INVARIANTS
    UpcallsStayAtHome
    MutexesStayAtHome
    LiveItemsAreBound
PROPERTY
    EverybodyReturns
