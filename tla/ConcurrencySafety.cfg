SPECIFICATION Spec
CONSTANTS
    Runners = {r1}
    Callers = {c1}
    Waiters = {w1}
    Connectors = {k1, k2}
    Vars = {x, y}
    Nobody = nobody
    MaxConnects = 2
    MaxUpdates = 2
    SpuriousWakeups = FALSE
    ActivateUpcalls = TRUE
    LinkMayFail = TRUE
SYMMETRY Interchangeable
INVARIANTS
    TypeOK
    LocksFollowScopes
    ClientInUse
    NotificationsInOrder
    WokenByNews
PROPERTIES
    OnlyTheGapLosesClients
    NextValueImplementsFeed
