SPECIFICATION FairSpec
CONSTANTS
    Runners = {r1}
    Callers = {c1}
    Waiters = {w1}
    Connectors = {k1}
    Vars = {x}
    Nobody = nobody
    MaxConnects = 2
    MaxUpdates = 2
    SpuriousWakeups = TRUE
    ActivateUpcalls = TRUE
    LinkMayFail = TRUE
INVARIANT
    NoCircularWait
PROPERTIES
    NoThreadIsStuck
    UpdateReleasesWaiter
    LossOfSubscriberIsReported
