SPECIFICATION Spec
CONSTANTS
    Runners = {r1}
    Callers = {}
    Waiters = {w1}
    Connectors = {k1}
    Vars = {x}
    Nobody = nobody
    MaxConnects = 1
    MaxUpdates = 1
    SpuriousWakeups = TRUE
    ActivateUpcalls = TRUE
    LinkMayFail = FALSE
PROPERTY
    NextValueImplementsFeed
