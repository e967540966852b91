SPECIFICATION Spec
CONSTANTS
    Clients = {c1}
    Objects = {o1, o2}
    Names = {a, b}
    NodeIds = {i1, i2}
    NodeOf <- MCNodeOf
    a = a
    b = b
    o1 = o1
    o2 = o2
    i1 = i1
    i2 = i2
    Intervals = {1, 3}
    Default = 2
    MaxIds = 2
    MaxRestarts = 1
    Nothing = nothing
INVARIANTS
    TypeOK
    LiveItemsAreRouted
    ValuesAreAtHome
    IterationsSuffice
    SleepIsShortEnough
PROPERTY
    SubscriptionsAreByName
