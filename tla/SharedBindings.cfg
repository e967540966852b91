SPECIFICATION Spec
CONSTANTS
    Clients = {c1, c2}
    Objects = {o1, o2}
    Names = {a, b}
    NodeIds = {i1, i2}
    NodeOf <- MCNodeOf
    a = a
    b = b
    o1 = o1
    o2 = o2
    i1 = i1
    i2 = i2
    Intervals = {1}
    Default = 2
    MaxIds = 1
    MaxRestarts = 0
    Nothing = nothing
INVARIANT
    ValuesAreAtHome
