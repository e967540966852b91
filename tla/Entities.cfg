SPECIFICATION Spec
CONSTANTS
    Servers = {"s1", "s2"}
    Nodes <- MCNodes
    Names = {"a", "b", "x"}
    Class <- MCClass
    Initial <- MCInitial
    Candidates <- MCCandidates
    Paths <- MCPaths
    Folder = "folder"
    Null = null
    MayFail = TRUE
INVARIANTS
    RootIsNamedByPath
    WrongIdMeansAbsent
    OperationsReachTheirEntity
