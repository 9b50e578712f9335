\* Priorities and moves, with the default strategy.
SPECIFICATION Spec
CONSTANTS
    s1 = s1
    s2 = s2
    Servers <- TwoServers
    NoServer = NoServer
    Level <- TwoLevels
    ServerConnections <- OneEach
    MaxConnections = 2
    MaxArticlesPerFile = 1
    MaxConcurrent = 2
    AssignmentCap = 1
    CompletionCap = 2
    PostCap = 1
    NumFiles = 2
    NumSegments = 1
    ParFiles = {2}
    ParNamed = {2}
    RepairDivisor = 10
    Priorities <- NormalAndForce
    ForcePriority <- MaxPriority
    Strategies = {"Sequential"}
    Outcomes = {"Success"}
    UserCommands = {"AddNzb", "SetPriority", "MoveNzb"}
    MaxNzbId = 2
PROPERTY ForceIsFirst
PROPERTY NoNzbIsLost
