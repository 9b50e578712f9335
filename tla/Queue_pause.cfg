\* One NZB, every pause, every strategy, and downloads blocked for want of a server.
SPECIFICATION Spec
CONSTANTS
    s1 = s1
    s2 = s2
    Servers <- TwoServers
    NoServer = NoServer
    Level <- TwoLevels
    ServerConnections <- OneEach
    MaxConnections = 2
    MaxArticlesPerFile = 1
    MaxConcurrent = 2
    AssignmentCap = 2
    CompletionCap = 2
    PostCap = 1
    NumFiles = 2
    NumSegments = 2
    ParFiles = {2}
    ParNamed = {2}
    RepairDivisor = 2
    Priorities <- NormalOnly
    ForcePriority <- MaxPriority
    Strategies = {"Sequential", "Rocket", "Balanced", "Aggressive"}
    Outcomes = {"Success", "Failure", "Blocked"}
    UserCommands = {"AddNzb", "PauseNzb", "PauseFile", "ParUnpause", "PauseAll", "SetStrategy"}
    MaxNzbId = 1
INVARIANT RunningIsTracked
