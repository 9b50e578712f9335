\* Fair runs of two NZBs, told to stop at any moment.
SPECIFICATION FairSpec
CONSTANTS
    s1 = s1
    s2 = s2
    Servers <- TwoServers
    NoServer = NoServer
    Level <- TwoLevels
    ServerConnections <- OneEach
    MaxConnections = 2
    MaxArticlesPerFile = 1
    MaxConcurrent = 1
    AssignmentCap = 1
    CompletionCap = 2
    PostCap = 1
    NumFiles = 2
    NumSegments = 1
    ParFiles = {2}
    ParNamed = {2}
    RepairDivisor = 1
    Priorities <- NormalOnly
    ForcePriority <- MaxPriority
    Strategies = {"Sequential"}
    Outcomes = {"Success", "Failure"}
    UserCommands = {"AddNzb", "RemoveNzb", "HistoryRedownload", "Shutdown"}
    MaxNzbId = 2
PROPERTY EventuallyInHistory
PROPERTY ShutdownDrains
CHECK_DEADLOCK FALSE
