\* Three ids, spent on new NZBs and on NZBs that come back from the history, with downloads in flight
\* and a completion channel that fills.
SPECIFICATION Spec
CONSTANTS
    s1 = s1
    s2 = s2
    Servers <- TwoServers
    NoServer = NoServer
    Level <- TwoLevels
    ServerConnections <- OneEach
    MaxConnections = 2
    MaxArticlesPerFile = 1
    MaxConcurrent = 2
    AssignmentCap = 2
    CompletionCap = 1
    PostCap = 1
    NumFiles = 1
    NumSegments = 2
    ParFiles = {}
    ParNamed = {}
    RepairDivisor = 10
    Priorities <- NormalOnly
    ForcePriority <- MaxPriority
    Strategies = {"Sequential"}
    Outcomes = {"Success", "Failure"}
    UserCommands = {"AddNzb", "MoveToMissing", "HistoryReturn", "HistoryProcess", "HistoryRedownload", "HistoryDelete"}
    MaxNzbId = 3
INVARIANT TypeOK
INVARIANT ActiveIsRunning
INVARIANT IdsAreUnique
INVARIANT PostProcessedOnce
PROPERTY NoticesAreKept
PROPERTY ImplementsLifecycle
