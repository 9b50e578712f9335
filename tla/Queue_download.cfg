\* Two NZBs of two data and two PAR2 articles, downloaded over two servers; NZBs are removed meanwhile.
SPECIFICATION Spec
CONSTANTS
    s1 = s1
    s2 = s2
    Servers <- TwoServers
    NoServer = NoServer
    Level <- TwoLevels
    ServerConnections <- OneEach
    MaxConnections = 2
    MaxArticlesPerFile = 1
    MaxConcurrent = 2
    AssignmentCap = 1
    CompletionCap = 2
    PostCap = 1
    NumFiles = 2
    NumSegments = 2
    ParFiles = {2}
    ParNamed = {2}
    RepairDivisor = 2
    Priorities <- NormalOnly
    ForcePriority <- MaxPriority
    Strategies = {"Sequential"}
    Outcomes = {"Success", "Failure"}
    UserCommands = {"AddNzb", "RemoveNzb"}
    MaxNzbId = 2
INVARIANT SlotAccounting
INVARIANT InFlightConserved
INVARIANT ConnectionLimit
INVARIANT CountersMatch
INVARIANT HopelessIsGivenUp
PROPERTY OutcomesAreFinal
PROPERTY HealthVerdictIsSound
