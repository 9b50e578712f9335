\* One server each with one connection, two fetches at once, one of them aimed at a server.
SPECIFICATION FairSpec
CONSTANTS
    s1 = s1
    s2 = s2
    Fetches = {f1, f2}
    Configured <- TwoServers
    Rank <- Levels
    Permits <- OneEach
    NoTarget = NoTarget
    Targets = {s1, NoTarget}
    FailCap = 1
    Active = {s1, s2}
    Cleaned = {s1}
INVARIANTS
    ServerLimits
    ReturnedHoldsNothing
PROPERTY TargetedFetchEnds
CHECK_DEADLOCK FALSE
