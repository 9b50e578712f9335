\* Every component beside the queue, the server pool and the disk state, each on its own.
SPECIFICATION ComponentsSpec
CONSTANTS
    Parts = {"nntp", "writers", "cache", "speed", "yenc", "postproc", "services", "cleanup",
             "volumes", "feeds", "nzb", "remote", "config", "views", "log"}
    dot = dot
    a = a
    Groups = {"g1", "g2"}
    Articles <- TwoArticles
    Dot = dot
    None = None
    NntpMaxCalls = 3
    Segments = {1, 2, 3, 4}
    FileOf <- TwoFiles
    Offset <- Offsets
    NoWriter = NoWriter
    Puts = {1, 2, 3, 4, 5}
    MessageOf <- Messages
    Size <- Sizes
    MaxBytes = 4
    Acquirers = {1, 2, 3}
    ArticleBytes <- Expected
    Rates = {0, 1, 2}
    Horizon = 4
    MaxChanges = 2
    OffsetBits = 3
    MaxField = 3
    MaxDecoded = 4
    NoField = NoField
    Width = 4
    Poly = 19
    SliceSize = 2
    Protected <- ProtectedFiles
    Original <- Contents
    Names <- FileNames
    Extension <- Extensions
    Obfuscated = {"o.bin"}
    NzbFile <- ByNzb
    Unpacked <- InArchive
    HashPrefix = 1
    Downloads <- LeftByDownload
    Configs <- SomeConfigs
    TaskOptions <- ThreeTasks
    DayMinutes = 2
    Days = 2
    MaxSetBacks = 1
    Entries = {1, 2}
    OldEntries = {1}
    Never = Never
    Idle = Idle
    Servers = {1}
    Ring <- TwoSlots
    Unit <- SlotSeconds
    DaySeconds = 3
    MonthDays = 2
    ShortestMonth = 1
    QuotaStartDay = 2
    VolumeHorizon = 9
    MaxRecords = 2
    NotYet = NotYet
    FeedIds = {1, 2, 3}
    FilterOf <- ThreeFilters
    Documents <- Fetches
    Unreadable = Unreadable
    MaxFetches = 3
    Nothing = Nothing
    Subjects <- SomeSubjects
    ParOf <- MainIsX
    Numbers = {1, 2}
    NoFile = NoFile
    Bad = Bad
    Clients = {1, 2}
    Requests <- SomeRequests
    CommandCap = 2
    QueuedIds <- TwoQueued
    HistoryIds <- OneInHistory
    MaxId = 4
    nzb1 = nzb1
    x = x
    NoRequest = NoRequest
    NoContent = NoContent
    MaxWeight = 3
    Callers = {1, 2}
    KeyOrder <- SortedKeys
    UserFiles <- SomeFiles
    Overrides <- SomeOverrides
    Edits <- SomeEdits
    NumberOf <- NumberFive
    Home = "home"
    Garbage = Garbage
    MaxCalls = 4
    Nobody = Nobody
    Arts = {"a1", "a2"}
    ArtFile <- TwoArts
    ArtSize <- ArtBytes
    Tolerated = 1
    ScriptDir <- TwoPrograms
    ReportCap = 2
    MaxViewId = 2
    Tracing = {1, 2}
    LogCalls = {3}
    LogCapacity = 2
    MaxMessages = 5
INVARIANTS
    ConnectionStaysInSync
    BodyIsTheArticle
    SegmentsReachTheFile
    CacheStaysWithinLimit
    RateIsKept
    YencStaysInPart
    ParResultIsSound
    FilesSurvive
    TaskRunsOncePerMinute
    PauseHasAnOwner
    VolumesAreExact
    AcceptedOnce
    NzbIsReadRight
    CallsAreAnswered
    ConfigReloadsAsSaved
    ShownAsItIs
    LogIsReadOnce
CHECK_DEADLOCK FALSE
