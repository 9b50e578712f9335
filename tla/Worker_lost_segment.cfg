\* The file writers on their own: two tasks for one file.
SPECIFICATION WorkerSpec
CONSTANTS
    Parts = {"writers"}
    dot = dot
    a = a
    Groups = {"g1", "g2"}
    Articles <- TwoArticles
    Dot = dot
    None = None
    NntpMaxCalls = 3
    Segments = {1, 2, 3, 4}
    FileOf <- TwoFiles
    Offset <- Offsets
    NoWriter = NoWriter
    Puts = {1, 2, 3, 4, 5}
    MessageOf <- Messages
    Size <- Sizes
    MaxBytes = 4
    Acquirers = {1, 2, 3}
    ArticleBytes <- Expected
    Rates = {0, 1, 2}
    Horizon = 4
    MaxChanges = 2
    OffsetBits = 3
    MaxField = 3
    MaxDecoded = 4
    NoField = NoField
INVARIANT EverySegmentIsWritten
CHECK_DEADLOCK FALSE
