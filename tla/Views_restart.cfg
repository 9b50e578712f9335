\* The program is stopped and started again while an NZB is in its history.
SPECIFICATION RestartedSpec
CONSTANTS
    Arts = {"a1", "a2"}
    ArtFile <- TwoArts
    ArtSize <- ArtBytes
    Tolerated = 1
    ScriptDir <- TwoPrograms
    ReportCap = 2
    MaxViewId = 2
INVARIANT HistoryIsTrue
CHECK_DEADLOCK FALSE
