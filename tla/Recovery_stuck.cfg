\* A fair run: an NZB restored with every article finished stays in the queue.
SPECIFICATION FairSpec
CONSTANTS
    a = a
    b = b
    p = p
    q = q
    NoSource = NoSource
    Sources = {a}
    Articles = {p, q}
    Ingesters = {"scanner", "append"}
    MaxId = 2
    MaxRuns = 2
PROPERTY CompletedLeavesQueue
CHECK_DEADLOCK FALSE
