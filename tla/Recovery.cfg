\* Two NZB sources, three ids, two runs of the program with a crash between any two writes.
SPECIFICATION Spec
CONSTANTS
    a = a
    b = b
    p = p
    q = q
    NoSource = NoSource
    Sources = {a, b}
    Articles = {p, q}
    Ingesters = {"scanner"}
    MaxId = 3
    MaxRuns = 2
SYMMETRY Interchangeable
INVARIANTS
    IdsAreUnique
PROPERTY ProgressIsKept
CHECK_DEADLOCK FALSE
