CONSTANTS
    Proc = {p1, p2}
    NULL = NULL
    PRIO_MAX = 2
    QSIZE = 3
    MaxQueued = 2
SPECIFICATION Spec
INVARIANTS NoFullPanic
PROPERTIES RefinesAbs
