SPECIFICATION Spec
CONSTANTS
    Procs = {p1, p2}
    p1 = p1
    p2 = p2
    Nobody = Nobody
    Inums = {i1, i2, i3}
    ROOTINO = i1
    i1 = i1
    i2 = i2
    i3 = i3
    NINODE = 3
    Blocks = {b1, b2, b3}
    RootBlock = b1
    b1 = b1
    b2 = b2
    b3 = b3
    NFILE = 1
    NOFILE = 2
    Names = {"a"}
    Requests <- MCRequests
VIEW View
SYMMETRY Symmetry
CHECK_DEADLOCK FALSE
CONSTRAINT Careful
INVARIANTS
    RefsCounted
    InodeAlive
    NamesCounted
    BlocksOwned
