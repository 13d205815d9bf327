CONSTANTS
    Procs = {p1, p2, p3}
    NBUF = 2
    Blocks = {k1, k2, k3}
    Values = {v0, v1}
    MaxPinned = 2
    Nobody = Nobody
    NoBlock = NoBlock
SPECIFICATION Spec
SYMMETRY Symmetry
INVARIANTS OneBufferKept NobodyStuck
PROPERTIES Coherent
