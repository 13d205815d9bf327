CONSTANTS
    Procs = {p1, p2}
    First = p1
    p1 = p1
    CPUs = {c1, c2}
    Muxes = {0, 1}
    Nobody = Nobody
SPECIFICATION Spec
INVARIANTS MutualExclusion SleeperNotForgotten QueueMoves
SYMMETRY Alike
CHECK_DEADLOCK FALSE
