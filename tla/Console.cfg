CONSTANTS
    CPUs = {0, 1}
    Locks = {"cons", "ptable"}
    NoCpu = 9
    Procs = {p1, p2}
    Bsp = 0
    INPUT_BUF = 2
    UINT = 4
    Cols = 2
    Rows = 2
    Keys <- MCKeys
    MaxRead = 2
    Setups <- MCSetups
SPECIFICATION Spec
INVARIANTS NoPanic InterruptsMatch NoReaderForgotten NoStuckModifier
PROPERTIES LineDiscipline
SYMMETRY Symmetry
VIEW View
