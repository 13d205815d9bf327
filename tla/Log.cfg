SPECIFICATION FairSpec
CONSTANTS
    Ops = {o1, o2}
    Blocks = {b1, b2, b3}
    Values = {v0, v1}
    MAXOPBLOCKS = 1
    LOGSIZE = 3
    NLOG = 3
    OpBlocks = 1
INVARIANTS CleanMatchesDisk 
PROPERTIES Atomic SleeperWoken
