CONSTANTS
    Readers = {r1}
    Writers = {w1, w2}
    Bytes = {0, 1}
    PIPESIZE = 2
    UINT = 4
    MaxCount = 3
SPECIFICATION FairSpec
INVARIANTS SleepersHaveCause
PROPERTIES Stream EndOfFile
