CONSTANTS
    MAXARGS = 3
    NPROC = 6
    NOFILE = 6
    Input <- Typed
    MaxLines = 1
    MaxFails = 1
SPECIFICATION FairSpec
INVARIANTS Sequenced Wired
PROPERTIES ParsesGrammar PromptsAgain
CHECK_DEADLOCK FALSE
