CONSTANTS
    NPROC = 3
    CPUs = {c1}
    PRIO_MAX = 1
    Chans = {ticks}
    NoChan = NoChan
    MaxPid = 3
    KillPids = {3}
    PrioArgs = {}
    UINT = 4
SPECIFICATION FairSpec
PROPERTIES RunnableRuns WaitReturns
