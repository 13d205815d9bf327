CONSTANTS
    NPROC = 2
    CPUs = {c1, c2}
    BootCPU = c1
    c1 = c1
    c2 = c2
    PRIO_MAX = 1
    Chans = {ticks}
    ticks = ticks
    NoChan = NoChan
    MaxPid = 3
    KillPids = {2}
    PrioArgs = {}
    UINT = 4
SPECIFICATION BootFairSpec
INVARIANTS QueueAfterSweep
PROPERTIES InitRuns
