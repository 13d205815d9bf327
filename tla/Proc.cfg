CONSTANTS
    NPROC = 3
    CPUs = {c1, c2}
    PRIO_MAX = 2
    Chans = {ticks}
    NoChan = NoChan
    MaxPid = 4
    KillPids = {3}
    PrioArgs = {1, 2}
    UINT = 4
SPECIFICATION Spec
SYMMETRY Symmetry
INVARIANTS QueuedIffRunnable RunningOnOneCpu
           WaiterMissesNothing PidsDistinct ParentAlive
