CONSTANTS
    NPROC = 2
    NFRAMES = 15
    PGSIZE = 2
    NPTE = 2
    UPDE = 2
    KPDE = 1
    SbrkArgs <- Sbrk
    Images <- Programs
    ArgSizes = {1, 3}
    Names = {n1}
    SHM_MAXNUM = 1
SPECIFICATION Spec
CHECK_DEADLOCK FALSE
INVARIANTS NoPanic PagesAccounted SizeMatchesPages
VIEW View
