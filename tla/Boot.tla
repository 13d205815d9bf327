-------------------------------- MODULE Boot --------------------------------
(***************************************************************************)
(* The start of the scheduler (main.c, userinit and scheduler of proc.c).  *)
(*                                                                         *)
(* The boot CPU starts the others, which enter scheduler() at once, and    *)
(* only then calls userinit.  Whichever CPU first holds ptable.lock in     *)
(* scheduler() finds first_time set and, for once, looks for RUNNABLE      *)
(* processes in the table instead of the run queue, leaving the queue      *)
(* alone.  The rest is module Proc.                                        *)
(***************************************************************************)
EXTENDS Proc

CONSTANT BootCPU      \* the CPU that runs main()

ASSUME BootAssumption == BootCPU \in CPUs

VARIABLES present,    \* CPUs that mpinit found
          started,    \* CPUs that have reached scheduler()
          published,  \* userinit has made the first process RUNNABLE
          first_time,
          sweep,      \* the CPU that looks through the table, or NoProc
          next,       \* the next slot it looks at
          early,      \* whether it started before userinit was done
          slept       \* the first process has slept on the disk

bvars == <<present, started, published, first_time, sweep, next, early, slept>>
allvars == <<vars, bvars>>

BootTypeOK ==
    /\ TypeOK
    /\ BootCPU \in present /\ present \subseteq CPUs
    /\ started \subseteq present
    /\ published \in BOOLEAN /\ first_time \in BOOLEAN
    /\ early \in BOOLEAN /\ slept \in BOOLEAN
    /\ sweep \in CPUs \cup {NoProc}
    /\ next \in 0 .. NPROC

(* allocproc has run; the process is not RUNNABLE yet.  Its first code is  *)
(* forkret's, in the kernel.                                               *)
BootInit ==
    /\ state = [s \in Slots |-> IF s = InitProc THEN "EMBRYO" ELSE "UNUSED"]
    /\ pid = [s \in Slots |-> IF s = InitProc THEN 1 ELSE 0]
    /\ parent = [s \in Slots |-> NoProc]
    /\ chan = [s \in Slots |-> NoChan]
    /\ killed = [s \in Slots |-> FALSE]
    /\ priority = [s \in Slots |-> 0]
    /\ runq = [pr \in Prio |-> <<>>]
    /\ nextpid = 2
    /\ cpu = [c \in CPUs |-> NoProc]
    /\ pc = [s \in Slots |-> IF s = InitProc THEN "sys" ELSE "user"]
    /\ np = [s \in Slots |-> NoProc]
    /\ req = [s \in Slots |-> 0]
    /\ ptlock = NoProc
    /\ present \in {C \in SUBSET CPUs : BootCPU \in C}
    /\ started = {}
    /\ published = FALSE
    /\ first_time = TRUE
    /\ sweep = NoProc
    /\ next = 0
    /\ early = FALSE
    /\ slept = FALSE

(* Between two processes of its pass the sweeping CPU keeps ptable.lock. *)
SweepHolds == sweep # NoProc /\ cpu[sweep] = NoProc /\ LockFree

(* mpmain on another CPU; startothers waits until it is up, so all of them *)
(* may be in scheduler() before the boot CPU goes on to userinit.          *)
StartOther(c) ==
    /\ c \in present \ ({BootCPU} \cup started)
    /\ ~published
    /\ started' = started \cup {c}
    /\ UNCHANGED <<vars, present, published, first_time, sweep, next, early, slept>>

(* userinit queues the first process (mutant: only marks it RUNNABLE). *)
PublishedUnqueued == runq
PublishedQueue == Enqueue(runq, InitProc)

(* The end of userinit, then mpmain on the boot CPU. *)
UserInit ==
    /\ ~published /\ present \ {BootCPU} \subseteq started
    /\ LockFree /\ ~SweepHolds
    /\ state' = [state EXCEPT ![InitProc] = "RUNNABLE"]
    /\ runq' = PublishedQueue
    /\ published' = TRUE
    /\ UNCHANGED <<pid, parent, chan, killed, priority, nextpid, cpu, pc, np, req,
                   ptlock, present, started, first_time, sweep, next, early,
                   slept>>

BootEnter ==
    /\ published /\ BootCPU \notin started
    /\ started' = started \cup {BootCPU}
    /\ UNCHANGED <<vars, present, published, first_time, sweep, next, early, slept>>

(* scheduler() with first_time set. *)
SweepStart(c) ==
    /\ c \in started /\ first_time
    /\ LockFree
    /\ first_time' = FALSE
    /\ sweep' = c
    /\ next' = 0
    /\ early' = ~published
    /\ UNCHANGED <<vars, present, started, published, slept>>

RunnableFrom(n) == {s \in Slots : s >= n /\ state[s] = "RUNNABLE"}

(* The next RUNNABLE process of the table is run.  It stays in the queue.  *)
SweepRun ==
    /\ SweepHolds
    /\ \E p \in Slots :
        /\ First(RunnableFrom(next), p)
        /\ cpu' = [cpu EXCEPT ![sweep] = p]
        /\ state' = [state EXCEPT ![p] = "RUNNING"]
        /\ ptlock' = p
        /\ next' = p + 1
    /\ UNCHANGED <<pid, parent, chan, killed, priority, runq, nextpid, pc, np, req,
                   present, started, published, first_time, sweep, early, slept>>

SweepEnd ==
    /\ SweepHolds
    /\ RunnableFrom(next) = {}
    /\ sweep' = NoProc
    /\ UNCHANGED <<vars, present, started, published, first_time, next, early, slept>>

(* forkret's iinit and initlog sleep on the disk before the first process  *)
(* returns to user mode (mutant: they need no disk).                       *)
MayReturnAtOnce == TRUE
MayReturn == slept

(* A step of module Proc, once a CPU is in scheduler() past first_time. *)
ProcStep ==
    /\ ~SweepHolds
    /\ Next
    /\ \A c \in CPUs : cpu[c] = NoProc /\ cpu'[c] # NoProc => c \in started /\ ~first_time
    /\ pc[InitProc] = "sys" /\ pc'[InitProc] # "sys" => MayReturn
    /\ slept' = (slept \/ state'[InitProc] = "SLEEPING")
    /\ UNCHANGED <<present, started, published, first_time, sweep, next, early>>

BootNext ==
    \/ \E c \in CPUs : StartOther(c) \/ SweepStart(c)
    \/ UserInit \/ BootEnter \/ SweepRun \/ SweepEnd
    \/ ProcStep

BootSpec == BootInit /\ [][BootNext]_allvars

(* The CPUs come up, and their loops go round. *)
BootFairSpec ==
    /\ BootSpec
    /\ \A c \in CPUs : /\ WF_allvars(StartOther(c)) /\ WF_allvars(SweepStart(c))
                       /\ WF_allvars(ProcStep /\ cpu[c] = NoProc /\ cpu'[c] # NoProc)
    /\ WF_allvars(UserInit) /\ WF_allvars(BootEnter)
    /\ WF_allvars(SweepRun) /\ WF_allvars(SweepEnd)

----------------------------------------------------------------------------
(* The places of s in the run queue: priority and position. *)
Tokens(s) ==
    {t \in Prio \X (1 .. 2 * NPROC) : t[2] <= Len(runq[t[1]]) /\ runq[t[1]][t[2]] = s}

(* A pass over the table that began before userinit was done leaves the    *)
(* run queue and the CPUs consistent.  On one CPU, where it cannot, it     *)
(* leaves at most one stale entry in the queue, of the first process,      *)
(* which never dies: the scheduler resumes no dead process.                *)
QueueAfterSweep ==
    /\ early /\ sweep = NoProc => QueuedIffRunnable /\ RunningOnOneCpu
    /\ present = {BootCPU} =>
        \A s \in Slots :
            Cardinality(Tokens(s)) <= (IF state[s] = "RUNNABLE" THEN 1 ELSE 0)
                                       + (IF s = InitProc THEN 1 ELSE 0)

(* Whoever wins the race, the first process is run. *)
InitRuns == <>(state[InitProc] = "RUNNING")
=============================================================================
