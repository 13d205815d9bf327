-------------------------------- MODULE Proc --------------------------------
(***************************************************************************)
(* The process table and the scheduler (proc.c, with prio_set of sysproc.c *)
(* and the trap exits of trap.c): fork, exit, wait, sleep, wakeup, kill,   *)
(* yield, prio_set and the per-CPU scheduler, on several CPUs.             *)
(*                                                                         *)
(* A critical section of ptable.lock is one step; what a process does      *)
(* between two of them is the label pc[p].  swtch hands the lock from the  *)
(* scheduler to the process it resumes: ptlock is the process that still   *)
(* has to release it.  The model starts after userinit, once the first     *)
(* pass of scheduler() over the table has found nothing to run (module     *)
(* Boot is about that pass).  The run queue is the abstract one of         *)
(* PQueueAbs, which PQueue implements.                                     *)
(***************************************************************************)
EXTENDS Integers, Sequences, FiniteSets

CONSTANTS NPROC,      \* slots of the process table
          CPUs,       \* the processors
          PRIO_MAX,   \* the number of priorities
          Chans,      \* addresses slept on by drivers, pipes, locks
          NoChan,     \* the null channel
          MaxPid,     \* bound: the last pid handed out
          KillPids,   \* the arguments kill is called with
          PrioArgs,   \* the priorities prio_set is called with (C ints)
          UINT        \* 2^32 in C: what a negative int is converted modulo

Slots == 0 .. NPROC - 1
Prio == 0 .. PRIO_MAX - 1
NoProc == -1
InitProc == 0         \* userinit's allocproc takes the first slot

ASSUME ProcAssumption ==
    /\ NPROC \in Nat \ {0}
    /\ PRIO_MAX \in Nat \ {0}
    /\ MaxPid \in Nat
    /\ KillPids \subseteq Int
    /\ PrioArgs \subseteq Int
    /\ UINT \in Nat /\ UINT > PRIO_MAX
    /\ \A a \in PrioArgs : a + UINT >= 0
    /\ NoChan \notin Slots \cup Chans
    /\ Chans \cap Slots = {}

VARIABLES state,      \* p->state
          pid,        \* p->pid
          parent,     \* p->parent
          chan,       \* p->chan: a slot (wait), a member of Chans, or NoChan
          killed,     \* p->killed
          priority,   \* p->priority
          runq,       \* the run queue, a sequence per priority
          nextpid,
          cpu,        \* cpus[c].proc
          pc,         \* where a process stands in the kernel
          np,         \* fork's local np
          req,        \* prio_set's argument after its checks
          ptlock      \* the process resumed with ptable.lock still held

vars == <<state, pid, parent, chan, killed, priority, runq, nextpid, cpu,
          pc, np, req, ptlock>>

Labels == {"user",   \* user mode, or at a system call's boundary
           "sys",    \* a system call that may block on a channel
           "fork",   \* fork: np allocated, not yet RUNNABLE
           "fork2",  \* fork: np RUNNABLE, priority not yet inherited
           "prio",   \* prio_set: checks done, not yet applied
           "exit",   \* exit: closing files, before ptable.lock
           "wait"}   \* wait: about to scan, or asleep in it

(* The abstract run queue; its variables are not used here. *)
RQ == INSTANCE PQueueAbs WITH Proc <- Slots, NULL <- NoProc,
                              q <- runq, ret <- NoProc

States == {"UNUSED", "EMBRYO", "SLEEPING", "RUNNABLE", "RUNNING", "ZOMBIE"}

TypeOK ==
    /\ state \in [Slots -> States]
    /\ pid \in [Slots -> Nat]
    /\ parent \in [Slots -> Slots \cup {NoProc}]
    /\ chan \in [Slots -> Slots \cup Chans \cup {NoChan}]
    /\ killed \in [Slots -> BOOLEAN]
    /\ priority \in [Slots -> Nat]
    /\ runq \in [Prio -> Seq(Slots)]
    /\ nextpid \in Nat
    /\ cpu \in [CPUs -> Slots \cup {NoProc}]
    /\ pc \in [Slots -> Labels]
    /\ np \in [Slots -> Slots \cup {NoProc}]
    /\ req \in [Slots -> Nat]
    /\ ptlock \in Slots \cup {NoProc}

----------------------------------------------------------------------------
(* Helpers *)

LockFree == ptlock = NoProc

(* CPU c executes process p, which does not hold ptable.lock. *)
Exec(c, p) == cpu[c] = p /\ ptlock # p

(* The slots of S in table order. *)
InTableOrder(S) ==
    [i \in 1 .. Cardinality(S) |->
        CHOOSE x \in S : Cardinality({y \in S : y <= x}) = i]

(* Mutant: a queued process goes to the front. *)
EnqueueFront(rq, p) == [rq EXCEPT ![priority[p]] = <<p>> \o @]
(* pq_enqueue of a process, and of a set of processes in table order. *)
Enqueue(rq, p) == RQ!Enqueued(rq, priority[p], p)
EnqueueSet(rq, S) ==
    [pr \in Prio |-> rq[pr] \o InTableOrder({s \in S : priority[s] = pr})]

SetRunnable(st, S) == [s \in Slots |-> IF s \in S THEN "RUNNABLE" ELSE st[s]]

(* Mutant: wakes without looking at the state. *)
SleepersAnyState(st, ch) == {s \in Slots : chan[s] = ch}
(* The processes wakeup1(ch) wakes. *)
Sleepers(st, ch) == {s \in Slots : st[s] = "SLEEPING" /\ chan[s] = ch}

(* The first slot that satisfies a condition given as a set of slots. *)
First(S, s) == s \in S /\ \A t \in S : s <= t

(* prio_set compares and stores its int argument as an unsigned one. *)
ToUint(a) == IF a < 0 THEN a + UINT ELSE a

(* sched: the process leaves its CPU and the scheduler releases the lock.  *)
SwitchOut(c) ==
    /\ cpu' = [cpu EXCEPT ![c] = NoProc]
    /\ ptlock' = NoProc

----------------------------------------------------------------------------
Init ==
    /\ state = [s \in Slots |-> IF s = InitProc THEN "RUNNABLE" ELSE "UNUSED"]
    /\ pid = [s \in Slots |-> IF s = InitProc THEN 1 ELSE 0]
    /\ parent = [s \in Slots |-> NoProc]
    /\ chan = [s \in Slots |-> NoChan]
    /\ killed = [s \in Slots |-> FALSE]
    /\ priority = [s \in Slots |-> 0]
    /\ runq = [pr \in Prio |-> IF pr = 0 THEN <<InitProc>> ELSE <<>>]
    /\ nextpid = 2
    /\ cpu = [c \in CPUs |-> NoProc]
    /\ pc = [s \in Slots |-> "user"]
    /\ np = [s \in Slots |-> NoProc]
    /\ req = [s \in Slots |-> 0]
    /\ ptlock = NoProc

----------------------------------------------------------------------------
(* The scheduler and the ways off a CPU *)

(* pq_dequeue (mutant: the head stays queued). *)
DequeuePeek(pr) == runq
Dequeue(pr) == RQ!Dequeued(runq, pr)

(* scheduler(): dequeue a process and switch to it.  The process's state   *)
(* is not looked at.  With an empty queue the loop goes round.             *)
Scheduler(c, pr) ==
    /\ cpu[c] = NoProc /\ LockFree
    /\ RQ!IsTop(runq, pr)
    /\ LET p == Head(runq[pr]) IN
        /\ cpu' = [cpu EXCEPT ![c] = p]
        /\ state' = [state EXCEPT ![p] = "RUNNING"]
        /\ ptlock' = p
    /\ runq' = Dequeue(pr)
    /\ UNCHANGED <<pid, parent, chan, killed, priority, nextpid, pc, np, req>>

(* The tail of yield, of sleep(chan, lk) or forkret: release ptable.lock.  *)
(* A process asleep in wait keeps the lock and scans again (WaitScan).     *)
Resume(p) ==
    /\ ptlock = p
    /\ ~(pc[p] = "wait" /\ chan[p] # NoChan)
    /\ chan' = [chan EXCEPT ![p] = NoChan]
    /\ ptlock' = NoProc
    /\ UNCHANGED <<state, pid, parent, killed, priority, runq, nextpid, cpu,
                   pc, np, req>>

(* yield() from the timer interrupt, wherever the process was interrupted. *)
Yield(c, p) ==
    /\ Exec(c, p) /\ LockFree
    /\ state' = [state EXCEPT ![p] = "RUNNABLE"]
    /\ runq' = Enqueue(runq, p)
    /\ SwitchOut(c)
    /\ UNCHANGED <<pid, parent, chan, killed, priority, nextpid, pc, np, req>>

(* sleep(ch, lk) in a system call or while exit closes files. *)
Sleep(c, p, ch) ==
    /\ Exec(c, p) /\ LockFree
    /\ pc[p] \in {"sys", "exit"}
    /\ chan' = [chan EXCEPT ![p] = ch]
    /\ state' = [state EXCEPT ![p] = "SLEEPING"]
    /\ SwitchOut(c)
    /\ UNCHANGED <<pid, parent, killed, priority, runq, nextpid, pc, np, req>>

(* wakeup(ch), by a process or an interrupt handler. *)
Wakeup(ch) ==
    /\ LockFree
    /\ LET S == Sleepers(state, ch) IN
        /\ S # {}
        /\ state' = SetRunnable(state, S)
        /\ runq' = EnqueueSet(runq, S)
    /\ UNCHANGED <<pid, parent, chan, killed, priority, nextpid, cpu, pc, np,
                   req, ptlock>>

(* trap(): a system call that may block starts unless the process is       *)
(* killed; it ends back at the boundary.                                   *)
SysEnter(c, p) ==
    /\ Exec(c, p)
    /\ pc[p] = "user" /\ ~killed[p]
    /\ pc' = [pc EXCEPT ![p] = "sys"]
    /\ UNCHANGED <<state, pid, parent, chan, killed, priority, runq, nextpid,
                   cpu, np, req, ptlock>>

SysReturn(c, p) ==
    /\ Exec(c, p)
    /\ pc[p] = "sys"
    /\ pc' = [pc EXCEPT ![p] = "user"]
    /\ UNCHANGED <<state, pid, parent, chan, killed, priority, runq, nextpid,
                   cpu, np, req, ptlock>>

(* trap(): a fault in user mode marks the process killed. *)
UserFault(c, p) ==
    /\ Exec(c, p)
    /\ pc[p] = "user" /\ p # InitProc
    /\ killed' = [killed EXCEPT ![p] = TRUE]
    /\ UNCHANGED <<state, pid, parent, chan, priority, runq, nextpid, cpu,
                   pc, np, req, ptlock>>

----------------------------------------------------------------------------
(* fork *)

(* Mutant: the pid is not advanced. *)
AllocState == "EMBRYO"
NextPidSame == nextpid
NextPid == nextpid + 1

(* allocproc: the first UNUSED slot becomes EMBRYO with a new pid. *)
ForkAlloc(c, p) ==
    /\ Exec(c, p) /\ LockFree
    /\ pc[p] = "user" /\ ~killed[p]
    /\ nextpid <= MaxPid
    /\ \E s \in Slots :
        /\ First({t \in Slots : state[t] = "UNUSED"}, s)
        /\ state' = [state EXCEPT ![s] = AllocState]
        /\ pid' = [pid EXCEPT ![s] = nextpid]
        /\ np' = [np EXCEPT ![p] = s]
    /\ nextpid' = NextPid
    /\ pc' = [pc EXCEPT ![p] = "fork"]
    /\ UNCHANGED <<parent, chan, killed, priority, runq, cpu, req, ptlock>>

(* No memory for the kernel stack or the page table: the slot is given     *)
(* back, with its pid.                                                     *)
ForkFail(c, p) ==
    /\ Exec(c, p)
    /\ pc[p] = "fork"
    /\ state' = [state EXCEPT ![np[p]] = "UNUSED"]
    /\ pc' = [pc EXCEPT ![p] = "user"]
    /\ np' = [np EXCEPT ![p] = NoProc]
    /\ UNCHANGED <<pid, parent, chan, killed, priority, runq, nextpid, cpu,
                   req, ptlock>>

(* The child becomes RUNNABLE, in the queue of the priority its slot has.  *)
ForkRunnable(c, p) ==
    /\ Exec(c, p) /\ LockFree
    /\ pc[p] = "fork"
    /\ parent' = [parent EXCEPT ![np[p]] = p]
    /\ state' = [state EXCEPT ![np[p]] = "RUNNABLE"]
    /\ runq' = Enqueue(runq, np[p])
    /\ pc' = [pc EXCEPT ![p] = "fork2", ![np[p]] = "user"]
    /\ UNCHANGED <<pid, chan, killed, priority, nextpid, cpu, np, req, ptlock>>

(* "child inherets priority from parent", after the lock is released. *)
ForkInherit(c, p) ==
    /\ Exec(c, p)
    /\ pc[p] = "fork2"
    /\ priority' = [priority EXCEPT ![np[p]] = priority[p]]
    /\ pc' = [pc EXCEPT ![p] = "user"]
    /\ np' = [np EXCEPT ![p] = NoProc]
    /\ UNCHANGED <<state, pid, parent, chan, killed, runq, nextpid, cpu, req,
                   ptlock>>

----------------------------------------------------------------------------
(* exit and wait *)

(* exit(), by a system call or because trap() finds the process killed.    *)
(* init never exits: exit would panic "init exiting".                      *)
ExitBegin(c, p) ==
    /\ Exec(c, p)
    /\ pc[p] = "user" /\ p # InitProc
    /\ pc' = [pc EXCEPT ![p] = "exit"]
    /\ UNCHANGED <<state, pid, parent, chan, killed, priority, runq, nextpid,
                   cpu, np, req, ptlock>>

Children(p) == {s \in Slots : parent[s] = p}
Zombies == {s \in Slots : state[s] = "ZOMBIE"}

(* Whom exit wakes: the parent, and init when it inherits a ZOMBIE; and    *)
(* the parent links it leaves (mutants: one of these is forgotten).        *)
WakesNobody(p) == {}
WakesParent(p) == Sleepers(state, parent[p])
WakesInitNever(p, st) == {}
WakesInit(p, st) ==
    IF Children(p) \cap Zombies # {} THEN Sleepers(st, InitProc) ELSE {}
KeepsChildren(p) == parent
ChildrenToInit(p) == [s \in Slots |-> IF parent[s] = p THEN InitProc ELSE parent[s]]

(* exit() under ptable.lock: wake the parent, pass the children to init    *)
(* (waking it if one of them is already ZOMBIE), become ZOMBIE, and leave  *)
(* the CPU for good.                                                       *)
ExitFinal(c, p) ==
    /\ Exec(c, p) /\ LockFree
    /\ pc[p] = "exit"
    /\ LET S1 == WakesParent(p)
           st1 == SetRunnable(state, S1)
           S2 == WakesInit(p, st1)
       IN  /\ state' = [SetRunnable(st1, S2) EXCEPT ![p] = "ZOMBIE"]
           /\ runq' = EnqueueSet(EnqueueSet(runq, S1), S2)
    /\ parent' = ChildrenToInit(p)
    /\ SwitchOut(c)
    /\ UNCHANGED <<pid, chan, killed, priority, nextpid, pc, np, req>>

(* wait(), called at the system-call boundary. *)
WaitBegin(c, p) ==
    /\ Exec(c, p)
    /\ pc[p] = "user" /\ ~killed[p]
    /\ pc' = [pc EXCEPT ![p] = "wait"]
    /\ UNCHANGED <<state, pid, parent, chan, killed, priority, runq, nextpid,
                   cpu, np, req, ptlock>>

(* wait()'s scan runs with the lock just acquired, or still held after the *)
(* sleep of the previous round.                                            *)
Scanning(c, p) ==
    /\ cpu[c] = p /\ pc[p] = "wait"
    /\ ptlock = (IF chan[p] # NoChan THEN p ELSE NoProc)

(* The first ZOMBIE child is reaped. *)
WaitReap(c, p) ==
    /\ Scanning(c, p)
    /\ \E s \in Slots :
        /\ First(Children(p) \cap Zombies, s)
        /\ state' = [state EXCEPT ![s] = "UNUSED"]
        /\ pid' = [pid EXCEPT ![s] = 0]
        /\ parent' = [parent EXCEPT ![s] = NoProc]
        /\ killed' = [killed EXCEPT ![s] = FALSE]
    /\ chan' = [chan EXCEPT ![p] = NoChan]
    /\ pc' = [pc EXCEPT ![p] = "user"]
    /\ ptlock' = NoProc
    /\ UNCHANGED <<priority, runq, nextpid, cpu, np, req>>

(* No ZOMBIE child, and no children or killed: wait returns -1. *)
WaitNone(c, p) ==
    /\ Scanning(c, p)
    /\ Children(p) \cap Zombies = {}
    /\ Children(p) = {} \/ killed[p]
    /\ chan' = [chan EXCEPT ![p] = NoChan]
    /\ pc' = [pc EXCEPT ![p] = "user"]
    /\ ptlock' = NoProc
    /\ UNCHANGED <<state, pid, parent, killed, priority, runq, nextpid, cpu,
                   np, req>>

(* Otherwise sleep(curproc, &ptable.lock), in the same critical section.   *)
WaitSleep(c, p) ==
    /\ Scanning(c, p)
    /\ Children(p) \cap Zombies = {}
    /\ Children(p) # {} /\ ~killed[p]
    /\ chan' = [chan EXCEPT ![p] = p]
    /\ state' = [state EXCEPT ![p] = "SLEEPING"]
    /\ SwitchOut(c)
    /\ UNCHANGED <<pid, parent, killed, priority, runq, nextpid, pc, np, req>>

----------------------------------------------------------------------------
(* kill and prio_set *)

(* kill wakes its target only from sleep (mutant: never). *)
KillWakesNone(t) == {}
KillWakes(t) == IF state[t] = "SLEEPING" THEN {t} ELSE {}

(* kill(n): the first slot whose pid is n, used or not. *)
Kill(c, p, n) ==
    /\ Exec(c, p) /\ LockFree
    /\ pc[p] = "user" /\ ~killed[p]
    /\ \E t \in Slots :
        /\ First({s \in Slots : pid[s] = n}, t)
        /\ killed' = [killed EXCEPT ![t] = TRUE]
        /\ state' = SetRunnable(state, KillWakes(t))
        /\ runq' = EnqueueSet(runq, KillWakes(t))
    /\ UNCHANGED <<pid, parent, chan, priority, nextpid, cpu, pc, np, req, ptlock>>

(* prio_set's range check. *)
PrioTooBig(a) == a >= PRIO_MAX

(* prio_set(., a): the checks, made without a lock.  The first compares    *)
(* ints, the second unsigned ints.                                         *)
PrioCheck(c, p, a) ==
    /\ Exec(c, p)
    /\ pc[p] = "user" /\ ~killed[p]
    /\ ~PrioTooBig(a)
    /\ ~(ToUint(a) < priority[p])
    /\ req' = [req EXCEPT ![p] = ToUint(a)]
    /\ pc' = [pc EXCEPT ![p] = "prio"]
    /\ UNCHANGED <<state, pid, parent, chan, killed, priority, runq, nextpid,
                   cpu, np, ptlock>>

(* prio_set of the caller's own pid: no lock. *)
PrioSelf(c, p) ==
    /\ Exec(c, p)
    /\ pc[p] = "prio"
    /\ priority' = [priority EXCEPT ![p] = req[p]]
    /\ pc' = [pc EXCEPT ![p] = "user"]
    /\ req' = [req EXCEPT ![p] = 0]
    /\ UNCHANGED <<state, pid, parent, chan, killed, runq, nextpid, cpu, np,
                   ptlock>>

(* The n-th ancestor of t; parent[NoProc] is a read through a null pointer *)
Ancestor(t) ==
    LET anc[n \in 0 .. NPROC] ==
          IF n = 0 THEN parent[t]
          ELSE IF anc[n - 1] = NoProc THEN NoProc ELSE parent[anc[n - 1]]
    IN  anc

(* The walk passes only processes with pid > 1 before its n-th ancestor.   *)
WalkReaches(t, n) ==
    \A k \in 0 .. n - 1 : Ancestor(t)[k] # NoProc /\ pid[Ancestor(t)[k]] > 1

(* The walk finds p before it runs off the end of the parent links.        *)
WalkFinds(t, p) ==
    \E n \in 0 .. NPROC - 1 : WalkReaches(t, n + 1) /\ Ancestor(t)[n] = p

(* prio_set of another pid: the target, the first other slot with that     *)
(* pid, must descend from the caller.  A walk that falls off reads the     *)
(* null page: it finds nothing, or faults and panics (no further step).    *)
PrioOther(c, p) ==
    /\ Exec(c, p) /\ LockFree
    /\ pc[p] = "prio"
    /\ \E t \in Slots \ {p} :
        /\ First({s \in Slots \ {p} : pid[s] = pid[t]}, t)
        /\ pid[t] # pid[p]
        /\ priority' = IF WalkFinds(t, p) THEN [priority EXCEPT ![t] = req[p]]
                                          ELSE priority
    /\ pc' = [pc EXCEPT ![p] = "user"]
    /\ req' = [req EXCEPT ![p] = 0]
    /\ UNCHANGED <<state, pid, parent, chan, killed, runq, nextpid, cpu, np,
                   ptlock>>

----------------------------------------------------------------------------
Next ==
    \/ \E c \in CPUs, pr \in Prio : Scheduler(c, pr)
    \/ \E p \in Slots : Resume(p)
    \/ \E ch \in Chans : Wakeup(ch)
    \/ \E c \in CPUs, p \in Slots :
        \/ Yield(c, p)
        \/ \E ch \in Chans : Sleep(c, p, ch)
        \/ SysEnter(c, p) \/ SysReturn(c, p) \/ UserFault(c, p)
        \/ ForkAlloc(c, p) \/ ForkFail(c, p)
        \/ ForkRunnable(c, p) \/ ForkInherit(c, p)
        \/ ExitBegin(c, p) \/ ExitFinal(c, p)
        \/ WaitBegin(c, p) \/ WaitReap(c, p) \/ WaitNone(c, p) \/ WaitSleep(c, p)
        \/ \E n \in KillPids : Kill(c, p, n)
        \/ \E a \in PrioArgs : PrioCheck(c, p, a)
        \/ PrioSelf(c, p) \/ PrioOther(c, p)

Spec == Init /\ [][Next]_vars

(* The fairness of the uniprocessor liveness run: the scheduler's loop     *)
(* goes round, a resumed process goes on, and the timer interrupt comes.   *)
(* The scan of wait() is strongly fair: a process that is given the CPU    *)
(* again and again executes instructions between two timer interrupts.     *)
Fairness ==
    /\ \A c \in CPUs :
        /\ WF_vars(\E pr \in Prio : Scheduler(c, pr))
        /\ WF_vars(\E p \in Slots : Yield(c, p))
        /\ \A p \in Slots : SF_vars(WaitReap(c, p) \/ WaitNone(c, p) \/ WaitSleep(c, p))
    /\ WF_vars(\E p \in Slots : Resume(p))

FairSpec == Spec /\ Fairness

----------------------------------------------------------------------------
Runnable == {s \in Slots : state[s] = "RUNNABLE"}

(* The queues rq hold exactly the processes of R, each exactly once. *)
QueuesHold(rq, R) ==
    /\ \A pr \in Prio : \A i \in 1 .. Len(rq[pr]) : rq[pr][i] \in R
    /\ \A s \in R : \E pr \in Prio : \E i \in 1 .. Len(rq[pr]) : rq[pr][i] = s
    /\ \A pr1, pr2 \in Prio :
        \A i \in 1 .. Len(rq[pr1]), j \in 1 .. Len(rq[pr2]) :
            rq[pr1][i] = rq[pr2][j] => pr1 = pr2 /\ i = j

(* A process is in the run queue exactly when it is RUNNABLE, and then     *)
(* once: the scheduler, which never looks at the state of what it          *)
(* dequeues, resumes no sleeping, running or dead process, and forgets no  *)
(* runnable one (scheduler, yield, wakeup1, kill, fork).                   *)
QueuedIffRunnable == QueuesHold(runq, Runnable)

(* A process is RUNNING exactly when a CPU runs it, and on one CPU only.   *)
RunningOnOneCpu ==
    /\ \A s \in Slots : state[s] = "RUNNING" <=> \E c \in CPUs : cpu[c] = s
    /\ \A c, d \in CPUs : cpu[c] = cpu[d] /\ cpu[c] # NoProc => c = d

Live == {s \in Slots : state[s] \in {"RUNNABLE", "RUNNING", "SLEEPING"}}

(* Every live or ZOMBIE process but init has a live parent, so that        *)
(* somebody can reap it: exit passes its children to init (proc.c:381).    *)
ParentAlive ==
    \A s \in (Live \cup Zombies) \ {InitProc} : parent[s] \in Live

(* A process asleep in wait() has a child, none of its children is ZOMBIE  *)
(* and it has not been killed: no exit, no reparenting and no kill between *)
(* its scan and its sleep is missed.                                       *)
WaiterMissesNothing ==
    \A p \in Slots :
        state[p] = "SLEEPING" /\ chan[p] = p
            => /\ Children(p) # {}
               /\ Children(p) \cap Zombies = {}
               /\ ~killed[p]

(* No two processes in use have the same pid: kill(pid) and prio_set(pid)  *)
(* stop at the first slot that matches.                                    *)
PidsDistinct ==
    \A s, t \in Slots :
        /\ state[s] # "UNUSED" /\ state[t] # "UNUSED"
        /\ pid[s] = pid[t]
        => s = t

(* With one priority a RUNNABLE process is eventually run (FIFO queue and  *)
(* timer interrupts).                                                      *)
RunnableRuns == \A s \in Slots : state[s] = "RUNNABLE" ~> state[s] # "RUNNABLE"

(* A wait() that has a ZOMBIE child returns. *)
WaitReturns ==
    \A p \in Slots :
        (pc[p] = "wait" /\ Children(p) \cap Zombies # {}) ~> pc[p] # "wait"

----------------------------------------------------------------------------
(* "priority of proccess, range 0-PRIO_MAX" (proc.h:94); every use of      *)
(* p->priority indexes an array of PRIO_MAX queues.                        *)
PriorityInRange == \A s \in Slots : priority[s] \in Prio
=============================================================================
