------------------------------- MODULE Mutex -------------------------------
(***************************************************************************)
(* The mutexes and condition variables of sysproc.c, with what fork and    *)
(* exit of proc.c do to them: mcreate, mdelete, mlock, munlock, waitcv and *)
(* signalcv, over the run queue and the CPUs.                              *)
(*                                                                         *)
(* A critical section of a spinlock is one step, and a process can be      *)
(* preempted between two of them.  mlock and waitcv do not use sleep():    *)
(* they put themselves on a list under one lock and change p->state under  *)
(* another.  Any process calls anything with any mutex: the only checks    *)
(* are the code's own, which ask whether the caller has a pointer to the   *)
(* mutex and whether the mutex is locked, never who locked it.  spoiled    *)
(* records the mutexes released or freed under a process that uses them.   *)
(* A pointer that fork's late copy nulled under a call in progress reads   *)
(* and writes the first page of the caller's own memory: what it finds     *)
(* there is left open.  Nobody is killed.  stopped is set by a panic, by a *)
(* return with ptable.lock held (the next tick panics), and when a process *)
(* that still runs is run by a second CPU on the same kernel stack.        *)
(***************************************************************************)
EXTENDS Integers, Sequences, FiniteSets

CONSTANTS Procs,
          First,        \* the process there is at the start
          CPUs,
          Muxes,        \* 0 .. MUX_MAXNUM - 1
          Nobody        \* the null pointer

ASSUME MutexAssumption == First \in Procs /\ Nobody \notin Procs

VARIABLES pst,          \* p->state ("NONE" before fork and after exit)
          runq,         \* the run queue, of one priority
          cpu,
          named,        \* the mutexes whose name is set
          locked,       \* the mutexes whose state is 1
          access,       \* mux_ptrs: the mutexes a process can use
          wqueue,       \* processes waiting for any mutex
          cv,           \* mux->cv
          pc, arg,      \* where a process stands, and with which mutex
          sleepy,       \* sleepy_proc, or fork's np
          holds,        \* the mutexes a process has locked and not unlocked
          spoiled,      \* mutexes released or freed under their users
          stopped

vars == <<pst, runq, cpu, named, locked, access, wqueue, cv, pc, arg, sleepy,
          holds, spoiled, stopped>>

Labels == {"user",
           "lock",      \* mlock: about to look at the mutex
           "queued",    \* mlock: on the wait queue, not yet SLEEPING
           "unlock",    \* munlock: checked, mutex not yet free
           "pop",       \* munlock: mutex free, nobody woken yet
           "wake",      \* munlock, signalcv: sleepy_proc not yet woken
           "wait",      \* waitcv: on the cv, not yet SLEEPING
           "relock",    \* waitcv: SLEEPING, or resumed and about to call mlock
           "signal",    \* signalcv: checked, nobody taken off the cv
           "delete",    \* mdelete: last user, mutex not yet freed
           "fork"}      \* fork: child RUNNABLE, pointers not copied

TypeOK ==
    /\ pst \in [Procs -> {"NONE", "RUNNABLE", "RUNNING", "SLEEPING"}]
    /\ runq \in Seq(Procs)
    /\ cpu \in [CPUs -> Procs \cup {Nobody}]
    /\ named \subseteq Muxes /\ locked \subseteq Muxes
    /\ access \in [Procs -> SUBSET Muxes]
    /\ wqueue \in Seq(Procs)
    /\ cv \in [Muxes -> Seq(Procs)]
    /\ pc \in [Procs -> Labels]
    /\ arg \in [Procs -> Muxes \cup {Nobody}]
    /\ sleepy \in [Procs -> Procs \cup {Nobody}]
    /\ holds \in [Procs -> SUBSET Muxes]
    /\ spoiled \subseteq Muxes
    /\ stopped \in BOOLEAN

(* userinit's tables are empty. *)
Init ==
    /\ pst = [p \in Procs |-> IF p = First THEN "RUNNABLE" ELSE "NONE"]
    /\ runq = <<First>>
    /\ cpu = [c \in CPUs |-> Nobody]
    /\ named = {} /\ locked = {}
    /\ access = [p \in Procs |-> {}]
    /\ wqueue = <<>>
    /\ cv = [m \in Muxes |-> <<>>]
    /\ pc = [p \in Procs |-> "user"]
    /\ arg = [p \in Procs |-> Nobody]
    /\ sleepy = [p \in Procs |-> Nobody]
    /\ holds = [p \in Procs |-> {}]
    /\ spoiled = {}
    /\ stopped = FALSE

Exec(c, p, l) == cpu[c] = p /\ pc[p] = l /\ ~stopped
Goto(p, l) == pc' = [pc EXCEPT ![p] = l]
Return(p) == Goto(p, "user") /\ arg' = [arg EXCEPT ![p] = Nobody]
Members(s) == {s[i] : i \in 1 .. Len(s)}
ProcVars == <<pst, runq, cpu>>
MuxVars == <<named, locked, access, wqueue, cv, holds, spoiled>>

(* "if this process is already on the wait queue, do not add it again". *)
Queued(q, p) == IF p \in Members(q) THEN q ELSE Append(q, p)

(* A waiter is taken off its list (mutant: it stays on it). *)
PoppedNot(q) == q
Popped(q) == Tail(q)

----------------------------------------------------------------------------
(* Scheduling *)

(* The scheduler runs what it dequeues, and does not look whether another  *)
(* CPU still runs it.                                                      *)
Dispatch(c) ==
    /\ cpu[c] = Nobody /\ runq # <<>> /\ ~stopped
    /\ cpu' = [cpu EXCEPT ![c] = Head(runq)]
    /\ pst' = [pst EXCEPT ![Head(runq)] = "RUNNING"]
    /\ runq' = Tail(runq)
    /\ stopped' = \E d \in CPUs : cpu[d] = Head(runq)
    /\ UNCHANGED <<MuxVars, pc, arg, sleepy>>

(* A timer tick; trap yields only for a process that is RUNNING. *)
Yield(c, p) ==
    /\ cpu[c] = p /\ pst[p] = "RUNNING" /\ ~stopped
    /\ cpu' = [cpu EXCEPT ![c] = Nobody]
    /\ pst' = [pst EXCEPT ![p] = "RUNNABLE"]
    /\ runq' = Append(runq, p)
    /\ UNCHANGED <<MuxVars, pc, arg, sleepy, stopped>>

(* allocproc: "initialize the mutex-reference table to null". *)
NoPointers(q) == [access EXCEPT ![q] = {}]

(* fork makes the child RUNNABLE, and copies the pointers afterwards.  (The *)
(* slot of a child that exits before is not reused: its parent is in fork,  *)
(* and has not waited for it.)                                              *)
Fork(c, p, q) ==
    /\ Exec(c, p, "user") /\ pst[q] = "NONE" /\ q # First
    /\ \A r \in Procs : pc[r] = "fork" => sleepy[r] # q
    /\ access' = NoPointers(q)
    /\ pst' = [pst EXCEPT ![q] = "RUNNABLE"]
    /\ runq' = Append(runq, q)
    /\ sleepy' = [sleepy EXCEPT ![p] = q]
    /\ Goto(p, "fork")
    /\ UNCHANGED <<cpu, named, locked, wqueue, cv, holds, spoiled, arg, stopped>>

(* The child may have called mcreate, and loses that mutex. *)
ForkCopy(c, p) ==
    /\ Exec(c, p, "fork")
    /\ access' = [access EXCEPT ![sleepy[p]] = access[p]]
    /\ spoiled' = spoiled \cup (access[sleepy[p]] \ access[p])
    /\ sleepy' = [sleepy EXCEPT ![p] = Nobody]
    /\ Goto(p, "user")
    /\ UNCHANGED <<ProcVars, named, locked, wqueue, cv, arg, holds, stopped>>

Shared(p, m) == \E q \in Procs \ {p} : m \in access[q]

(* exit frees every mutex the process has a pointer to, held or shared or  *)
(* not.  (Its removal from the cv never finds it there: a process on a cv  *)
(* does not run.)                                                          *)
Exit(c, p) ==
    /\ Exec(c, p, "user") /\ p # First
    /\ named' = named \ access[p]
    /\ locked' = locked \ access[p]
    /\ spoiled' = spoiled \cup {m \in access[p] : m \in holds[p] \/ Shared(p, m)}
    /\ access' = [access EXCEPT ![p] = {}]
    /\ holds' = [holds EXCEPT ![p] = {}]
    /\ pst' = [pst EXCEPT ![p] = "NONE"]
    /\ cpu' = [cpu EXCEPT ![c] = Nobody]
    /\ UNCHANGED <<runq, wqueue, cv, pc, arg, sleepy, stopped>>

----------------------------------------------------------------------------
(* mcreate and mdelete *)

MCreate(c, p, m) ==
    /\ Exec(c, p, "user")
    /\ m \in Muxes \ named /\ \A n \in Muxes \ named : m <= n
    /\ named' = named \cup {m}
    /\ locked' = locked \ {m}
    /\ access' = [access EXCEPT ![p] = @ \cup {m}]
    /\ UNCHANGED <<ProcVars, wqueue, cv, pc, arg, sleepy, holds, spoiled, stopped>>

(* The scan of mdelete is made without a lock. *)
MDelete(c, p, m) ==
    /\ Exec(c, p, "user") /\ m \in access[p]
    /\ IF Shared(p, m)
       THEN access' = [access EXCEPT ![p] = @ \ {m}] /\ UNCHANGED <<pc, arg>>
       ELSE Goto(p, "delete") /\ arg' = [arg EXCEPT ![p] = m] /\ UNCHANGED access
    /\ spoiled' = spoiled \cup (holds[p] \cap {m})
    /\ UNCHANGED <<ProcVars, named, locked, wqueue, cv, sleepy, holds, stopped>>

(* What the process's pointer, null or not, refers to (mutant: all of the  *)
(* process's pointers).                                                    *)
BehindAny(p) == access[p]
Behind(p) == access[p] \cap {arg[p]}

MDeleteLast(c, p) ==
    /\ Exec(c, p, "delete")
    /\ named' = named \ Behind(p)
    /\ locked' = locked \ Behind(p)
    /\ holds' = [holds EXCEPT ![p] = @ \ {arg[p]}]
    /\ access' = [access EXCEPT ![p] = @ \ {arg[p]}]
    /\ Return(p)
    /\ UNCHANGED <<ProcVars, wqueue, cv, sleepy, spoiled, stopped>>

----------------------------------------------------------------------------
(* mlock and munlock *)

MLock(c, p, m) ==
    /\ Exec(c, p, "user") /\ m \in access[p]
    /\ Goto(p, "lock")
    /\ arg' = [arg EXCEPT ![p] = m]
    /\ UNCHANGED <<ProcVars, MuxVars, sleepy, stopped>>

(* The loop condition. *)
Taken(m) == m \in locked

MLockTake(c, p) ==
    /\ Exec(c, p, "lock") /\ (arg[p] \in access[p] => ~Taken(arg[p]))
    /\ locked' = locked \cup Behind(p)
    /\ holds' = [holds EXCEPT ![p] = @ \cup {arg[p]}]
    /\ Return(p)
    /\ UNCHANGED <<ProcVars, named, access, wqueue, cv, sleepy, spoiled, stopped>>

MLockQueue(c, p) ==
    /\ Exec(c, p, "lock") /\ (arg[p] \in access[p] => Taken(arg[p]))
    /\ wqueue' = Queued(wqueue, p)
    /\ Goto(p, "queued")
    /\ UNCHANGED <<ProcVars, named, locked, access, cv, arg, sleepy, holds, spoiled, stopped>>

(* SLEEPING is set under ptable.lock only, later. *)
MLockSleep(c, p) ==
    /\ Exec(c, p, "queued")
    /\ pst' = [pst EXCEPT ![p] = "SLEEPING"]
    /\ cpu' = [cpu EXCEPT ![c] = Nobody]
    /\ Goto(p, "lock")
    /\ UNCHANGED <<runq, MuxVars, arg, sleepy, stopped>>

(* The check, without a lock, asks whether the mutex is locked. *)
MUnlock(c, p, m) ==
    /\ Exec(c, p, "user") /\ m \in access[p] /\ m \in locked
    /\ Goto(p, "unlock")
    /\ arg' = [arg EXCEPT ![p] = m]
    /\ UNCHANGED <<ProcVars, MuxVars, sleepy, stopped>>

(* The mutexes spoiled once p has released its argument. *)
Released(p) == spoiled \cup ({arg[p]} \ holds[p])

MUnlockFree(c, p) ==
    /\ Exec(c, p, "unlock")
    /\ locked' = locked \ Behind(p)
    /\ holds' = [holds EXCEPT ![p] = @ \ {arg[p]}]
    /\ spoiled' = Released(p)
    /\ Goto(p, "pop")
    /\ UNCHANGED <<ProcVars, named, access, wqueue, cv, arg, sleepy, stopped>>

(* One wait queue: the process at its head may wait for another mutex. *)
MUnlockPop(c, p) ==
    /\ Exec(c, p, "pop")
    /\ IF wqueue = <<>>
       THEN Return(p) /\ UNCHANGED <<wqueue, sleepy>>
       ELSE /\ sleepy' = [sleepy EXCEPT ![p] = Head(wqueue)]
            /\ wqueue' = Popped(wqueue)
            /\ Goto(p, "wake") /\ UNCHANGED arg
    /\ UNCHANGED <<ProcVars, named, locked, access, cv, holds, spoiled, stopped>>

(* munlock and signalcv make the process RUNNABLE whatever its state is    *)
(* (mutant: they do not queue it).                                         *)
WokenUnqueued(p) == runq
WokenQueue(p) == Append(runq, p)

WakeSleepy(c, p) ==
    /\ Exec(c, p, "wake")
    /\ pst' = [pst EXCEPT ![sleepy[p]] = "RUNNABLE"]
    /\ runq' = WokenQueue(sleepy[p])
    /\ sleepy' = [sleepy EXCEPT ![p] = Nobody]
    /\ Return(p)
    /\ UNCHANGED <<cpu, MuxVars, stopped>>

----------------------------------------------------------------------------
(* waitcv and signalcv *)

WaitCv(c, p, m) ==
    /\ Exec(c, p, "user") /\ m \in access[p]
    /\ cv' = [cv EXCEPT ![m] = Queued(@, p)]
    /\ Goto(p, "wait")
    /\ arg' = [arg EXCEPT ![p] = m]
    /\ UNCHANGED <<ProcVars, named, locked, access, wqueue, sleepy, holds, spoiled, stopped>>

(* Under ptable.lock: SLEEPING, munlock and sched; mlock follows when the  *)
(* process is resumed.                                                     *)
WaitCvSleep(c, p) ==
    /\ Exec(c, p, "wait") /\ arg[p] \in access[p] \cap locked /\ wqueue = <<>>
    /\ locked' = locked \ {arg[p]}
    /\ holds' = [holds EXCEPT ![p] = @ \ {arg[p]}]
    /\ spoiled' = Released(p)
    /\ pst' = [pst EXCEPT ![p] = "SLEEPING"]
    /\ cpu' = [cpu EXCEPT ![c] = Nobody]
    /\ Goto(p, "relock")
    /\ UNCHANGED <<runq, named, access, wqueue, cv, arg, sleepy, stopped>>

(* Without a pointer to a locked mutex munlock returns 0, and waitcv       *)
(* returns with ptable.lock held; when somebody waits for a mutex, munlock *)
(* acquires ptable.lock again, and acquire panics.                         *)
WaitCvStop(c, p) ==
    /\ \/ Exec(c, p, "user") /\ access[p] # Muxes
       \/ Exec(c, p, "wait") /\ ~(arg[p] \in access[p] \cap locked /\ wqueue = <<>>)
    /\ stopped' = TRUE
    /\ UNCHANGED <<ProcVars, MuxVars, pc, arg, sleepy>>

(* mlock's own check, when waitcv has been resumed. *)
Relock(c, p) ==
    /\ Exec(c, p, "relock")
    /\ IF arg[p] \in access[p] THEN Goto(p, "lock") /\ UNCHANGED arg ELSE Return(p)
    /\ UNCHANGED <<ProcVars, MuxVars, sleepy, stopped>>

SignalCv(c, p, m) ==
    /\ Exec(c, p, "user") /\ m \in access[p] /\ m \in locked
    /\ Goto(p, "signal")
    /\ arg' = [arg EXCEPT ![p] = m]
    /\ UNCHANGED <<ProcVars, MuxVars, sleepy, stopped>>

SignalCvPop(c, p) ==
    /\ Exec(c, p, "signal") /\ arg[p] \in access[p]
    /\ IF cv[arg[p]] = <<>>
       THEN Return(p) /\ UNCHANGED <<cv, sleepy>>
       ELSE /\ sleepy' = [sleepy EXCEPT ![p] = Head(cv[arg[p]])]
            /\ cv' = [cv EXCEPT ![arg[p]] = Popped(@)]
            /\ Goto(p, "wake") /\ UNCHANGED arg
    /\ UNCHANGED <<ProcVars, named, locked, access, wqueue, holds, spoiled, stopped>>

(* A pointer nulled since the check: sleepy_proc is a word of the user's    *)
(* memory, and what it points at is set RUNNABLE and enqueued.             *)
SignalCvStray(c, p) ==
    /\ Exec(c, p, "signal") /\ arg[p] \notin access[p]
    /\ stopped' = TRUE
    /\ UNCHANGED <<ProcVars, MuxVars, pc, arg, sleepy>>

Halted == stopped /\ UNCHANGED vars

Next ==
    \/ \E c \in CPUs : Dispatch(c)
    \/ \E c \in CPUs, p \in Procs :
        \/ Yield(c, p) \/ (\E q \in Procs : Fork(c, p, q)) \/ ForkCopy(c, p) \/ Exit(c, p)
        \/ \E m \in Muxes : \/ MCreate(c, p, m) \/ MDelete(c, p, m) \/ MLock(c, p, m)
                            \/ MUnlock(c, p, m) \/ WaitCv(c, p, m) \/ SignalCv(c, p, m)
        \/ MDeleteLast(c, p) \/ MLockTake(c, p) \/ MLockQueue(c, p) \/ MLockSleep(c, p)
        \/ MUnlockFree(c, p) \/ MUnlockPop(c, p) \/ WakeSleepy(c, p)
        \/ WaitCvSleep(c, p) \/ WaitCvStop(c, p) \/ Relock(c, p)
        \/ SignalCvPop(c, p) \/ SignalCvStray(c, p)
    \/ Halted

Spec == Init /\ [][Next]_vars

----------------------------------------------------------------------------
(* What mlock promises a process: while it holds a mutex that nobody has   *)
(* released or freed under it, the mutex is locked and no other process    *)
(* holds it.                                                               *)
MutualExclusion ==
    \A m \in Muxes \ spoiled : \A p, q \in Procs :
        m \in holds[p] => m \in locked /\ (m \in holds[q] => p = q)

InQueue(p) == p \in Members(runq)
Listed(p) == p \in Members(wqueue) \/ \E m \in Muxes : p \in Members(cv[m])

(* A process asleep in mlock or waitcv is on a list from which it will be  *)
(* woken, or somebody is about to wake it, or it is queued to run: the gap *)
(* between the list and SLEEPING loses no wakeup, for any number of CPUs   *)
(* and mutexes, used well or not.                                          *)
SleeperNotForgotten ==
    \A p \in Procs :
        pst[p] = "SLEEPING" => \/ Listed(p) \/ InQueue(p)
                               \/ \E q \in Procs : pc[q] = "wake" /\ sleepy[q] = p

(* The wait queue never stalls as a whole: while a process sleeps on it    *)
(* and no mutex is spoiled, some mutex is locked (its unlock will take one *)
(* process off the queue), or an unlock is about to, or a process that has *)
(* been taken off has not yet looked at its mutex again.                   *)
Underway ==
    \E q \in Procs : \/ pc[q] = "pop"
                     \/ pc[q] \in {"lock", "queued"} /\ q \notin Members(wqueue)
QueueMoves ==
    \A p \in Procs :
        (pst[p] = "SLEEPING" /\ p \in Members(wqueue) /\ spoiled = {})
            => locked # {} \/ Underway

----------------------------------------------------------------------------
(* What the code's comments say, and the code does not do.                 *)

(* munlock and signalcv "make sure proc is currently holding this mutex"   *)
(* (sysproc.c:218-219, 305-306): only its holder releases a mutex.         *)
OnlyHolderReleases ==
    [][\A m \in Muxes, p, q \in Procs :
          m \in holds[p] /\ pc[q] = "unlock" /\ pc'[q] = "pop" /\ arg[q] = m => p = q]_vars

(* mcreate looks for "the first 'empty mutex' (mutex is available)"        *)
(* (sysproc.c:93-94), one without a name: no process has a pointer to one. *)
EmptyIsUnused == \A m \in Muxes \ named, p \in Procs : m \notin access[p]

(* "wait queue used for unblocking processes waiting to take a mutex"      *)
(* (proc.h:110): while a process sleeps for a mutex that is free, somebody *)
(* is still on the way: an unlock that has not woken its process yet, or a *)
(* process taken off the lists that has not looked at this mutex again.    *)
OnTheWay(m) ==
    \E q \in Procs : \/ pc[q] \in {"pop", "wake"}
                     \/ pc[q] \in {"lock", "queued", "relock"} /\ arg[q] = m /\ ~Listed(q)
WaiterUnblocked ==
    \A p \in Procs :
        (pst[p] = "SLEEPING" /\ p \in Members(wqueue) /\ spoiled = {} /\ arg[p] \notin locked)
            => OnTheWay(arg[p])

(* "put myself to sleep and call scheduler" (sysproc.c:193), "atomically   *)
(* dequeue process from wait queue and wake it up" (sysproc.c:229): what   *)
(* munlock wakes and a CPU then runs is asleep, and no process runs on two *)
(* CPUs.                                                                   *)
RunsOnce == \A c, d \in CPUs : cpu[c] = cpu[d] /\ cpu[c] # Nobody => c = d
=============================================================================
