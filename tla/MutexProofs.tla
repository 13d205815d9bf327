----------------------------- MODULE MutexProofs -----------------------------
(***************************************************************************)
(* What the mutexes guarantee for every number of processes, CPUs and      *)
(* mutexes, whoever calls what: a mutex that nobody has spoiled excludes,  *)
(* no sleeper is forgotten, and the wait queue does not stall.             *)
(*                                                                         *)
(* The invariant has three parts.  Sound: a mutex that is not spoiled is   *)
(* locked by its one holder, and whoever works on it has a pointer to it.  *)
(* Going: until the kernel stops, every process has exactly one ticket (a  *)
(* place on a list, somebody about to wake it, a place in the run queue or *)
(* a CPU), and one more between joining a list and going to sleep: that is *)
(* the gap in which munlock may queue it while it still runs.  Moves: when *)
(* nothing is spoiled, a process on the wait queue means a locked mutex or *)
(* an unlock under way.                                                    *)
(***************************************************************************)
EXTENDS Mutex, SequenceTheorems, FiniteSetTheorems, TLAPS

(* Where mlock, munlock and mdelete work on the mutex of their argument. *)
Using == {"lock", "queued", "unlock", "delete"}

(* A mutex in order: held by at most one process, which has a pointer to   *)
(* it, exactly while it is locked; and the one who deletes it is alone.    *)
Owned(m) ==
    /\ \A p \in Procs : m \in holds[p] => m \in access[p] /\ m \in locked
    /\ \A p \in Procs : m \in access[p] => m \in named
    /\ \A p \in Procs : pc[p] \in Using /\ arg[p] = m => m \in access[p]
    /\ \A p \in Procs : pc[p] = "delete" /\ arg[p] = m =>
           m \notin holds[p] /\ \A q \in Procs \ {p} : m \notin access[q]
    /\ \A p, q \in Procs : m \in holds[p] /\ m \in holds[q] => p = q
    /\ m \in locked => \E p \in Procs : m \in holds[p]

Sound == \A m \in Muxes : m \in spoiled \/ Owned(m)

(* The words a call in progress keeps point at something. *)
Calling == {"lock", "queued", "unlock", "pop", "wait", "relock", "signal", "delete"}
Targets ==
    /\ \A p \in Procs : pc[p] \in {"wake", "fork"} => sleepy[p] \in Procs
    /\ \A p \in Procs : pc[p] \in Calling => arg[p] \in Muxes

(* The lists stay lists of processes. *)
LEMMA Lists ==
    ASSUME NEW s \in Seq(Procs), NEW p \in Procs
    PROVE  /\ Append(s, p) \in Seq(Procs) /\ Queued(s, p) \in Seq(Procs)
           /\ s # <<>> => Head(s) \in Procs /\ Popped(s) \in Seq(Procs) /\ Tail(s) \in Seq(Procs)
BY DEF Queued, Popped

(* Types and arguments are kept. *)
LEMMA TypesInit == Init => TypeOK /\ Targets
<1> SUFFICES ASSUME Init PROVE TypeOK /\ Targets
  OBVIOUS
<1> USE MutexAssumption DEF Init
<1>1. runq \in Seq(Procs) /\ wqueue \in Seq(Procs) /\ cv \in [Muxes -> Seq(Procs)]
  OBVIOUS
<1>2. pst \in [Procs -> {"NONE", "RUNNABLE", "RUNNING", "SLEEPING"}]
  OBVIOUS
<1> QED BY <1>1, <1>2 DEF TypeOK, Labels, Targets, Calling

(* Every step keeps the types and the arguments. *)
LEMMA TypesStep ==
    ASSUME TypeOK, Targets, [Next]_vars
    PROVE  TypeOK' /\ Targets'
<1> USE DEF TypeOK, Labels, Targets, Calling, ProcVars, MuxVars
<1>1. ASSUME NEW c \in CPUs, Dispatch(c) PROVE TypeOK' /\ Targets'
  <2>1. Head(runq) \in Procs /\ Tail(runq) \in Seq(Procs)
    BY <1>1, Lists, MutexAssumption DEF Dispatch
  <2> QED BY <1>1, <2>1 DEF Dispatch
<1>2. ASSUME NEW c \in CPUs, NEW p \in Procs, Yield(c, p) PROVE TypeOK' /\ Targets'
  BY <1>2, Lists DEF Yield
<1>3. ASSUME NEW c \in CPUs, NEW p \in Procs, NEW q \in Procs, Fork(c, p, q) PROVE TypeOK' /\ Targets'
  <2>1. Append(runq, q) \in Seq(Procs)
    BY Lists
  <2> QED BY <1>3, <2>1 DEF Fork, Exec, Goto, NoPointers
<1>4. ASSUME NEW c \in CPUs, NEW p \in Procs, ForkCopy(c, p) PROVE TypeOK' /\ Targets'
  BY <1>4 DEF ForkCopy, Exec, Goto
<1>5. ASSUME NEW c \in CPUs, NEW p \in Procs, Exit(c, p) PROVE TypeOK' /\ Targets'
  BY <1>5 DEF Exit, Exec
<1>6. ASSUME NEW c \in CPUs, NEW p \in Procs, NEW m \in Muxes, MCreate(c, p, m) PROVE TypeOK' /\ Targets'
  BY <1>6 DEF MCreate, Exec
<1>7. ASSUME NEW c \in CPUs, NEW p \in Procs, NEW m \in Muxes, MDelete(c, p, m) PROVE TypeOK' /\ Targets'
  <2>1. CASE Shared(p, m)
    <3>1. access' = [access EXCEPT ![p] = @ \ {m}] /\ UNCHANGED <<pc, arg>>
      BY <1>7, <2>1 DEF MDelete
    <3> QED BY <1>7, <3>1 DEF MDelete
  <2>2. CASE ~Shared(p, m)
    <3>1. pc' = [pc EXCEPT ![p] = "delete"] /\ arg' = [arg EXCEPT ![p] = m] /\ UNCHANGED access
      BY <1>7, <2>2 DEF MDelete, Goto
    <3> QED BY <1>7, <3>1 DEF MDelete
  <2> QED BY <2>1, <2>2
<1>8. ASSUME NEW c \in CPUs, NEW p \in Procs, MDeleteLast(c, p) PROVE TypeOK' /\ Targets'
  BY <1>8 DEF MDeleteLast, Exec, Goto, Return, Behind
<1>9. ASSUME NEW c \in CPUs, NEW p \in Procs, NEW m \in Muxes,
             MLock(c, p, m) \/ MUnlock(c, p, m) \/ SignalCv(c, p, m)
      PROVE TypeOK' /\ Targets'
  <2>1. CASE MLock(c, p, m)
    BY <2>1 DEF MLock, Exec, Goto
  <2>2. CASE MUnlock(c, p, m)
    BY <2>2 DEF MUnlock, Exec, Goto
  <2>3. CASE SignalCv(c, p, m)
    BY <2>3 DEF SignalCv, Exec, Goto
  <2> QED BY <1>9, <2>1, <2>2, <2>3
<1>10. ASSUME NEW c \in CPUs, NEW p \in Procs, MLockTake(c, p) PROVE TypeOK' /\ Targets'
  BY <1>10 DEF MLockTake, Exec, Goto, Return, Behind
<1>11. ASSUME NEW c \in CPUs, NEW p \in Procs, MLockQueue(c, p) PROVE TypeOK' /\ Targets'
  <2>1. Queued(wqueue, p) \in Seq(Procs)
    BY Lists
  <2> QED BY <1>11, <2>1 DEF MLockQueue, Exec, Goto
<1>12. ASSUME NEW c \in CPUs, NEW p \in Procs, MLockSleep(c, p) PROVE TypeOK' /\ Targets'
  BY <1>12 DEF MLockSleep, Exec, Goto
<1>13. ASSUME NEW c \in CPUs, NEW p \in Procs, MUnlockFree(c, p) PROVE TypeOK' /\ Targets'
  BY <1>13 DEF MUnlockFree, Released, Behind, Exec, Goto
<1>14. ASSUME NEW c \in CPUs, NEW p \in Procs, MUnlockPop(c, p) PROVE TypeOK' /\ Targets'
  <2>1. wqueue # <<>> => Head(wqueue) \in Procs /\ Popped(wqueue) \in Seq(Procs)
    BY Lists, MutexAssumption
  <2>2. CASE wqueue = <<>>
    <3>1. /\ pc' = [pc EXCEPT ![p] = "user"] /\ arg' = [arg EXCEPT ![p] = Nobody]
          /\ UNCHANGED <<wqueue, sleepy>>
      BY <1>14, <2>2 DEF MUnlockPop, Goto, Return
    <3> QED BY <1>14, <3>1 DEF MUnlockPop
  <2>3. CASE wqueue # <<>>
    <3>1. /\ pc' = [pc EXCEPT ![p] = "wake"] /\ sleepy' = [sleepy EXCEPT ![p] = Head(wqueue)]
          /\ wqueue' = Popped(wqueue) /\ UNCHANGED arg
      BY <1>14, <2>3 DEF MUnlockPop, Goto
    <3> QED BY <1>14, <2>1, <2>3, <3>1 DEF MUnlockPop
  <2> QED BY <2>2, <2>3
<1>15. ASSUME NEW c \in CPUs, NEW p \in Procs, WakeSleepy(c, p) PROVE TypeOK' /\ Targets'
  <2>1. sleepy[p] \in Procs /\ WokenQueue(sleepy[p]) \in Seq(Procs)
    BY <1>15, Lists DEF WakeSleepy, Exec, WokenQueue
  <2> QED BY <1>15, <2>1 DEF WakeSleepy, Exec, Goto, Return
<1>16. ASSUME NEW c \in CPUs, NEW p \in Procs, NEW m \in Muxes, WaitCv(c, p, m) PROVE TypeOK' /\ Targets'
  <2>1. Queued(cv[m], p) \in Seq(Procs)
    BY Lists
  <2> QED BY <1>16, <2>1 DEF WaitCv, Exec, Goto
<1>17. ASSUME NEW c \in CPUs, NEW p \in Procs, WaitCvSleep(c, p) PROVE TypeOK' /\ Targets'
  BY <1>17 DEF WaitCvSleep, Exec, Goto, Released
<1>18. ASSUME NEW c \in CPUs, NEW p \in Procs, WaitCvStop(c, p) \/ SignalCvStray(c, p)
       PROVE TypeOK' /\ Targets'
  BY <1>18 DEF WaitCvStop, SignalCvStray
<1>19. ASSUME NEW c \in CPUs, NEW p \in Procs, Relock(c, p) PROVE TypeOK' /\ Targets'
  <2>1. CASE arg[p] \in access[p]
    <3>1. pc' = [pc EXCEPT ![p] = "lock"] /\ UNCHANGED arg /\ pc[p] = "relock"
      BY <1>19, <2>1 DEF Relock, Exec, Goto
    <3> QED BY <1>19, <3>1 DEF Relock
  <2>2. CASE arg[p] \notin access[p]
    <3>1. pc' = [pc EXCEPT ![p] = "user"] /\ arg' = [arg EXCEPT ![p] = Nobody]
      BY <1>19, <2>2 DEF Relock, Goto, Return
    <3> QED BY <1>19, <3>1 DEF Relock
  <2> QED BY <2>1, <2>2
<1>20. ASSUME NEW c \in CPUs, NEW p \in Procs, SignalCvPop(c, p) PROVE TypeOK' /\ Targets'
  <2>1. arg[p] \in Muxes /\ cv[arg[p]] \in Seq(Procs)
    BY <1>20 DEF SignalCvPop, Exec
  <2>2. cv[arg[p]] # <<>> => Head(cv[arg[p]]) \in Procs /\ Popped(cv[arg[p]]) \in Seq(Procs)
    BY <2>1, Lists, MutexAssumption
  <2>3. CASE cv[arg[p]] = <<>>
    <3>1. /\ pc' = [pc EXCEPT ![p] = "user"] /\ arg' = [arg EXCEPT ![p] = Nobody]
          /\ UNCHANGED <<cv, sleepy>>
      BY <1>20, <2>3 DEF SignalCvPop, Goto, Return
    <3> QED BY <1>20, <3>1 DEF SignalCvPop
  <2>4. CASE cv[arg[p]] # <<>>
    <3>1. /\ pc' = [pc EXCEPT ![p] = "wake"] /\ sleepy' = [sleepy EXCEPT ![p] = Head(cv[arg[p]])]
          /\ cv' = [cv EXCEPT ![arg[p]] = Popped(@)] /\ UNCHANGED arg
      BY <1>20, <2>4 DEF SignalCvPop, Goto
    <3> QED BY <1>20, <2>1, <2>2, <2>4, <3>1 DEF SignalCvPop
  <2> QED BY <2>3, <2>4
<1>21. CASE Halted \/ UNCHANGED vars
  BY <1>21 DEF Halted, vars
<1> QED
  BY <1>1, <1>2, <1>3, <1>4, <1>5, <1>6, <1>7, <1>8, <1>9, <1>10, <1>11, <1>12, <1>13, <1>14, <1>15,
     <1>16, <1>17, <1>18, <1>19, <1>20, <1>21 DEF Next

----------------------------------------------------------------------------
(* Nothing is spoiled at the start. *)
LEMMA SoundInit == Init => Sound
BY MutexAssumption DEF Init, Sound, Owned, Using

(* A process that uses a mutex after a step and did so before. *)
StillUsing(p) == pc[p] \in Using /\ arg[p] = arg'[p] /\ (pc'[p] = "delete" => pc[p] = "delete")

(* A mutex about which a step changes nothing. *)
LEMMA OwnedKept ==
    ASSUME NEW m, Owned(m), UNCHANGED holds,
           m \in locked' <=> m \in locked, m \in named => m \in named',
           \A p \in Procs : m \in access'[p] <=> m \in access[p],
           \A p \in Procs : pc'[p] \in Using /\ arg'[p] = m => StillUsing(p)
    PROVE  Owned(m)'
BY DEF Owned, Using, StillUsing

(* The mutexes are as before, and nobody begins to use one. *)
MuxesKept ==
    /\ UNCHANGED <<holds, locked, named, access, spoiled>>
    /\ \A p \in Procs : pc'[p] \in Using /\ arg'[p] \notin spoiled => StillUsing(p)

(* Then every mutex stays in order. *)
LEMMA SoundKept == ASSUME Sound, MuxesKept PROVE Sound'
<1> SUFFICES ASSUME NEW m \in Muxes, m \notin spoiled PROVE Owned(m)'
  BY DEF Sound, MuxesKept
<1>1. Owned(m)
  BY DEF Sound
<1> QED BY <1>1, OwnedKept DEF MuxesKept

(* A step of p that changes at most its own label and argument. *)
OwnCall(p, l) ==
    /\ pc' = [pc EXCEPT ![p] = l]
    /\ \A q \in Procs \ {p} : arg'[q] = arg[q]

(* A call that leaves the mutexes leaves the other calls alone. *)
LEMMA OwnCallKept ==
    ASSUME TypeOK, NEW p \in Procs, NEW l \in Labels \ Using, OwnCall(p, l)
    PROVE  \A q \in Procs : pc'[q] \in Using => StillUsing(q)
BY DEF OwnCall, TypeOK, StillUsing

(* The steps that leave the mutexes alone. *)
LEMMA SoundQuiet ==
    ASSUME TypeOK, Sound, NEW c \in CPUs, NEW p \in Procs,
           \/ Dispatch(c) \/ Yield(c, p) \/ MLockSleep(c, p) \/ MUnlockPop(c, p) \/ WakeSleepy(c, p)
           \/ WaitCvStop(c, p) \/ SignalCvPop(c, p) \/ SignalCvStray(c, p)
           \/ \E m \in Muxes : SignalCv(c, p, m) \/ WaitCv(c, p, m)
    PROVE  Sound'
<1>1. UNCHANGED <<holds, locked, named, access, spoiled>>
  BY DEF Dispatch, Yield, MLockSleep, MUnlockPop, WakeSleepy, WaitCvStop, SignalCvPop, SignalCvStray,
         SignalCv, WaitCv, MuxVars
<1>2. \A q \in Procs : pc'[q] \in Using => StillUsing(q)
  <2>1. CASE Dispatch(c) \/ Yield(c, p) \/ WaitCvStop(c, p) \/ SignalCvStray(c, p)
    BY <2>1 DEF Dispatch, Yield, WaitCvStop, SignalCvStray, StillUsing
  <2>2. CASE MLockSleep(c, p)
    BY <2>2 DEF MLockSleep, Exec, Goto, TypeOK, Using, StillUsing
  <2>3. CASE MUnlockPop(c, p)
    <3>1. OwnCall(p, "user") \/ OwnCall(p, "wake")
      BY <2>3 DEF MUnlockPop, OwnCall, Goto, Return, TypeOK
    <3> QED BY <3>1, OwnCallKept DEF Labels, Using
  <2>4. CASE WakeSleepy(c, p)
    <3>1. OwnCall(p, "user")
      BY <2>4 DEF WakeSleepy, OwnCall, Goto, Return, TypeOK
    <3> QED BY <3>1, OwnCallKept DEF Labels, Using
  <2>5. CASE SignalCvPop(c, p)
    <3>1. OwnCall(p, "user") \/ OwnCall(p, "wake")
      BY <2>5 DEF SignalCvPop, OwnCall, Goto, Return, TypeOK
    <3> QED BY <3>1, OwnCallKept DEF Labels, Using
  <2>6. ASSUME NEW m \in Muxes, SignalCv(c, p, m) \/ WaitCv(c, p, m)
        PROVE  \A q \in Procs : pc'[q] \in Using => StillUsing(q)
    <3>1. OwnCall(p, "signal") \/ OwnCall(p, "wait")
      BY <2>6 DEF SignalCv, WaitCv, OwnCall, Goto, TypeOK
    <3> QED BY <3>1, OwnCallKept DEF Labels, Using
  <2> QED BY <2>1, <2>2, <2>3, <2>4, <2>5, <2>6
<1> QED BY <1>1, <1>2, SoundKept DEF MuxesKept

(* The calls that change a mutex. *)
LEMMA SoundCall ==
    ASSUME TypeOK, Targets, Sound, NEW c \in CPUs, NEW p \in Procs,
           \/ MDeleteLast(c, p) \/ MLockTake(c, p) \/ MLockQueue(c, p) \/ MUnlockFree(c, p)
           \/ WaitCvSleep(c, p) \/ Relock(c, p)
    PROVE  Sound'
<1>0. PICK a \in Muxes : arg[p] = a
  BY DEF Targets, Calling, MDeleteLast, MLockTake, MLockQueue, MUnlockFree, WaitCvSleep, Relock, Exec
<1>1. CASE MLockQueue(c, p)
  <2>1. MuxesKept
    BY <1>1 DEF MLockQueue, Exec, Goto, MuxesKept, TypeOK, Using, StillUsing
  <2> QED BY <2>1, SoundKept
<1>2. CASE Relock(c, p)
  <2> SUFFICES ASSUME NEW m \in Muxes, m \notin spoiled PROVE Owned(m)'
    BY <1>2 DEF Sound, Relock, MuxVars
  <2>1. Owned(m)
    BY DEF Sound
  <2>2. UNCHANGED <<holds, locked, named, access>>
    BY <1>2 DEF Relock, MuxVars
  <2>3. CASE arg[p] \in access[p]
    <3>1. pc' = [pc EXCEPT ![p] = "lock"] /\ UNCHANGED arg
      BY <1>2, <2>3 DEF Relock, Goto
    <3> QED BY <2>1, <2>2, <2>3, <3>1 DEF Owned, Using, TypeOK
  <2>4. CASE arg[p] \notin access[p]
    <3>1. pc' = [pc EXCEPT ![p] = "user"] /\ arg' = [arg EXCEPT ![p] = Nobody]
      BY <1>2, <2>4 DEF Relock, Goto, Return
    <3> QED BY <2>1, <2>2, <3>1 DEF Owned, Using, TypeOK
  <2> QED BY <2>3, <2>4
<1>3. CASE MDeleteLast(c, p)
  <2> SUFFICES ASSUME NEW m \in Muxes, m \notin spoiled PROVE Owned(m)'
    BY <1>3 DEF Sound, MDeleteLast
  <2>1. Owned(m)
    BY DEF Sound
  <2>2. /\ named' = named \ (access[p] \cap {a}) /\ locked' = locked \ (access[p] \cap {a})
        /\ holds' = [holds EXCEPT ![p] = @ \ {a}] /\ access' = [access EXCEPT ![p] = @ \ {a}]
        /\ pc' = [pc EXCEPT ![p] = "user"] /\ arg' = [arg EXCEPT ![p] = Nobody] /\ pc[p] = "delete"
    BY <1>0, <1>3 DEF MDeleteLast, Behind, Goto, Return, Exec
  <2>3. /\ pc'[p] = "user" /\ holds'[p] = holds[p] \ {a} /\ access'[p] = access[p] \ {a}
        /\ \A q \in Procs \ {p} : pc'[q] = pc[q] /\ arg'[q] = arg[q] /\ holds'[q] = holds[q] /\ access'[q] = access[q]
    BY <2>2 DEF TypeOK
  <2>4. CASE m = a
    <3>1. m \notin holds[p] /\ \A q \in Procs \ {p} : m \notin access[q]
      BY <1>0, <2>1, <2>2, <2>4 DEF Owned
    <3>2. \A q \in Procs : m \notin holds'[q] /\ m \notin access'[q]
      BY <2>1, <2>3, <2>4, <3>1 DEF Owned
    <3>3. m \notin locked
      BY <2>1, <2>3, <2>4, <3>1 DEF Owned
    <3>4. \A q \in Procs : ~(pc'[q] \in Using /\ arg'[q] = m)
      BY <2>1, <2>3, <3>1 DEF Owned, Using
    <3> QED BY <2>2, <3>2, <3>3, <3>4 DEF Owned, Using
  <2>5. CASE m # a
    BY <2>1, <2>2, <2>3, <2>5 DEF Owned, Using
  <2> QED BY <2>4, <2>5
<1>4. CASE MLockTake(c, p)
  <2> SUFFICES ASSUME NEW m \in Muxes, m \notin spoiled PROVE Owned(m)'
    BY <1>4 DEF Sound, MLockTake
  <2>1. Owned(m)
    BY DEF Sound
  <2>2. /\ locked' = locked \cup (access[p] \cap {a}) /\ holds' = [holds EXCEPT ![p] = @ \cup {a}]
        /\ pc' = [pc EXCEPT ![p] = "user"] /\ arg' = [arg EXCEPT ![p] = Nobody] /\ pc[p] = "lock"
        /\ UNCHANGED <<named, access>> /\ (a \in access[p] => a \notin locked)
    BY <1>0, <1>4 DEF MLockTake, Behind, Goto, Return, Exec, Taken
  <2>3. /\ pc'[p] = "user" /\ holds'[p] = holds[p] \cup {a}
        /\ \A q \in Procs \ {p} : pc'[q] = pc[q] /\ arg'[q] = arg[q] /\ holds'[q] = holds[q]
    BY <2>2 DEF TypeOK
  <2>4. CASE m = a
    <3>1. m \in access[p] /\ m \notin locked /\ m \in locked'
      BY <1>0, <2>1, <2>2, <2>4 DEF Owned, Using
    <3>2. \A q \in Procs : m \notin holds[q]
      BY <2>1, <3>1 DEF Owned
    <3>3. \A q \in Procs : m \in holds'[q] <=> q = p
      BY <2>3, <2>4, <3>2
    <3>4. \A q \in Procs : pc'[q] \in Using => q # p /\ pc'[q] = pc[q] /\ arg'[q] = arg[q]
      BY <2>3 DEF Using
    <3>5. \A q \in Procs : pc'[q] = "delete" => q # p /\ pc'[q] = pc[q] /\ arg'[q] = arg[q]
      BY <2>3
    <3> QED BY <2>1, <2>2, <3>1, <3>3, <3>4, <3>5 DEF Owned
  <2>5. CASE m # a
    BY <2>1, <2>2, <2>3, <2>5 DEF Owned, Using
  <2> QED BY <2>4, <2>5
<1>5. CASE MUnlockFree(c, p) \/ WaitCvSleep(c, p)
  <2> SUFFICES ASSUME NEW m \in Muxes, m \notin spoiled' PROVE Owned(m)'
    BY DEF Sound
  <2>1. spoiled' = spoiled \cup ({a} \ holds[p])
    BY <1>0, <1>5 DEF MUnlockFree, WaitCvSleep, Released
  <2>2. Owned(m) /\ m \notin spoiled /\ (m = a => a \in holds[p])
    BY <2>1 DEF Sound
  <2>3. PICK l \in {"pop", "relock"} : pc' = [pc EXCEPT ![p] = l]
    BY <1>5 DEF MUnlockFree, WaitCvSleep, Goto
  <2>4. locked' = locked \ (access[p] \cap {a})
    <3>1. CASE MUnlockFree(c, p)
      BY <1>0, <3>1 DEF MUnlockFree, Behind
    <3>2. CASE WaitCvSleep(c, p)
      BY <1>0, <3>2 DEF WaitCvSleep
    <3> QED BY <1>5, <3>1, <3>2
  <2>5. holds' = [holds EXCEPT ![p] = @ \ {a}] /\ UNCHANGED <<named, access, arg>>
    BY <1>0, <1>5 DEF MUnlockFree, WaitCvSleep
  <2>6. /\ pc'[p] \notin Using /\ holds'[p] = holds[p] \ {a}
        /\ \A q \in Procs \ {p} : pc'[q] = pc[q] /\ holds'[q] = holds[q]
    BY <2>3, <2>5 DEF TypeOK, Using
  <2>7. CASE m = a
    <3>1. m \in holds[p] /\ m \in access[p]
      BY <2>2, <2>7 DEF Owned
    <3>2. \A q \in Procs : m \notin holds'[q]
      BY <2>2, <2>6, <2>7, <3>1 DEF Owned
    <3>3. m \notin locked'
      BY <2>4, <2>7, <3>1
    <3>4. \A q \in Procs : pc'[q] \in Using => q # p /\ pc'[q] = pc[q]
      BY <2>6
    <3>5. \A q \in Procs : pc'[q] = "delete" => q # p /\ pc'[q] = pc[q]
      BY <2>6 DEF Using
    <3> QED BY <2>2, <2>5, <3>2, <3>3, <3>4, <3>5 DEF Owned
  <2>8. CASE m # a
    <3>1. \A q \in Procs : m \in holds'[q] <=> m \in holds[q]
      BY <2>6, <2>8
    <3>2. m \in locked' <=> m \in locked
      BY <2>4, <2>8
    <3>4. \A q \in Procs : pc'[q] \in Using => q # p /\ pc'[q] = pc[q]
      BY <2>6
    <3>5. \A q \in Procs : pc'[q] = "delete" => q # p /\ pc'[q] = pc[q]
      BY <2>6 DEF Using
    <3> QED BY <2>2, <2>5, <3>1, <3>2, <3>4, <3>5 DEF Owned
  <2> QED BY <2>7, <2>8
<1> QED BY <1>1, <1>2, <1>3, <1>4, <1>5

(* Slots without a process hold nothing. *)
Idle == \A p \in Procs : pst[p] = "NONE" => pc[p] = "user" /\ holds[p] = {}

(* fork and exit, mcreate and mdelete, and the checks of mlock and munlock. *)
LEMMA SoundUser ==
    ASSUME TypeOK, Targets, Idle, Sound, NEW c \in CPUs, NEW p \in Procs,
           \/ (\E q \in Procs : Fork(c, p, q)) \/ ForkCopy(c, p) \/ Exit(c, p)
           \/ \E m \in Muxes : MCreate(c, p, m) \/ MDelete(c, p, m) \/ MLock(c, p, m) \/ MUnlock(c, p, m)
    PROVE  Sound'
<1>1. ASSUME NEW k \in Procs, Fork(c, p, k) PROVE Sound'
  <2> SUFFICES ASSUME NEW m \in Muxes, m \notin spoiled PROVE Owned(m)'
    BY <1>1 DEF Sound, Fork
  <2>1. Owned(m)
    BY DEF Sound
  <2>2. /\ access' = [access EXCEPT ![k] = {}] /\ pc' = [pc EXCEPT ![p] = "fork"]
        /\ UNCHANGED <<named, locked, holds, arg>> /\ pst[k] = "NONE"
    BY <1>1 DEF Fork, NoPointers, Goto
  <2>3. pc[k] = "user" /\ holds[k] = {}
    BY <2>2 DEF Idle
  <2>4. /\ access'[k] = {} /\ \A q \in Procs \ {k} : access'[q] = access[q]
        /\ \A q \in Procs : pc'[q] \in Using => pc'[q] = pc[q] /\ q # k
        /\ \A q \in Procs : pc'[q] = "delete" => pc'[q] = pc[q] /\ q # k
    BY <2>2, <2>3 DEF TypeOK, Using
  <2>5. \A q \in Procs : m \in access'[q] => m \in access[q]
    BY <2>4
  <2> QED BY <2>1, <2>2, <2>3, <2>4, <2>5 DEF Owned
<1>2. CASE ForkCopy(c, p)
  <2>0. PICK k \in Procs : sleepy[p] = k
    BY <1>2 DEF ForkCopy, Exec, Targets
  <2> SUFFICES ASSUME NEW m \in Muxes, m \notin spoiled' PROVE Owned(m)'
    BY DEF Sound
  <2>2. /\ access' = [access EXCEPT ![k] = access[p]] /\ pc' = [pc EXCEPT ![p] = "user"]
        /\ UNCHANGED <<named, locked, holds, arg>> /\ spoiled' = spoiled \cup (access[k] \ access[p])
    BY <1>2, <2>0 DEF ForkCopy, Goto
  <2>3. Owned(m) /\ (m \in access[k] => m \in access[p])
    BY <2>2 DEF Sound
  <2>4. /\ access'[k] = access[p] /\ \A q \in Procs \ {k} : access'[q] = access[q]
        /\ \A q \in Procs : pc'[q] \in Using => pc'[q] = pc[q]
        /\ \A q \in Procs : pc'[q] = "delete" => pc'[q] = pc[q] /\ q # p
    BY <2>2 DEF TypeOK, Using
  <2>5. \A q \in Procs : m \in access[q] => m \in access'[q]
    BY <2>3, <2>4
  <2>6. \A q \in Procs : pc'[q] = "delete" /\ arg'[q] = m => \A r \in Procs \ {q} : m \notin access'[r]
    <3> SUFFICES ASSUME NEW q \in Procs, pc'[q] = "delete", arg'[q] = m, NEW r \in Procs \ {q}
                 PROVE m \notin access'[r]
      OBVIOUS
    <3>1. pc[q] = "delete" /\ arg[q] = m /\ q # p
      BY <2>2, <2>4
    <3>2. m \notin access[r] /\ m \notin access[p]
      BY <2>3, <3>1 DEF Owned
    <3> QED BY <2>4, <3>2
  <2>7. \A q \in Procs : m \in access'[q] => m \in named'
    BY <2>2, <2>3, <2>4 DEF Owned
  <2> QED BY <2>2, <2>3, <2>4, <2>5, <2>6, <2>7 DEF Owned
<1>3. CASE Exit(c, p)
  <2> SUFFICES ASSUME NEW m \in Muxes, m \notin spoiled' PROVE Owned(m)'
    BY DEF Sound
  <2>1. /\ named' = named \ access[p] /\ locked' = locked \ access[p] /\ pc[p] = "user"
        /\ access' = [access EXCEPT ![p] = {}] /\ holds' = [holds EXCEPT ![p] = {}] /\ UNCHANGED <<pc, arg>>
        /\ spoiled' = spoiled \cup {n \in access[p] : n \in holds[p] \/ Shared(p, n)}
    BY <1>3 DEF Exit, Exec
  <2>2. Owned(m) /\ (m \in access[p] => m \notin holds[p] /\ \A q \in Procs \ {p} : m \notin access[q])
    BY <2>1 DEF Sound, Shared
  <2>3. /\ access'[p] = {} /\ holds'[p] = {}
        /\ \A q \in Procs \ {p} : access'[q] = access[q] /\ holds'[q] = holds[q]
    BY <2>1 DEF TypeOK
  <2>4. m \notin holds[p] /\ \A q \in Procs : m \in holds'[q] <=> m \in holds[q]
    BY <2>2, <2>3 DEF Owned
  <2>5. CASE m \in access[p]
    <3>1. \A q \in Procs : m \notin holds[q] /\ m \notin access'[q]
      BY <2>2, <2>3, <2>4, <2>5 DEF Owned
    <3>2. \A q \in Procs : ~(pc[q] \in Using /\ arg[q] = m)
      BY <2>1, <2>2, <2>5 DEF Owned, Using
    <3>3. m \notin locked'
      BY <2>1, <2>5
    <3>4. \A q \in Procs : ~(pc[q] = "delete" /\ arg[q] = m)
      BY <3>2 DEF Using
    <3> QED BY <2>1, <2>4, <3>1, <3>2, <3>3, <3>4 DEF Owned
  <2>6. CASE m \notin access[p]
    <3>1. \A q \in Procs : m \in access'[q] <=> m \in access[q]
      BY <2>3, <2>6
    <3>2. (m \in locked' <=> m \in locked) /\ (m \in named' <=> m \in named)
      BY <2>1, <2>6
    <3> QED BY <2>1, <2>2, <2>4, <3>1, <3>2 DEF Owned
  <2> QED BY <2>5, <2>6
<1>4. ASSUME NEW a \in Muxes, MCreate(c, p, a) PROVE Sound'
  <2> SUFFICES ASSUME NEW m \in Muxes, m \notin spoiled PROVE Owned(m)'
    BY <1>4 DEF Sound, MCreate
  <2>1. Owned(m)
    BY DEF Sound
  <2>2. /\ named' = named \cup {a} /\ locked' = locked \ {a} /\ access' = [access EXCEPT ![p] = @ \cup {a}]
        /\ UNCHANGED <<holds, pc, arg>> /\ a \notin named /\ pc[p] = "user"
    BY <1>4 DEF MCreate, Exec
  <2>3. access'[p] = access[p] \cup {a} /\ \A q \in Procs \ {p} : access'[q] = access[q]
    BY <2>2 DEF TypeOK
  <2>4. CASE m = a
    <3>1. \A q \in Procs : m \notin access[q] /\ m \notin holds[q]
      BY <2>1, <2>2, <2>4 DEF Owned
    <3>2. \A q \in Procs : ~(pc[q] \in Using /\ arg[q] = m)
      BY <2>1, <3>1 DEF Owned
    <3>3. \A q \in Procs : ~(pc[q] = "delete" /\ arg[q] = m)
      BY <3>2 DEF Using
    <3> QED BY <2>2, <2>4, <3>1, <3>2, <3>3 DEF Owned
  <2>5. CASE m # a
    <3>1. \A q \in Procs : m \in access'[q] <=> m \in access[q]
      BY <2>3, <2>5
    <3>2. (m \in locked' <=> m \in locked) /\ (m \in named' <=> m \in named)
      BY <2>2, <2>5
    <3> QED BY <2>1, <2>2, <3>1, <3>2 DEF Owned
  <2> QED BY <2>4, <2>5
<1>5. ASSUME NEW a \in Muxes, MDelete(c, p, a) PROVE Sound'
  <2> SUFFICES ASSUME NEW m \in Muxes, m \notin spoiled' PROVE Owned(m)'
    BY DEF Sound
  <2>1. /\ spoiled' = spoiled \cup (holds[p] \cap {a}) /\ UNCHANGED <<named, locked, holds>> /\ pc[p] = "user"
        /\ a \in access[p]
    BY <1>5 DEF MDelete, Exec
  <2>2. Owned(m) /\ (m = a => m \notin holds[p])
    BY <2>1 DEF Sound
  <2>3. CASE Shared(p, a)
    <3>1. access' = [access EXCEPT ![p] = @ \ {a}] /\ UNCHANGED <<pc, arg>>
      BY <1>5, <2>3 DEF MDelete
    <3>2. access'[p] = access[p] \ {a} /\ \A q \in Procs \ {p} : access'[q] = access[q]
      BY <3>1 DEF TypeOK
    <3>3. \A q \in Procs : m \in access'[q] => m \in access[q]
      BY <3>2
    <3>4. \A q \in Procs : m \in access[q] => m \in access'[q] \/ (q = p /\ m = a)
      BY <3>2
    <3>5. pc[p] \notin Using
      BY <2>1 DEF Using
    <3> QED BY <2>1, <2>2, <3>1, <3>3, <3>4, <3>5 DEF Owned
  <2>4. CASE ~Shared(p, a)
    <3>1. pc' = [pc EXCEPT ![p] = "delete"] /\ arg' = [arg EXCEPT ![p] = a] /\ UNCHANGED access
      BY <1>5, <2>4 DEF MDelete, Goto
    <3>2. /\ pc'[p] = "delete" /\ arg'[p] = a
          /\ \A q \in Procs \ {p} : pc'[q] = pc[q] /\ arg'[q] = arg[q]
      BY <3>1 DEF TypeOK
    <3>3. \A q \in Procs \ {p} : a \notin access[q]
      BY <2>4 DEF Shared
    <3> QED BY <2>1, <2>2, <3>1, <3>2, <3>3 DEF Owned
  <2> QED BY <2>3, <2>4
<1>6. ASSUME NEW a \in Muxes, MLock(c, p, a) \/ MUnlock(c, p, a) PROVE Sound'
  <2> SUFFICES ASSUME NEW m \in Muxes, m \notin spoiled PROVE Owned(m)'
    BY <1>6 DEF Sound, MLock, MUnlock, MuxVars
  <2>1. Owned(m)
    BY DEF Sound
  <2>2. UNCHANGED <<named, locked, holds, access>> /\ a \in access[p] /\ arg' = [arg EXCEPT ![p] = a]
    BY <1>6 DEF MLock, MUnlock, MuxVars
  <2>3. PICK l \in {"lock", "unlock"} : pc' = [pc EXCEPT ![p] = l]
    BY <1>6 DEF MLock, MUnlock, Goto
  <2>4. /\ pc'[p] = l /\ arg'[p] = a
        /\ \A q \in Procs \ {p} : pc'[q] = pc[q] /\ arg'[q] = arg[q]
    BY <2>2, <2>3 DEF TypeOK
  <2> QED BY <2>1, <2>2, <2>4 DEF Owned
<1> QED BY <1>1, <1>2, <1>3, <1>4, <1>5, <1>6

(* Every step keeps each mutex in order or spoils it. *)
LEMMA SoundStep ==
    ASSUME TypeOK, Targets, stopped \/ Idle, Sound, [Next]_vars
    PROVE  Sound'
<1>1. ASSUME NEW c \in CPUs, NEW p \in Procs,
             \/ (\E q \in Procs : Fork(c, p, q)) \/ ForkCopy(c, p) \/ Exit(c, p)
             \/ \E m \in Muxes : MCreate(c, p, m) \/ MDelete(c, p, m) \/ MLock(c, p, m) \/ MUnlock(c, p, m)
      PROVE  Sound'
  <2>1. ~stopped
    BY <1>1 DEF Fork, ForkCopy, Exit, MCreate, MDelete, MLock, MUnlock, Exec
  <2> QED BY <1>1, <2>1, SoundUser
<1>2. CASE Halted \/ UNCHANGED vars
  <2>1. UNCHANGED <<holds, locked, named, access, spoiled, pc, arg>>
    BY <1>2 DEF Halted, vars
  <2> QED BY <2>1, SoundKept DEF MuxesKept, StillUsing
<1>3. ASSUME NEW c \in CPUs, Dispatch(c) PROVE Sound'
  BY <1>3, SoundQuiet, MutexAssumption
<1> QED BY <1>1, <1>2, <1>3, SoundQuiet, SoundCall DEF Next

(* How often p is on the list s, and a truth value as a number. *)
Count(s, p) == Cardinality({i \in 1 .. Len(s) : s[i] = p})
One(b) == IF b THEN 1 ELSE 0

----------------------------------------------------------------------------
(* Counting on lists *)

(* Counting occurrences in a queue: a number, zero for who is not in it. *)
LEMMA CountIsNat ==
    ASSUME NEW s \in Seq(Procs), NEW p
    PROVE  Count(s, p) \in Nat /\ (Count(s, p) > 0 <=> p \in Members(s))
<1> DEFINE S == {i \in 1 .. Len(s) : s[i] = p}
<1>1. IsFiniteSet(S)
  <2>1. IsFiniteSet(1 .. Len(s))
    BY FS_Interval
  <2> QED BY <2>1, FS_Subset
<1>2. Cardinality(S) \in Nat /\ (Cardinality(S) = 0 <=> S = {})
  BY <1>1, FS_CardinalityType, FS_EmptySet
<1>3. S # {} <=> p \in Members(s)
  BY DEF Members
<1> QED BY <1>2, <1>3 DEF Count

(* Nobody is in the empty queue, *)
LEMMA CountEmpty == ASSUME NEW p PROVE Count(<<>>, p) = 0
<1>1. {i \in 1 .. Len(<<>>) : <<>>[i] = p} = {}
  OBVIOUS
<1> QED BY <1>1, FS_EmptySet DEF Count

(* and one is in a queue of one. *)
LEMMA CountOne == ASSUME NEW x, NEW p PROVE Count(<<x>>, p) = One(x = p)
<1>1. {i \in 1 .. Len(<<x>>) : <<x>>[i] = p} = IF x = p THEN {1} ELSE {}
  OBVIOUS
<1> QED BY <1>1, FS_EmptySet, FS_Singleton DEF Count, One

(* An element at the end counts once more, *)
LEMMA CountAppend ==
    ASSUME NEW s \in Seq(Procs), NEW x \in Procs, NEW p
    PROVE  Append(s, x) \in Seq(Procs) /\ Count(Append(s, x), p) = Count(s, p) + One(x = p)
<1> DEFINE l == Append(s, x)
           n == Len(s)
           S == {i \in 1 .. n : s[i] = p}
           L == {i \in 1 .. n + 1 : l[i] = p}
<1>1. /\ l \in Seq(Procs) /\ Len(l) = n + 1 /\ n \in Nat
      /\ \A i \in 1 .. n : l[i] = s[i]
      /\ l[n + 1] = x
  BY AppendProperties
<1> HIDE DEF l
<1>2. IsFiniteSet(S)
  <2>1. IsFiniteSet(1 .. n)
    BY <1>1, FS_Interval
  <2> QED BY <2>1, FS_Subset
<1>3. n + 1 \notin S
  BY <1>1
<1>4. \A i \in 1 .. n + 1 : i \in 1 .. n \/ i = n + 1
  BY <1>1
<1>5. \A i \in 1 .. n : i \in 1 .. n + 1
  BY <1>1
<1>6. n + 1 \in 1 .. n + 1
  BY <1>1
<1>7. CASE x = p
  <2>1. L = S \cup {n + 1}
    BY <1>1, <1>4, <1>5, <1>6, <1>7
  <2>2. Cardinality(L) = Cardinality(S) + 1
    BY <1>2, <1>3, <2>1, FS_AddElement
  <2> QED BY <1>1, <1>7, <2>2 DEF Count, One, l
<1>8. CASE x # p
  <2>1. L = S
    BY <1>1, <1>4, <1>5, <1>8
  <2>2. Cardinality(S) + 0 = Cardinality(S)
    BY <1>2, FS_CardinalityType
  <2> QED BY <1>1, <1>8, <2>1, <2>2 DEF Count, One, l
<1> QED BY <1>7, <1>8

(* and the head, taken off, once less. *)
LEMMA CountTail ==
    ASSUME NEW s \in Seq(Procs), s # <<>>, NEW p
    PROVE  /\ Head(s) \in Procs /\ Tail(s) \in Seq(Procs)
           /\ Count(Tail(s), p) = Count(s, p) - One(Head(s) = p)
<1> DEFINE t == Tail(s)
           n == Len(t)
           S == {i \in 1 .. n + 1 : s[i] = p}
           T == {i \in 1 .. n : t[i] = p}
           f == [i \in T |-> i + 1]
<1>1. /\ t \in Seq(Procs) /\ Len(s) = n + 1 /\ n \in Nat
      /\ \A i \in 1 .. n : t[i] = s[i + 1]
      /\ Head(s) = s[1] /\ Head(s) \in Procs
  BY HeadTailProperties
<1> HIDE DEF t
<1>2. IsFiniteSet(T) /\ IsFiniteSet(S)
  <2>1. IsFiniteSet(1 .. n) /\ IsFiniteSet(1 .. n + 1)
    BY <1>1, FS_Interval
  <2> QED BY <2>1, FS_Subset
<1>3. \A i \in T : i \in Nat /\ i + 1 \in S \ {1}
  BY <1>1
<1>4. \A j \in S \ {1} : j - 1 \in T /\ (j - 1) + 1 = j
  BY <1>1
<1>5. f \in Bijection(T, S \ {1})
  <2>1. f \in [T -> S \ {1}]
    BY <1>3
  <2>2. \A i, j \in T : f[i] = f[j] => i = j
    BY <1>3
  <2>3. \A j \in S \ {1} : \E i \in T : f[i] = j
    BY <1>4
  <2> QED BY <2>1, <2>2, <2>3 DEF Bijection, Injection, Surjection, IsInjective
<1>6. Cardinality(S \ {1}) = Cardinality(T)
  BY <1>2, <1>5, FS_Bijection DEF ExistsBijection
<1>7. 1 \in S <=> Head(s) = p
  BY <1>1
<1>8. Cardinality(T) = Cardinality(S) - One(Head(s) = p)
  <2>1. Cardinality(S \ {1}) = IF 1 \in S THEN Cardinality(S) - 1 ELSE Cardinality(S)
    BY <1>2, FS_RemoveElement
  <2>2. Cardinality(S) \in Nat
    BY <1>2, FS_CardinalityType
  <2> HIDE DEF S, T
  <2> QED BY <1>6, <1>7, <2>1, <2>2 DEF One
<1> QED BY <1>1, <1>8 DEF Count, t


(* The tickets of a process: its places on the lists, a process that is    *)
(* about to wake it, its entries in the run queue, and the CPU it has.     *)
OnQueue(p) == Count(wqueue, p)
OnCv(p) == IF arg[p] \in Muxes THEN Count(cv[arg[p]], p) ELSE 0
WakesIt(q, p) == pc[q] = "wake" /\ sleepy[q] = p
Waker(p) == IF \E q \in Procs : WakesIt(q, p) THEN 1 ELSE 0
InRunq(p) == Count(runq, p)
OnCpu(p) == IF \E c \in CPUs : cpu[c] = p THEN 1 ELSE 0
Tickets(p) == OnQueue(p) + OnCv(p) + Waker(p) + InRunq(p) + OnCpu(p)

(* On a list and not yet SLEEPING. *)
Parked(p) == pc[p] \in {"queued", "wait"}

(* A process has one ticket, and one more while it is on a list and not    *)
(* asleep yet.                                                             *)
Ticketed ==
    /\ \A p \in Procs : Tickets(p) = One(pst[p] # "NONE") + One(Parked(p))
    /\ \A p \in Procs, m \in Muxes : Count(cv[m], p) > 0 => m = arg[p] /\ pc[p] \in {"wait", "relock"}
    /\ \A p \in Procs : Count(wqueue, p) > 0 => pc[p] \in {"queued", "lock"}
    /\ \A p, q, r \in Procs : WakesIt(q, p) /\ WakesIt(r, p) => q = r
    /\ RunsOnce

(* Who sleeps has no CPU; who is ready has one or is queued for one. *)
Placed ==
    /\ \A p \in Procs : pst[p] = "SLEEPING" => OnCpu(p) = 0 /\ pc[p] \in {"lock", "relock"}
    /\ \A p \in Procs : pst[p] \in {"RUNNABLE", "RUNNING"} => InRunq(p) + OnCpu(p) >= 1
    /\ Idle

Going == stopped \/ (Ticketed /\ Placed)

(* The tickets in the next state. *)
LEMMA NextTickets ==
    ASSUME NEW p
    PROVE  /\ OnQueue(p)' = Count(wqueue', p) /\ InRunq(p)' = Count(runq', p)
           /\ OnCv(p)' = IF arg'[p] \in Muxes THEN Count(cv'[arg'[p]], p) ELSE 0
           /\ Waker(p)' = IF \E q \in Procs : pc'[q] = "wake" /\ sleepy'[q] = p THEN 1 ELSE 0
           /\ OnCpu(p)' = IF \E c \in CPUs : cpu'[c] = p THEN 1 ELSE 0
           /\ Tickets(p)' = OnQueue(p)' + OnCv(p)' + Waker(p)' + InRunq(p)' + OnCpu(p)'
           /\ (Parked(p)' <=> pc'[p] \in {"queued", "wait"})
           /\ \A m : Count(cv[m], p)' = Count(cv'[m], p)
BY DEF OnQueue, InRunq, OnCv, Waker, WakesIt, OnCpu, Tickets, Parked, Count

(* Tickets are numbers. *)
LEMMA TicketTypes ==
    ASSUME TypeOK, NEW p \in Procs
    PROVE  /\ OnQueue(p) \in Nat /\ OnCv(p) \in Nat /\ Waker(p) \in {0, 1} /\ InRunq(p) \in Nat
           /\ OnCpu(p) \in {0, 1}
           /\ \A m \in Muxes : Count(cv[m], p) \in Nat
           /\ Waker(p) = 0 <=> \A q \in Procs : ~WakesIt(q, p)
BY CountIsNat DEF TypeOK, OnQueue, OnCv, Waker, InRunq, OnCpu

(* Who runs has a CPU and, unless it is parked, no other ticket. *)
LEMMA Actor ==
    ASSUME TypeOK, Ticketed, Placed, NEW c \in CPUs, NEW p \in Procs, cpu[c] = p
    PROVE  /\ OnCpu(p) = 1 /\ pst[p] \in {"RUNNABLE", "RUNNING"}
           /\ \A d \in CPUs : cpu[d] = p => d = c
           /\ ~Parked(p) => /\ OnQueue(p) = 0 /\ OnCv(p) = 0 /\ Waker(p) = 0 /\ InRunq(p) = 0
                            /\ \A m \in Muxes : Count(cv[m], p) = 0
                            /\ \A q \in Procs : ~WakesIt(q, p)
<1>1. OnCpu(p) = 1
  BY DEF OnCpu
<1>2. pst[p] # "NONE"
  <2> SUFFICES ASSUME pst[p] = "NONE" PROVE FALSE
    OBVIOUS
  <2>1. ~Parked(p)
    BY DEF Placed, Idle, Parked
  <2>2. Tickets(p) = 0
    BY <2>1 DEF Ticketed, One
  <2> QED BY <1>1, <2>2, TicketTypes DEF Tickets
<1>3. pst[p] # "SLEEPING"
  BY <1>1 DEF Placed
<1>4. pst[p] \in {"RUNNABLE", "RUNNING"}
  BY <1>2, <1>3 DEF TypeOK
<1>5. ASSUME ~Parked(p)
      PROVE  /\ OnQueue(p) = 0 /\ OnCv(p) = 0 /\ Waker(p) = 0 /\ InRunq(p) = 0
             /\ \A m \in Muxes : Count(cv[m], p) = 0
             /\ \A q \in Procs : ~WakesIt(q, p)
  <2>1. Tickets(p) = 1
    BY <1>2, <1>5 DEF Ticketed, One
  <2>2. OnQueue(p) = 0 /\ OnCv(p) = 0 /\ Waker(p) = 0 /\ InRunq(p) = 0
    BY <1>1, <2>1, TicketTypes DEF Tickets
  <2>3. \A m \in Muxes : Count(cv[m], p) = 0
    BY <2>2, TicketTypes DEF Ticketed, OnCv
  <2> QED BY <2>2, <2>3, TicketTypes
<1>6. \A d \in CPUs : cpu[d] = p => d = c
  BY MutexAssumption DEF Ticketed, RunsOnce
<1> QED BY <1>1, <1>4, <1>5, <1>6

(* Who is on a list has no waker. *)
LEMMA OnList ==
    ASSUME TypeOK, Ticketed, Placed, NEW h \in Procs, OnQueue(h) + OnCv(h) >= 1
    PROVE  Waker(h) = 0 /\ OnQueue(h) + OnCv(h) = 1 /\ pst[h] # "NONE"
<1>1. pst[h] # "NONE"
  <2> SUFFICES ASSUME pst[h] = "NONE" PROVE FALSE
    OBVIOUS
  <2>1. ~Parked(h)
    BY DEF Placed, Idle, Parked
  <2>2. Tickets(h) = 0
    BY <2>1 DEF Ticketed, One
  <2> QED BY <2>2, TicketTypes DEF Tickets
<1>2. CASE Parked(h)
  <2>1. pst[h] \in {"RUNNABLE", "RUNNING"}
    BY <1>1, <1>2 DEF Placed, Parked, TypeOK
  <2>2. Tickets(h) = 2 /\ InRunq(h) + OnCpu(h) >= 1
    BY <1>1, <1>2, <2>1 DEF Ticketed, Placed, One
  <2> QED BY <1>1, <2>2, TicketTypes DEF Tickets
<1>3. CASE ~Parked(h)
  <2>1. Tickets(h) = 1
    BY <1>1, <1>3 DEF Ticketed, One
  <2> QED BY <1>1, <2>1, TicketTypes DEF Tickets
<1> QED BY <1>2, <1>3

(* How the tickets of a state are shown to be right. *)
LEMMA GoingNext ==
    ASSUME \A q \in Procs : OnQueue(q)' + OnCv(q)' + Waker(q)' + InRunq(q)' + OnCpu(q)'
                              = One(pst'[q] # "NONE") + One(pc'[q] \in {"queued", "wait"}),
           \A q \in Procs, m \in Muxes : Count(cv'[m], q) > 0 => m = arg'[q] /\ pc'[q] \in {"wait", "relock"},
           \A q \in Procs : Count(wqueue', q) > 0 => pc'[q] \in {"queued", "lock"},
           \A q, r, t \in Procs : pc'[r] = "wake" /\ sleepy'[r] = q /\ pc'[t] = "wake" /\ sleepy'[t] = q => r = t,
           RunsOnce',
           \A q \in Procs : pst'[q] = "SLEEPING" => OnCpu(q)' = 0 /\ pc'[q] \in {"lock", "relock"},
           \A q \in Procs : pst'[q] \in {"RUNNABLE", "RUNNING"} => InRunq(q)' + OnCpu(q)' >= 1,
           Idle'
    PROVE  Going'
<1>1. \A q \in Procs : One(Parked(q))' = One(pc'[q] \in {"queued", "wait"})
  BY NextTickets DEF One, Parked
<1>2. \A q \in Procs : One(pst[q] # "NONE")' = One(pst'[q] # "NONE")
  BY DEF One
<1>3. Ticketed'
  BY <1>1, <1>2, NextTickets DEF Ticketed, WakesIt
<1>4. Placed'
  BY NextTickets DEF Placed
<1> QED BY <1>3, <1>4 DEF Going

(* What a step of p leaves to the others. *)
OthersKept(p) ==
    \A q \in Procs \ {p} : pc'[q] = pc[q] /\ sleepy'[q] = sleepy[q] /\ arg'[q] = arg[q] /\ holds'[q] = holds[q]

Listing == {"queued", "wait", "wake"}

(* A call of the running process that touches no list. *)
LEMMA KeepsGoing ==
    ASSUME TypeOK, Ticketed, Placed, NEW c \in CPUs, NEW p \in Procs, cpu[c] = p,
           pc[p] \notin Listing, pc'[p] \notin Listing,
           UNCHANGED <<wqueue, cv, runq, pst, cpu>>, OthersKept(p)
    PROVE  Going'
<1> USE DEF Listing
<1>0. /\ OnQueue(p) = 0 /\ OnCv(p) = 0 /\ Waker(p) = 0 /\ InRunq(p) = 0 /\ pst[p] # "NONE" /\ pst[p] # "SLEEPING"
      /\ \A m \in Muxes : Count(cv[m], p) = 0
  BY Actor DEF Parked
<1>1. \A q \in Procs : OnQueue(q)' = OnQueue(q) /\ InRunq(q)' = InRunq(q) /\ OnCpu(q)' = OnCpu(q)
  BY NextTickets DEF OnQueue, InRunq, OnCpu
<1>2. \A q \in Procs : OnCv(q)' = OnCv(q)
  <2>1. OnCv(p)' = 0
    BY <1>0, NextTickets DEF OnCv
  <2>2. \A q \in Procs \ {p} : OnCv(q)' = OnCv(q)
    BY NextTickets DEF OnCv, OthersKept
  <2> QED BY <1>0, <2>1, <2>2
<1>3. \A q, r \in Procs : WakesIt(r, q) <=> pc'[r] = "wake" /\ sleepy'[r] = q
  BY DEF WakesIt, OthersKept
<1>4. \A q \in Procs : Waker(q)' = Waker(q)
  BY <1>3, NextTickets DEF Waker
<1>5. \A q \in Procs : One(pc'[q] \in {"queued", "wait"}) = One(Parked(q))
  BY DEF Parked, One, OthersKept
<1>6. \A q \in Procs : OnQueue(q)' + OnCv(q)' + Waker(q)' + InRunq(q)' + OnCpu(q)'
                         = One(pst'[q] # "NONE") + One(pc'[q] \in {"queued", "wait"})
  BY <1>1, <1>2, <1>4, <1>5 DEF Ticketed, Tickets
<1>7. \A q \in Procs, m \in Muxes : Count(cv'[m], q) > 0 => m = arg'[q] /\ pc'[q] \in {"wait", "relock"}
  <2>1. \A m \in Muxes : ~(Count(cv[m], p) > 0)
    BY <1>0
  <2> QED BY <2>1 DEF Ticketed, OthersKept
<1>8. \A q \in Procs : Count(wqueue', q) > 0 => pc'[q] \in {"queued", "lock"}
  <2>1. ~(Count(wqueue, p) > 0)
    BY <1>0 DEF OnQueue
  <2> QED BY <2>1 DEF Ticketed, OthersKept
<1>9. \A q, r, t \in Procs : pc'[r] = "wake" /\ sleepy'[r] = q /\ pc'[t] = "wake" /\ sleepy'[t] = q => r = t
  BY <1>3 DEF Ticketed
<1>10. RunsOnce'
  BY DEF Ticketed, RunsOnce
<1>11. \A q \in Procs : pst'[q] = "SLEEPING" => OnCpu(q)' = 0 /\ pc'[q] \in {"lock", "relock"}
  BY <1>0, <1>1 DEF Placed, OthersKept
<1>12. \A q \in Procs : pst'[q] \in {"RUNNABLE", "RUNNING"} => InRunq(q)' + OnCpu(q)' >= 1
  BY <1>1 DEF Placed
<1>13. Idle'
  BY <1>0 DEF Placed, Idle, OthersKept
<1> QED BY <1>6, <1>7, <1>8, <1>9, <1>10, <1>11, <1>12, <1>13, GoingNext

(* p goes to sleep: it gives up its CPU, and is parked no longer. *)
LEMMA SleepGoing ==
    ASSUME TypeOK, Ticketed, Placed, NEW c \in CPUs, NEW p \in Procs, NEW l \in {"lock", "relock"}, cpu[c] = p,
           <<pc[p], l>> \in {<<"queued", "lock">>, <<"wait", "relock">>},
           pst' = [pst EXCEPT ![p] = "SLEEPING"], cpu' = [cpu EXCEPT ![c] = Nobody],
           pc' = [pc EXCEPT ![p] = l], UNCHANGED <<wqueue, cv, runq, arg, sleepy>>, OthersKept(p)
    PROVE  Going'
<1>0. OnCpu(p) = 1 /\ pst[p] # "NONE" /\ Parked(p) /\ \A d \in CPUs : cpu[d] = p => d = c
  BY Actor DEF Parked
<1>a. /\ pst'[p] = "SLEEPING" /\ pc'[p] = l /\ cpu'[c] = Nobody
      /\ \A q \in Procs \ {p} : pst'[q] = pst[q] /\ pc'[q] = pc[q]
      /\ \A d \in CPUs \ {c} : cpu'[d] = cpu[d]
  BY DEF TypeOK
<1>1. \A q \in Procs : OnQueue(q)' = OnQueue(q) /\ InRunq(q)' = InRunq(q) /\ OnCv(q)' = OnCv(q)
  BY NextTickets DEF OnQueue, InRunq, OnCv
<1>2. OnCpu(p)' = 0
  <2>1. \A d \in CPUs : cpu'[d] # p
    BY <1>0, <1>a, MutexAssumption
  <2> QED BY <2>1, NextTickets
<1>3. \A q \in Procs \ {p} : OnCpu(q)' = OnCpu(q)
  <2> SUFFICES ASSUME NEW q \in Procs \ {p} PROVE OnCpu(q)' = OnCpu(q)
    OBVIOUS
  <2>1. (\E d \in CPUs : cpu'[d] = q) <=> (\E d \in CPUs : cpu[d] = q)
    BY <1>a, MutexAssumption
  <2> QED BY <2>1, NextTickets DEF OnCpu
<1>4. \A q, r \in Procs : WakesIt(r, q) <=> pc'[r] = "wake" /\ sleepy'[r] = q
  BY <1>a DEF WakesIt
<1>5. \A q \in Procs : Waker(q)' = Waker(q)
  BY <1>4, NextTickets DEF Waker
<1>6. \A q \in Procs : OnQueue(q)' + OnCv(q)' + Waker(q)' + InRunq(q)' + OnCpu(q)'
                         = One(pst'[q] # "NONE") + One(pc'[q] \in {"queued", "wait"})
  <2>1. Tickets(p) = 2
    BY <1>0 DEF Ticketed, One
  <2>2. One(pst'[p] # "NONE") = 1 /\ One(pc'[p] \in {"queued", "wait"}) = 0
    BY <1>a DEF One
  <2>3. OnQueue(p)' + OnCv(p)' + Waker(p)' + InRunq(p)' + OnCpu(p)' = 1
    BY <1>0, <1>1, <1>2, <1>5, <2>1, TicketTypes DEF Tickets
  <2>4. \A q \in Procs \ {p} : One(pc'[q] \in {"queued", "wait"}) = One(Parked(q))
    BY <1>a DEF Parked, One
  <2>5. \A q \in Procs \ {p} : OnQueue(q)' + OnCv(q)' + Waker(q)' + InRunq(q)' + OnCpu(q)'
                                = One(pst'[q] # "NONE") + One(pc'[q] \in {"queued", "wait"})
    BY <1>a, <1>1, <1>3, <1>5, <2>4 DEF Ticketed, Tickets
  <2> QED BY <2>2, <2>3, <2>5
<1>7. \A q \in Procs, m \in Muxes : Count(cv'[m], q) > 0 => m = arg'[q] /\ pc'[q] \in {"wait", "relock"}
  <2>1. \A m \in Muxes : Count(cv[m], p) > 0 => m = arg[p] /\ pc[p] \in {"wait", "relock"}
    BY DEF Ticketed
  <2>2. pc[p] \in {"wait", "relock"} => pc'[p] \in {"wait", "relock"}
    BY <1>a
  <2> QED BY <1>a, <2>1, <2>2 DEF Ticketed
<1>8. \A q \in Procs : Count(wqueue', q) > 0 => pc'[q] \in {"queued", "lock"}
  <2>1. pc[p] \in {"queued", "lock"} => pc'[p] \in {"queued", "lock"}
    BY <1>a
  <2> QED BY <1>a, <2>1 DEF Ticketed
<1>9. \A q, r, t \in Procs : pc'[r] = "wake" /\ sleepy'[r] = q /\ pc'[t] = "wake" /\ sleepy'[t] = q => r = t
  BY <1>4 DEF Ticketed
<1>10. RunsOnce'
  BY <1>a DEF Ticketed, RunsOnce
<1>11. \A q \in Procs : pst'[q] = "SLEEPING" => OnCpu(q)' = 0 /\ pc'[q] \in {"lock", "relock"}
  BY <1>a, <1>2, <1>3 DEF Placed
<1>12. \A q \in Procs : pst'[q] \in {"RUNNABLE", "RUNNING"} => InRunq(q)' + OnCpu(q)' >= 1
  BY <1>a, <1>1, <1>3 DEF Placed
<1>13. Idle'
  BY <1>a DEF Placed, Idle, OthersKept
<1> QED BY <1>6, <1>7, <1>8, <1>9, <1>10, <1>11, <1>12, <1>13, GoingNext

(* The lists, and who wakes whom, are as before. *)
ListsKept ==
    /\ UNCHANGED <<wqueue, cv, arg>>
    /\ \A q \in Procs : (pc'[q] = pc[q] /\ sleepy'[q] = sleepy[q]) \/ (pc[q] = "user" /\ pc'[q] = "fork")

(* Only the places in the run queue and on the CPUs, and the states of     *)
(* processes, change.                                                      *)
LEMMA ScheduleGoing ==
    ASSUME TypeOK, Ticketed, Placed, ListsKept, RunsOnce',
           \A q \in Procs : InRunq(q)' + OnCpu(q)' + One(pst[q] # "NONE")
                              = InRunq(q) + OnCpu(q) + One(pst'[q] # "NONE"),
           \A q \in Procs : InRunq(q)' \in Nat /\ OnCpu(q)' \in Nat,
           \A q \in Procs : pst'[q] = "SLEEPING" => pst[q] = "SLEEPING" /\ OnCpu(q)' = 0,
           \A q \in Procs : pst'[q] \in {"RUNNABLE", "RUNNING"} => InRunq(q)' + OnCpu(q)' >= 1,
           \A q \in Procs : pst'[q] = "NONE" => pc'[q] = "user" /\ holds'[q] = {}
    PROVE  Going'
<1>1. \A q \in Procs : OnQueue(q)' = OnQueue(q) /\ OnCv(q)' = OnCv(q)
  BY NextTickets DEF OnQueue, OnCv, ListsKept
<1>2. \A q \in Procs : Waker(q)' = Waker(q)
  BY NextTickets DEF Waker, WakesIt, ListsKept
<1>3. \A q \in Procs : One(pc'[q] \in {"queued", "wait"}) = One(Parked(q))
  BY DEF Parked, One, ListsKept
<1>4. \A q \in Procs : OnQueue(q)' + OnCv(q)' + Waker(q)' + InRunq(q)' + OnCpu(q)'
                         = One(pst'[q] # "NONE") + One(pc'[q] \in {"queued", "wait"})
  <2> SUFFICES ASSUME NEW q \in Procs
               PROVE  OnQueue(q)' + OnCv(q)' + Waker(q)' + InRunq(q)' + OnCpu(q)'
                         = One(pst'[q] # "NONE") + One(pc'[q] \in {"queued", "wait"})
    OBVIOUS
  <2>1. OnQueue(q) + OnCv(q) + Waker(q) + InRunq(q) + OnCpu(q) = One(pst[q] # "NONE") + One(Parked(q))
    BY DEF Ticketed, Tickets
  <2>2. One(pst'[q] # "NONE") \in {0, 1} /\ One(pst[q] # "NONE") \in {0, 1} /\ One(Parked(q)) \in {0, 1}
    BY DEF One
  <2> QED BY <1>1, <1>2, <1>3, <2>1, <2>2, TicketTypes
<1>5. \A q \in Procs, m \in Muxes : Count(cv'[m], q) > 0 => m = arg'[q] /\ pc'[q] \in {"wait", "relock"}
  BY DEF Ticketed, ListsKept
<1>6. \A q \in Procs : Count(wqueue', q) > 0 => pc'[q] \in {"queued", "lock"}
  BY DEF Ticketed, ListsKept
<1>7. \A q, r, t \in Procs : pc'[r] = "wake" /\ sleepy'[r] = q /\ pc'[t] = "wake" /\ sleepy'[t] = q => r = t
  BY DEF Ticketed, WakesIt, ListsKept
<1>8. \A q \in Procs : pst'[q] = "SLEEPING" => OnCpu(q)' = 0 /\ pc'[q] \in {"lock", "relock"}
  BY DEF Placed, ListsKept
<1>9. Idle'
  BY DEF Idle, ListsKept
<1> QED BY <1>4, <1>5, <1>6, <1>7, <1>8, <1>9, GoingNext

(* Entering and leaving a CPU, and the run queue. *)
LEMMA LeavesCpu ==
    ASSUME TypeOK, Ticketed, Placed, NEW c \in CPUs, NEW p \in Procs, cpu[c] = p, cpu' = [cpu EXCEPT ![c] = Nobody]
    PROVE  RunsOnce' /\ \A q \in Procs : OnCpu(q)' = OnCpu(q) - One(p = q)
<1>0. OnCpu(p) = 1 /\ \A d \in CPUs : cpu[d] = p => d = c
  BY Actor
<1>1. cpu'[c] = Nobody /\ \A d \in CPUs \ {c} : cpu'[d] = cpu[d]
  BY DEF TypeOK
<1>2. RunsOnce'
  BY <1>1 DEF Ticketed, RunsOnce
<1>3. OnCpu(p)' = 0
  <2>1. \A d \in CPUs : cpu'[d] # p
    BY <1>0, <1>1, MutexAssumption
  <2> QED BY <2>1, NextTickets
<1>4. \A q \in Procs \ {p} : OnCpu(q)' = OnCpu(q)
  <2> SUFFICES ASSUME NEW q \in Procs \ {p} PROVE OnCpu(q)' = OnCpu(q)
    OBVIOUS
  <2>1. (\E d \in CPUs : cpu'[d] = q) <=> (\E d \in CPUs : cpu[d] = q)
    BY <1>1, MutexAssumption
  <2> QED BY <2>1, NextTickets DEF OnCpu
<1>5. One(p = p) = 1 /\ \A q \in Procs \ {p} : One(p = q) = 0
  BY DEF One
<1> QED BY <1>0, <1>2, <1>3, <1>4, <1>5, TicketTypes

(* One more entry in the run queue. *)
LEMMA JoinsRunq ==
    ASSUME TypeOK, NEW h \in Procs, runq' = Append(runq, h)
    PROVE  \A q \in Procs : InRunq(q)' = InRunq(q) + One(h = q)
BY CountAppend, NextTickets DEF InRunq, TypeOK

(* Dispatch dequeues a process: its entry becomes a CPU, or the kernel stops. *)
LEMMA DispatchGoing ==
    ASSUME TypeOK, Going, NEW c \in CPUs, Dispatch(c)
    PROVE  Going'
<1>0. CASE stopped'
  BY <1>0 DEF Going
<1>1. CASE ~stopped'
  <2>0. Ticketed /\ Placed
    BY DEF Going, Dispatch
  <2>1. PICK h \in Procs : h = Head(runq) /\ runq # <<>>
    BY DEF Dispatch, TypeOK
  <2>2. /\ cpu[c] = Nobody /\ runq' = Tail(runq) /\ (\A d \in CPUs : cpu[d] # h)
        /\ cpu' = [cpu EXCEPT ![c] = h] /\ pst' = [pst EXCEPT ![h] = "RUNNING"]
        /\ UNCHANGED <<pc, holds, wqueue, cv, arg, sleepy>>
    BY <1>1, <2>1 DEF Dispatch, MuxVars
  <2>a. ListsKept
    BY <2>2 DEF ListsKept
  <2>3. \A q \in Procs : InRunq(q)' = InRunq(q) - One(h = q)
    BY <2>1, <2>2, CountTail, NextTickets DEF InRunq, TypeOK
  <2>4. InRunq(h) >= 1
    <3>1. h \in Members(runq)
      BY <2>1 DEF TypeOK, Members
    <3> QED BY <3>1, CountIsNat DEF TypeOK, InRunq
  <2>5. /\ cpu'[c] = h /\ \A d \in CPUs \ {c} : cpu'[d] = cpu[d]
        /\ pst'[h] = "RUNNING" /\ \A q \in Procs \ {h} : pst'[q] = pst[q]
    BY <2>2 DEF TypeOK
  <2>6. RunsOnce'
    BY <2>0, <2>2, <2>5 DEF Ticketed, RunsOnce
  <2>7. OnCpu(h) = 0 /\ OnCpu(h)' = 1
    <3>1. \E d \in CPUs : cpu'[d] = h
      BY <2>5
    <3> QED BY <2>2, <3>1, NextTickets DEF OnCpu
  <2>8. \A q \in Procs \ {h} : OnCpu(q)' = OnCpu(q)
    <3> SUFFICES ASSUME NEW q \in Procs \ {h} PROVE OnCpu(q)' = OnCpu(q)
      OBVIOUS
    <3>1. (\E d \in CPUs : cpu'[d] = q) <=> (\E d \in CPUs : cpu[d] = q)
      BY <2>2, <2>5, MutexAssumption
    <3> QED BY <3>1, NextTickets DEF OnCpu
  <2>9. One(h = h) = 1 /\ \A q \in Procs \ {h} : One(h = q) = 0
    BY DEF One
  <2>10. pst[h] # "NONE"
    <3> SUFFICES ASSUME pst[h] = "NONE" PROVE FALSE
      OBVIOUS
    <3>1. ~Parked(h)
      BY <2>0 DEF Placed, Idle, Parked
    <3>2. Tickets(h) = 0
      BY <2>0, <3>1 DEF Ticketed, One
    <3> QED BY <2>4, <3>2, TicketTypes DEF Tickets
  <2>11. \A q \in Procs : One(pst'[q] # "NONE") = One(pst[q] # "NONE") /\ One(pst[q] # "NONE") \in Nat
    BY <2>5, <2>10 DEF One
  <2>12. \A q \in Procs : InRunq(q)' \in Nat /\ OnCpu(q)' \in Nat
    BY <2>3, <2>4, <2>7, <2>8, <2>9, TicketTypes
  <2>13. \A q \in Procs : InRunq(q)' + OnCpu(q)' = InRunq(q) + OnCpu(q)
    BY <2>3, <2>4, <2>7, <2>8, <2>9, TicketTypes
  <2>14. \A q \in Procs : InRunq(q)' + OnCpu(q)' + One(pst[q] # "NONE") = InRunq(q) + OnCpu(q) + One(pst'[q] # "NONE")
    BY <2>11, <2>13
  <2>15. \A q \in Procs : pst'[q] = "SLEEPING" => pst[q] = "SLEEPING" /\ OnCpu(q)' = 0
    BY <2>0, <2>5, <2>8 DEF Placed
  <2>16. \A q \in Procs : pst'[q] \in {"RUNNABLE", "RUNNING"} => InRunq(q)' + OnCpu(q)' >= 1
    <3>1. InRunq(h)' + OnCpu(h)' >= 1
      BY <2>7, <2>12
    <3> QED BY <2>0, <2>5, <2>13, <3>1 DEF Placed
  <2>17. \A q \in Procs : pst'[q] = "NONE" => pc'[q] = "user" /\ holds'[q] = {}
    BY <2>0, <2>2, <2>5 DEF Placed, Idle
  <2> QED BY <2>0, <2>a, <2>6, <2>12, <2>14, <2>15, <2>16, <2>17, ScheduleGoing
<1> QED BY <1>0, <1>1

(* Yield gives the CPU back for an entry. *)
LEMMA YieldGoing ==
    ASSUME TypeOK, Going, NEW c \in CPUs, NEW p \in Procs, Yield(c, p)
    PROVE  Going'
<1>0. Ticketed /\ Placed
  BY DEF Going, Yield
<1>1. /\ cpu[c] = p /\ cpu' = [cpu EXCEPT ![c] = Nobody] /\ pst' = [pst EXCEPT ![p] = "RUNNABLE"]
      /\ runq' = Append(runq, p) /\ UNCHANGED <<pc, holds, wqueue, cv, arg, sleepy>>
  BY DEF Yield, MuxVars
<1>a. ListsKept
  BY <1>1 DEF ListsKept
<1>2. RunsOnce' /\ \A q \in Procs : OnCpu(q)' = OnCpu(q) - One(p = q)
  BY <1>0, <1>1, LeavesCpu
<1>3. \A q \in Procs : InRunq(q)' = InRunq(q) + One(p = q)
  BY <1>1, JoinsRunq
<1>4. OnCpu(p) = 1 /\ pst[p] # "NONE"
  BY <1>0, <1>1, Actor
<1>5. One(p = p) = 1 /\ \A q \in Procs \ {p} : One(p = q) = 0
  BY DEF One
<1>6. pst'[p] = "RUNNABLE" /\ \A q \in Procs \ {p} : pst'[q] = pst[q]
  BY <1>1 DEF TypeOK
<1>7. \A q \in Procs : One(pst'[q] # "NONE") = One(pst[q] # "NONE") /\ One(pst[q] # "NONE") \in Nat
  BY <1>4, <1>6 DEF One
<1>8. \A q \in Procs : InRunq(q)' \in Nat /\ OnCpu(q)' \in Nat
  BY <1>2, <1>3, <1>4, <1>5, TicketTypes
<1>9. \A q \in Procs : InRunq(q)' + OnCpu(q)' = InRunq(q) + OnCpu(q)
  BY <1>2, <1>3, <1>5, TicketTypes
<1>10. \A q \in Procs : InRunq(q)' + OnCpu(q)' + One(pst[q] # "NONE") = InRunq(q) + OnCpu(q) + One(pst'[q] # "NONE")
  BY <1>7, <1>9
<1>11. \A q \in Procs : pst'[q] = "SLEEPING" => pst[q] = "SLEEPING" /\ OnCpu(q)' = 0
  BY <1>0, <1>2, <1>5, <1>6, TicketTypes DEF Placed
<1>12. \A q \in Procs : pst'[q] \in {"RUNNABLE", "RUNNING"} => InRunq(q)' + OnCpu(q)' >= 1
  <2>1. InRunq(p)' + OnCpu(p)' >= 1
    BY <1>4, <1>9, TicketTypes
  <2> QED BY <1>0, <1>6, <1>9, <2>1 DEF Placed
<1>13. \A q \in Procs : pst'[q] = "NONE" => pc'[q] = "user" /\ holds'[q] = {}
  BY <1>0, <1>1, <1>6 DEF Placed, Idle
<1> QED BY <1>0, <1>a, <1>2, <1>8, <1>10, <1>11, <1>12, <1>13, ScheduleGoing

(* Exit ends the one ticket with the process. *)
LEMMA ExitGoing ==
    ASSUME TypeOK, Going, NEW c \in CPUs, NEW p \in Procs, Exit(c, p)
    PROVE  Going'
<1>0. Ticketed /\ Placed
  BY DEF Going, Exit, Exec
<1>1. /\ cpu[c] = p /\ pc[p] = "user" /\ cpu' = [cpu EXCEPT ![c] = Nobody] /\ pst' = [pst EXCEPT ![p] = "NONE"]
      /\ UNCHANGED <<runq, pc, wqueue, cv, arg, sleepy>> /\ holds' = [holds EXCEPT ![p] = {}]
  BY DEF Exit, Exec
<1>a. ListsKept
  BY <1>1 DEF ListsKept
<1>2. RunsOnce' /\ \A q \in Procs : OnCpu(q)' = OnCpu(q) - One(p = q)
  BY <1>0, <1>1, LeavesCpu
<1>3. \A q \in Procs : InRunq(q)' = InRunq(q)
  BY <1>1, NextTickets DEF InRunq
<1>4. OnCpu(p) = 1 /\ pst[p] # "NONE"
  BY <1>0, <1>1, Actor
<1>5. One(p = p) = 1 /\ \A q \in Procs \ {p} : One(p = q) = 0
  BY DEF One
<1>6. /\ pst'[p] = "NONE" /\ holds'[p] = {}
      /\ \A q \in Procs \ {p} : pst'[q] = pst[q] /\ holds'[q] = holds[q]
  BY <1>1 DEF TypeOK
<1>7. /\ One(pst'[p] # "NONE") = 0 /\ One(pst[p] # "NONE") = 1
      /\ \A q \in Procs \ {p} : One(pst'[q] # "NONE") = One(pst[q] # "NONE") /\ One(pst[q] # "NONE") \in Nat
  BY <1>4, <1>6 DEF One
<1>8. \A q \in Procs : InRunq(q)' \in Nat /\ OnCpu(q)' \in Nat
  BY <1>2, <1>3, <1>4, <1>5, TicketTypes
<1>9. \A q \in Procs \ {p} : InRunq(q)' + OnCpu(q)' = InRunq(q) + OnCpu(q)
  BY <1>2, <1>3, <1>5, TicketTypes
<1>10. \A q \in Procs : InRunq(q)' + OnCpu(q)' + One(pst[q] # "NONE") = InRunq(q) + OnCpu(q) + One(pst'[q] # "NONE")
  <2>1. InRunq(p)' + OnCpu(p)' + One(pst[p] # "NONE") = InRunq(p) + OnCpu(p) + One(pst'[p] # "NONE")
    BY <1>2, <1>3, <1>4, <1>5, <1>7, TicketTypes
  <2> QED BY <1>7, <1>9, <2>1
<1>11. \A q \in Procs : pst'[q] = "SLEEPING" => pst[q] = "SLEEPING" /\ OnCpu(q)' = 0
  BY <1>0, <1>2, <1>5, <1>6, TicketTypes DEF Placed
<1>12. \A q \in Procs : pst'[q] \in {"RUNNABLE", "RUNNING"} => InRunq(q)' + OnCpu(q)' >= 1
  BY <1>0, <1>6, <1>9 DEF Placed
<1>13. \A q \in Procs : pst'[q] = "NONE" => pc'[q] = "user" /\ holds'[q] = {}
  BY <1>0, <1>1, <1>6 DEF Placed, Idle
<1> QED BY <1>0, <1>a, <1>2, <1>8, <1>10, <1>11, <1>12, <1>13, ScheduleGoing

(* Fork gives the child its first ticket. *)
LEMMA ForkGoing ==
    ASSUME TypeOK, Going, NEW c \in CPUs, NEW p \in Procs, NEW k \in Procs, Fork(c, p, k)
    PROVE  Going'
<1>0. Ticketed /\ Placed
  BY DEF Going, Fork, Exec
<1>1. /\ cpu[c] = p /\ pc[p] = "user" /\ pst[k] = "NONE" /\ pst' = [pst EXCEPT ![k] = "RUNNABLE"]
      /\ runq' = Append(runq, k) /\ UNCHANGED <<cpu, holds, wqueue, cv, arg>> /\ pc' = [pc EXCEPT ![p] = "fork"]
      /\ sleepy' = [sleepy EXCEPT ![p] = k]
  BY DEF Fork, Exec, Goto
<1>a. ListsKept
  BY <1>1 DEF ListsKept, TypeOK
<1>2. \A q \in Procs : OnCpu(q)' = OnCpu(q)
  BY <1>1, NextTickets DEF OnCpu
<1>3. RunsOnce'
  BY <1>0, <1>1 DEF Ticketed, RunsOnce
<1>4. \A q \in Procs : InRunq(q)' = InRunq(q) + One(k = q)
  BY <1>1, JoinsRunq
<1>5. One(k = k) = 1 /\ \A q \in Procs \ {k} : One(k = q) = 0
  BY DEF One
<1>6. pst'[k] = "RUNNABLE" /\ \A q \in Procs \ {k} : pst'[q] = pst[q]
  BY <1>1 DEF TypeOK
<1>7. /\ One(pst'[k] # "NONE") = 1 /\ One(pst[k] # "NONE") = 0
      /\ \A q \in Procs \ {k} : One(pst'[q] # "NONE") = One(pst[q] # "NONE") /\ One(pst[q] # "NONE") \in Nat
  BY <1>1, <1>6 DEF One
<1>8. \A q \in Procs : InRunq(q)' \in Nat /\ OnCpu(q)' \in Nat
  BY <1>2, <1>4, <1>5, TicketTypes
<1>9. \A q \in Procs \ {k} : InRunq(q)' + OnCpu(q)' = InRunq(q) + OnCpu(q)
  BY <1>2, <1>4, <1>5, TicketTypes
<1>10. \A q \in Procs : InRunq(q)' + OnCpu(q)' + One(pst[q] # "NONE") = InRunq(q) + OnCpu(q) + One(pst'[q] # "NONE")
  <2>1. InRunq(k)' + OnCpu(k)' + One(pst[k] # "NONE") = InRunq(k) + OnCpu(k) + One(pst'[k] # "NONE")
    BY <1>2, <1>4, <1>5, <1>7, TicketTypes
  <2> QED BY <1>7, <1>9, <2>1
<1>11. \A q \in Procs : pst'[q] = "SLEEPING" => pst[q] = "SLEEPING" /\ OnCpu(q)' = 0
  BY <1>0, <1>2, <1>6 DEF Placed
<1>12. \A q \in Procs : pst'[q] \in {"RUNNABLE", "RUNNING"} => InRunq(q)' + OnCpu(q)' >= 1
  <2>1. InRunq(k)' + OnCpu(k)' >= 1
    BY <1>2, <1>4, <1>5, TicketTypes
  <2> QED BY <1>0, <1>6, <1>9, <2>1 DEF Placed
<1>13. \A q \in Procs : pst'[q] = "NONE" => pc'[q] = "user" /\ holds'[q] = {}
  <2>1. pst[p] # "NONE"
    BY <1>0, <1>1, Actor
  <2>2. \A q \in Procs \ {p} : pc'[q] = pc[q]
    BY <1>1 DEF TypeOK
  <2>3. \A q \in Procs : pst'[q] = "NONE" => q # p /\ pst[q] = "NONE"
    BY <1>6, <2>1
  <2> QED BY <1>0, <1>1, <2>2, <2>3 DEF Placed, Idle
<1> QED BY <1>0, <1>a, <1>3, <1>8, <1>10, <1>11, <1>12, <1>13, ScheduleGoing

(* p joins a list it is not on. *)
LEMMA ParkGoing ==
    ASSUME TypeOK, Ticketed, Placed, NEW c \in CPUs, NEW p \in Procs, cpu[c] = p, pc[p] \notin Listing,
           pc'[p] \in {"queued", "wait"}, UNCHANGED <<runq, pst, cpu, sleepy>>, OthersKept(p),
           \A q \in Procs \ {p} : OnQueue(q)' = OnQueue(q) /\ OnCv(q)' = OnCv(q),
           OnQueue(p)' + OnCv(p)' = 1 /\ OnQueue(p)' \in Nat /\ OnCv(p)' \in Nat,
           \A q \in Procs, m \in Muxes : Count(cv'[m], q) > 0 => m = arg'[q] /\ pc'[q] \in {"wait", "relock"},
           \A q \in Procs : Count(wqueue', q) > 0 => pc'[q] \in {"queued", "lock"}
    PROVE  Going'
<1> USE DEF Listing
<1>0. /\ OnQueue(p) = 0 /\ OnCv(p) = 0 /\ Waker(p) = 0 /\ InRunq(p) = 0 /\ OnCpu(p) = 1
      /\ pst[p] # "NONE" /\ pst[p] # "SLEEPING" /\ ~Parked(p)
  BY Actor DEF Parked
<1>1. \A q \in Procs : InRunq(q)' = InRunq(q) /\ OnCpu(q)' = OnCpu(q)
  BY NextTickets DEF InRunq, OnCpu
<1>3. \A q, r \in Procs : WakesIt(r, q) <=> pc'[r] = "wake" /\ sleepy'[r] = q
  BY DEF WakesIt, OthersKept
<1>4. \A q \in Procs : Waker(q)' = Waker(q)
  BY <1>3, NextTickets DEF Waker
<1>6. \A q \in Procs : OnQueue(q)' + OnCv(q)' + Waker(q)' + InRunq(q)' + OnCpu(q)'
                         = One(pst'[q] # "NONE") + One(pc'[q] \in {"queued", "wait"})
  <2>1. One(pst'[p] # "NONE") = 1 /\ One(pc'[p] \in {"queued", "wait"}) = 1
    BY <1>0 DEF One
  <2>2. OnQueue(p)' + OnCv(p)' + Waker(p)' + InRunq(p)' + OnCpu(p)' = 2
    BY <1>0, <1>1, <1>4, TicketTypes
  <2>3. \A q \in Procs \ {p} : One(pc'[q] \in {"queued", "wait"}) = One(Parked(q))
    BY DEF Parked, One, OthersKept
  <2>4. \A q \in Procs \ {p} : OnQueue(q)' + OnCv(q)' + Waker(q)' + InRunq(q)' + OnCpu(q)'
                                = One(pst'[q] # "NONE") + One(pc'[q] \in {"queued", "wait"})
    BY <1>1, <1>4, <2>3 DEF Ticketed, Tickets
  <2> QED BY <2>1, <2>2, <2>4
<1>9. \A q, r, t \in Procs : pc'[r] = "wake" /\ sleepy'[r] = q /\ pc'[t] = "wake" /\ sleepy'[t] = q => r = t
  BY <1>3 DEF Ticketed
<1>10. RunsOnce'
  BY DEF Ticketed, RunsOnce
<1>11. \A q \in Procs : pst'[q] = "SLEEPING" => OnCpu(q)' = 0 /\ pc'[q] \in {"lock", "relock"}
  BY <1>0, <1>1 DEF Placed, OthersKept
<1>12. \A q \in Procs : pst'[q] \in {"RUNNABLE", "RUNNING"} => InRunq(q)' + OnCpu(q)' >= 1
  BY <1>1 DEF Placed
<1>13. Idle'
  BY <1>0 DEF Placed, Idle, OthersKept
<1> QED BY <1>6, <1>9, <1>10, <1>11, <1>12, <1>13, GoingNext

(* mlock joins the wait queue, for its second ticket. *)
LEMMA QueueGoing ==
    ASSUME TypeOK, Targets, Going, NEW c \in CPUs, NEW p \in Procs, MLockQueue(c, p)
    PROVE  Going'
<1>0. Ticketed /\ Placed
  BY DEF Going, MLockQueue, Exec
<1>1. /\ cpu[c] = p /\ pc[p] = "lock" /\ pc' = [pc EXCEPT ![p] = "queued"] /\ wqueue' = Queued(wqueue, p)
      /\ UNCHANGED <<runq, pst, cpu, sleepy, cv, arg, holds>>
  BY DEF MLockQueue, Exec, Goto, ProcVars
<1>2. OnQueue(p) = 0 /\ OnCv(p) = 0 /\ \A m \in Muxes : Count(cv[m], p) = 0
  BY <1>0, <1>1, Actor DEF Parked
<1>3. p \notin Members(wqueue)
  BY <1>2, CountIsNat DEF OnQueue, TypeOK
<1>4. wqueue' = Append(wqueue, p)
  BY <1>1, <1>3 DEF Queued
<1>5. \A q \in Procs : OnQueue(q)' = OnQueue(q) + One(p = q)
  BY <1>4, CountAppend, NextTickets DEF OnQueue, TypeOK
<1>6. One(p = p) = 1 /\ \A q \in Procs \ {p} : One(p = q) = 0
  BY DEF One
<1>7. \A q \in Procs : OnCv(q)' = OnCv(q)
  BY <1>1, NextTickets DEF OnCv
<1>8. pc'[p] = "queued" /\ OthersKept(p) /\ \A q \in Procs \ {p} : pc'[q] = pc[q]
  BY <1>1 DEF OthersKept, TypeOK
<1>9. \A q \in Procs \ {p} : OnQueue(q)' = OnQueue(q) /\ OnCv(q)' = OnCv(q)
  BY <1>5, <1>6, <1>7, TicketTypes
<1>10. OnQueue(p)' + OnCv(p)' = 1 /\ OnQueue(p)' \in Nat /\ OnCv(p)' \in Nat
  BY <1>2, <1>5, <1>6, <1>7
<1>11. \A q \in Procs, m \in Muxes : Count(cv'[m], q) > 0 => m = arg'[q] /\ pc'[q] \in {"wait", "relock"}
  <2>1. \A m \in Muxes : ~(Count(cv[m], p) > 0)
    BY <1>2
  <2> QED BY <1>0, <1>1, <1>8, <2>1 DEF Ticketed
<1>12. \A q \in Procs : Count(wqueue', q) > 0 => pc'[q] \in {"queued", "lock"}
  <2>1. \A q \in Procs \ {p} : Count(wqueue', q) = Count(wqueue, q)
    BY <1>9, NextTickets DEF OnQueue
  <2> QED BY <1>0, <1>8, <2>1 DEF Ticketed
<1> QED BY <1>0, <1>1, <1>8, <1>9, <1>10, <1>11, <1>12, ParkGoing DEF Listing

(* waitcv joins the condition variable, for its second ticket. *)
LEMMA WaitCvGoing ==
    ASSUME TypeOK, Targets, Going, NEW c \in CPUs, NEW p \in Procs, NEW m \in Muxes, WaitCv(c, p, m)
    PROVE  Going'
<1>0. Ticketed /\ Placed
  BY DEF Going, WaitCv, Exec
<1>1. /\ cpu[c] = p /\ pc[p] = "user" /\ pc' = [pc EXCEPT ![p] = "wait"]
      /\ cv' = [cv EXCEPT ![m] = Queued(cv[m], p)] /\ arg' = [arg EXCEPT ![p] = m]
      /\ UNCHANGED <<runq, pst, cpu, sleepy, wqueue, holds>>
  BY DEF WaitCv, Exec, Goto, ProcVars
<1>2. OnQueue(p) = 0 /\ \A n \in Muxes : Count(cv[n], p) = 0
  BY <1>0, <1>1, Actor DEF Parked
<1>3. p \notin Members(cv[m]) /\ cv[m] \in Seq(Procs)
  BY <1>2, CountIsNat DEF TypeOK
<1>4. cv'[m] = Append(cv[m], p) /\ \A n \in Muxes \ {m} : cv'[n] = cv[n]
  BY <1>1, <1>3 DEF Queued, TypeOK
<1>5. /\ Count(cv'[m], p) = 1
      /\ \A n \in Muxes \ {m} : Count(cv'[n], p) = 0
      /\ \A q \in Procs \ {p}, n \in Muxes : Count(cv'[n], q) = Count(cv[n], q)
  <2>1. \A q \in Procs : Count(cv'[m], q) = Count(cv[m], q) + One(p = q)
    BY <1>3, <1>4, CountAppend
  <2>2. One(p = p) = 1 /\ \A q \in Procs \ {p} : One(p = q) = 0
    BY DEF One
  <2>3. Count(cv'[m], p) = 1
    BY <1>2, <2>1, <2>2
  <2>4. \A n \in Muxes \ {m} : Count(cv'[n], p) = 0
    BY <1>2, <1>4
  <2>5. \A q \in Procs \ {p} : Count(cv'[m], q) = Count(cv[m], q)
    BY <2>1, <2>2, TicketTypes
  <2> QED BY <1>4, <2>3, <2>4, <2>5
<1>6. /\ pc'[p] = "wait" /\ arg'[p] = m /\ OthersKept(p)
      /\ \A q \in Procs \ {p} : pc'[q] = pc[q] /\ arg'[q] = arg[q]
  BY <1>1 DEF OthersKept, TypeOK
<1>7. OnQueue(p)' = 0 /\ OnCv(p)' = 1
  BY <1>1, <1>2, <1>5, <1>6, NextTickets DEF OnQueue
<1>8. \A q \in Procs \ {p} : OnQueue(q)' = OnQueue(q) /\ OnCv(q)' = OnCv(q)
  BY <1>1, <1>5, <1>6, NextTickets DEF OnQueue, OnCv
<1>9. \A q \in Procs, n \in Muxes : Count(cv'[n], q) > 0 => n = arg'[q] /\ pc'[q] \in {"wait", "relock"}
  <2>1. \A n \in Muxes : Count(cv'[n], p) > 0 => n = arg'[p]
    BY <1>5, <1>6
  <2> QED BY <1>0, <1>5, <1>6, <2>1 DEF Ticketed
<1>10. \A q \in Procs : Count(wqueue', q) > 0 => pc'[q] \in {"queued", "lock"}
  <2>1. ~(Count(wqueue, p) > 0)
    BY <1>2 DEF OnQueue
  <2> QED BY <1>0, <1>1, <1>6, <2>1 DEF Ticketed
<1>11. OnQueue(p)' + OnCv(p)' = 1 /\ OnQueue(p)' \in Nat /\ OnCv(p)' \in Nat
  BY <1>7
<1> QED BY <1>0, <1>1, <1>6, <1>8, <1>9, <1>10, <1>11, ParkGoing DEF Listing

(* p takes h off the list it is on, and is about to wake it. *)
LEMMA PopGoing ==
    ASSUME TypeOK, Ticketed, Placed, NEW c \in CPUs, NEW p \in Procs, cpu[c] = p, pc[p] \notin Listing,
           NEW h \in Procs, OnQueue(h) + OnCv(h) >= 1,
           pc' = [pc EXCEPT ![p] = "wake"], sleepy' = [sleepy EXCEPT ![p] = h],
           UNCHANGED <<runq, pst, cpu, arg, holds>>,
           \A q \in Procs : OnQueue(q)' + OnCv(q)' = OnQueue(q) + OnCv(q) - One(h = q),
           \A q \in Procs : OnQueue(q)' \in Nat /\ OnCv(q)' \in Nat,
           \A q \in Procs, m \in Muxes : Count(cv'[m], q) > 0 => Count(cv[m], q) > 0,
           \A q \in Procs : Count(wqueue', q) > 0 => Count(wqueue, q) > 0
    PROVE  Going'
<1> USE DEF Listing
<1>0. /\ OnQueue(p) = 0 /\ OnCv(p) = 0 /\ pst[p] # "NONE" /\ pst[p] # "SLEEPING" /\ ~Parked(p)
      /\ \A m \in Muxes : ~(Count(cv[m], p) > 0)
  BY Actor DEF Parked
<1>1. Waker(h) = 0 /\ \A q \in Procs : ~WakesIt(q, h)
  BY OnList, TicketTypes
<1>2. /\ pc'[p] = "wake" /\ sleepy'[p] = h
      /\ \A q \in Procs \ {p} : pc'[q] = pc[q] /\ sleepy'[q] = sleepy[q]
  BY DEF TypeOK
<1>3. \A q, r \in Procs : pc'[r] = "wake" /\ sleepy'[r] = q <=> WakesIt(r, q) \/ (r = p /\ q = h)
  BY <1>2 DEF WakesIt
<1>4. \A q \in Procs : Waker(q)' = Waker(q) + One(h = q)
  <2>1. Waker(h)' = 1
    BY <1>3, NextTickets
  <2>2. \A q \in Procs \ {h} : Waker(q)' = Waker(q)
    BY <1>3, NextTickets DEF Waker
  <2>3. One(h = h) = 1 /\ \A q \in Procs \ {h} : One(h = q) = 0
    BY DEF One
  <2> QED BY <1>1, <2>1, <2>2, <2>3, TicketTypes
<1>5. \A q \in Procs : InRunq(q)' = InRunq(q) /\ OnCpu(q)' = OnCpu(q)
  BY NextTickets DEF InRunq, OnCpu
<1>6. \A q \in Procs : OnQueue(q)' + OnCv(q)' + Waker(q)' + InRunq(q)' + OnCpu(q)'
                         = One(pst'[q] # "NONE") + One(pc'[q] \in {"queued", "wait"})
  <2> SUFFICES ASSUME NEW q \in Procs
               PROVE  OnQueue(q)' + OnCv(q)' + Waker(q)' + InRunq(q)' + OnCpu(q)'
                         = One(pst'[q] # "NONE") + One(pc'[q] \in {"queued", "wait"})
    OBVIOUS
  <2>1. One(pc'[q] \in {"queued", "wait"}) = One(Parked(q))
    BY <1>0, <1>2 DEF Parked, One
  <2>2. OnQueue(q) + OnCv(q) + Waker(q) + InRunq(q) + OnCpu(q) = One(pst[q] # "NONE") + One(Parked(q))
    BY DEF Ticketed, Tickets
  <2>3. OnQueue(q)' + OnCv(q)' = OnQueue(q) + OnCv(q) - One(h = q) /\ One(h = q) \in {0, 1}
    BY DEF One
  <2> QED BY <1>4, <1>5, <2>1, <2>2, <2>3, TicketTypes
<1>7. \A q \in Procs, m \in Muxes : Count(cv'[m], q) > 0 => m = arg'[q] /\ pc'[q] \in {"wait", "relock"}
  BY <1>0, <1>2 DEF Ticketed
<1>8. \A q \in Procs : Count(wqueue', q) > 0 => pc'[q] \in {"queued", "lock"}
  <2>1. ~(Count(wqueue, p) > 0)
    BY <1>0 DEF OnQueue
  <2> QED BY <1>2, <2>1 DEF Ticketed
<1>9. \A q, r, t \in Procs : pc'[r] = "wake" /\ sleepy'[r] = q /\ pc'[t] = "wake" /\ sleepy'[t] = q => r = t
  BY <1>1, <1>3 DEF Ticketed
<1>10. RunsOnce'
  BY DEF Ticketed, RunsOnce
<1>11. \A q \in Procs : pst'[q] = "SLEEPING" => OnCpu(q)' = 0 /\ pc'[q] \in {"lock", "relock"}
  BY <1>0, <1>2, <1>5 DEF Placed
<1>12. \A q \in Procs : pst'[q] \in {"RUNNABLE", "RUNNING"} => InRunq(q)' + OnCpu(q)' >= 1
  BY <1>5 DEF Placed
<1>13. Idle'
  BY <1>0, <1>2 DEF Placed, Idle
<1> QED BY <1>6, <1>7, <1>8, <1>9, <1>10, <1>11, <1>12, <1>13, GoingNext

(* munlock takes the first of the wait queue. *)
LEMMA UnlockPopGoing ==
    ASSUME TypeOK, Targets, Going, NEW c \in CPUs, NEW p \in Procs, MUnlockPop(c, p), wqueue # <<>>
    PROVE  Going'
<1>0. Ticketed /\ Placed
  BY DEF Going, MUnlockPop, Exec
<1>1. PICK h \in Procs : h = Head(wqueue)
  BY DEF TypeOK
<1>2. /\ cpu[c] = p /\ pc[p] = "pop" /\ pc' = [pc EXCEPT ![p] = "wake"] /\ sleepy' = [sleepy EXCEPT ![p] = h]
      /\ wqueue' = Tail(wqueue) /\ UNCHANGED <<runq, pst, cpu, arg, holds, cv>>
  BY <1>1 DEF MUnlockPop, Exec, Goto, ProcVars, Popped
<1>3. \A q \in Procs : OnQueue(q)' = OnQueue(q) - One(h = q)
  BY <1>1, <1>2, CountTail, NextTickets DEF OnQueue, TypeOK
<1>4. \A q \in Procs : OnCv(q)' = OnCv(q)
  BY <1>2, NextTickets DEF OnCv
<1>5. OnQueue(h) >= 1
  <2>1. h \in Members(wqueue)
    BY <1>1 DEF TypeOK, Members
  <2> QED BY <2>1, CountIsNat DEF TypeOK, OnQueue
<1>6. One(h = h) = 1 /\ \A q \in Procs \ {h} : One(h = q) = 0
  BY DEF One
<1>7. \A q \in Procs : OnQueue(q)' \in Nat /\ OnCv(q)' \in Nat
  BY <1>3, <1>4, <1>5, <1>6, TicketTypes
<1>8. \A q \in Procs : OnQueue(q)' + OnCv(q)' = OnQueue(q) + OnCv(q) - One(h = q)
  BY <1>3, <1>4, <1>6, TicketTypes
<1>9. \A q \in Procs : Count(wqueue', q) > 0 => Count(wqueue, q) > 0
  <2>1. \A q \in Procs : OnQueue(q)' > 0 => OnQueue(q) > 0
    BY <1>3, <1>6, TicketTypes
  <2> QED BY <2>1, NextTickets DEF OnQueue
<1>10. OnQueue(h) + OnCv(h) >= 1
  BY <1>5, TicketTypes
<1>11. \A q \in Procs, m \in Muxes : Count(cv'[m], q) > 0 => Count(cv[m], q) > 0
  BY <1>2
<1> QED BY <1>0, <1>2, <1>7, <1>8, <1>9, <1>10, <1>11, PopGoing DEF Listing

(* signalcv takes the first of the condition variable. *)
LEMMA SignalPopGoing ==
    ASSUME TypeOK, Targets, Going, NEW c \in CPUs, NEW p \in Procs, SignalCvPop(c, p), cv[arg[p]] # <<>>
    PROVE  Going'
<1>0. Ticketed /\ Placed
  BY DEF Going, SignalCvPop, Exec
<1>a. PICK a \in Muxes : a = arg[p]
  BY DEF SignalCvPop, Exec, Targets, Calling
<1>1. PICK h \in Procs : h = Head(cv[a])
  BY <1>a DEF TypeOK
<1>2. /\ cpu[c] = p /\ pc[p] = "signal" /\ pc' = [pc EXCEPT ![p] = "wake"] /\ sleepy' = [sleepy EXCEPT ![p] = h]
      /\ cv' = [cv EXCEPT ![a] = Tail(cv[a])] /\ UNCHANGED <<runq, pst, cpu, arg, holds, wqueue>>
  BY <1>1, <1>a DEF SignalCvPop, Exec, Goto, ProcVars, Popped
<1>3. cv'[a] = Tail(cv[a]) /\ \A m \in Muxes \ {a} : cv'[m] = cv[m]
  BY <1>2 DEF TypeOK
<1>4. \A q \in Procs : Count(cv'[a], q) = Count(cv[a], q) - One(h = q)
  BY <1>1, <1>3, <1>a, CountTail DEF TypeOK
<1>5. Count(cv[a], h) >= 1
  <2>1. h \in Members(cv[a])
    <3>1. cv[a] \in Seq(Procs) /\ cv[a] # <<>>
      BY <1>a DEF TypeOK
    <3>2. 1 \in 1 .. Len(cv[a]) /\ h = cv[a][1]
      BY <1>1, <3>1
    <3> QED BY <3>2 DEF Members
  <2> QED BY <2>1, CountIsNat DEF TypeOK
<1>6. One(h = h) = 1 /\ \A q \in Procs \ {h} : One(h = q) = 0
  BY DEF One
<1>7. arg[h] = a /\ OnCv(h) = Count(cv[a], h)
  <2>1. arg[h] = a
    BY <1>0, <1>5, TicketTypes DEF Ticketed
  <2> QED BY <2>1 DEF OnCv
<1>8. \A q \in Procs : OnQueue(q)' = OnQueue(q)
  BY <1>2, NextTickets DEF OnQueue
<1>9. \A q \in Procs \ {h} : OnCv(q)' = OnCv(q)
  <2>1. \A q \in Procs \ {h} : Count(cv'[a], q) = Count(cv[a], q)
    BY <1>4, <1>6, TicketTypes
  <2>2. \A q \in Procs \ {h}, m \in Muxes : Count(cv'[m], q) = Count(cv[m], q)
    BY <1>3, <2>1
  <2> QED BY <1>2, <2>2, NextTickets DEF OnCv
<1>10. OnCv(h)' = OnCv(h) - 1
  BY <1>2, <1>4, <1>6, <1>7, NextTickets
<1>11. OnCv(h) \in Nat /\ OnCv(h) >= 1
  BY <1>5, <1>7, TicketTypes
<1>12. \A q \in Procs : OnQueue(q)' \in Nat /\ OnCv(q)' \in Nat
  BY <1>8, <1>9, <1>10, <1>11, TicketTypes
<1>13. \A q \in Procs : OnQueue(q)' + OnCv(q)' = OnQueue(q) + OnCv(q) - One(h = q)
  BY <1>6, <1>8, <1>9, <1>10, <1>11, TicketTypes
<1>14. \A q \in Procs, m \in Muxes : Count(cv'[m], q) > 0 => Count(cv[m], q) > 0
  <2>1. \A q \in Procs : Count(cv'[a], q) > 0 => Count(cv[a], q) > 0
    BY <1>4, <1>6, TicketTypes
  <2> QED BY <1>3, <2>1
<1>15. \A q \in Procs : Count(wqueue', q) > 0 => Count(wqueue, q) > 0
  BY <1>2
<1>16. OnQueue(h) + OnCv(h) >= 1
  BY <1>11, TicketTypes
<1> QED BY <1>0, <1>2, <1>12, <1>13, <1>14, <1>15, <1>16, PopGoing DEF Listing

(* The waker hands its ticket over to the run queue, whether the process   *)
(* sleeps or is still on the way to it.                                    *)
LEMMA WakeGoing ==
    ASSUME TypeOK, Targets, Going, NEW c \in CPUs, NEW p \in Procs, WakeSleepy(c, p)
    PROVE  Going'
<1>0. Ticketed /\ Placed
  BY DEF Going, WakeSleepy, Exec
<1>1. PICK h \in Procs : h = sleepy[p]
  BY DEF WakeSleepy, Exec, Targets
<1>2. /\ cpu[c] = p /\ pc[p] = "wake" /\ pc' = [pc EXCEPT ![p] = "user"] /\ sleepy' = [sleepy EXCEPT ![p] = Nobody]
      /\ arg' = [arg EXCEPT ![p] = Nobody] /\ runq' = Append(runq, h) /\ pst' = [pst EXCEPT ![h] = "RUNNABLE"]
      /\ UNCHANGED <<cpu, holds, wqueue, cv>>
  BY <1>1 DEF WakeSleepy, Exec, Goto, Return, WokenQueue, MuxVars
<1>3. /\ OnQueue(p) = 0 /\ OnCv(p) = 0 /\ Waker(p) = 0 /\ pst[p] # "NONE" /\ pst[p] # "SLEEPING" /\ ~Parked(p)
      /\ (\A m \in Muxes : ~(Count(cv[m], p) > 0)) /\ (\A q \in Procs : ~WakesIt(q, p))
  BY <1>0, <1>2, Actor DEF Parked
<1>4. WakesIt(p, h) /\ Waker(h) = 1 /\ h # p
  BY <1>1, <1>2, <1>3 DEF WakesIt, Waker
<1>5. /\ pc'[p] = "user" /\ sleepy'[p] = Nobody /\ arg'[p] = Nobody /\ pst'[h] = "RUNNABLE"
      /\ \A q \in Procs \ {p} : pc'[q] = pc[q] /\ sleepy'[q] = sleepy[q] /\ arg'[q] = arg[q]
      /\ \A q \in Procs \ {h} : pst'[q] = pst[q]
  BY <1>2 DEF TypeOK
<1>6. \A q, r \in Procs : pc'[r] = "wake" /\ sleepy'[r] = q <=> WakesIt(r, q) /\ r # p
  BY <1>5 DEF WakesIt
<1>7. Waker(h)' = 0 /\ \A q \in Procs \ {h} : Waker(q)' = Waker(q)
  <2>1. \A r \in Procs : WakesIt(r, h) => r = p
    BY <1>0, <1>4 DEF Ticketed
  <2>2. Waker(h)' = 0
    BY <1>6, <2>1, NextTickets
  <2>3. \A q \in Procs \ {h}, r \in Procs : WakesIt(r, q) => r # p
    BY <1>1 DEF WakesIt
  <2>4. \A q \in Procs \ {h} : Waker(q)' = Waker(q)
    BY <1>6, <2>3, NextTickets DEF Waker
  <2> QED BY <2>2, <2>4
<1>8. \A q \in Procs : InRunq(q)' = InRunq(q) + One(h = q)
  BY <1>2, JoinsRunq
<1>9. One(h = h) = 1 /\ \A q \in Procs \ {h} : One(h = q) = 0
  BY DEF One
<1>10. \A q \in Procs : OnQueue(q)' = OnQueue(q) /\ OnCpu(q)' = OnCpu(q)
  BY <1>2, NextTickets DEF OnQueue, OnCpu
<1>11. \A q \in Procs : OnCv(q)' = OnCv(q)
  <2>1. OnCv(p)' = 0
    <3>1. \A m \in Muxes : Count(cv'[m], p) = 0
      BY <1>0, <1>2, Actor DEF Parked
    <3> QED BY <3>1, NextTickets
  <2>2. \A q \in Procs \ {p} : OnCv(q)' = OnCv(q)
    BY <1>2, <1>5, NextTickets DEF OnCv
  <2> QED BY <1>3, <2>1, <2>2
<1>12. pst[h] # "NONE"
  <2> SUFFICES ASSUME pst[h] = "NONE" PROVE FALSE
    OBVIOUS
  <2>1. ~Parked(h)
    BY <1>0 DEF Placed, Idle, Parked
  <2>2. Tickets(h) = 0
    BY <1>0, <2>1 DEF Ticketed, One
  <2> QED BY <1>4, <2>2, TicketTypes DEF Tickets
<1>13. \A q \in Procs : Waker(q)' + InRunq(q)' = Waker(q) + InRunq(q)
  BY <1>4, <1>7, <1>8, <1>9, TicketTypes
<1>14. \A q \in Procs : OnQueue(q)' + OnCv(q)' + Waker(q)' + InRunq(q)' + OnCpu(q)'
                         = One(pst'[q] # "NONE") + One(pc'[q] \in {"queued", "wait"})
  <2> SUFFICES ASSUME NEW q \in Procs
               PROVE  OnQueue(q)' + OnCv(q)' + Waker(q)' + InRunq(q)' + OnCpu(q)'
                         = One(pst'[q] # "NONE") + One(pc'[q] \in {"queued", "wait"})
    OBVIOUS
  <2>1. One(pc'[q] \in {"queued", "wait"}) = One(Parked(q))
    BY <1>3, <1>5 DEF Parked, One
  <2>2. OnQueue(q) + OnCv(q) + Waker(q) + InRunq(q) + OnCpu(q) = One(pst[q] # "NONE") + One(Parked(q))
    BY <1>0 DEF Ticketed, Tickets
  <2>3. One(pst'[q] # "NONE") = One(pst[q] # "NONE")
    BY <1>5, <1>12 DEF One
  <2>4. Waker(q)' \in Nat /\ InRunq(q)' \in Nat
    BY <1>7, <1>8, <1>9, TicketTypes
  <2>5. Waker(q)' + InRunq(q)' = Waker(q) + InRunq(q)
    BY <1>13
  <2> QED BY <1>10, <1>11, <2>1, <2>2, <2>3, <2>4, <2>5, TicketTypes
<1>15. \A q \in Procs, m \in Muxes : Count(cv'[m], q) > 0 => m = arg'[q] /\ pc'[q] \in {"wait", "relock"}
  BY <1>0, <1>2, <1>3, <1>5 DEF Ticketed
<1>16. \A q \in Procs : Count(wqueue', q) > 0 => pc'[q] \in {"queued", "lock"}
  <2>1. ~(Count(wqueue, p) > 0)
    BY <1>3 DEF OnQueue
  <2> QED BY <1>0, <1>2, <1>5, <2>1 DEF Ticketed
<1>17. \A q, r, t \in Procs : pc'[r] = "wake" /\ sleepy'[r] = q /\ pc'[t] = "wake" /\ sleepy'[t] = q => r = t
  BY <1>0, <1>6 DEF Ticketed
<1>18. RunsOnce'
  BY <1>0, <1>2 DEF Ticketed, RunsOnce
<1>19. \A q \in Procs : pst'[q] = "SLEEPING" => OnCpu(q)' = 0 /\ pc'[q] \in {"lock", "relock"}
  BY <1>0, <1>3, <1>4, <1>5, <1>10 DEF Placed
<1>20. \A q \in Procs : pst'[q] \in {"RUNNABLE", "RUNNING"} => InRunq(q)' + OnCpu(q)' >= 1
  <2>1. InRunq(h)' + OnCpu(h)' >= 1
    BY <1>8, <1>9, <1>10, TicketTypes
  <2>2. \A q \in Procs \ {h} : InRunq(q)' = InRunq(q) /\ OnCpu(q)' = OnCpu(q)
    BY <1>8, <1>9, <1>10, TicketTypes
  <2> QED BY <1>0, <1>5, <2>1, <2>2 DEF Placed
<1>21. Idle'
  BY <1>0, <1>2, <1>3, <1>5 DEF Placed, Idle
<1> QED BY <1>14, <1>15, <1>16, <1>17, <1>18, <1>19, <1>20, <1>21, GoingNext

(* The first process is queued, and nobody else exists. *)
LEMMA GoingInit == Init => Going
<1> SUFFICES ASSUME Init PROVE Ticketed /\ Placed
  BY DEF Going
<1> USE MutexAssumption DEF Init
<1>1. \A p \in Procs : OnQueue(p) = 0 /\ OnCv(p) = 0
  BY CountEmpty DEF OnQueue, OnCv
<1>2. \A p \in Procs : Waker(p) = 0 /\ ~Parked(p) /\ \A q \in Procs : ~WakesIt(q, p)
  BY DEF Waker, WakesIt, Parked
<1>3. \A p \in Procs : OnCpu(p) = 0
  BY DEF OnCpu
<1>4. \A p \in Procs : InRunq(p) = One(First = p)
  BY CountOne DEF InRunq
<1>5. \A p \in Procs : One(pst[p] # "NONE") = One(First = p) /\ One(Parked(p)) = 0
  BY <1>2 DEF One
<1>6. \A p \in Procs : One(First = p) \in {0, 1} /\ (First = p => One(First = p) = 1)
  BY DEF One
<1>7. \A p \in Procs : Tickets(p) = One(pst[p] # "NONE") + One(Parked(p))
  BY <1>1, <1>2, <1>3, <1>4, <1>5, <1>6 DEF Tickets
<1>8. \A p \in Procs, m \in Muxes : Count(cv[m], p) = 0
  BY CountEmpty
<1>9. \A p \in Procs : Count(wqueue, p) = 0
  BY CountEmpty
<1>10. Ticketed
  BY <1>2, <1>7, <1>8, <1>9 DEF Ticketed, RunsOnce
<1> QED BY <1>3, <1>4, <1>6, <1>10 DEF Placed, Idle

(* Every step keeps the tickets, or stops the kernel. *)
LEMMA GoingStep ==
    ASSUME TypeOK, Targets, Going, [Next]_vars
    PROVE  Going'
<1> USE DEF ProcVars, MuxVars, Exec
<1>1. ASSUME NEW c \in CPUs, Dispatch(c) PROVE Going'
  BY <1>1, DispatchGoing
<1>2. ASSUME NEW c \in CPUs, NEW p \in Procs, Yield(c, p) \/ Exit(c, p) \/ (\E q \in Procs : Fork(c, p, q))
      PROVE Going'
  BY <1>2, YieldGoing, ExitGoing, ForkGoing
<1>3. ASSUME NEW c \in CPUs, NEW p \in Procs, ForkCopy(c, p) PROVE Going'
  <2>1. Ticketed /\ Placed
    BY <1>3 DEF Going, ForkCopy
  <2>2. /\ cpu[c] = p /\ pc[p] = "fork" /\ pc'[p] = "user" /\ OthersKept(p)
        /\ UNCHANGED <<wqueue, cv, runq, pst, cpu>>
    BY <1>3 DEF ForkCopy, Goto, OthersKept, TypeOK
  <2> QED BY <2>1, <2>2, KeepsGoing DEF Listing
<1>4. ASSUME NEW c \in CPUs, NEW p \in Procs, NEW m \in Muxes,
             MCreate(c, p, m) \/ MLock(c, p, m) \/ MUnlock(c, p, m) \/ SignalCv(c, p, m)
      PROVE Going'
  <2>1. Ticketed /\ Placed
    BY <1>4 DEF Going, MCreate, MLock, MUnlock, SignalCv
  <2>2. /\ cpu[c] = p /\ pc[p] = "user" /\ pc'[p] \in {"user", "lock", "unlock", "signal"} /\ OthersKept(p)
        /\ UNCHANGED <<wqueue, cv, runq, pst, cpu>>
    <3>1. CASE MCreate(c, p, m)
      BY <3>1 DEF MCreate, OthersKept, TypeOK
    <3>2. CASE MLock(c, p, m)
      BY <3>2 DEF MLock, Goto, OthersKept, TypeOK
    <3>3. CASE MUnlock(c, p, m)
      BY <3>3 DEF MUnlock, Goto, OthersKept, TypeOK
    <3>4. CASE SignalCv(c, p, m)
      BY <3>4 DEF SignalCv, Goto, OthersKept, TypeOK
    <3> QED BY <1>4, <3>1, <3>2, <3>3, <3>4
  <2> QED BY <2>1, <2>2, KeepsGoing DEF Listing
<1>5. ASSUME NEW c \in CPUs, NEW p \in Procs, NEW m \in Muxes, MDelete(c, p, m) PROVE Going'
  <2>1. Ticketed /\ Placed
    BY <1>5 DEF Going, MDelete
  <2>2. /\ cpu[c] = p /\ pc[p] = "user" /\ UNCHANGED <<wqueue, cv, runq, pst, cpu, sleepy, holds>>
    BY <1>5 DEF MDelete
  <2>3. pc'[p] \in {"user", "delete"} /\ \A q \in Procs \ {p} : pc'[q] = pc[q] /\ arg'[q] = arg[q]
    <3>1. CASE Shared(p, m)
      BY <1>5, <2>2, <3>1 DEF MDelete
    <3>2. CASE ~Shared(p, m)
      <4>1. pc' = [pc EXCEPT ![p] = "delete"] /\ arg' = [arg EXCEPT ![p] = m]
        BY <1>5, <3>2 DEF MDelete, Goto
      <4> QED BY <4>1 DEF TypeOK
    <3> QED BY <3>1, <3>2
  <2>4. OthersKept(p)
    BY <2>2, <2>3 DEF OthersKept
  <2> QED BY <2>1, <2>2, <2>3, <2>4, KeepsGoing DEF Listing
<1>6. ASSUME NEW c \in CPUs, NEW p \in Procs, MDeleteLast(c, p) \/ MLockTake(c, p) \/ MUnlockFree(c, p)
      PROVE Going'
  <2>1. Ticketed /\ Placed
    BY <1>6 DEF Going, MDeleteLast, MLockTake, MUnlockFree
  <2>2. /\ cpu[c] = p /\ pc[p] \in {"delete", "lock", "unlock"} /\ pc'[p] \in {"user", "pop"} /\ OthersKept(p)
        /\ UNCHANGED <<wqueue, cv, runq, pst, cpu>>
    <3>1. CASE MDeleteLast(c, p)
      BY <3>1 DEF MDeleteLast, Goto, Return, OthersKept, TypeOK
    <3>2. CASE MLockTake(c, p)
      BY <3>2 DEF MLockTake, Goto, Return, OthersKept, TypeOK
    <3>3. CASE MUnlockFree(c, p)
      BY <3>3 DEF MUnlockFree, Goto, OthersKept, TypeOK
    <3> QED BY <1>6, <3>1, <3>2, <3>3
  <2> QED BY <2>1, <2>2, KeepsGoing DEF Listing
<1>7. ASSUME NEW c \in CPUs, NEW p \in Procs, MLockQueue(c, p) \/ (\E m \in Muxes : WaitCv(c, p, m)) PROVE Going'
  BY <1>7, QueueGoing, WaitCvGoing
<1>8. ASSUME NEW c \in CPUs, NEW p \in Procs, MLockSleep(c, p) PROVE Going'
  <2>1. Ticketed /\ Placed
    BY <1>8 DEF Going, MLockSleep
  <2>2. /\ cpu[c] = p /\ pc[p] = "queued" /\ pst' = [pst EXCEPT ![p] = "SLEEPING"]
        /\ cpu' = [cpu EXCEPT ![c] = Nobody] /\ pc' = [pc EXCEPT ![p] = "lock"]
        /\ UNCHANGED <<wqueue, cv, runq, arg, sleepy>> /\ OthersKept(p)
    BY <1>8 DEF MLockSleep, Goto, OthersKept, TypeOK
  <2> QED BY <2>1, <2>2, SleepGoing
<1>9. ASSUME NEW c \in CPUs, NEW p \in Procs, WaitCvSleep(c, p) PROVE Going'
  <2>1. Ticketed /\ Placed
    BY <1>9 DEF Going, WaitCvSleep
  <2>2. /\ cpu[c] = p /\ pc[p] = "wait" /\ pst' = [pst EXCEPT ![p] = "SLEEPING"]
        /\ cpu' = [cpu EXCEPT ![c] = Nobody] /\ pc' = [pc EXCEPT ![p] = "relock"]
        /\ UNCHANGED <<wqueue, cv, runq, arg, sleepy>> /\ OthersKept(p)
    BY <1>9 DEF WaitCvSleep, Goto, OthersKept, TypeOK
  <2> QED BY <2>1, <2>2, SleepGoing
<1>10. ASSUME NEW c \in CPUs, NEW p \in Procs, MUnlockPop(c, p) PROVE Going'
  <2>1. CASE wqueue # <<>>
    BY <1>10, <2>1, UnlockPopGoing
  <2>2. CASE wqueue = <<>>
    <3>1. Ticketed /\ Placed
      BY <1>10 DEF Going, MUnlockPop
    <3>2. /\ cpu[c] = p /\ pc[p] = "pop" /\ pc' = [pc EXCEPT ![p] = "user"] /\ arg' = [arg EXCEPT ![p] = Nobody]
          /\ UNCHANGED <<wqueue, cv, runq, pst, cpu, sleepy, holds>>
      BY <1>10, <2>2 DEF MUnlockPop, Goto, Return
    <3>3. OthersKept(p) /\ pc'[p] = "user"
      BY <3>2 DEF OthersKept, TypeOK
    <3> QED BY <3>1, <3>2, <3>3, KeepsGoing DEF Listing
  <2> QED BY <2>1, <2>2
<1>11. ASSUME NEW c \in CPUs, NEW p \in Procs, SignalCvPop(c, p) PROVE Going'
  <2>1. CASE cv[arg[p]] # <<>>
    BY <1>11, <2>1, SignalPopGoing
  <2>2. CASE cv[arg[p]] = <<>>
    <3>1. Ticketed /\ Placed
      BY <1>11 DEF Going, SignalCvPop
    <3>2. /\ cpu[c] = p /\ pc[p] = "signal" /\ pc' = [pc EXCEPT ![p] = "user"] /\ arg' = [arg EXCEPT ![p] = Nobody]
          /\ UNCHANGED <<wqueue, cv, runq, pst, cpu, sleepy, holds>>
      BY <1>11, <2>2 DEF SignalCvPop, Goto, Return
    <3>3. OthersKept(p) /\ pc'[p] = "user"
      BY <3>2 DEF OthersKept, TypeOK
    <3> QED BY <3>1, <3>2, <3>3, KeepsGoing DEF Listing
  <2> QED BY <2>1, <2>2
<1>12. ASSUME NEW c \in CPUs, NEW p \in Procs, Relock(c, p) PROVE Going'
  <2>1. Ticketed /\ Placed
    BY <1>12 DEF Going, Relock
  <2>2. /\ cpu[c] = p /\ pc[p] = "relock" /\ UNCHANGED <<wqueue, cv, runq, pst, cpu, sleepy, holds>>
    BY <1>12 DEF Relock
  <2>3. pc'[p] \in {"user", "lock"} /\ \A q \in Procs \ {p} : pc'[q] = pc[q] /\ arg'[q] = arg[q]
    <3>1. CASE arg[p] \in access[p]
      <4>1. pc' = [pc EXCEPT ![p] = "lock"] /\ UNCHANGED arg
        BY <1>12, <3>1 DEF Relock, Goto
      <4> QED BY <4>1 DEF TypeOK
    <3>2. CASE arg[p] \notin access[p]
      <4>1. pc' = [pc EXCEPT ![p] = "user"] /\ arg' = [arg EXCEPT ![p] = Nobody]
        BY <1>12, <3>2 DEF Relock, Goto, Return
      <4> QED BY <4>1 DEF TypeOK
    <3> QED BY <3>1, <3>2
  <2>4. OthersKept(p)
    BY <2>2, <2>3 DEF OthersKept
  <2> QED BY <2>1, <2>2, <2>3, <2>4, KeepsGoing DEF Listing
<1>13. ASSUME NEW c \in CPUs, NEW p \in Procs, WakeSleepy(c, p) PROVE Going'
  BY <1>13, WakeGoing
<1>14. ASSUME NEW c \in CPUs, NEW p \in Procs, WaitCvStop(c, p) \/ SignalCvStray(c, p) PROVE Going'
  BY <1>14 DEF WaitCvStop, SignalCvStray, Going
<1>15. CASE Halted \/ UNCHANGED vars
  <2>1. UNCHANGED <<pst, runq, cpu, wqueue, cv, pc, arg, sleepy, holds, stopped>>
    BY <1>15 DEF Halted, vars
  <2>2. CASE stopped
    BY <2>1, <2>2 DEF Going
  <2>3. CASE ~stopped
    <3>1. Ticketed /\ Placed
      BY <2>3 DEF Going
    <3>2. \A q \in Procs : InRunq(q)' = InRunq(q) /\ OnCpu(q)' = OnCpu(q)
      BY <2>1, NextTickets DEF InRunq, OnCpu
    <3>3. ListsKept /\ RunsOnce'
      BY <2>1, <3>1 DEF ListsKept, Ticketed, RunsOnce
    <3>4. \A q \in Procs : InRunq(q) \in Nat /\ OnCpu(q) \in Nat
      BY TicketTypes
    <3>5. \A q \in Procs : pst'[q] = pst[q] /\ pc'[q] = pc[q] /\ holds'[q] = holds[q]
      BY <2>1
    <3> QED BY <3>1, <3>2, <3>3, <3>4, <3>5, ScheduleGoing DEF Placed, Idle
  <2> QED BY <2>2, <2>3
<1>16. ASSUME NEW c \in CPUs, NEW p \in Procs,
              \/ Yield(c, p) \/ (\E q \in Procs : Fork(c, p, q)) \/ ForkCopy(c, p) \/ Exit(c, p)
              \/ \E m \in Muxes : \/ MCreate(c, p, m) \/ MDelete(c, p, m) \/ MLock(c, p, m)
                                  \/ MUnlock(c, p, m) \/ WaitCv(c, p, m) \/ SignalCv(c, p, m)
       PROVE Going'
  BY <1>2, <1>3, <1>4, <1>5, <1>7, <1>16
<1>17. ASSUME NEW c \in CPUs, NEW p \in Procs,
              \/ MDeleteLast(c, p) \/ MLockTake(c, p) \/ MLockQueue(c, p) \/ MLockSleep(c, p)
              \/ MUnlockFree(c, p) \/ MUnlockPop(c, p) \/ WakeSleepy(c, p)
              \/ WaitCvSleep(c, p) \/ WaitCvStop(c, p) \/ Relock(c, p)
              \/ SignalCvPop(c, p) \/ SignalCvStray(c, p)
       PROVE Going'
  BY <1>6, <1>7, <1>8, <1>9, <1>10, <1>11, <1>12, <1>13, <1>14, <1>17
<1> QED BY <1>1, <1>15, <1>16, <1>17 DEF Next

(* A sleeper's one ticket is not a CPU: it is a list, a waker or the run   *)
(* queue.                                                                  *)
LEMMA SleepersFound == (TypeOK /\ Ticketed /\ Placed) => SleeperNotForgotten
<1> SUFFICES ASSUME TypeOK, Ticketed, Placed, NEW p \in Procs, pst[p] = "SLEEPING"
             PROVE  \/ Listed(p) \/ InQueue(p) \/ \E q \in Procs : WakesIt(q, p)
  BY DEF SleeperNotForgotten, WakesIt
<1>1. /\ OnQueue(p) \in Nat /\ OnCv(p) \in Nat /\ Waker(p) \in {0, 1} /\ InRunq(p) \in Nat
      /\ (Waker(p) = 0 <=> \A q \in Procs : ~WakesIt(q, p))
  BY TicketTypes
<1>2. One(pst[p] # "NONE") = 1 /\ One(Parked(p)) = 0 /\ OnCpu(p) = 0
  BY DEF One, Placed, Parked
<1>3. OnQueue(p) > 0 \/ OnCv(p) > 0 \/ Waker(p) = 1 \/ InRunq(p) > 0
  BY <1>1, <1>2 DEF Ticketed, Tickets
<1>4. CASE OnQueue(p) > 0
  BY <1>4, CountIsNat DEF OnQueue, Listed, TypeOK
<1>5. CASE OnCv(p) > 0
  <2>1. arg[p] \in Muxes /\ Count(cv[arg[p]], p) > 0
    BY <1>5 DEF OnCv
  <2>2. p \in Members(cv[arg[p]])
    BY <2>1, CountIsNat DEF TypeOK
  <2> QED BY <2>1, <2>2 DEF Listed
<1>6. CASE Waker(p) = 1
  BY <1>1, <1>6
<1>7. CASE InRunq(p) > 0
  BY <1>7, CountIsNat DEF InRunq, InQueue, TypeOK
<1> QED BY <1>3, <1>4, <1>5, <1>6, <1>7

(* Who is not the head stays. *)
LEMMA TailMembers ==
    ASSUME NEW s \in Seq(Procs), s # <<>>, NEW p \in Members(s), p # Head(s)
    PROVE  p \in Members(Tail(s))
<1>1. PICK i \in 1 .. Len(s) : s[i] = p
  BY DEF Members
<1>2. i # 1 /\ i - 1 \in 1 .. Len(Tail(s)) /\ Tail(s)[i - 1] = s[i]
  BY <1>1
<1> QED BY <1>1, <1>2 DEF Members

(* The steps that stop the kernel leave the sleepers where they are. *)
LEMMA StopsKeepSleepers ==
    ASSUME TypeOK, Targets, SleeperNotForgotten, [Next]_vars, stopped'
    PROVE  SleeperNotForgotten'
<1>1. ASSUME NEW c \in CPUs, Dispatch(c) PROVE SleeperNotForgotten'
  <2>1. PICK h \in Procs : h = Head(runq)
    BY <1>1 DEF Dispatch, TypeOK
  <2>2. /\ runq # <<>> /\ runq \in Seq(Procs) /\ runq' = Tail(runq) /\ pst' = [pst EXCEPT ![h] = "RUNNING"]
        /\ UNCHANGED <<wqueue, cv, pc, sleepy>>
    BY <1>1, <2>1 DEF Dispatch, MuxVars, TypeOK
  <2>3. ASSUME NEW p \in Procs, pst'[p] = "SLEEPING"
        PROVE  Listed(p)' \/ InQueue(p)' \/ \E q \in Procs : pc'[q] = "wake" /\ sleepy'[q] = p
    <3>1. p # h /\ pst[p] = "SLEEPING"
      BY <2>2, <2>3 DEF TypeOK
    <3>2. CASE InQueue(p)
      BY <2>1, <2>2, <3>1, <3>2, TailMembers DEF InQueue
    <3>3. CASE Listed(p)
      BY <2>2, <3>3 DEF Listed
    <3> QED BY <2>2, <3>1, <3>2, <3>3 DEF SleeperNotForgotten
  <2> QED BY <2>3 DEF SleeperNotForgotten
<1>2. ASSUME NEW c \in CPUs, NEW p \in Procs,
             \/ Yield(c, p) \/ (\E q \in Procs : Fork(c, p, q)) \/ ForkCopy(c, p) \/ Exit(c, p)
             \/ \E m \in Muxes : \/ MCreate(c, p, m) \/ MDelete(c, p, m) \/ MLock(c, p, m)
                                 \/ MUnlock(c, p, m) \/ WaitCv(c, p, m) \/ SignalCv(c, p, m)
      PROVE FALSE
  BY <1>2 DEF Yield, Fork, ForkCopy, Exit, MCreate, MDelete, MLock, MUnlock, WaitCv, SignalCv, Exec
<1>3. ASSUME NEW c \in CPUs, NEW p \in Procs,
             \/ MDeleteLast(c, p) \/ MLockTake(c, p) \/ MLockQueue(c, p) \/ MLockSleep(c, p)
             \/ MUnlockFree(c, p) \/ MUnlockPop(c, p) \/ WakeSleepy(c, p)
             \/ WaitCvSleep(c, p) \/ Relock(c, p) \/ SignalCvPop(c, p)
      PROVE FALSE
  BY <1>3 DEF MDeleteLast, MLockTake, MLockQueue, MLockSleep, MUnlockFree, MUnlockPop, WakeSleepy, WaitCvSleep,
              Relock, SignalCvPop, Exec
<1>4. ASSUME UNCHANGED <<pst, runq, wqueue, cv, pc, sleepy>> PROVE SleeperNotForgotten'
  BY <1>4 DEF SleeperNotForgotten, Listed, InQueue
<1>5. CASE Halted \/ UNCHANGED vars
  BY <1>4, <1>5 DEF Halted, vars
<1>6. ASSUME NEW c \in CPUs, NEW p \in Procs, WaitCvStop(c, p) \/ SignalCvStray(c, p) PROVE SleeperNotForgotten'
  BY <1>4, <1>6 DEF WaitCvStop, SignalCvStray, ProcVars, MuxVars
<1> QED BY <1>1, <1>2, <1>3, <1>5, <1>6 DEF Next

----------------------------------------------------------------------------
(* The wait queue moves. *)

Moves == (spoiled = {} /\ wqueue # <<>>) => locked # {} \/ Underway

(* Nobody waits at the start. *)
LEMMA MovesInit == Init => Moves
BY DEF Init, Moves

(* A step that leaves the queue and the locked mutexes, and nobody off the *)
(* way back to its mutex.                                                  *)
LEMMA MovesKept ==
    ASSUME TypeOK, Moves, spoiled' = {} => spoiled = {}, UNCHANGED wqueue,
           spoiled' = {} => locked' = locked,
           \A q \in Procs : pc[q] = "pop" => pc'[q] = "pop",
           \A q \in Procs : pc[q] \in {"lock", "queued"} => pc'[q] \in {"lock", "queued"}
    PROVE  Moves'
<1> SUFFICES ASSUME spoiled' = {}, wqueue' # <<>> PROVE locked' # {} \/ Underway'
  BY DEF Moves
<1>1. CASE locked # {}
  BY <1>1
<1>2. CASE Underway
  <2>1. PICK q \in Procs : pc[q] = "pop" \/ (pc[q] \in {"lock", "queued"} /\ q \notin Members(wqueue))
    BY <1>2 DEF Underway
  <2>2. pc'[q] = "pop" \/ (pc'[q] \in {"lock", "queued"} /\ q \notin Members(wqueue'))
    BY <2>1
  <2> QED BY <2>2 DEF Underway
<1> QED BY <1>1, <1>2 DEF Moves

(* With nothing spoiled, a locked mutex has a holder, who has a pointer to *)
(* it, and it has its name.                                                *)
LEMMA Owners ==
    ASSUME Sound, spoiled = {}, locked \subseteq Muxes
    PROVE  \A m \in locked : m \in named /\ \E p \in Procs : m \in holds[p] /\ m \in access[p]
BY DEF Sound, Owned

(* Every step keeps the queue moving. *)
LEMMA MovesStep ==
    ASSUME TypeOK, Targets, Sound, Going, Moves, [Next]_vars
    PROVE  Moves'
<1> USE DEF ProcVars, MuxVars, Exec
<1>1. ASSUME NEW c \in CPUs, NEW p \in Procs, Dispatch(c) \/ Yield(c, p) \/ WaitCvStop(c, p) \/ SignalCvStray(c, p)
      PROVE Moves'
  BY <1>1, MovesKept DEF Dispatch, Yield, WaitCvStop, SignalCvStray
<1>2. ASSUME NEW c \in CPUs, NEW p \in Procs, (\E q \in Procs : Fork(c, p, q)) \/ ForkCopy(c, p) PROVE Moves'
  <2>1. /\ UNCHANGED <<wqueue, locked>> /\ (spoiled' = {} => spoiled = {}) /\ pc[p] \in {"user", "fork"}
        /\ \A q \in Procs \ {p} : pc'[q] = pc[q]
    BY <1>2 DEF Fork, ForkCopy, Goto, TypeOK
  <2> QED BY <2>1, MovesKept
<1>3. ASSUME NEW c \in CPUs, NEW p \in Procs, Exit(c, p) PROVE Moves'
  <2>1. UNCHANGED <<wqueue, pc>> /\ (spoiled' = {} => spoiled = {})
    BY <1>3 DEF Exit
  <2>2. ASSUME spoiled' = {}, NEW m \in locked PROVE m \notin access[p]
    <3>1. PICK h \in Procs : m \in holds[h] /\ m \in access[h]
      BY <2>1, <2>2, Owners DEF TypeOK
    <3>2. \A n \in access[p] : ~(n \in holds[p] \/ Shared(p, n))
      BY <1>3, <2>2 DEF Exit
    <3> QED BY <3>1, <3>2 DEF Shared
  <2>3. spoiled' = {} => locked' = locked
    BY <1>3, <2>2 DEF Exit
  <2> QED BY <2>1, <2>3, MovesKept
<1>4. ASSUME NEW c \in CPUs, NEW p \in Procs, NEW m \in Muxes, MCreate(c, p, m) PROVE Moves'
  <2>1. UNCHANGED <<wqueue, pc, spoiled>> /\ locked' = locked \ {m} /\ m \notin named
    BY <1>4 DEF MCreate
  <2>2. spoiled = {} => m \notin locked
    BY <2>1, Owners DEF TypeOK
  <2>3. spoiled = {} => locked' = locked
    BY <2>1, <2>2
  <2> QED BY <2>1, <2>3, MovesKept
<1>5. ASSUME NEW c \in CPUs, NEW p \in Procs, NEW m \in Muxes,
             MDelete(c, p, m) \/ MLock(c, p, m) \/ MUnlock(c, p, m) \/ WaitCv(c, p, m) \/ SignalCv(c, p, m)
      PROVE Moves'
  <2>1. /\ UNCHANGED <<wqueue, locked>> /\ (spoiled' = {} => spoiled = {}) /\ pc[p] = "user"
        /\ \A q \in Procs \ {p} : pc'[q] = pc[q]
    <3>1. CASE MDelete(c, p, m)
      <4>1. \A q \in Procs \ {p} : pc'[q] = pc[q]
        <5>1. CASE Shared(p, m)
          BY <3>1, <5>1 DEF MDelete
        <5>2. CASE ~Shared(p, m)
          <6>1. pc' = [pc EXCEPT ![p] = "delete"]
            BY <3>1, <5>2 DEF MDelete, Goto
          <6> QED BY <6>1 DEF TypeOK
        <5> QED BY <5>1, <5>2
      <4> QED BY <3>1, <4>1 DEF MDelete
    <3>2. CASE MLock(c, p, m) \/ MUnlock(c, p, m) \/ WaitCv(c, p, m) \/ SignalCv(c, p, m)
      BY <3>2 DEF MLock, MUnlock, WaitCv, SignalCv, Goto, TypeOK
    <3> QED BY <1>5, <3>1, <3>2
  <2> QED BY <2>1, MovesKept
<1>6. ASSUME NEW c \in CPUs, NEW p \in Procs, MDeleteLast(c, p) PROVE Moves'
  <2>1. /\ UNCHANGED <<wqueue, spoiled>> /\ locked' = locked \ Behind(p) /\ pc[p] = "delete"
        /\ \A q \in Procs \ {p} : pc'[q] = pc[q]
    BY <1>6 DEF MDeleteLast, Goto, Return, TypeOK
  <2>2. ASSUME spoiled = {} PROVE arg[p] \notin locked
    <3>1. Owned(arg[p])
      BY <2>1, <2>2 DEF Sound, Targets, Calling
    <3>2. arg[p] \notin holds[p] /\ \A q \in Procs \ {p} : arg[p] \notin access[q]
      BY <2>1, <3>1 DEF Owned
    <3> QED BY <2>2, <3>2, Owners DEF TypeOK
  <2>3. spoiled = {} => locked' = locked
    BY <2>1, <2>2 DEF Behind
  <2> QED BY <2>1, <2>3, MovesKept
<1>7. ASSUME NEW c \in CPUs, NEW p \in Procs, MLockTake(c, p) \/ MLockQueue(c, p) PROVE Moves'
  <2>1. UNCHANGED spoiled /\ pc[p] = "lock"
    BY <1>7 DEF MLockTake, MLockQueue
  <2>2. spoiled = {} => arg[p] \in access[p]
    BY <2>1 DEF Sound, Owned, Using, Targets, Calling
  <2>3. spoiled = {} => locked' # {}
    BY <1>7, <2>2 DEF MLockTake, MLockQueue, Behind, Taken
  <2> QED BY <2>1, <2>3 DEF Moves
<1>8. ASSUME NEW c \in CPUs, NEW p \in Procs, MLockSleep(c, p) \/ WakeSleepy(c, p) \/ Relock(c, p)
      PROVE Moves'
  <2>1. UNCHANGED <<wqueue, locked, spoiled>> /\ \A q \in Procs \ {p} : pc'[q] = pc[q]
    <3>1. CASE MLockSleep(c, p)
      BY <3>1 DEF MLockSleep, Goto, TypeOK
    <3>2. CASE WakeSleepy(c, p)
      BY <3>2 DEF WakeSleepy, Goto, Return, TypeOK
    <3>3. CASE Relock(c, p)
      <4>1. pc' = [pc EXCEPT ![p] = "lock"] \/ pc' = [pc EXCEPT ![p] = "user"]
        BY <3>3 DEF Relock, Goto, Return
      <4> QED BY <3>3, <4>1 DEF Relock, TypeOK
    <3> QED BY <1>8, <3>1, <3>2, <3>3
  <2>2. pc[p] \in {"wake", "relock"} \/ (pc[p] = "queued" /\ pc'[p] = "lock")
    BY <1>8 DEF MLockSleep, WakeSleepy, Relock, Goto, TypeOK
  <2> QED BY <2>1, <2>2, MovesKept
<1>9. ASSUME NEW c \in CPUs, NEW p \in Procs, MUnlockFree(c, p) PROVE Moves'
  BY <1>9 DEF MUnlockFree, Goto, TypeOK, Moves, Underway
<1>10. ASSUME NEW c \in CPUs, NEW p \in Procs, MUnlockPop(c, p) PROVE Moves'
  <2>1. CASE wqueue = <<>>
    BY <1>10, <2>1 DEF MUnlockPop, Moves
  <2>2. CASE wqueue # <<>>
    <3>0. Ticketed /\ Placed
      BY <1>10 DEF Going, MUnlockPop
    <3>1. wqueue \in Seq(Procs)
      BY DEF TypeOK
    <3>2. PICK h \in Procs : h = Head(wqueue)
      BY <2>2, <3>1
    <3>3. pc[p] = "pop" /\ pc' = [pc EXCEPT ![p] = "wake"] /\ wqueue' = Tail(wqueue)
      BY <1>10, <2>2 DEF MUnlockPop, Goto, Popped
    <3>4. Count(wqueue, h) > 0
      <4>1. 1 \in 1 .. Len(wqueue) /\ h = wqueue[1]
        BY <2>2, <3>1, <3>2
      <4>2. h \in Members(wqueue)
        BY <4>1 DEF Members
      <4> QED BY <3>1, <4>2, CountIsNat
    <3>5. pc[h] \in {"queued", "lock"}
      BY <3>0, <3>4 DEF Ticketed
    <3>6. pc'[h] \in {"queued", "lock"}
      BY <3>3, <3>5 DEF TypeOK
    <3>7. Count(wqueue, h) = 1
      <4>1. OnQueue(h) \in Nat /\ OnCv(h) \in Nat /\ OnQueue(h) = Count(wqueue, h)
        BY TicketTypes DEF OnQueue
      <4>2. OnQueue(h) + OnCv(h) >= 1
        BY <3>4, <4>1
      <4>3. OnQueue(h) + OnCv(h) = 1
        BY <3>0, <4>2, OnList
      <4> QED BY <3>4, <4>1, <4>3
    <3>8. Tail(wqueue) \in Seq(Procs) /\ Count(Tail(wqueue), h) = 0
      BY <2>2, <3>1, <3>2, <3>7, CountTail DEF One
    <3>9. h \notin Members(wqueue')
      <4>1. h \notin Members(Tail(wqueue))
        <5>1. (Count(Tail(wqueue), h) > 0) <=> (h \in Members(Tail(wqueue)))
          BY <3>8, CountIsNat
        <5> QED BY <3>8, <5>1
      <4> QED BY <3>3, <4>1
    <3> QED BY <3>6, <3>9 DEF Moves, Underway
  <2> QED BY <2>1, <2>2
<1>11. ASSUME NEW c \in CPUs, NEW p \in Procs, WaitCvSleep(c, p) PROVE Moves'
  BY <1>11 DEF WaitCvSleep, Moves
<1>12. ASSUME NEW c \in CPUs, NEW p \in Procs, SignalCvPop(c, p) PROVE Moves'
  <2>1. pc' = [pc EXCEPT ![p] = "wake"] \/ pc' = [pc EXCEPT ![p] = "user"]
    BY <1>12 DEF SignalCvPop, Goto, Return
  <2>2. UNCHANGED <<wqueue, locked, spoiled>> /\ pc[p] = "signal" /\ \A q \in Procs \ {p} : pc'[q] = pc[q]
    BY <1>12, <2>1 DEF SignalCvPop, TypeOK
  <2> QED BY <2>2, MovesKept
<1>13. CASE Halted \/ UNCHANGED vars
  <2>1. UNCHANGED <<wqueue, locked, spoiled, pc>>
    BY <1>13 DEF Halted, vars
  <2> QED BY <2>1, MovesKept
<1>14. ASSUME NEW c \in CPUs, Dispatch(c) PROVE Moves'
  BY <1>1, <1>14, MutexAssumption
<1> QED BY <1>1, <1>2, <1>3, <1>4, <1>5, <1>6, <1>7, <1>8, <1>9, <1>10, <1>11, <1>12, <1>13, <1>14 DEF Next

----------------------------------------------------------------------------
(* The inductive invariant. *)
MutexInv == TypeOK /\ Targets /\ Sound /\ Going /\ SleeperNotForgotten /\ Moves

(* The invariant holds throughout, for any number of processes, CPUs and   *)
(* mutexes (sysproc.c:92-334, fork and exit of proc.c).                    *)
THEOREM MutexSafe == Spec => []MutexInv
<1>1. Init => MutexInv
  <2>1. Init => SleeperNotForgotten
    BY DEF Init, SleeperNotForgotten
  <2> QED BY <2>1, TypesInit, SoundInit, GoingInit, MovesInit DEF MutexInv
<1>2. MutexInv /\ [Next]_vars => MutexInv'
  <2> SUFFICES ASSUME MutexInv, [Next]_vars PROVE MutexInv'
    OBVIOUS
  <2>1. TypeOK /\ Targets /\ Sound /\ Going /\ SleeperNotForgotten /\ Moves
    BY DEF MutexInv
  <2>2. stopped \/ Idle
    BY <2>1 DEF Going, Placed
  <2>3. TypeOK' /\ Targets'
    BY <2>1, TypesStep
  <2>4. Sound'
    BY <2>1, <2>2, SoundStep
  <2>5. Going'
    BY <2>1, GoingStep
  <2>6. Moves'
    BY <2>1, MovesStep
  <2>7. SleeperNotForgotten'
    <3>1. (TypeOK' /\ Ticketed' /\ Placed') => SleeperNotForgotten'
      BY SleepersFound, PTL
    <3>2. CASE stopped'
      BY <2>1, <3>2, StopsKeepSleepers
    <3> QED BY <2>3, <2>5, <3>1, <3>2 DEF Going
  <2> QED BY <2>3, <2>4, <2>5, <2>6, <2>7 DEF MutexInv
<1> QED BY <1>1, <1>2, PTL DEF Spec

(* mlock excludes: two processes never hold a mutex at once that nobody    *)
(* has released or freed under its user (sysproc.c:171, 205).              *)
THEOREM MutexExcludes == Spec => []MutualExclusion
<1>1. MutexInv => MutualExclusion
  BY DEF MutexInv, Sound, Owned, MutualExclusion
<1> QED BY <1>1, MutexSafe, PTL

(* munlock and signalcv lose no sleeper, though SLEEPING is set after the  *)
(* list is joined and under another lock (sysproc.c:187-202, 268-292).     *)
THEOREM SleepersKept == Spec => []SleeperNotForgotten
<1>1. MutexInv => SleeperNotForgotten
  BY DEF MutexInv
<1> QED BY <1>1, MutexSafe, PTL

(* The one wait queue for all mutexes (proc.h:110) does not stall as a     *)
(* whole: with a sleeper on it some mutex is locked or an unlock is on its *)
(* way.  (The sleeper itself can be passed over: WaiterUnblocked.)         *)
THEOREM QueueKeepsMoving == Spec => []QueueMoves
<1>1. MutexInv => QueueMoves
  BY DEF MutexInv, Moves, QueueMoves, Members, TypeOK
<1> QED BY <1>1, MutexSafe, PTL
=============================================================================
