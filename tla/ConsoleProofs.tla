--------------------------- MODULE ConsoleProofs ---------------------------
(***************************************************************************)
(* Spin locks, interrupts and sleeping readers of the console, for every   *)
(* number of CPUs and processes and every size of the buffer: interrupts   *)
(* are off where they should be, no lock is misused, no reader sleeps on a *)
(* line that is ready, and the buffer keeps the promise of ConsoleAbs.     *)
(***************************************************************************)
EXTENDS Console, WellFoundedInduction, SequenceTheorems, TLAPS

----------------------------------------------------------------------------
(* The inductive invariant *)

(* Where a CPU is, its interrupt handler aside: in its scheduler, or where *)
(* its process is.                                                         *)
Pc(c) == IF sch[c] = "swtch" THEN proc[cur[c]].pc ELSE sch[c]

SchPcs == {"idle", "spin", "swtch", "release"}
ProcPcs == {"new", "user", "wake", "iret", "spinyield", "yielded", "spinread", "spinwrite",
            "read", "write", "return", "spinsleep", "slept", "spinexit", "dead"}
HdlPcs == {"none", "spin", "getc", "spinwake", "wakeup", "spindump", "dump", "iret"}
States == {"UNUSED", "RUNNABLE", "RUNNING", "SLEEPING", "ZOMBIE"}

CpuRecs == [fl : BOOLEAN, ncli : Int, intena : BOOLEAN]
ProcRecs == [pc : ProcPcs, back : ProcPcs, state : States, intena : BOOLEAN,
             n : Int, got : Int, killed : BOOLEAN]

ConsoleType ==
    /\ cpu \in [CPUs -> CpuRecs]
    /\ lock \in [Locks -> CPUs \cup {NoCpu}]
    /\ cur \in [CPUs -> Procs \cup {NoProc}]
    /\ sch \in [CPUs -> SchPcs]
    /\ proc \in [Procs -> ProcRecs]
    /\ hdl \in [pc : HdlPcs, dump : BOOLEAN]

(* The locks held or waited for. *)
PcDepth(x) == IF x \in {"idle", "user", "wake", "iret"} THEN 0
              ELSE IF x = "spinsleep" THEN 2 ELSE 1
HdlDepth(x) == IF x \in {"none", "iret"} THEN 0
               ELSE IF x \in {"spinwake", "wakeup"} THEN 2 ELSE 1

(* The locks held. *)
PcHasPtable(x) == x \in {"release", "new", "yielded", "slept"}
PcHasCons(x) == x \in {"read", "write", "return", "spinsleep"}
HdlHasPtable(x) == x = "wakeup"
HdlHasCons(x) == x \in {"getc", "spinwake", "wakeup", "dump"}

(* What pushcli and popcli keep for a CPU that is there.  What was on      *)
(* before the first lock is on again after the last: intena is set where a *)
(* thread in a system call or a scheduler has taken it, and not where an   *)
(* interrupt handler has.                                                  *)
OwnPcs == {"spin", "new", "spinread", "spinwrite", "read", "write", "return", "spinsleep", "spinexit"}
PcOK(x, s) ==
    /\ s.ncli = PcDepth(x)
    /\ s.fl <=> PcDepth(x) = 0 /\ x # "iret"
    /\ x \in OwnPcs => s.intena
    /\ x = "spinyield" => ~s.intena
HdlOK(x, s) == s.ncli = HdlDepth(x) /\ ~s.fl /\ (x # "iret" => ~s.intena)

CpuOK(c) ==
    /\ sch[c] = "swtch" <=> cur[c] # NoProc
    /\ IF Handling(c) THEN HdlOK(hdl.pc, cpu[c]) /\ Pc(c) \in {"idle", "user", "wake"}
       ELSE PcOK(Pc(c), cpu[c])
    /\ lock["ptable"] = c <=> IF Handling(c) THEN HdlHasPtable(hdl.pc) ELSE PcHasPtable(Pc(c))
    /\ lock["cons"] = c <=> IF Handling(c) THEN HdlHasCons(hdl.pc) ELSE PcHasCons(Pc(c))

(* A process leaves its CPU in sched only, which saved its intena. *)
RecOK(r) ==
    /\ r.state # "RUNNING" => r.pc \in {"new", "yielded", "slept", "dead"}
    /\ r.state = "RUNNABLE" => r.pc # "dead"
    /\ r.state = "RUNNING" => r.pc # "dead"
    /\ r.state = "SLEEPING" => r.pc = "slept"
    /\ r.pc = "slept" => r.intena
    /\ r.pc = "yielded" => ~r.intena
    /\ r.pc \in {"spinyield", "yielded", "iret"} => r.back \in {"user", "wake"}

(* It runs on one CPU at most. *)
OneCpuEach == \A c, d \in CPUs : cur[c] = cur[d] /\ cur[c] # NoProc => c = d
RunsSomewhere(p) == proc[p].state = "RUNNING" <=> \E c \in CPUs : cur[c] = p

LocksInv ==
    /\ ConsoleType /\ OneCpuEach
    /\ \A c \in CPUs : CpuOK(c)
    /\ \A p \in Procs : RunsSomewhere(p) /\ RecOK(proc[p])

(* The indices are in order: read, write, edit, at most INPUT_BUF apart. *)
InputOK(in) ==
    /\ in = [buf |-> in.buf, r |-> in.r, w |-> in.w, e |-> in.e]
    /\ in.r \in 0 .. UINT - 1 /\ in.w \in 0 .. UINT - 1 /\ in.e \in 0 .. UINT - 1
    /\ Minus(in.w, in.r) <= Minus(in.e, in.r) /\ Minus(in.e, in.r) <= INPUT_BUF
    /\ Minus(in.e, in.r) = INPUT_BUF => in.w = in.e

(* Who goes to sleep, with the console's lock, has found nothing. *)
ReadersInv ==
    /\ InputOK(input)
    /\ \A p \in Procs : proc[p].pc = "spinsleep" => input.r = input.w
    /\ input.r # input.w /\ hdl.pc \notin {"spinwake", "wakeup"} =>
         \A p \in Procs : proc[p].state # "SLEEPING"

----------------------------------------------------------------------------
(* One CPU's step leaves the others alone *)

(* Locks that the CPU c takes and gives back. *)
LockStep(c) ==
    /\ lock' \in [Locks -> CPUs \cup {NoCpu}]
    /\ \A l \in Locks : \/ lock'[l] = lock[l]
                        \/ lock[l] \in {c, NoCpu} /\ lock'[l] \in {c, NoCpu}

(* What a CPU may do while another keeps its thread: the other is as well  *)
(* as it was.                                                              *)
LEMMA OthersKept ==
    ASSUME LocksInv, NEW c \in CPUs, NEW d \in CPUs, d # c, LockStep(c),
           cpu'[d] = cpu[d], sch'[d] = sch[d], cur'[d] = cur[d],
           d = Bsp => hdl' = hdl,
           cur[d] # NoProc => proc'[cur[d]].pc = proc[cur[d]].pc
    PROVE  CpuOK(d)'
<1>1. CpuOK(d)
  BY DEF LocksInv
<1>2. Handling(d)' <=> Handling(d)
  BY DEF Handling
<1>3. Handling(d) => hdl' = hdl
  BY DEF Handling
<1>4. Pc(d)' = Pc(d)
  BY <1>1 DEF CpuOK, Pc
<1>5. (lock'["ptable"] = d <=> lock["ptable"] = d) /\ (lock'["cons"] = d <=> lock["cons"] = d)
  <2>1. \A l \in Locks : lock'[l] = d <=> lock[l] = d
    BY SpinAssumption DEF LockStep
  <2> QED BY <2>1, ConsoleAssumption
<1> QED BY <1>1, <1>2, <1>3, <1>4, <1>5 DEF CpuOK

(* What holds where the process p runs on c. *)
LEMMA Here ==
    ASSUME LocksInv, NEW c \in CPUs, NEW p \in Procs, On(c, p)
    PROVE  /\ cur[c] = p /\ ~Handling(c) /\ sch[c] = "swtch" /\ Pc(c) = proc[p].pc
           /\ cpu[c] \in CpuRecs /\ proc[p] \in ProcRecs
           /\ proc[p].state = "RUNNING" /\ RecOK(proc[p]) /\ PcOK(proc[p].pc, cpu[c])
           /\ lock["ptable"] = c <=> PcHasPtable(proc[p].pc)
           /\ lock["cons"] = c <=> PcHasCons(proc[p].pc)
<1>1. cur[c] = p /\ ~Handling(c)
  BY DEF On
<1>2. CpuOK(c) /\ RunsSomewhere(p) /\ RecOK(proc[p]) /\ ConsoleType
  BY DEF LocksInv
<1>3. p # NoProc
  BY ConsoleAssumption
<1>4. sch[c] = "swtch" /\ Pc(c) = proc[p].pc
  BY <1>1, <1>2, <1>3 DEF CpuOK, Pc
<1>5. proc[p].state = "RUNNING"
  BY <1>1, <1>2 DEF RunsSomewhere
<1>6. cpu[c] \in CpuRecs /\ proc[p] \in ProcRecs
  BY <1>2 DEF ConsoleType
<1> QED BY <1>1, <1>2, <1>4, <1>5, <1>6 DEF CpuOK

(* The process p goes on, on its CPU. *)
LEMMA ProcStep ==
    ASSUME LocksInv, NEW c \in CPUs, NEW p \in Procs, On(c, p),
           NEW s \in CpuRecs, NEW r \in ProcRecs,
           cur' = cur, sch' = sch, hdl' = hdl,
           cpu' = [cpu EXCEPT ![c] = s], proc' = [proc EXCEPT ![p] = r], LockStep(c),
           lock'["ptable"] = c <=> PcHasPtable(r.pc), lock'["cons"] = c <=> PcHasCons(r.pc),
           r.state = "RUNNING", RecOK(r), PcOK(r.pc, s)
    PROVE  LocksInv'
<1>1. /\ cur[c] = p /\ ~Handling(c) /\ sch[c] = "swtch" /\ proc[p].state = "RUNNING"
  BY Here
<1>2. ConsoleType
  BY DEF LocksInv
<1>3. ConsoleType'
  BY <1>2 DEF ConsoleType, LockStep
<1>4. cpu'[c] = s /\ proc'[p] = r
  BY <1>2 DEF ConsoleType
<1>5. OneCpuEach'
  BY DEF OneCpuEach, LocksInv
<1>6. CpuOK(c)'
  <2>1. ~Handling(c)'
    BY <1>1 DEF Handling
  <2>2. Pc(c)' = r.pc
    BY <1>1, <1>4 DEF Pc
  <2>3. p # NoProc
    BY ConsoleAssumption
  <2> QED BY <1>1, <1>4, <2>1, <2>2, <2>3 DEF CpuOK
<1>7. ASSUME NEW d \in CPUs, d # c
      PROVE  CpuOK(d)'
  <2>1. cpu'[d] = cpu[d] /\ sch'[d] = sch[d] /\ cur'[d] = cur[d]
    BY <1>2, <1>7 DEF ConsoleType
  <2>2. cur[d] # NoProc => proc'[cur[d]].pc = proc[cur[d]].pc
    <3>1. cur[d] # p
      BY <1>1, <1>7, ConsoleAssumption DEF LocksInv, OneCpuEach
    <3>2. cur[d] \in Procs \cup {NoProc}
      BY <1>2 DEF ConsoleType
    <3> QED BY <1>2, <3>1, <3>2 DEF ConsoleType
  <2> QED BY <1>7, <2>1, <2>2, OthersKept
<1>8. ASSUME NEW q \in Procs
      PROVE  RunsSomewhere(q)' /\ RecOK(proc[q])'
  <2>1. RunsSomewhere(q) /\ RecOK(proc[q])
    BY DEF LocksInv
  <2>2. CASE q = p
    <3>1. RunsSomewhere(p)'
      BY <1>1, <1>4 DEF RunsSomewhere
    <3>2. RecOK(proc[p])'
      BY <1>4 DEF RecOK
    <3> QED BY <2>2, <3>1, <3>2
  <2>3. CASE q # p
    <3>1. proc'[q] = proc[q]
      BY <1>2, <2>3 DEF ConsoleType
    <3> QED BY <2>1, <3>1 DEF RunsSomewhere, RecOK
  <2> QED BY <2>2, <2>3
<1> QED BY <1>3, <1>5, <1>6, <1>7, <1>8 DEF LocksInv

(* The process p leaves its CPU for the scheduler. *)
LEMMA SchedStep ==
    ASSUME LocksInv, NEW c \in CPUs, NEW p \in Procs, On(c, p),
           NEW s \in CpuRecs, NEW r \in ProcRecs, hdl' = hdl,
           cur' = [cur EXCEPT ![c] = NoProc], sch' = [sch EXCEPT ![c] = "release"],
           cpu' = [cpu EXCEPT ![c] = s], proc' = [proc EXCEPT ![p] = r], LockStep(c),
           lock'["ptable"] = c, lock'["cons"] # c,
           r.state # "RUNNING", RecOK(r), s.ncli = 1, ~s.fl
    PROVE  LocksInv'
<1>1. /\ cur[c] = p /\ ~Handling(c) /\ sch[c] = "swtch" /\ proc[p].state = "RUNNING"
  BY Here
<1>2. ConsoleType
  BY DEF LocksInv
<1>3. ConsoleType'
  BY <1>2 DEF ConsoleType, LockStep, SchPcs
<1>4. cpu'[c] = s /\ proc'[p] = r /\ cur'[c] = NoProc /\ sch'[c] = "release"
  BY <1>2 DEF ConsoleType
<1>5. \A d \in CPUs \ {c} : cur'[d] = cur[d] /\ sch'[d] = sch[d] /\ cpu'[d] = cpu[d] /\ cur[d] # p
  BY <1>1, <1>2, ConsoleAssumption DEF LocksInv, OneCpuEach, ConsoleType
<1>6. OneCpuEach'
  BY <1>4, <1>5 DEF OneCpuEach, LocksInv
<1>7. CpuOK(c)'
  <2>1. ~Handling(c)'
    BY <1>1 DEF Handling
  <2>2. Pc(c)' = "release"
    BY <1>4 DEF Pc
  <2> QED BY <1>4, <2>1, <2>2 DEF CpuOK, PcOK, PcDepth, OwnPcs, PcHasPtable, PcHasCons
<1>8. ASSUME NEW d \in CPUs, d # c
      PROVE  CpuOK(d)'
  <2>1. cpu'[d] = cpu[d] /\ sch'[d] = sch[d] /\ cur'[d] = cur[d] /\ cur[d] # p
    BY <1>5, <1>8
  <2>2. cur[d] # NoProc => proc'[cur[d]].pc = proc[cur[d]].pc
    <3>1. cur[d] \in Procs \cup {NoProc}
      BY <1>2 DEF ConsoleType
    <3> QED BY <1>2, <2>1, <3>1 DEF ConsoleType
  <2> QED BY <1>8, <2>1, <2>2, OthersKept
<1>9. ASSUME NEW q \in Procs
      PROVE  RunsSomewhere(q)' /\ RecOK(proc[q])'
  <2>1. RunsSomewhere(q) /\ RecOK(proc[q])
    BY DEF LocksInv
  <2>2. CASE q = p
    <3>1. RunsSomewhere(p)'
      <4>1. p # NoProc
        BY ConsoleAssumption
      <4> QED BY <1>1, <1>4, <1>5, <4>1 DEF RunsSomewhere
    <3>2. RecOK(proc[p])'
      BY <1>4 DEF RecOK
    <3> QED BY <2>2, <3>1, <3>2
  <2>3. CASE q # p
    <3>1. proc'[q] = proc[q]
      BY <1>2, <2>3 DEF ConsoleType
    <3>2. (\E d \in CPUs : cur'[d] = q) <=> (\E d \in CPUs : cur[d] = q)
      <4>1. q # NoProc
        BY ConsoleAssumption
      <4> QED BY <1>1, <1>4, <1>5, <2>3, <4>1
    <3> QED BY <2>1, <3>1, <3>2 DEF RunsSomewhere, RecOK
  <2> QED BY <2>2, <2>3
<1> QED BY <1>3, <1>6, <1>7, <1>8, <1>9 DEF LocksInv

(* A scheduler goes on and runs nobody. *)
LEMMA IdleStep ==
    ASSUME LocksInv, NEW c \in CPUs, cur[c] = NoProc, ~Handling(c),
           NEW s \in CpuRecs, NEW x \in {"idle", "spin", "release"},
           hdl' = hdl, cur' = cur, proc' = proc,
           sch' = [sch EXCEPT ![c] = x], cpu' = [cpu EXCEPT ![c] = s], LockStep(c),
           lock'["ptable"] = c <=> x = "release", lock'["cons"] # c, PcOK(x, s)
    PROVE  LocksInv'
<1>1. ConsoleType
  BY DEF LocksInv
<1>2. ConsoleType'
  BY <1>1 DEF ConsoleType, LockStep, SchPcs
<1>3. cpu'[c] = s /\ sch'[c] = x
  BY <1>1 DEF ConsoleType
<1>4. CpuOK(c)'
  <2>1. ~Handling(c)'
    BY DEF Handling
  <2>2. Pc(c)' = x
    BY <1>3 DEF Pc
  <2> QED BY <1>3, <2>1, <2>2 DEF CpuOK, PcHasPtable, PcHasCons
<1>5. ASSUME NEW d \in CPUs, d # c
      PROVE  CpuOK(d)'
  <2>1. cpu'[d] = cpu[d] /\ sch'[d] = sch[d]
    BY <1>1, <1>5 DEF ConsoleType
  <2> QED BY <1>5, <2>1, OthersKept
<1> QED BY <1>2, <1>4, <1>5 DEF LocksInv, OneCpuEach, RunsSomewhere, RecOK

(* What other CPUs' processes may see: some that sleep are woken. *)
Woken == /\ proc' \in [Procs -> ProcRecs]
         /\ \A p \in Procs : /\ proc'[p].pc = proc[p].pc /\ proc'[p].back = proc[p].back
                             /\ proc'[p].intena = proc[p].intena
                             /\ \/ proc'[p].state = proc[p].state
                                \/ proc[p].state = "SLEEPING" /\ proc'[p].state = "RUNNABLE"

(* That takes nobody from a CPU. *)
LEMMA WokenKept ==
    ASSUME LocksInv, Woken, cur' = cur, sch' = sch
    PROVE  /\ \A p \in Procs : RunsSomewhere(p)' /\ RecOK(proc[p])'
           /\ OneCpuEach'
           /\ \A c \in CPUs : Pc(c)' = Pc(c) /\ (cur[c] # NoProc => proc'[cur[c]].pc = proc[cur[c]].pc)
<1>1. ASSUME NEW p \in Procs
      PROVE  RunsSomewhere(p)' /\ RecOK(proc[p])'
  <2>1. RunsSomewhere(p) /\ RecOK(proc[p])
    BY DEF LocksInv
  <2>2. /\ proc'[p].pc = proc[p].pc /\ proc'[p].back = proc[p].back
        /\ proc'[p].intena = proc[p].intena
        /\ \/ proc'[p].state = proc[p].state
           \/ proc[p].state = "SLEEPING" /\ proc'[p].state = "RUNNABLE"
    BY DEF Woken
  <2>3. RunsSomewhere(p)'
    BY <2>1, <2>2 DEF RunsSomewhere
  <2>4. RecOK(proc[p])'
    BY <2>1, <2>2 DEF RecOK
  <2> QED BY <2>3, <2>4
<1>2. ASSUME NEW c \in CPUs
      PROVE  Pc(c)' = Pc(c) /\ (cur[c] # NoProc => proc'[cur[c]].pc = proc[cur[c]].pc)
  <2>1. cur[c] \in Procs \cup {NoProc} /\ (sch[c] = "swtch" <=> cur[c] # NoProc)
    BY DEF LocksInv, ConsoleType, CpuOK
  <2> QED BY <2>1 DEF Pc, Woken
<1> QED BY <1>1, <1>2 DEF LocksInv, OneCpuEach

(* The interrupt handler goes on. *)
LEMMA HdlStep ==
    ASSUME LocksInv, Woken, cur' = cur, sch' = sch,
           NEW s \in CpuRecs, NEW h \in [pc : HdlPcs, dump : BOOLEAN], h.pc # "none",
           hdl' = h, cpu' = [cpu EXCEPT ![Bsp] = s], LockStep(Bsp),
           lock'["ptable"] = Bsp <=> HdlHasPtable(h.pc), lock'["cons"] = Bsp <=> HdlHasCons(h.pc),
           HdlOK(h.pc, s), Pc(Bsp) \in {"idle", "user", "wake"}
    PROVE  LocksInv'
<1>1. ConsoleType /\ Bsp \in CPUs
  BY ConsoleAssumption DEF LocksInv
<1>2. ConsoleType'
  BY <1>1 DEF ConsoleType, LockStep, Woken
<1>3. cpu'[Bsp] = s
  BY <1>1 DEF ConsoleType
<1>4. CpuOK(Bsp)'
  <2>1. Handling(Bsp)'
    BY DEF Handling
  <2>2. Pc(Bsp)' = Pc(Bsp)
    BY <1>1, WokenKept
  <2>3. CpuOK(Bsp)
    BY <1>1 DEF LocksInv
  <2> QED BY <1>3, <2>1, <2>2, <2>3 DEF CpuOK
<1>5. ASSUME NEW d \in CPUs, d # Bsp
      PROVE  CpuOK(d)'
  <2>1. cpu'[d] = cpu[d]
    BY <1>1, <1>5 DEF ConsoleType
  <2>2. cur[d] # NoProc => proc'[cur[d]].pc = proc[cur[d]].pc
    BY WokenKept
  <2> QED BY <1>1, <1>5, <2>1, <2>2, OthersKept
<1> QED BY <1>2, <1>4, <1>5, WokenKept DEF LocksInv

----------------------------------------------------------------------------
(* Locks and pushcli *)

(* release changes its own lock and no other. *)
LEMMA Unlocked ==
    ASSUME LocksInv, NEW c \in CPUs, NEW l \in Locks, lock[l] = c, lock' = Released(l)
    PROVE  LockStep(c) /\ lock'[l] # c /\ \A m \in Locks \ {l} : lock'[m] = lock[m]
<1>1. lock \in [Locks -> CPUs \cup {NoCpu}]
  BY DEF LocksInv, ConsoleType
<1>2. lock' = [lock EXCEPT ![l] = NoCpu]
  BY DEF Released
<1>3. lock'[l] = NoCpu /\ \A m \in Locks \ {l} : lock'[m] = lock[m]
  BY <1>1, <1>2
<1>4. lock' \in [Locks -> CPUs \cup {NoCpu}]
  BY <1>1, <1>2
<1> QED BY <1>3, <1>4, SpinAssumption DEF LockStep

(* The exchange in acquire changes its own lock and no other. *)
LEMMA Locked ==
    ASSUME LocksInv, NEW c \in CPUs, NEW l \in Locks, Acquires(c, l)
    PROVE  LockStep(c) /\ lock'[l] = c /\ \A m \in Locks \ {l} : lock'[m] = lock[m]
<1>1. lock \in [Locks -> CPUs \cup {NoCpu}]
  BY DEF LocksInv, ConsoleType
<1>2. lock[l] = NoCpu /\ lock' = [lock EXCEPT ![l] = c]
  BY DEF Acquires
<1>3. lock'[l] = c /\ \A m \in Locks \ {l} : lock'[m] = lock[m]
  BY <1>1, <1>2
<1>4. lock' \in [Locks -> CPUs \cup {NoCpu}]
  BY <1>1, <1>2
<1> QED BY <1>2, <1>3, <1>4 DEF LockStep

(* A step that leaves the locks alone is one that any CPU may do. *)
LEMMA LocksSame ==
    ASSUME LocksInv, NEW c \in CPUs, lock' = lock
    PROVE  LockStep(c)
BY DEF LockStep, LocksInv, ConsoleType

(* The two locks are different. *)
LEMMA TwoLocks == Locks = {"cons", "ptable"} /\ "cons" # "ptable"
BY ConsoleAssumption

(* What pushcli leaves of a CPU (spinlock.c:95). *)
LEMMA Pushed ==
    ASSUME NEW s \in CpuRecs
    PROVE  /\ pushcli(s) \in CpuRecs /\ ~pushcli(s).fl /\ pushcli(s).ncli = s.ncli + 1
           /\ pushcli(s).intena <=> IF s.ncli = 0 THEN s.fl ELSE s.intena
BY DEF pushcli, CpuRecs

(* What popcli leaves of a CPU (spinlock.c:107). *)
LEMMA Popped ==
    ASSUME NEW s \in CpuRecs
    PROVE  /\ popcli(s) \in CpuRecs /\ popcli(s).ncli = s.ncli - 1 /\ (popcli(s).intena <=> s.intena)
           /\ popcli(s).fl <=> s.fl \/ (s.ncli = 1 /\ s.intena)
<1> DEFINE f == s.fl \/ (s.ncli = 1 /\ s.intena)
<1>1. f \in BOOLEAN
  OBVIOUS
<1>2. popcli(s) = [s EXCEPT !.fl = f, !.ncli = s.ncli - 1]
  BY DEF popcli
<1> HIDE DEF f
<1>3. [s EXCEPT !.fl = f, !.ncli = s.ncli - 1] \in CpuRecs
  <2>1. s.ncli - 1 \in Int
    BY DEF CpuRecs
  <2>2. [s EXCEPT !.fl = f] \in CpuRecs
    BY <1>1 DEF CpuRecs
  <2> QED BY <2>1, <2>2 DEF CpuRecs
<1>4. /\ popcli(s).ncli = s.ncli - 1 /\ popcli(s).intena = s.intena
      /\ popcli(s).fl = f
  BY <1>1, <1>2 DEF CpuRecs
<1> QED BY <1>2, <1>3, <1>4 DEF f

----------------------------------------------------------------------------
(* The actions *)

(* What a step may write, and that it takes the cursor off the screen. *)
Outputs == {<<"x">>, <<"x", "nl">>, Edit(input, Got.c).echo}
OutputPanics == \E cs \in Outputs : consputc(pos, cs) < 0

(* What an action must keep, and the only thing that may stop it. *)
Kept == LocksInv' /\ (panicked' # panicked => OutputPanics)

(* A panic changes nothing else. *)
LEMMA HaltKept ==
    ASSUME LocksInv, Halt
    PROVE  LocksInv'
BY DEF Halt, thread, io, LocksInv, ConsoleType, OneCpuEach, CpuOK, RunsSomewhere, RecOK, Handling, Pc

(* The end of sched and of yield, sleep or forkret: the thread has its own *)
(* intena back, whoever entered the scheduler before it.                   *)
LEMMA ResumeKept ==
    ASSUME LocksInv, NEW c \in CPUs, NEW p \in Procs, Resume(c, p)
    PROVE  Kept
<1> DEFINE s == Restored(cpu[c], proc[p])
           x == CASE proc[p].pc = "new" -> "user" [] proc[p].pc = "yielded" -> "iret"
                  [] proc[p].pc = "slept" -> "wake"
           r == [proc[p] EXCEPT !.pc = x]
<1>1. On(c, p) /\ proc[p].pc \in {"new", "yielded", "slept"}
  BY DEF Resume
<1>2. /\ cpu[c] \in CpuRecs /\ proc[p] \in ProcRecs
      /\ proc[p].state = "RUNNING" /\ RecOK(proc[p]) /\ PcOK(proc[p].pc, cpu[c])
      /\ lock["ptable"] = c <=> PcHasPtable(proc[p].pc)
      /\ lock["cons"] = c <=> PcHasCons(proc[p].pc)
  BY <1>1, Here
<1>3. s \in CpuRecs /\ s.ncli = 1 /\ ~s.fl /\ (s.intena <=> proc[p].pc # "yielded")
  BY <1>1, <1>2 DEF Restored, CpuRecs, ProcRecs, RecOK, PcOK, PcDepth, OwnPcs
<1>4. lock["ptable"] = c /\ lock["cons"] # c
  BY <1>1, <1>2 DEF PcHasPtable, PcHasCons
<1>5. /\ lock' = Released("ptable") /\ SetCpu(c, popcli(s))
      /\ proc' = [proc EXCEPT ![p] = r] /\ UNCHANGED <<cur, sch, io>> /\ UNCHANGED panicked
  BY <1>3, <1>4 DEF Resume, Unless, ReleasePanics, holding, PopPanics, Still
<1>6. popcli(s) \in CpuRecs /\ PcOK(x, popcli(s))
  <2> HIDE DEF s
  <2> QED BY <1>1, <1>3, Popped DEF PcOK, PcDepth, OwnPcs
<1>7. LockStep(c) /\ lock'["ptable"] # c /\ lock'["cons"] # c
  BY <1>4, <1>5, TwoLocks, Unlocked
<1>10. x \in {"user", "iret", "wake"} /\ (x = "iret" => proc[p].pc = "yielded")
  BY <1>1
<1> HIDE DEF x
<1>11. r \in ProcRecs /\ r.pc = x /\ r.state = "RUNNING" /\ r.back = proc[p].back
  BY <1>2, <1>10 DEF ProcRecs, ProcPcs
<1>12. RecOK(r)
  BY <1>2, <1>10, <1>11 DEF RecOK
<1>8. ~PcHasPtable(x) /\ ~PcHasCons(x)
  BY <1>10 DEF PcHasPtable, PcHasCons
<1> HIDE DEF s, x, r
<1>9. LocksInv'
  BY <1>1, <1>5, <1>6, <1>7, <1>8, <1>11, <1>12, ProcStep DEF SetCpu, io
<1> QED BY <1>5, <1>9 DEF Kept

(* The first half of acquire, in a process. *)
LEMMA StartKept ==
    ASSUME LocksInv, NEW c \in CPUs, NEW p \in Procs, On(c, p),
           NEW l \in Locks, NEW r \in ProcRecs, StartsAcquire(c, l, p, r), lock[l] # c,
           r.state = "RUNNING", RecOK(r), PcOK(r.pc, pushcli(cpu[c])),
           PcHasPtable(r.pc) <=> PcHasPtable(proc[p].pc), PcHasCons(r.pc) <=> PcHasCons(proc[p].pc)
    PROVE  Kept
<1>1. /\ cpu' = [cpu EXCEPT ![c] = pushcli(cpu[c])] /\ proc' = [proc EXCEPT ![p] = r]
      /\ UNCHANGED <<lock, cur, sch, hdl, panicked>>
  BY DEF StartsAcquire, Unless, AcquirePanics, holding, Spins, Still, io
<1>2. /\ cpu[c] \in CpuRecs
      /\ lock["ptable"] = c <=> PcHasPtable(proc[p].pc)
      /\ lock["cons"] = c <=> PcHasCons(proc[p].pc)
  BY Here
<1>3. pushcli(cpu[c]) \in CpuRecs /\ LockStep(c)
  BY <1>1, <1>2, Pushed, LocksSame
<1>4. LocksInv'
  BY <1>1, <1>2, <1>3, ProcStep
<1> QED BY <1>1, <1>4 DEF Kept

(* pushcli where no lock is held and interrupts are on, and in sleep. *)
LEMMA FirstLock ==
    ASSUME NEW x, NEW s \in CpuRecs, PcOK(x, s), x \in {"user", "wake"},
           NEW y \in {"spinread", "spinwrite", "spinexit"}
    PROVE  PcOK(y, pushcli(s))
BY Pushed DEF PcOK, PcDepth, OwnPcs

(* A process that holds no lock starts to take one. *)
LEMMA FirstLockKept ==
    ASSUME LocksInv, NEW c \in CPUs, NEW p \in Procs, On(c, p), proc[p].pc \in {"user", "wake"},
           NEW l \in Locks, NEW x \in {"spinread", "spinwrite", "spinexit"}, NEW n \in Int,
           NEW r, r = [proc[p] EXCEPT !.pc = x] \/ r = [proc[p] EXCEPT !.pc = x, !.n = n],
           StartsAcquire(c, l, p, r)
    PROVE  Kept
<1>1. /\ cpu[c] \in CpuRecs /\ proc[p] \in ProcRecs
      /\ proc[p].state = "RUNNING" /\ RecOK(proc[p]) /\ PcOK(proc[p].pc, cpu[c])
      /\ lock["ptable"] = c <=> PcHasPtable(proc[p].pc)
      /\ lock["cons"] = c <=> PcHasCons(proc[p].pc)
  BY Here
<1>2. r \in ProcRecs /\ r.pc = x /\ r.state = "RUNNING"
  <2>1. PICK q : q = [proc[p] EXCEPT !.pc = x]
    OBVIOUS
  <2>2. q \in ProcRecs /\ q.pc = x /\ q.state = "RUNNING"
    BY <1>1, <2>1 DEF ProcRecs, ProcPcs
  <2>3. [q EXCEPT !.n = n] \in ProcRecs
    BY <2>2 DEF ProcRecs
  <2>4. r = q \/ r = [q EXCEPT !.n = n]
    BY <2>1
  <2> QED BY <2>2, <2>3, <2>4 DEF ProcRecs
<1>3. ~PcHasPtable(r.pc) /\ ~PcHasCons(r.pc) /\ ~PcHasPtable(proc[p].pc) /\ ~PcHasCons(proc[p].pc)
  BY <1>2 DEF PcHasPtable, PcHasCons
<1>4. RecOK(r)
  BY <1>2 DEF RecOK
<1>5. PcOK(r.pc, pushcli(cpu[c]))
  BY <1>1, <1>2, FirstLock
<1>6. lock[l] # c
  BY <1>1, <1>3, TwoLocks
<1> QED BY <1>2, <1>3, <1>4, <1>5, <1>6, StartKept

(* A read starts to take cons.lock. *)
LEMMA ReadStartKept ==
    ASSUME LocksInv, NEW c \in CPUs, NEW p \in Procs, ReadStart(c, p)
    PROVE  Kept
<1>1. PICK n \in 1 .. MaxRead : StartsAcquire(c, "cons", p, [proc[p] EXCEPT !.pc = "spinread", !.n = n])
  BY DEF ReadStart
<1>2. n \in Int
  BY ConsoleAssumption
<1> QED BY <1>1, <1>2, FirstLockKept, TwoLocks DEF ReadStart, AtPc

(* So do a write and a reader that is back; an exit starts to take         *)
(* ptable.lock.                                                            *)
LEMMA OtherStartsKept ==
    ASSUME LocksInv, NEW c \in CPUs, NEW p \in Procs,
           WriteStart(c, p) \/ Awake(c, p) \/ ExitStart(c, p)
    PROVE  Kept
<1>1. CASE WriteStart(c, p)
  BY <1>1, 0 \in Int, FirstLockKept, TwoLocks DEF WriteStart, AtPc
<1>2. CASE Awake(c, p)
  BY <1>2, 0 \in Int, FirstLockKept, TwoLocks DEF Awake, AtPc
<1>3. CASE ExitStart(c, p)
  BY <1>3, 0 \in Int, FirstLockKept, TwoLocks DEF ExitStart, AtPc
<1> QED BY <1>1, <1>2, <1>3

(* The timer interrupts a process only where interrupts are on, that is    *)
(* without locks.                                                          *)
LEMMA TimerKept ==
    ASSUME LocksInv, NEW c \in CPUs, NEW p \in Procs, Timer(c, p)
    PROVE  Kept
<1>1. On(c, p) /\ cpu[c].fl
  BY DEF Timer
<1>2. /\ cpu[c] \in CpuRecs /\ proc[p] \in ProcRecs
      /\ proc[p].state = "RUNNING" /\ RecOK(proc[p]) /\ PcOK(proc[p].pc, cpu[c])
      /\ lock["ptable"] = c <=> PcHasPtable(proc[p].pc)
      /\ lock["cons"] = c <=> PcHasCons(proc[p].pc)
  BY <1>1, Here
<1>3. proc[p].pc \in {"user", "wake"} /\ cpu[c].ncli = 0
  BY <1>1, <1>2 DEF PcOK, PcDepth, ProcRecs, ProcPcs
<1>4. lock["ptable"] # c /\ lock["cons"] # c
  BY <1>2, <1>3 DEF PcHasPtable, PcHasCons
<1>5. /\ cpu' = [cpu EXCEPT ![c] = pushcli(Gate(c))]
      /\ proc' = [proc EXCEPT ![p].pc = "spinyield", ![p].back = proc[p].pc]
      /\ UNCHANGED <<lock, cur, sch, hdl, panicked>>
  BY <1>4 DEF Timer, Unless, AcquirePanics, holding, Spins, Still, io
<1>6. PICK g : g = Gate(c)
  OBVIOUS
<1>7. g \in CpuRecs /\ g.ncli = 0 /\ ~g.fl
  BY <1>2, <1>3, <1>6 DEF Gate, CpuRecs
<1>8. pushcli(g) \in CpuRecs /\ PcOK("spinyield", pushcli(g))
  BY <1>7, Pushed DEF PcOK, PcDepth, OwnPcs
<1>9. PICK q : q = [proc[p] EXCEPT !.pc = "spinyield"]
  OBVIOUS
<1>10. PICK r : r = [q EXCEPT !.back = proc[p].pc]
  OBVIOUS
<1>11. q \in ProcRecs /\ q.pc = "spinyield" /\ q.state = "RUNNING"
  BY <1>2, <1>9 DEF ProcRecs, ProcPcs
<1>12. r \in ProcRecs /\ r.pc = "spinyield" /\ r.state = "RUNNING" /\ r.back = proc[p].pc
  BY <1>2, <1>10, <1>11 DEF ProcRecs
<1>13. proc' = [proc EXCEPT ![p] = r]
  <2>1. proc \in [Procs -> ProcRecs]
    BY DEF LocksInv, ConsoleType
  <2> QED BY <1>5, <1>9, <1>10, <2>1
<1>14. RecOK(r) /\ ~PcHasPtable(r.pc) /\ ~PcHasCons(r.pc)
  BY <1>3, <1>12 DEF RecOK, PcHasPtable, PcHasCons
<1>15. LocksInv'
  <2>1. cpu' = [cpu EXCEPT ![c] = pushcli(g)] /\ PcOK(r.pc, pushcli(g))
    BY <1>5, <1>6, <1>8, <1>12
  <2>2. LockStep(c)
    BY <1>5, LocksSame
  <2> QED BY <1>1, <1>4, <1>5, <1>8, <1>12, <1>13, <1>14, <2>1, <2>2, ProcStep
<1> QED BY <1>5, <1>15 DEF Kept

(* The return from the timer turns them on again. *)
LEMMA TimerReturnKept ==
    ASSUME LocksInv, NEW c \in CPUs, NEW p \in Procs, TimerReturn(c, p)
    PROVE  Kept
<1>1. On(c, p) /\ proc[p].pc = "iret"
  BY DEF TimerReturn, AtPc
<1>2. /\ cpu[c] \in CpuRecs /\ proc[p] \in ProcRecs
      /\ proc[p].state = "RUNNING" /\ RecOK(proc[p]) /\ PcOK(proc[p].pc, cpu[c])
      /\ lock["ptable"] = c <=> PcHasPtable(proc[p].pc)
      /\ lock["cons"] = c <=> PcHasCons(proc[p].pc)
  BY <1>1, Here
<1>3. proc[p].back \in {"user", "wake"} /\ cpu[c].ncli = 0
  BY <1>1, <1>2 DEF PcOK, PcDepth, RecOK
<1>4. lock["ptable"] # c /\ lock["cons"] # c
  BY <1>1, <1>2 DEF PcHasPtable, PcHasCons
<1>5. /\ cpu' = [cpu EXCEPT ![c] = [cpu[c] EXCEPT !.fl = TRUE]]
      /\ proc' = [proc EXCEPT ![p].pc = proc[p].back, ![p].back = "user"]
      /\ UNCHANGED <<lock, cur, sch, hdl, panicked>>
  BY DEF TimerReturn, SetCpu, Still, io
<1>6. PICK g : g = [cpu[c] EXCEPT !.fl = TRUE]
  OBVIOUS
<1>7. g \in CpuRecs /\ g.ncli = 0 /\ g.fl
  BY <1>2, <1>3, <1>6 DEF CpuRecs
<1>8. PcOK(proc[p].back, g)
  BY <1>3, <1>7 DEF PcOK, PcDepth, OwnPcs
<1>9. PICK q : q = [proc[p] EXCEPT !.pc = proc[p].back]
  OBVIOUS
<1>10. PICK r : r = [q EXCEPT !.back = "user"]
  OBVIOUS
<1>11. q \in ProcRecs /\ q.pc = proc[p].back /\ q.state = "RUNNING"
  BY <1>2, <1>9 DEF ProcRecs
<1>12. r \in ProcRecs /\ r.pc = proc[p].back /\ r.state = "RUNNING"
  BY <1>2, <1>10, <1>11 DEF ProcRecs, ProcPcs
<1>13. proc' = [proc EXCEPT ![p] = r]
  <2>1. proc \in [Procs -> ProcRecs]
    BY DEF LocksInv, ConsoleType
  <2> QED BY <1>5, <1>9, <1>10, <2>1
<1>14. RecOK(r) /\ ~PcHasPtable(r.pc) /\ ~PcHasCons(r.pc)
  BY <1>3, <1>12 DEF RecOK, PcHasPtable, PcHasCons
<1>15. LocksInv'
  BY <1>1, <1>4, <1>5, <1>6, <1>7, <1>8, <1>12, <1>13, <1>14, LocksSame, ProcStep
<1> QED BY <1>5, <1>15 DEF Kept

(* A reader or a writer gets cons.lock. *)
LEMMA ProcAcquireKept ==
    ASSUME LocksInv, NEW c \in CPUs, NEW p \in Procs, ProcAcquire(c, p)
    PROVE  Kept
<1>1. On(c, p) /\ proc[p].pc \in {"spinread", "spinwrite"} /\ Acquires(c, "cons")
  BY DEF ProcAcquire
<1>2. /\ cpu[c] \in CpuRecs /\ proc[p] \in ProcRecs
      /\ proc[p].state = "RUNNING" /\ RecOK(proc[p]) /\ PcOK(proc[p].pc, cpu[c])
      /\ lock["ptable"] = c <=> PcHasPtable(proc[p].pc)
  BY <1>1, Here
<1>3. LockStep(c) /\ lock'["cons"] = c /\ lock'["ptable"] = lock["ptable"]
  BY <1>1, TwoLocks, Locked
<1>4. PICK x \in {"read", "write"} : x = IF proc[p].pc = "spinread" THEN "read" ELSE "write"
  OBVIOUS
<1>5. PICK r : r = [proc[p] EXCEPT !.pc = x]
  OBVIOUS
<1>6. cpu' = [cpu EXCEPT ![c] = cpu[c]] /\ proc' = [proc EXCEPT ![p] = r] /\ UNCHANGED <<cur, sch, hdl, panicked>>
  <2>1. cpu \in [CPUs -> CpuRecs]
    BY DEF LocksInv, ConsoleType
  <2> QED BY <1>4, <1>5, <2>1 DEF ProcAcquire, Still, io
<1>7. r \in ProcRecs /\ r.pc = x /\ r.state = "RUNNING"
  BY <1>2, <1>4, <1>5 DEF ProcRecs, ProcPcs
<1>8. RecOK(r) /\ ~PcHasPtable(x) /\ PcHasCons(x) /\ ~PcHasPtable(proc[p].pc)
  BY <1>1, <1>4, <1>7 DEF RecOK, PcHasPtable, PcHasCons
<1>9. PcOK(x, cpu[c])
  BY <1>1, <1>2, <1>4 DEF PcOK, PcDepth, OwnPcs
<1>10. LocksInv'
  BY <1>1, <1>2, <1>3, <1>6, <1>7, <1>8, <1>9, ProcStep
<1> QED BY <1>6, <1>10 DEF Kept

(* The console's lock goes and the process is back outside. *)
LEMMA ConsReleased ==
    ASSUME LocksInv, NEW c \in CPUs, NEW p \in Procs, On(c, p), proc[p].pc \in {"write", "return"},
           NEW r \in ProcRecs, r.pc = "user", r.state = "RUNNING",
           lock' = Released("cons"), SetCpu(c, popcli(cpu[c])), proc' = [proc EXCEPT ![p] = r],
           cur' = cur, sch' = sch, hdl' = hdl
    PROVE  LocksInv'
<1>1. /\ cpu[c] \in CpuRecs /\ PcOK(proc[p].pc, cpu[c])
      /\ lock["ptable"] = c <=> PcHasPtable(proc[p].pc)
      /\ lock["cons"] = c <=> PcHasCons(proc[p].pc)
  BY Here
<1>2. lock["ptable"] # c /\ lock["cons"] = c
  BY <1>1 DEF PcHasPtable, PcHasCons
<1>3. LockStep(c) /\ lock'["cons"] # c /\ lock'["ptable"] = lock["ptable"]
  BY <1>2, TwoLocks, Unlocked
<1>4. popcli(cpu[c]) \in CpuRecs /\ PcOK("user", popcli(cpu[c]))
  BY <1>1, Popped DEF PcOK, PcDepth, OwnPcs
<1>5. RecOK(r) /\ ~PcHasPtable(r.pc) /\ ~PcHasCons(r.pc)
  BY DEF RecOK, PcHasPtable, PcHasCons
<1> QED BY <1>2, <1>3, <1>4, <1>5, ProcStep DEF SetCpu

(* Its release does not panic. *)
LEMMA ConsReleases ==
    ASSUME LocksInv, NEW c \in CPUs, NEW p \in Procs, On(c, p),
           proc[p].pc \in {"write", "return", "spinsleep"}
    PROVE  ~ReleasePanics(c, "cons", cpu[c])
<1>1. cpu[c] \in CpuRecs /\ PcOK(proc[p].pc, cpu[c]) /\ (lock["cons"] = c <=> PcHasCons(proc[p].pc))
  BY Here
<1> QED BY <1>1 DEF PcOK, PcDepth, PcHasCons, ReleasePanics, PopPanics, holding

(* A write: it releases the lock it has. *)
LEMMA WriteKept ==
    ASSUME LocksInv, NEW c \in CPUs, NEW p \in Procs, Write(c, p)
    PROVE  Kept
<1>1. On(c, p) /\ proc[p].pc = "write"
  BY DEF Write, AtPc
<1>2. PICK cs \in {<<"x">>, <<"x", "nl">>} :
        Unless(ReleasePanics(c, "cons", cpu[c]) \/ consputc(pos, cs) < 0,
            /\ pos' = consputc(pos, cs)
            /\ lock' = Released("cons") /\ SetCpu(c, popcli(cpu[c]))
            /\ proc' = [proc EXCEPT ![p].pc = "user"]
            /\ UNCHANGED <<cur, sch, hdl, input, setup, dev, shift, held>>)
  BY DEF Write
<1>3. ~ReleasePanics(c, "cons", cpu[c])
  BY <1>1, ConsReleases
<1>4. CASE consputc(pos, cs) < 0
  <2>1. Halt
    BY <1>2, <1>4 DEF Unless
  <2>2. OutputPanics
    BY <1>4 DEF OutputPanics, Outputs
  <2> QED BY <2>1, <2>2, HaltKept DEF Kept
<1>5. CASE ~(consputc(pos, cs) < 0)
  <2>1. /\ lock' = Released("cons") /\ SetCpu(c, popcli(cpu[c]))
        /\ proc' = [proc EXCEPT ![p] = [proc[p] EXCEPT !.pc = "user"]]
        /\ UNCHANGED <<cur, sch, hdl, panicked>>
    BY <1>2, <1>3, <1>5 DEF Unless, Still
  <2>2. proc[p] \in ProcRecs /\ proc[p].state = "RUNNING"
    BY <1>1, Here
  <2>3. PICK r : r = [proc[p] EXCEPT !.pc = "user"]
    OBVIOUS
  <2>4. r \in ProcRecs /\ r.pc = "user" /\ r.state = "RUNNING"
    BY <2>2, <2>3 DEF ProcRecs, ProcPcs
  <2>5. LocksInv'
    BY <1>1, <2>1, <2>3, <2>4, ConsReleased
  <2> QED BY <2>1, <2>5 DEF Kept
<1> QED BY <1>4, <1>5

(* The end of a read. *)
LEMMA ReadReturnKept ==
    ASSUME LocksInv, NEW c \in CPUs, NEW p \in Procs, ReadReturn(c, p)
    PROVE  Kept
<1>1. On(c, p) /\ proc[p].pc = "return"
  BY DEF ReadReturn, AtPc
<1>2. ~ReleasePanics(c, "cons", cpu[c])
  BY <1>1, ConsReleases
<1>3. /\ lock' = Released("cons") /\ SetCpu(c, popcli(cpu[c]))
      /\ proc' = [proc EXCEPT ![p].pc = "user", ![p].got = 0, ![p].n = 0]
      /\ UNCHANGED <<cur, sch, hdl, panicked>>
  BY <1>2 DEF ReadReturn, Unless, Still, io
<1>4. proc[p] \in ProcRecs /\ proc[p].state = "RUNNING" /\ proc \in [Procs -> ProcRecs]
  BY <1>1, Here DEF LocksInv, ConsoleType
<1>5. PICK q : q = [proc[p] EXCEPT !.pc = "user"]
  OBVIOUS
<1>6. PICK u : u = [q EXCEPT !.got = 0]
  OBVIOUS
<1>7. PICK r : r = [u EXCEPT !.n = 0]
  OBVIOUS
<1>8. q \in ProcRecs /\ q.pc = "user" /\ q.state = "RUNNING"
  BY <1>4, <1>5 DEF ProcRecs, ProcPcs
<1>9. u \in ProcRecs /\ u.pc = "user" /\ u.state = "RUNNING"
  BY <1>6, <1>8 DEF ProcRecs
<1>10. r \in ProcRecs /\ r.pc = "user" /\ r.state = "RUNNING"
  BY <1>7, <1>9 DEF ProcRecs
<1>11. proc' = [proc EXCEPT ![p] = r]
  BY <1>3, <1>4, <1>5, <1>6, <1>7
<1>12. LocksInv'
  BY <1>1, <1>3, <1>10, <1>11, ConsReleased
<1> QED BY <1>3, <1>12 DEF Kept

(* A read keeps cons.lock from one character to the next. *)
LEMMA ReadCharKept ==
    ASSUME LocksInv, NEW c \in CPUs, NEW p \in Procs, ReadChar(c, p)
    PROVE  Kept
<1>1. On(c, p) /\ proc[p].pc = "read"
  BY DEF ReadChar, AtPc
<1>2. /\ cpu[c] \in CpuRecs /\ proc[p] \in ProcRecs
      /\ proc[p].state = "RUNNING" /\ RecOK(proc[p]) /\ PcOK(proc[p].pc, cpu[c])
      /\ lock["ptable"] = c <=> PcHasPtable(proc[p].pc)
      /\ lock["cons"] = c <=> PcHasCons(proc[p].pc)
  BY <1>1, Here
<1>3. proc \in [Procs -> ProcRecs] /\ cpu \in [CPUs -> CpuRecs]
  BY DEF LocksInv, ConsoleType
<1>4. UNCHANGED <<cpu, lock, cur, sch, hdl, panicked>>
  BY DEF ReadChar, Still
<1>5. PICK x \in {"read", "return"} :
        \/ proc' = [proc EXCEPT ![p].pc = x]
        \/ proc' = [proc EXCEPT ![p].n = @ - 1, ![p].got = @ + 1, ![p].pc = x]
  BY DEF ReadChar
<1>6. PICK r \in ProcRecs : r.pc = x /\ r.state = "RUNNING" /\ proc' = [proc EXCEPT ![p] = r]
  <2>1. CASE proc' = [proc EXCEPT ![p].pc = x]
    <3>1. PICK r : r = [proc[p] EXCEPT !.pc = x]
      OBVIOUS
    <3>2. r \in ProcRecs /\ r.pc = x /\ r.state = "RUNNING"
      BY <1>2, <1>5, <3>1 DEF ProcRecs, ProcPcs
    <3> QED BY <2>1, <3>1, <3>2
  <2>2. CASE proc' = [proc EXCEPT ![p].n = @ - 1, ![p].got = @ + 1, ![p].pc = x]
    <3>1. PICK q : q = [proc[p] EXCEPT !.n = @ - 1]
      OBVIOUS
    <3>2. PICK u : u = [q EXCEPT !.got = @ + 1]
      OBVIOUS
    <3>3. PICK r : r = [u EXCEPT !.pc = x]
      OBVIOUS
    <3>4. q \in ProcRecs /\ q.state = "RUNNING"
      <4>1. proc[p].n - 1 \in Int
        BY <1>2 DEF ProcRecs
      <4> QED BY <1>2, <3>1, <4>1 DEF ProcRecs
    <3>5. u \in ProcRecs /\ u.state = "RUNNING"
      <4>1. q.got + 1 \in Int
        BY <3>4 DEF ProcRecs
      <4> QED BY <3>2, <3>4, <4>1 DEF ProcRecs
    <3>6. r \in ProcRecs /\ r.pc = x /\ r.state = "RUNNING"
      BY <1>5, <3>3, <3>5 DEF ProcRecs, ProcPcs
    <3>7. proc' = [proc EXCEPT ![p] = r]
      BY <1>3, <2>2, <3>1, <3>2, <3>3
    <3> QED BY <3>6, <3>7
  <2> QED BY <1>5, <2>1, <2>2
<1>7. RecOK(r) /\ ~PcHasPtable(r.pc) /\ PcHasCons(r.pc) /\ ~PcHasPtable(proc[p].pc) /\ PcHasCons(proc[p].pc)
  BY <1>1, <1>5, <1>6 DEF RecOK, PcHasPtable, PcHasCons
<1>8. PcOK(r.pc, cpu[c])
  BY <1>1, <1>2, <1>5, <1>6 DEF PcOK, PcDepth, OwnPcs
<1>9. LocksInv'
  <2>1. cpu' = [cpu EXCEPT ![c] = cpu[c]] /\ LockStep(c)
    BY <1>3, <1>4, LocksSame
  <2> QED BY <1>1, <1>2, <1>4, <1>6, <1>7, <1>8, <2>1, ProcStep
<1> QED BY <1>4, <1>9 DEF Kept

(* A reader that finds nothing returns, or starts to take a second lock.   *)
LEMMA ReadEmptyKept ==
    ASSUME LocksInv, NEW c \in CPUs, NEW p \in Procs, ReadEmpty(c, p)
    PROVE  Kept
<1>1. On(c, p) /\ proc[p].pc = "read"
  BY DEF ReadEmpty, AtPc
<1>2. /\ cpu[c] \in CpuRecs /\ proc[p] \in ProcRecs
      /\ proc[p].state = "RUNNING" /\ RecOK(proc[p]) /\ PcOK(proc[p].pc, cpu[c])
      /\ lock["ptable"] = c <=> PcHasPtable(proc[p].pc)
      /\ lock["cons"] = c <=> PcHasCons(proc[p].pc)
  BY <1>1, Here
<1>3. ~PcHasPtable(proc[p].pc) /\ PcHasCons(proc[p].pc)
  BY <1>1 DEF PcHasPtable, PcHasCons
<1>4. CASE proc[p].killed
  <2>1. PICK r : r = [proc[p] EXCEPT !.pc = "return"]
    OBVIOUS
  <2>2. r \in ProcRecs /\ r.pc = "return" /\ r.state = "RUNNING"
    BY <1>2, <2>1 DEF ProcRecs, ProcPcs
  <2>3. RecOK(r) /\ ~PcHasPtable(r.pc) /\ PcHasCons(r.pc) /\ PcOK(r.pc, cpu[c])
    BY <1>1, <1>2, <2>2 DEF RecOK, PcHasPtable, PcHasCons, PcOK, PcDepth, OwnPcs
  <2>4. proc' = [proc EXCEPT ![p] = r] /\ UNCHANGED <<cpu, lock, cur, sch, hdl, panicked>>
    BY <1>4, <2>1 DEF ReadEmpty, Still, io
  <2>5. cpu' = [cpu EXCEPT ![c] = cpu[c]] /\ LockStep(c)
    <3>1. cpu \in [CPUs -> CpuRecs]
      BY DEF LocksInv, ConsoleType
    <3> QED BY <2>4, <3>1, LocksSame
  <2>6. LocksInv'
    BY <1>1, <1>2, <1>3, <2>2, <2>3, <2>4, <2>5, ProcStep
  <2> QED BY <2>4, <2>6 DEF Kept
<1>5. CASE ~proc[p].killed
  <2>1. PICK r : r = [proc[p] EXCEPT !.pc = "spinsleep"]
    OBVIOUS
  <2>2. r \in ProcRecs /\ r.pc = "spinsleep" /\ r.state = "RUNNING"
    BY <1>2, <2>1 DEF ProcRecs, ProcPcs
  <2>3. RecOK(r) /\ ~PcHasPtable(r.pc) /\ PcHasCons(r.pc)
    BY <2>2 DEF RecOK, PcHasPtable, PcHasCons
  <2>4. PcOK(r.pc, pushcli(cpu[c]))
    BY <1>1, <1>2, <2>2, Pushed DEF PcOK, PcDepth, OwnPcs
  <2>5. StartsAcquire(c, "ptable", p, r)
    BY <1>5, <2>1 DEF ReadEmpty
  <2> QED BY <1>1, <1>2, <1>3, <2>2, <2>3, <2>4, <2>5, TwoLocks, StartKept
<1> QED BY <1>4, <1>5

(* sched is entered as it should be, and leaves things as they should be. *)
LEMMA SchedKept ==
    ASSUME LocksInv, NEW c \in CPUs, NEW p \in Procs, On(c, p),
           NEW s \in CpuRecs, s.ncli = 1, ~s.fl, NEW q, hdl' = hdl,
           NEW x \in ProcPcs, NEW y \in States, q = [proc[p] EXCEPT !.pc = x, !.state = y],
           Sched(c, p, s, q), LockStep(c), lock'["ptable"] = c, lock'["cons"] # c,
           <<x, y, s.intena>> \in {<<"yielded", "RUNNABLE", FALSE>>, <<"slept", "SLEEPING", TRUE>>,
                                   <<"dead", "ZOMBIE", TRUE>>},
           x = "yielded" => proc[p].back \in {"user", "wake"}
    PROVE  LocksInv'
<1>1. proc[p] \in ProcRecs /\ s.intena \in BOOLEAN
  BY Here DEF CpuRecs
<1>2. PICK u : u = [proc[p] EXCEPT !.pc = x]
  OBVIOUS
<1>3. u \in ProcRecs /\ u.pc = x /\ u.back = proc[p].back
  BY <1>1, <1>2 DEF ProcRecs
<1>4. q = [u EXCEPT !.state = y]
  BY <1>2
<1>5. q \in ProcRecs /\ q.pc = x /\ q.state = y /\ q.back = proc[p].back
  BY <1>3, <1>4 DEF ProcRecs
<1>6. PICK r : r = [q EXCEPT !.intena = s.intena]
  OBVIOUS
<1>7. r \in ProcRecs /\ r.pc = x /\ r.state = y /\ r.back = proc[p].back /\ (r.intena <=> s.intena)
  BY <1>1, <1>5, <1>6 DEF ProcRecs
<1>8. r.state # "RUNNING" /\ RecOK(r)
  BY <1>7 DEF RecOK
<1> QED BY <1>6, <1>7, <1>8, SchedStep DEF Sched, SetCpu

(* yield enters sched with ptable.lock alone. *)
LEMMA YieldKept ==
    ASSUME LocksInv, NEW c \in CPUs, NEW p \in Procs, Yield(c, p)
    PROVE  Kept
<1>1. On(c, p) /\ proc[p].pc = "spinyield"
  BY DEF Yield, AtPc
<1>2. /\ cpu[c] \in CpuRecs /\ RecOK(proc[p]) /\ PcOK(proc[p].pc, cpu[c])
      /\ lock["cons"] = c <=> PcHasCons(proc[p].pc)
  BY <1>1, Here
<1>3. cpu[c].ncli = 1 /\ ~cpu[c].fl /\ cpu[c].intena = FALSE /\ proc[p].back \in {"user", "wake"} /\ lock["cons"] # c
  BY <1>1, <1>2 DEF PcOK, PcDepth, PcHasCons, RecOK, CpuRecs
<1>4. /\ Acquires(c, "ptable") /\ UNCHANGED <<hdl, panicked>>
      /\ Sched(c, p, cpu[c], [proc[p] EXCEPT !.pc = "yielded", !.state = "RUNNABLE"])
  BY <1>3 DEF Yield, Unless, SchedPanics, Still, io
<1>5. LockStep(c) /\ lock'["ptable"] = c /\ lock'["cons"] # c
  BY <1>3, <1>4, TwoLocks, Locked
<1>6. "yielded" \in ProcPcs /\ "RUNNABLE" \in States
  BY DEF ProcPcs, States
<1>7. LocksInv'
  BY <1>1, <1>2, <1>3, <1>4, <1>5, <1>6, SchedKept
<1> QED BY <1>4, <1>7 DEF Kept

(* So does exit. *)
LEMMA ExitKept ==
    ASSUME LocksInv, NEW c \in CPUs, NEW p \in Procs, Exit(c, p)
    PROVE  Kept
<1>1. On(c, p) /\ proc[p].pc = "spinexit"
  BY DEF Exit, AtPc
<1>2. /\ cpu[c] \in CpuRecs /\ PcOK(proc[p].pc, cpu[c])
      /\ lock["cons"] = c <=> PcHasCons(proc[p].pc)
  BY <1>1, Here
<1>3. cpu[c].ncli = 1 /\ ~cpu[c].fl /\ cpu[c].intena = TRUE /\ lock["cons"] # c
  BY <1>1, <1>2 DEF PcOK, PcDepth, OwnPcs, PcHasCons, CpuRecs
<1>4. /\ Acquires(c, "ptable") /\ UNCHANGED <<hdl, panicked>>
      /\ Sched(c, p, cpu[c], [proc[p] EXCEPT !.pc = "dead", !.state = "ZOMBIE"])
  BY <1>3 DEF Exit, Unless, SchedPanics, Still, io
<1>5. LockStep(c) /\ lock'["ptable"] = c /\ lock'["cons"] # c
  BY <1>3, <1>4, TwoLocks, Locked
<1>6. "dead" \in ProcPcs /\ "ZOMBIE" \in States
  BY DEF ProcPcs, States
<1>7. LocksInv'
  BY <1>1, <1>2, <1>3, <1>4, <1>5, <1>6, SchedKept
<1> QED BY <1>4, <1>7 DEF Kept

(* So does sleep, which has released cons.lock before. *)
LEMMA SleepKept ==
    ASSUME LocksInv, NEW c \in CPUs, NEW p \in Procs, Sleep(c, p)
    PROVE  Kept
<1>1. On(c, p) /\ proc[p].pc = "spinsleep" /\ lock["ptable"] = NoCpu
  BY DEF Sleep, AtPc
<1>2. /\ cpu[c] \in CpuRecs /\ PcOK(proc[p].pc, cpu[c])
      /\ lock["cons"] = c <=> PcHasCons(proc[p].pc)
  BY <1>1, Here
<1>3. cpu[c].ncli = 2 /\ ~cpu[c].fl /\ cpu[c].intena = TRUE /\ lock["cons"] = c
  BY <1>1, <1>2 DEF PcOK, PcDepth, OwnPcs, PcHasCons, CpuRecs
<1>4. PICK s : s = popcli(cpu[c])
  OBVIOUS
<1>5. s \in CpuRecs /\ s.ncli = 1 /\ ~s.fl /\ s.intena = TRUE
  BY <1>2, <1>3, <1>4, Popped DEF CpuRecs
<1>6. /\ lock' = [lock EXCEPT !["ptable"] = c, !["cons"] = NoCpu] /\ UNCHANGED <<hdl, panicked>>
      /\ Sched(c, p, s, [proc[p] EXCEPT !.pc = "slept", !.state = "SLEEPING"])
  BY <1>1, <1>4, <1>5, ConsReleases DEF Sleep, Unless, SchedPanics, Still, io
<1>7. LockStep(c) /\ lock'["ptable"] = c /\ lock'["cons"] # c
  <2>1. lock \in [Locks -> CPUs \cup {NoCpu}]
    BY DEF LocksInv, ConsoleType
  <2>2. lock' \in [Locks -> CPUs \cup {NoCpu}] /\ lock'["ptable"] = c /\ lock'["cons"] = NoCpu
    BY <1>6, <2>1, TwoLocks
  <2> QED BY <1>1, <1>3, <2>2, TwoLocks, SpinAssumption DEF LockStep
<1>8. "slept" \in ProcPcs /\ "SLEEPING" \in States
  BY DEF ProcPcs, States
<1>9. LocksInv'
  BY <1>1, <1>2, <1>5, <1>6, <1>7, <1>8, SchedKept
<1> QED BY <1>6, <1>9 DEF Kept

(* What holds in a scheduler. *)
LEMMA HereSched ==
    ASSUME LocksInv, NEW c \in CPUs, sch[c] # "swtch", ~Handling(c) \/ sch[c] # "idle"
    PROVE  /\ cur[c] = NoProc /\ ~Handling(c) /\ cpu[c] \in CpuRecs /\ PcOK(sch[c], cpu[c])
           /\ lock["ptable"] = c <=> PcHasPtable(sch[c])
           /\ lock["cons"] = c <=> PcHasCons(sch[c])
<1>1. CpuOK(c) /\ ConsoleType
  BY DEF LocksInv
<1>2. Pc(c) = sch[c] /\ sch[c] \in SchPcs /\ cpu[c] \in CpuRecs
  BY <1>1 DEF Pc, ConsoleType
<1>3. ~Handling(c)
  BY <1>1, <1>2 DEF CpuOK, SchPcs
<1> QED BY <1>1, <1>2, <1>3 DEF CpuOK

(* A scheduler starts to take ptable.lock. *)
LEMMA SchedLockKept ==
    ASSUME LocksInv, NEW c \in CPUs, SchedLock(c)
    PROVE  Kept
<1>1. sch[c] = "idle" /\ ~Handling(c)
  BY DEF SchedLock
<1>2. /\ cur[c] = NoProc /\ cpu[c] \in CpuRecs /\ PcOK(sch[c], cpu[c])
      /\ lock["ptable"] = c <=> PcHasPtable(sch[c])
      /\ lock["cons"] = c <=> PcHasCons(sch[c])
  BY <1>1, HereSched
<1>3. lock["ptable"] # c /\ lock["cons"] # c
  BY <1>1, <1>2 DEF PcHasPtable, PcHasCons
<1>4. /\ cpu' = [cpu EXCEPT ![c] = pushcli(cpu[c])] /\ sch' = [sch EXCEPT ![c] = "spin"]
      /\ UNCHANGED <<lock, cur, proc, hdl, panicked>>
  BY <1>3 DEF SchedLock, Unless, AcquirePanics, holding, Spins, Still, io
<1>5. pushcli(cpu[c]) \in CpuRecs /\ PcOK("spin", pushcli(cpu[c]))
  BY <1>1, <1>2, Pushed DEF PcOK, PcDepth, OwnPcs
<1>6. LocksInv'
  BY <1>1, <1>2, <1>3, <1>4, <1>5, LocksSame, IdleStep
<1> QED BY <1>4, <1>6 DEF Kept

(* It gives the lock back, and interrupts are on at the top of its loop.   *)
LEMMA SchedReleaseKept ==
    ASSUME LocksInv, NEW c \in CPUs, SchedRelease(c)
    PROVE  Kept
<1>1. sch[c] = "release"
  BY DEF SchedRelease
<1>2. /\ cur[c] = NoProc /\ ~Handling(c) /\ cpu[c] \in CpuRecs /\ PcOK(sch[c], cpu[c])
      /\ lock["ptable"] = c <=> PcHasPtable(sch[c])
      /\ lock["cons"] = c <=> PcHasCons(sch[c])
  BY <1>1, HereSched
<1>3. lock["ptable"] = c /\ lock["cons"] # c /\ cpu[c].ncli = 1 /\ ~cpu[c].fl
  BY <1>1, <1>2 DEF PcHasPtable, PcHasCons, PcOK, PcDepth
<1>4. PICK s : s = [popcli(cpu[c]) EXCEPT !.fl = TRUE]
  OBVIOUS
<1>5. /\ cpu' = [cpu EXCEPT ![c] = s] /\ sch' = [sch EXCEPT ![c] = "idle"]
      /\ lock' = Released("ptable") /\ UNCHANGED <<cur, proc, hdl, panicked>>
  BY <1>3, <1>4 DEF SchedRelease, Unless, ReleasePanics, PopPanics, holding, SetCpu, Still, io
<1>6. s \in CpuRecs /\ s.ncli = 0 /\ s.fl
  <2>1. PICK t : t = popcli(cpu[c])
    OBVIOUS
  <2>2. t \in CpuRecs /\ t.ncli = 0
    BY <1>2, <1>3, <2>1, Popped
  <2>3. s = [t EXCEPT !.fl = TRUE]
    BY <1>4, <2>1
  <2> QED BY <2>2, <2>3 DEF CpuRecs
<1>7. PcOK("idle", s)
  BY <1>6 DEF PcOK, PcDepth, OwnPcs
<1>8. LockStep(c) /\ lock'["ptable"] # c /\ lock'["cons"] # c
  BY <1>3, <1>5, TwoLocks, Unlocked
<1>9. LocksInv'
  BY <1>2, <1>5, <1>6, <1>7, <1>8, IdleStep
<1> QED BY <1>5, <1>9 DEF Kept

(* The process p comes to the CPU c. *)
LEMMA SwtchStep ==
    ASSUME LocksInv, NEW c \in CPUs, sch[c] = "spin", Acquires(c, "ptable"),
           NEW p \in Procs, proc[p].state = "RUNNABLE",
           proc' = [proc EXCEPT ![p].state = "RUNNING"],
           cur' = [cur EXCEPT ![c] = p], sch' = [sch EXCEPT ![c] = "swtch"],
           cpu' = cpu, hdl' = hdl
    PROVE  LocksInv'
<1>1. /\ cur[c] = NoProc /\ ~Handling(c) /\ cpu[c] \in CpuRecs /\ PcOK(sch[c], cpu[c])
      /\ lock["cons"] = c <=> PcHasCons(sch[c])
  BY HereSched
<1>2. cpu[c].ncli = 1 /\ ~cpu[c].fl /\ cpu[c].intena /\ lock["cons"] # c
  BY <1>1 DEF PcOK, PcDepth, OwnPcs, PcHasCons
<1>3. LockStep(c) /\ lock'["ptable"] = c /\ lock'["cons"] # c
  BY <1>2, TwoLocks, Locked
<1>4. ConsoleType /\ RunsSomewhere(p) /\ RecOK(proc[p]) /\ p # NoProc
  BY ConsoleAssumption DEF LocksInv
<1>5. PICK r : r = [proc[p] EXCEPT !.state = "RUNNING"]
  OBVIOUS
<1>6. r \in ProcRecs /\ r.pc = proc[p].pc /\ r.state = "RUNNING" /\ r.intena = proc[p].intena /\ r.back = proc[p].back
  BY <1>4, <1>5 DEF ConsoleType, ProcRecs, States
<1>7. RecOK(r) /\ r.pc \in {"new", "yielded", "slept"}
  BY <1>4, <1>6 DEF RecOK
<1>8. ConsoleType'
  <2>1. proc' \in [Procs -> ProcRecs]
    BY <1>4, <1>5, <1>6 DEF ConsoleType
  <2> QED BY <1>3, <1>4, <2>1 DEF ConsoleType, LockStep, SchPcs
<1>9. cur'[c] = p /\ sch'[c] = "swtch" /\ proc'[p] = r /\ \A q \in Procs \ {p} : proc'[q] = proc[q]
  BY <1>4, <1>5 DEF ConsoleType
<1>10. \A d \in CPUs \ {c} : cur'[d] = cur[d] /\ sch'[d] = sch[d] /\ cur[d] # p
  BY <1>4 DEF ConsoleType, RunsSomewhere
<1>11. OneCpuEach'
  BY <1>9, <1>10 DEF OneCpuEach, LocksInv
<1>12. CpuOK(c)'
  <2>1. ~Handling(c)'
    BY <1>1 DEF Handling
  <2>2. Pc(c)' = r.pc
    BY <1>9 DEF Pc
  <2>3. PcOK(r.pc, cpu[c]) /\ PcHasPtable(r.pc) /\ ~PcHasCons(r.pc)
    BY <1>2, <1>7 DEF PcOK, PcDepth, OwnPcs, PcHasPtable, PcHasCons
  <2> QED BY <1>3, <1>4, <1>9, <2>1, <2>2, <2>3 DEF CpuOK
<1>13. ASSUME NEW d \in CPUs, d # c
       PROVE  CpuOK(d)'
  <2>1. sch'[d] = sch[d] /\ cur'[d] = cur[d] /\ cur[d] # p
    BY <1>10, <1>13
  <2>2. cur[d] # NoProc => proc'[cur[d]].pc = proc[cur[d]].pc
    <3>1. cur[d] \in Procs \cup {NoProc}
      BY <1>4 DEF ConsoleType
    <3> QED BY <1>9, <2>1, <3>1
  <2> QED BY <1>3, <1>13, <2>1, <2>2, OthersKept
<1>14. ASSUME NEW q \in Procs
       PROVE  RunsSomewhere(q)' /\ RecOK(proc[q])'
  <2>1. RunsSomewhere(q) /\ RecOK(proc[q]) /\ q # NoProc
    BY ConsoleAssumption DEF LocksInv
  <2>2. CASE q = p
    <3>1. RunsSomewhere(p)'
      BY <1>6, <1>9 DEF RunsSomewhere
    <3>2. RecOK(proc[p])'
      BY <1>7, <1>9 DEF RecOK
    <3> QED BY <2>2, <3>1, <3>2
  <2>3. CASE q # p
    <3>1. proc'[q] = proc[q]
      BY <1>9, <2>3
    <3>2. (\E d \in CPUs : cur'[d] = q) <=> (\E d \in CPUs : cur[d] = q)
      BY <1>1, <1>9, <1>10, <2>1, <2>3
    <3> QED BY <2>1, <3>1, <3>2 DEF RunsSomewhere, RecOK
  <2> QED BY <2>2, <2>3
<1> QED BY <1>8, <1>11, <1>12, <1>13, <1>14 DEF LocksInv

(* It picks a process, which gets the lock with the CPU, or nobody. *)
LEMMA SchedPickKept ==
    ASSUME LocksInv, NEW c \in CPUs, SchedPick(c)
    PROVE  Kept
<1>1. sch[c] = "spin" /\ Acquires(c, "ptable") /\ UNCHANGED <<cpu, hdl, panicked>>
  BY DEF SchedPick, Still, io
<1>2. CASE \E p \in Procs :
             /\ proc[p].state = "RUNNABLE"
             /\ proc' = [proc EXCEPT ![p].state = "RUNNING"]
             /\ cur' = [cur EXCEPT ![c] = p]
             /\ sch' = [sch EXCEPT ![c] = "swtch"]
  <2>1. LocksInv'
    BY <1>1, <1>2, SwtchStep
  <2> QED BY <1>1, <2>1 DEF Kept
<1>3. CASE sch' = [sch EXCEPT ![c] = "release"] /\ UNCHANGED <<cur, proc>>
  <2>1. /\ cur[c] = NoProc /\ ~Handling(c) /\ cpu[c] \in CpuRecs /\ PcOK(sch[c], cpu[c])
        /\ lock["cons"] = c <=> PcHasCons(sch[c])
    BY <1>1, HereSched
  <2>2. PcOK("release", cpu[c]) /\ lock["cons"] # c
    BY <1>1, <2>1 DEF PcOK, PcDepth, OwnPcs, PcHasCons
  <2>3. LockStep(c) /\ lock'["ptable"] = c /\ lock'["cons"] # c
    BY <1>1, <2>2, TwoLocks, Locked
  <2>4. cpu' = [cpu EXCEPT ![c] = cpu[c]]
    BY <1>1 DEF LocksInv, ConsoleType
  <2>5. LocksInv'
    BY <1>1, <1>3, <2>1, <2>2, <2>3, <2>4, IdleStep
  <2> QED BY <1>1, <2>5 DEF Kept
<1> QED BY <1>2, <1>3 DEF SchedPick

(* What holds in the interrupt handler. *)
LEMMA HereHdl ==
    ASSUME LocksInv, hdl.pc # "none"
    PROVE  /\ Bsp \in CPUs /\ Handling(Bsp) /\ cpu[Bsp] \in CpuRecs /\ hdl \in [pc : HdlPcs, dump : BOOLEAN]
           /\ HdlOK(hdl.pc, cpu[Bsp]) /\ Pc(Bsp) \in {"idle", "user", "wake"}
           /\ lock["ptable"] = Bsp <=> HdlHasPtable(hdl.pc)
           /\ lock["cons"] = Bsp <=> HdlHasCons(hdl.pc)
<1>1. Bsp \in CPUs /\ Handling(Bsp)
  BY ConsoleAssumption DEF Handling
<1>2. CpuOK(Bsp) /\ ConsoleType
  BY <1>1 DEF LocksInv
<1> QED BY <1>1, <1>2 DEF CpuOK, ConsoleType

(* A step that leaves the processes alone is one that a wakeup may do. *)
LEMMA WokenSame ==
    ASSUME LocksInv, proc' = proc
    PROVE  Woken
BY DEF Woken, LocksInv, ConsoleType

(* The handler starts where interrupts are on: its CPU has no lock. *)
LEMMA InterruptKept ==
    ASSUME LocksInv, Interrupt
    PROVE  Kept
<1>1. Bsp \in CPUs /\ cpu[Bsp].fl
  BY ConsoleAssumption DEF Interrupt
<1>2. CpuOK(Bsp) /\ cpu[Bsp] \in CpuRecs
  BY <1>1 DEF LocksInv, ConsoleType
<1>3. ~Handling(Bsp)
  BY <1>1, <1>2 DEF CpuOK, HdlOK
<1>4. Pc(Bsp) \in {"idle", "user", "wake"} /\ cpu[Bsp].ncli = 0
  BY <1>1, <1>2, <1>3 DEF CpuOK, PcOK, PcDepth
<1>5. lock["ptable"] # Bsp /\ lock["cons"] # Bsp
  BY <1>2, <1>3, <1>4 DEF CpuOK, PcHasPtable, PcHasCons
<1>6. PICK g : g = Gate(Bsp)
  OBVIOUS
<1>7. PICK h : h = [pc |-> "spin", dump |-> FALSE]
  OBVIOUS
<1>8. cpu' = [cpu EXCEPT ![Bsp] = pushcli(g)] /\ hdl' = h /\ UNCHANGED <<lock, cur, sch, proc, panicked>>
  BY <1>5, <1>6, <1>7 DEF Interrupt, Unless, AcquirePanics, holding, Spins, Still, thread
<1>9. g \in CpuRecs /\ g.ncli = 0 /\ ~g.fl
  BY <1>2, <1>4, <1>6 DEF Gate, CpuRecs
<1>10. pushcli(g) \in CpuRecs /\ HdlOK("spin", pushcli(g))
  BY <1>9, Pushed DEF HdlOK, HdlDepth
<1>11. h \in [pc : HdlPcs, dump : BOOLEAN] /\ h.pc = "spin" /\ h.pc # "none"
  BY <1>7 DEF HdlPcs
<1>12. ~HdlHasPtable(h.pc) /\ ~HdlHasCons(h.pc) /\ HdlOK(h.pc, pushcli(g))
  BY <1>10, <1>11 DEF HdlHasPtable, HdlHasCons
<1>13. LocksInv'
  <2>1. Woken /\ LockStep(Bsp)
    BY <1>1, <1>8, WokenSame, LocksSame
  <2> QED BY <1>4, <1>5, <1>8, <1>10, <1>11, <1>12, <2>1, HdlStep
<1> QED BY <1>8, <1>13 DEF Kept

(* A device gets something more. *)
LEMMA MoreArrivesKept ==
    ASSUME LocksInv, MoreArrives
    PROVE  Kept
BY DEF MoreArrives, Still, thread, Kept, LocksInv, ConsoleType, OneCpuEach, CpuOK, RunsSomewhere,
       RecOK, Handling, Pc

(* The handler gets a lock. *)
LEMMA HdlLocked ==
    ASSUME LocksInv, NEW l \in Locks, Acquires(Bsp, l), NEW x \in HdlPcs,
           <<hdl.pc, l, x>> \in {<<"spin", "cons", "getc">>, <<"spinwake", "ptable", "wakeup">>,
                                 <<"spindump", "cons", "dump">>},
           hdl' = [hdl EXCEPT !.pc = x], UNCHANGED <<cpu, cur, sch, proc>>
    PROVE  LocksInv'
<1>1. hdl.pc # "none"
  OBVIOUS
<1>2. /\ Bsp \in CPUs /\ cpu[Bsp] \in CpuRecs /\ hdl \in [pc : HdlPcs, dump : BOOLEAN]
      /\ HdlOK(hdl.pc, cpu[Bsp]) /\ Pc(Bsp) \in {"idle", "user", "wake"}
      /\ lock["ptable"] = Bsp <=> HdlHasPtable(hdl.pc)
      /\ lock["cons"] = Bsp <=> HdlHasCons(hdl.pc)
  BY <1>1, HereHdl
<1>3. LockStep(Bsp) /\ lock'[l] = Bsp /\ \A m \in Locks \ {l} : lock'[m] = lock[m]
  BY <1>2, Locked
<1>4. PICK h : h = [hdl EXCEPT !.pc = x]
  OBVIOUS
<1>5. h \in [pc : HdlPcs, dump : BOOLEAN] /\ h.pc = x /\ h.pc # "none"
  BY <1>2, <1>4
<1>6. HdlOK(h.pc, cpu[Bsp])
  BY <1>2, <1>5 DEF HdlOK, HdlDepth
<1>7. (lock'["ptable"] = Bsp <=> HdlHasPtable(h.pc)) /\ (lock'["cons"] = Bsp <=> HdlHasCons(h.pc))
  BY <1>2, <1>3, <1>5, TwoLocks DEF HdlHasPtable, HdlHasCons
<1>8. cpu' = [cpu EXCEPT ![Bsp] = cpu[Bsp]] /\ Woken
  BY WokenSame DEF LocksInv, ConsoleType
<1> QED BY <1>2, <1>3, <1>4, <1>5, <1>6, <1>7, <1>8, HdlStep

(* The handler gets the lock it waits for. *)
LEMMA IntrAcquireKept ==
    ASSUME LocksInv, IntrAcquire
    PROVE  Kept
<1>1. UNCHANGED <<cpu, cur, sch, proc, panicked>>
  BY DEF IntrAcquire, thread, Still
<1>2. LocksInv'
  <2>1. CASE hdl.pc = "spin" /\ Acquires(Bsp, "cons") /\ hdl' = [hdl EXCEPT !.pc = "getc"]
    BY <1>1, <2>1, TwoLocks, HdlLocked DEF HdlPcs
  <2>2. CASE hdl.pc = "spinwake" /\ Acquires(Bsp, "ptable") /\ hdl' = [hdl EXCEPT !.pc = "wakeup"]
    BY <1>1, <2>2, TwoLocks, HdlLocked DEF HdlPcs
  <2>3. CASE hdl.pc = "spindump" /\ Acquires(Bsp, "cons") /\ hdl' = [hdl EXCEPT !.pc = "dump"]
    BY <1>1, <2>3, TwoLocks, HdlLocked DEF HdlPcs
  <2> QED BY <2>1, <2>2, <2>3 DEF IntrAcquire
<1> QED BY <1>1, <1>2 DEF Kept

(* One turn of the loop, with the start of the wakeup. *)
LEMMA IntrGetcKept ==
    ASSUME LocksInv, IntrGetc
    PROVE  Kept
<1> DEFINE x == Edit(input, Got.c)
<1>1. hdl.pc = "getc"
  BY DEF IntrGetc
<1>2. /\ Bsp \in CPUs /\ cpu[Bsp] \in CpuRecs /\ hdl \in [pc : HdlPcs, dump : BOOLEAN]
      /\ HdlOK(hdl.pc, cpu[Bsp]) /\ Pc(Bsp) \in {"idle", "user", "wake"}
      /\ lock["ptable"] = Bsp <=> HdlHasPtable(hdl.pc)
      /\ lock["cons"] = Bsp <=> HdlHasCons(hdl.pc)
  BY <1>1, HereHdl
<1>3. lock["ptable"] # Bsp /\ lock["cons"] = Bsp
  BY <1>1, <1>2 DEF HdlHasPtable, HdlHasCons
<1>4. CASE consputc(pos, x.echo) < 0
  <2>1. Halt
    BY <1>4 DEF IntrGetc, Unless
  <2>2. OutputPanics
    BY <1>4 DEF OutputPanics, Outputs
  <2> QED BY <2>1, <2>2, HaltKept DEF Kept
<1>5. CASE ~(consputc(pos, x.echo) < 0)
  <2>1. /\ IF x.wake THEN Spins(Bsp, cpu[Bsp]) ELSE UNCHANGED cpu
        /\ hdl' = [pc |-> IF x.wake THEN "spinwake" ELSE "getc", dump |-> hdl.dump \/ Got.c = "^P"]
        /\ UNCHANGED <<lock, cur, sch, proc, panicked>>
    BY <1>3, <1>5 DEF IntrGetc, Unless, AcquirePanics, holding, thread, Still
  <2>2. PICK h : h = [pc |-> IF x.wake THEN "spinwake" ELSE "getc", dump |-> hdl.dump \/ Got.c = "^P"]
    OBVIOUS
  <2>3. h \in [pc : HdlPcs, dump : BOOLEAN] /\ h.pc = IF x.wake THEN "spinwake" ELSE "getc"
    <3>1. (hdl.dump \/ Got.c = "^P") \in BOOLEAN
      OBVIOUS
    <3> HIDE DEF x
    <3> QED BY <2>2, <3>1 DEF HdlPcs
  <2>4. PICK s \in CpuRecs : cpu' = [cpu EXCEPT ![Bsp] = s] /\ HdlOK(h.pc, s)
    <3> HIDE DEF x
    <3>1. CASE x.wake
      <4>1. pushcli(cpu[Bsp]) \in CpuRecs /\ HdlOK("spinwake", pushcli(cpu[Bsp]))
        BY <1>1, <1>2, Pushed DEF HdlOK, HdlDepth
      <4> QED BY <2>1, <2>3, <3>1, <4>1 DEF Spins
    <3>2. CASE ~x.wake
      <4>1. cpu' = [cpu EXCEPT ![Bsp] = cpu[Bsp]]
        BY <2>1, <3>2 DEF LocksInv, ConsoleType
      <4> QED BY <1>1, <1>2, <2>3, <3>2, <4>1
    <3> QED BY <3>1, <3>2
  <2>5. h.pc # "none" /\ ~HdlHasPtable(h.pc) /\ HdlHasCons(h.pc)
    BY <2>3 DEF HdlHasPtable, HdlHasCons
  <2>6. Woken /\ LockStep(Bsp)
    BY <1>2, <2>1, WokenSame, LocksSame
  <2>7. LocksInv'
    BY <1>2, <1>3, <2>1, <2>2, <2>3, <2>4, <2>5, <2>6, HdlStep
  <2> QED BY <2>1, <2>7 DEF Kept
<1> QED BY <1>4, <1>5

(* The wakeup, and the release of the second lock. *)
LEMMA IntrWakeupKept ==
    ASSUME LocksInv, IntrWakeup
    PROVE  Kept
<1>1. hdl.pc = "wakeup"
  BY DEF IntrWakeup
<1>2. /\ Bsp \in CPUs /\ cpu[Bsp] \in CpuRecs /\ hdl \in [pc : HdlPcs, dump : BOOLEAN]
      /\ HdlOK(hdl.pc, cpu[Bsp]) /\ Pc(Bsp) \in {"idle", "user", "wake"}
      /\ lock["ptable"] = Bsp <=> HdlHasPtable(hdl.pc)
      /\ lock["cons"] = Bsp <=> HdlHasCons(hdl.pc)
  BY <1>1, HereHdl
<1>3. lock["ptable"] = Bsp /\ lock["cons"] = Bsp /\ cpu[Bsp].ncli = 2 /\ ~cpu[Bsp].fl /\ ~cpu[Bsp].intena
  BY <1>1, <1>2 DEF HdlHasPtable, HdlHasCons, HdlOK, HdlDepth
<1>4. /\ proc' = [p \in Procs |-> IF proc[p].state = "SLEEPING"
                                  THEN [proc[p] EXCEPT !.state = "RUNNABLE"] ELSE proc[p]]
      /\ lock' = Released("ptable") /\ SetCpu(Bsp, popcli(cpu[Bsp]))
      /\ hdl' = [hdl EXCEPT !.pc = "getc"] /\ UNCHANGED <<cur, sch, panicked>>
  BY <1>3 DEF IntrWakeup, Unless, ReleasePanics, PopPanics, holding, Still
<1>5. Woken
  <2>1. proc \in [Procs -> ProcRecs]
    BY DEF LocksInv, ConsoleType
  <2>2. ASSUME NEW p \in Procs
        PROVE  /\ proc'[p] \in ProcRecs /\ proc'[p].pc = proc[p].pc /\ proc'[p].back = proc[p].back
               /\ proc'[p].intena = proc[p].intena
               /\ \/ proc'[p].state = proc[p].state
                  \/ proc[p].state = "SLEEPING" /\ proc'[p].state = "RUNNABLE"
    <3>1. proc[p] \in ProcRecs
      BY <2>1
    <3>2. CASE proc[p].state = "SLEEPING"
      <4>1. proc'[p] = [proc[p] EXCEPT !.state = "RUNNABLE"]
        BY <1>4, <3>2
      <4> QED BY <3>1, <3>2, <4>1 DEF ProcRecs, States
    <3>3. CASE proc[p].state # "SLEEPING"
      BY <1>4, <3>1, <3>3
    <3> QED BY <3>2, <3>3
  <2>3. proc' \in [Procs -> ProcRecs]
    BY <1>4, <2>2
  <2> QED BY <2>2, <2>3 DEF Woken
<1>6. LockStep(Bsp) /\ lock'["ptable"] # Bsp /\ lock'["cons"] = Bsp
  BY <1>2, <1>3, <1>4, TwoLocks, Unlocked
<1>7. popcli(cpu[Bsp]) \in CpuRecs /\ HdlOK("getc", popcli(cpu[Bsp]))
  BY <1>2, <1>3, Popped DEF HdlOK, HdlDepth
<1>8. PICK h : h = [hdl EXCEPT !.pc = "getc"]
  OBVIOUS
<1>9. h \in [pc : HdlPcs, dump : BOOLEAN] /\ h.pc = "getc"
  BY <1>2, <1>8 DEF HdlPcs
<1>10. h.pc # "none" /\ ~HdlHasPtable(h.pc) /\ HdlHasCons(h.pc)
  BY <1>9 DEF HdlHasPtable, HdlHasCons
<1>11. LocksInv'
  BY <1>2, <1>4, <1>5, <1>6, <1>7, <1>8, <1>9, <1>10, HdlStep DEF SetCpu
<1> QED BY <1>4, <1>11 DEF Kept

(* The end of the loop, with the start of the dump. *)
LEMMA IntrDoneKept ==
    ASSUME LocksInv, IntrDone
    PROVE  Kept
<1>1. hdl.pc = "getc"
  BY DEF IntrDone
<1>2. /\ Bsp \in CPUs /\ cpu[Bsp] \in CpuRecs /\ hdl \in [pc : HdlPcs, dump : BOOLEAN]
      /\ HdlOK(hdl.pc, cpu[Bsp]) /\ Pc(Bsp) \in {"idle", "user", "wake"}
      /\ lock["ptable"] = Bsp <=> HdlHasPtable(hdl.pc)
      /\ lock["cons"] = Bsp <=> HdlHasCons(hdl.pc)
  BY <1>1, HereHdl
<1>3. lock["ptable"] # Bsp /\ lock["cons"] = Bsp /\ cpu[Bsp].ncli = 1 /\ ~cpu[Bsp].fl /\ ~cpu[Bsp].intena
  BY <1>1, <1>2 DEF HdlHasPtable, HdlHasCons, HdlOK, HdlDepth
<1>4. /\ lock' = Released("cons")
      /\ IF hdl.dump THEN Spins(Bsp, popcli(cpu[Bsp])) ELSE SetCpu(Bsp, popcli(cpu[Bsp]))
      /\ hdl' = [hdl EXCEPT !.pc = IF hdl.dump THEN "spindump" ELSE "iret"]
      /\ UNCHANGED <<cur, sch, proc, panicked>>
  BY <1>3 DEF IntrDone, Unless, ReleasePanics, PopPanics, holding, Still, thread
<1>5. PICK t : t = popcli(cpu[Bsp])
  OBVIOUS
<1>6. t \in CpuRecs /\ t.ncli = 0 /\ ~t.fl /\ ~t.intena
  BY <1>2, <1>3, <1>5, Popped
<1>7. PICK h : h = [hdl EXCEPT !.pc = IF hdl.dump THEN "spindump" ELSE "iret"]
  OBVIOUS
<1>8. h \in [pc : HdlPcs, dump : BOOLEAN] /\ h.pc = IF hdl.dump THEN "spindump" ELSE "iret"
  BY <1>2, <1>7 DEF HdlPcs
<1>9. PICK s \in CpuRecs : cpu' = [cpu EXCEPT ![Bsp] = s] /\ HdlOK(h.pc, s)
  <2>1. CASE hdl.dump
    <3>1. pushcli(t) \in CpuRecs /\ HdlOK("spindump", pushcli(t))
      BY <1>6, Pushed DEF HdlOK, HdlDepth
    <3> QED BY <1>4, <1>5, <1>8, <2>1, <3>1 DEF Spins
  <2>2. CASE ~hdl.dump
    <3>1. HdlOK("iret", t)
      BY <1>6 DEF HdlOK, HdlDepth
    <3> QED BY <1>4, <1>5, <1>6, <1>8, <2>2, <3>1 DEF SetCpu
  <2> QED BY <2>1, <2>2
<1>10. h.pc # "none" /\ ~HdlHasPtable(h.pc) /\ ~HdlHasCons(h.pc)
  BY <1>8 DEF HdlHasPtable, HdlHasCons
<1>11. LockStep(Bsp) /\ lock'["cons"] # Bsp /\ lock'["ptable"] # Bsp /\ Woken
  BY <1>2, <1>3, <1>4, TwoLocks, Unlocked, WokenSame
<1>12. LocksInv'
  BY <1>2, <1>4, <1>7, <1>8, <1>9, <1>10, <1>11, HdlStep
<1> QED BY <1>4, <1>12 DEF Kept

(* The dump. *)
LEMMA IntrDumpKept ==
    ASSUME LocksInv, IntrDump
    PROVE  Kept
<1>1. hdl.pc = "dump"
  BY DEF IntrDump
<1>2. /\ Bsp \in CPUs /\ cpu[Bsp] \in CpuRecs
      /\ HdlOK(hdl.pc, cpu[Bsp]) /\ Pc(Bsp) \in {"idle", "user", "wake"}
      /\ lock["ptable"] = Bsp <=> HdlHasPtable(hdl.pc)
      /\ lock["cons"] = Bsp <=> HdlHasCons(hdl.pc)
  BY <1>1, HereHdl
<1>3. lock["ptable"] # Bsp /\ lock["cons"] = Bsp /\ cpu[Bsp].ncli = 1 /\ ~cpu[Bsp].fl /\ ~cpu[Bsp].intena
  BY <1>1, <1>2 DEF HdlHasPtable, HdlHasCons, HdlOK, HdlDepth
<1>4. CASE consputc(pos, <<"x", "nl">>) < 0
  <2>1. Halt
    BY <1>4 DEF IntrDump, Unless
  <2>2. OutputPanics
    BY <1>4 DEF OutputPanics, Outputs
  <2> QED BY <2>1, <2>2, HaltKept DEF Kept
<1>5. CASE ~(consputc(pos, <<"x", "nl">>) < 0)
  <2>1. /\ lock' = Released("cons") /\ SetCpu(Bsp, popcli(cpu[Bsp]))
        /\ hdl' = [pc |-> "iret", dump |-> FALSE] /\ UNCHANGED <<cur, sch, proc, panicked>>
    BY <1>3, <1>5 DEF IntrDump, Unless, ReleasePanics, PopPanics, holding, Still, thread
  <2>2. PICK h : h = [pc |-> "iret", dump |-> FALSE]
    OBVIOUS
  <2>3. h \in [pc : HdlPcs, dump : BOOLEAN] /\ h.pc = "iret" /\ h.pc # "none"
    BY <2>2 DEF HdlPcs
  <2>4. popcli(cpu[Bsp]) \in CpuRecs /\ HdlOK("iret", popcli(cpu[Bsp]))
    BY <1>2, <1>3, Popped DEF HdlOK, HdlDepth
  <2>5. LockStep(Bsp) /\ lock'["cons"] # Bsp /\ lock'["ptable"] # Bsp /\ Woken
    BY <1>2, <1>3, <2>1, TwoLocks, Unlocked, WokenSame
  <2>6. ~HdlHasPtable(h.pc) /\ ~HdlHasCons(h.pc)
    BY <2>3 DEF HdlHasPtable, HdlHasCons
  <2>7. LocksInv'
    BY <1>2, <2>1, <2>2, <2>3, <2>4, <2>5, <2>6, HdlStep DEF SetCpu
  <2> QED BY <2>1, <2>7 DEF Kept
<1> QED BY <1>4, <1>5

(* The return from the interrupt turns interrupts on again. *)
LEMMA IntrReturnKept ==
    ASSUME LocksInv, IntrReturn
    PROVE  Kept
<1>1. hdl.pc = "iret"
  BY DEF IntrReturn
<1>2. /\ Bsp \in CPUs /\ cpu[Bsp] \in CpuRecs /\ hdl \in [pc : HdlPcs, dump : BOOLEAN]
      /\ HdlOK(hdl.pc, cpu[Bsp]) /\ Pc(Bsp) \in {"idle", "user", "wake"}
      /\ lock["ptable"] = Bsp <=> HdlHasPtable(hdl.pc)
      /\ lock["cons"] = Bsp <=> HdlHasCons(hdl.pc)
  BY <1>1, HereHdl
<1>3. lock["ptable"] # Bsp /\ lock["cons"] # Bsp /\ cpu[Bsp].ncli = 0
  BY <1>1, <1>2 DEF HdlHasPtable, HdlHasCons, HdlOK, HdlDepth
<1>4. PICK s : s = [cpu[Bsp] EXCEPT !.fl = TRUE]
  OBVIOUS
<1>5. /\ cpu' = [cpu EXCEPT ![Bsp] = s] /\ hdl' = [hdl EXCEPT !.pc = "none"]
      /\ UNCHANGED <<lock, cur, sch, proc, panicked>>
  BY <1>4 DEF IntrReturn, SetCpu, thread, Still
<1>6. s \in CpuRecs /\ s.ncli = 0 /\ s.fl
  BY <1>2, <1>3, <1>4 DEF CpuRecs
<1>7. ConsoleType /\ CpuOK(Bsp)
  BY <1>2 DEF LocksInv
<1>8. hdl' \in [pc : HdlPcs, dump : BOOLEAN] /\ hdl'.pc = "none"
  BY <1>2, <1>5 DEF HdlPcs
<1>9. ConsoleType'
  BY <1>5, <1>6, <1>7, <1>8 DEF ConsoleType
<1>10. CpuOK(Bsp)'
  <2>1. ~Handling(Bsp)' /\ Pc(Bsp)' = Pc(Bsp) /\ cpu'[Bsp] = s
    BY <1>2, <1>5, <1>7, <1>8 DEF Handling, Pc, ConsoleType
  <2>2. PcOK(Pc(Bsp), s) /\ ~PcHasPtable(Pc(Bsp)) /\ ~PcHasCons(Pc(Bsp))
    BY <1>2, <1>6 DEF PcOK, PcDepth, OwnPcs, PcHasPtable, PcHasCons
  <2> QED BY <1>3, <1>5, <1>7, <2>1, <2>2 DEF CpuOK
<1>11. ASSUME NEW d \in CPUs, d # Bsp
       PROVE  CpuOK(d)'
  <2>1. cpu'[d] = cpu[d] /\ LockStep(Bsp)
    BY <1>2, <1>5, <1>7, <1>11, LocksSame DEF ConsoleType
  <2> QED BY <1>2, <1>5, <1>11, <2>1, OthersKept
<1>12. LocksInv'
  <2>1. Woken
    BY <1>5, WokenSame
  <2> QED BY <1>5, <1>9, <1>10, <1>11, <2>1, WokenKept DEF LocksInv
<1> QED BY <1>5, <1>12 DEF Kept

(* kill takes nobody from a CPU. *)
LEMMA KillKept ==
    ASSUME LocksInv, NEW p \in Procs, Kill(p)
    PROVE  Kept
<1>1. /\ proc' = [proc EXCEPT ![p].killed = TRUE,
                              ![p].state = IF @ = "SLEEPING" THEN "RUNNABLE" ELSE @]
      /\ UNCHANGED <<cpu, lock, cur, sch, hdl, panicked>>
  BY DEF Kill, io, Still
<1>2. ConsoleType
  BY DEF LocksInv
<1>3. proc[p] \in ProcRecs /\ proc \in [Procs -> ProcRecs]
  BY <1>2 DEF ConsoleType
<1>4. Woken
  <2>1. PICK q : q = [proc[p] EXCEPT !.killed = TRUE]
    OBVIOUS
  <2>2. PICK r : r = [q EXCEPT !.state = IF q.state = "SLEEPING" THEN "RUNNABLE" ELSE q.state]
    OBVIOUS
  <2>3. q \in ProcRecs /\ q.pc = proc[p].pc /\ q.back = proc[p].back /\ q.intena = proc[p].intena /\ q.state = proc[p].state
    BY <1>3, <2>1 DEF ProcRecs
  <2>4. /\ r \in ProcRecs /\ r.pc = proc[p].pc /\ r.back = proc[p].back /\ r.intena = proc[p].intena
        /\ r.state = IF proc[p].state = "SLEEPING" THEN "RUNNABLE" ELSE proc[p].state
    BY <2>2, <2>3 DEF ProcRecs, States
  <2>5. proc' = [proc EXCEPT ![p] = r]
    BY <1>1, <1>3, <2>1, <2>2
  <2> QED BY <1>3, <2>4, <2>5 DEF Woken
<1>5. LocksInv'
  <2>1. ConsoleType'
    BY <1>1, <1>2, <1>4 DEF ConsoleType, Woken
  <2>2. ASSUME NEW c \in CPUs
        PROVE  CpuOK(c)'
    <3>1. CpuOK(c) /\ Pc(c)' = Pc(c)
      BY <1>1, <1>4, WokenKept DEF LocksInv
    <3> QED BY <1>1, <3>1 DEF CpuOK, Handling
  <2> QED BY <1>1, <1>4, <2>1, <2>2, WokenKept DEF LocksInv
<1> QED BY <1>1, <1>5 DEF Kept

----------------------------------------------------------------------------
(* The theorems on locks and interrupts *)

(* At the start every CPU is in its scheduler, without locks. *)
LEMMA InitLocks ==
    ASSUME Init
    PROVE  LocksInv
<1>1. /\ cpu = [c \in CPUs |-> [fl |-> TRUE, ncli |-> 0, intena |-> FALSE]]
      /\ lock = [l \in Locks |-> NoCpu]
      /\ cur = [c \in CPUs |-> NoProc] /\ sch = [c \in CPUs |-> "idle"]
      /\ hdl = [pc |-> "none", dump |-> FALSE]
  BY DEF Init
<1>2. PICK s \in Setups : proc = [p \in Procs |->
            [pc |-> "new", back |-> "user",
             state |-> IF p \in s.procs THEN "RUNNABLE" ELSE "UNUSED", intena |-> FALSE,
             n |-> 0, got |-> 0, killed |-> FALSE]]
  BY DEF Init
<1>3. ConsoleType
  <2>1. proc \in [Procs -> ProcRecs]
    BY <1>2 DEF ProcRecs, ProcPcs, States
  <2>2. cpu \in [CPUs -> CpuRecs]
    BY <1>1 DEF CpuRecs
  <2> QED BY <1>1, <2>1, <2>2 DEF ConsoleType, SchPcs, HdlPcs
<1>4. ASSUME NEW c \in CPUs
      PROVE  CpuOK(c)
  <2>1. ~Handling(c) /\ Pc(c) = "idle" /\ cpu[c].fl /\ cpu[c].ncli = 0
    BY <1>1 DEF Handling, Pc
  <2>2. lock["ptable"] # c /\ lock["cons"] # c
    BY <1>1, TwoLocks, SpinAssumption
  <2> QED BY <1>1, <2>1, <2>2 DEF CpuOK, PcOK, PcDepth, OwnPcs, PcHasPtable, PcHasCons
<1>5. ASSUME NEW p \in Procs
      PROVE  RunsSomewhere(p) /\ RecOK(proc[p])
  <2>1. proc[p].pc = "new" /\ proc[p].state \in {"RUNNABLE", "UNUSED"} /\ p # NoProc
    BY <1>2, ConsoleAssumption
  <2>2. RunsSomewhere(p)
    BY <1>1, <2>1 DEF RunsSomewhere
  <2>3. RecOK(proc[p])
    BY <2>1 DEF RecOK
  <2> QED BY <2>2, <2>3
<1> QED BY <1>1, <1>3, <1>4, <1>5 DEF LocksInv, OneCpuEach

(* Every step keeps the locks in order. *)
LEMMA StepKept ==
    ASSUME LocksInv, [Next]_vars
    PROVE  Kept
<1>1. CASE UNCHANGED vars
  BY <1>1 DEF vars, thread, io, Kept, LocksInv, ConsoleType, OneCpuEach, CpuOK, RunsSomewhere,
     RecOK, Handling, Pc
<1>2. CASE Interrupt \/ MoreArrives \/ IntrAcquire \/ IntrGetc \/ IntrWakeup \/ IntrDone \/ IntrDump \/ IntrReturn
  BY <1>2, InterruptKept, MoreArrivesKept, IntrAcquireKept, IntrGetcKept, IntrWakeupKept,
     IntrDoneKept, IntrDumpKept, IntrReturnKept
<1>3. ASSUME NEW c \in CPUs, SchedLock(c) \/ SchedPick(c) \/ SchedRelease(c)
      PROVE  Kept
  BY <1>3, SchedLockKept, SchedPickKept, SchedReleaseKept
<1>4. ASSUME NEW c \in CPUs, NEW p \in Procs, Runs(c, p)
      PROVE  Kept
  BY <1>4, ResumeKept, TimerKept, YieldKept, TimerReturnKept, ReadStartKept, OtherStartsKept,
     ProcAcquireKept, WriteKept, ReadCharKept, ReadEmptyKept, ReadReturnKept, SleepKept, ExitKept
     DEF Runs
<1>5. CASE \E p \in Procs : Kill(p)
  BY <1>5, KillKept
<1> QED BY <1>1, <1>2, <1>3, <1>4, <1>5 DEF Next

(* Every CPU's interrupt flag, ncli, intena and locks are those of the     *)
(* place it is at, whatever ran on it before (spinlock.c:103-127,          *)
(* proc.c:551-564).                                                        *)
THEOREM LocksSafe == Spec => []LocksInv
<1>1. Init => LocksInv
  BY InitLocks
<1>2. LocksInv /\ [Next]_vars => LocksInv'
  BY StepKept DEF Kept
<1> QED BY <1>1, <1>2, PTL DEF Spec

(* Interrupts are off on a CPU exactly while it holds or waits for a lock  *)
(* or serves an interrupt.                                                 *)
THEOREM InterruptsSafe == Spec => []InterruptsMatch
<1>1. LocksInv => InterruptsMatch
  <2>1. ASSUME LocksInv, NEW c \in CPUs
        PROVE  cpu[c].fl <=> cpu[c].ncli = 0 /\ ~Handling(c) /\ ~Waits(c)
    <3>1. CpuOK(c) /\ sch[c] \in SchPcs
      BY <2>1 DEF LocksInv, ConsoleType
    <3>2. Waits(c) <=> Pc(c) = "iret"
      BY <3>1 DEF CpuOK, Waits, Pc, SchPcs
    <3> QED BY <3>1, <3>2 DEF CpuOK, PcOK, HdlOK
  <2> QED BY <2>1 DEF InterruptsMatch
<1> QED BY <1>1, LocksSafe, PTL

----------------------------------------------------------------------------
(* The cursor *)

(* The cursor after each character. *)
Trail(at, cs, g) == g = [i \in 0 .. Len(cs) |-> IF i = 0 THEN at ELSE cgaputc(g[i - 1], cs[i])]
(* The cursor after the last character. *)
LEMMA ConsputcDef ==
    ASSUME NEW at, NEW cs
    PROVE  consputc(at, cs) = (CHOOSE g : Trail(at, cs, g))[Len(cs)]
BY DEF consputc, Trail

(* All rows but the last, which a full screen scrolls away. *)
Screen == 0 .. Cols * (Rows - 1) - 1

(* One character keeps the cursor there (console.c:133-146). *)
LEMMA ScreenKept ==
    ASSUME NEW at \in Screen, NEW c
    PROVE  cgaputc(at, c) \in Screen
<1>0. Cols \in Nat \ {0} /\ Rows \in Nat /\ Rows >= 2
  BY ConsoleAssumption
<1> DEFINE q == at \div Cols
           r == at % Cols
           m == Moved(at, c)
<1>1. at = Cols * q + r /\ q \in Int /\ r \in 0 .. Cols - 1 /\ at \in Nat
  BY <1>0 DEF Screen
<1> HIDE DEF q
<1>2. q >= 0 /\ q < Rows - 1
  <2>1. Cols * q < Cols * (Rows - 1)
    BY <1>0, <1>1 DEF Screen
  <2>2. Cols * q > Cols * (-1)
    BY <1>0, <1>1
  <2> QED BY <1>0, <1>1, <2>1, <2>2
<1>3. m \in Int /\ m >= 0 /\ m <= Cols * (Rows - 1)
  <2>1. CASE c = "nl"
    <3>1. m = Cols * (q + 1)
      BY <1>0, <1>1, <2>1 DEF Moved
    <3>2. Cols * (q + 1) <= Cols * (Rows - 1)
      BY <1>0, <1>1, <1>2
    <3> QED BY <1>0, <1>1, <1>2, <3>1, <3>2
  <2>2. CASE c # "nl"
    BY <1>0, <1>1, <2>2 DEF Moved, Screen
  <2> QED BY <2>1, <2>2
<1>4. m <= Rows * Cols
  BY <1>0, <1>3
<1>5. Cols * (Rows - 1) - Cols >= 0
  BY <1>0
<1> HIDE DEF m
<1>6. CASE m = Cols * (Rows - 1)
  <2>1. m \div Cols = Rows - 1
    BY <1>0, <1>6
  <2>2. cgaputc(at, c) = m - Cols
    <3>1. ~(at < 0 \/ m > Rows * Cols) /\ Scrolls(m)
      BY <1>0, <1>1, <1>3, <1>4, <2>1 DEF Scrolls
    <3> QED BY <3>1 DEF cgaputc, m
  <2> QED BY <1>0, <1>5, <1>6, <2>2 DEF Screen
<1>7. CASE m # Cols * (Rows - 1)
  <2>1. m \in Screen
    BY <1>0, <1>3, <1>7 DEF Screen
  <2>2. m \div Cols < Rows - 1
    BY <1>0, <1>3, <1>7
  <2>3. cgaputc(at, c) = m
    BY <1>0, <1>1, <1>3, <1>4, <2>2 DEF cgaputc, Scrolls, m
  <2> QED BY <2>1, <2>3
<1> QED BY <1>6, <1>7

(* Output that has a trail stays on the screen, character by character. *)
LEMMA TrailOnScreen ==
    ASSUME NEW at \in Screen, NEW cs, Len(cs) \in Nat, NEW h, Trail(at, cs, h)
    PROVE  consputc(at, cs) \in Screen
<1> DEFINE n == Len(cs)
<1>1. PICK g : g = (CHOOSE t : Trail(at, cs, t))
  OBVIOUS
<1>2. Trail(at, cs, g) /\ consputc(at, cs) = g[n]
  BY <1>1, ConsputcDef
<1>3. g[0] = at /\ \A i \in 1 .. n : g[i] = cgaputc(g[i - 1], cs[i])
  BY <1>2 DEF Trail
<1> HIDE DEF n
<1> DEFINE Off == {i \in 0 .. n : g[i] \notin Screen}
<1>4. Off = {}
  <2>1. SUFFICES ASSUME Off # {} PROVE FALSE
    OBVIOUS
  <2>2. Off \subseteq Nat
    BY DEF n
  <2>3. PICK i \in Off : \A j \in Nat : <<j, i>> \in OpToRel(<, Nat) => j \notin Off
    BY <2>1, <2>2, WFMin, NatLessThanWellFounded
  <2>4. i # 0 /\ i \in Nat /\ i <= n /\ g[i] \notin Screen
    BY <1>3, <2>2
  <2>5. i - 1 \in Nat /\ <<i - 1, i>> \in OpToRel(<, Nat)
    BY <2>4 DEF OpToRel
  <2>6. g[i - 1] \in Screen
    <3>1. i - 1 \notin Off
      BY <2>3, <2>5
    <3>2. i - 1 \in 0 .. n
      BY <2>4 DEF n
    <3> QED BY <3>1, <3>2
  <2>7. g[i] = cgaputc(g[i - 1], cs[i])
    BY <1>3, <2>4 DEF n
  <2> QED BY <2>4, <2>6, <2>7, ScreenKept
<1> QED BY <1>2, <1>4 DEF n

(* The output there is has one. *)
LEMMA ShortOutput ==
    ASSUME NEW at \in Screen, NEW c, NEW d
    PROVE  consputc(at, <<>>) \in Screen /\ consputc(at, <<c>>) \in Screen /\ consputc(at, <<c, d>>) \in Screen
<1>1. consputc(at, <<>>) \in Screen
  <2>1. PICK g : g = [i \in 0 .. 0 |-> at]
    OBVIOUS
  <2>2. Len(<<>>) = 0
    OBVIOUS
  <2>3. Trail(at, <<>>, g)
    BY <2>1, <2>2 DEF Trail
  <2> QED BY <2>2, <2>3, TrailOnScreen
<1>2. consputc(at, <<c>>) \in Screen
  <2>1. PICK g : g = [i \in 0 .. 1 |-> IF i = 0 THEN at ELSE cgaputc(at, c)]
    OBVIOUS
  <2>2. PICK cs : cs = <<c>>
    OBVIOUS
  <2>3. Len(cs) = 1 /\ cs[1] = c
    BY <2>2
  <2>4. Trail(at, cs, g)
    BY <2>1, <2>3 DEF Trail
  <2> QED BY <2>2, <2>3, <2>4, TrailOnScreen
<1>3. consputc(at, <<c, d>>) \in Screen
  <2>1. PICK g : g = [i \in 0 .. 2 |-> IF i = 0 THEN at ELSE IF i = 1 THEN cgaputc(at, c)
                                      ELSE cgaputc(cgaputc(at, c), d)]
    OBVIOUS
  <2>2. PICK cs : cs = <<c, d>>
    OBVIOUS
  <2>3. Len(cs) = 2 /\ cs[1] = c /\ cs[2] = d
    BY <2>2
  <2>4. Trail(at, cs, g)
    <3>1. g[0] = at /\ g[1] = cgaputc(at, c) /\ g[2] = cgaputc(g[1], d)
      BY <2>1
    <3>2. ASSUME NEW i \in 0 .. 2
          PROVE  g[i] = IF i = 0 THEN at ELSE cgaputc(g[i - 1], cs[i])
      BY <2>3, <3>1, i = 0 \/ i = 1 \/ i = 2
    <3> QED BY <2>1, <2>3, <3>2 DEF Trail
  <2> QED BY <2>2, <2>3, <2>4, TrailOnScreen
<1> QED BY <1>1, <1>2, <1>3

(* Backspaces stop at the first cell. *)
LEMMA Backspaces ==
    ASSUME NEW at \in Screen, NEW k \in Nat
    PROVE  consputc(at, [i \in 1 .. k |-> "bs"]) \in Screen
<1>0. Cols \in Nat \ {0} /\ Rows \in Nat /\ Rows >= 2 /\ at \in Nat /\ Cols * (Rows - 1) \in Nat
  BY ConsoleAssumption DEF Screen
<1>1. PICK cs : cs = [i \in 1 .. k |-> "bs"]
  OBVIOUS
<1>2. Len(cs) = k /\ \A i \in 1 .. k : cs[i] = "bs"
  BY <1>1
<1>3. PICK g : g = [i \in 0 .. k |-> IF i <= at THEN at - i ELSE 0]
  OBVIOUS
<1>4. ASSUME NEW a \in Screen
      PROVE  cgaputc(a, "bs") = IF a > 0 THEN a - 1 ELSE 0
  <2>1. a \in Nat /\ a < Cols * (Rows - 1)
    BY <1>0 DEF Screen
  <2>2. PICK m : m = IF a > 0 THEN a - 1 ELSE 0
    OBVIOUS
  <2>3. m \in Nat /\ m < Cols * (Rows - 1) /\ Moved(a, "bs") = m
    BY <1>0, <2>1, <2>2 DEF Moved
  <2>4. m \div Cols < Rows - 1
    BY <1>0, <2>3
  <2>5. ~(a < 0 \/ m > Rows * Cols) /\ ~Scrolls(m)
    BY <1>0, <2>1, <2>3, <2>4 DEF Scrolls
  <2> QED BY <2>2, <2>3, <2>5 DEF cgaputc
<1>5. ASSUME NEW i \in 0 .. k
      PROVE  g[i] = IF i = 0 THEN at ELSE cgaputc(g[i - 1], cs[i])
  <2>1. CASE i = 0
    BY <1>0, <1>3, <2>1
  <2>2. CASE i # 0
    <3>1. i - 1 \in 0 .. k /\ cs[i] = "bs"
      BY <1>2, <2>2
    <3>2. g[i - 1] = IF i - 1 <= at THEN at - (i - 1) ELSE 0
      BY <1>3, <3>1
    <3>3. g[i - 1] \in Screen
      BY <1>0, <3>1, <3>2 DEF Screen
    <3>4. cgaputc(g[i - 1], "bs") = IF g[i - 1] > 0 THEN g[i - 1] - 1 ELSE 0
      BY <1>4, <3>3
    <3>5. g[i] = IF i <= at THEN at - i ELSE 0
      BY <1>3
    <3> QED BY <1>0, <2>2, <3>1, <3>2, <3>4, <3>5
  <2> QED BY <2>1, <2>2
<1>6. Trail(at, cs, g)
  BY <1>2, <1>3, <1>5 DEF Trail
<1> QED BY <1>1, <1>2, <1>6, TrailOnScreen

----------------------------------------------------------------------------
(* The input buffer *)

(* Unsigned differences and sums of two indices. *)
LEMMA Wraps ==
    ASSUME NEW a \in 0 .. UINT - 1, NEW b \in 0 .. UINT - 1
    PROVE  /\ Minus(a, b) = IF a >= b THEN a - b ELSE a - b + UINT
           /\ Plus(a, b) = IF a + b < UINT THEN a + b ELSE a + b - UINT
           /\ Minus(a, b) \in 0 .. UINT - 1 /\ Plus(a, b) \in 0 .. UINT - 1
<1>1. UINT \in Nat \ {0}
  BY ConsoleAssumption
<1> QED BY <1>1 DEF Minus, Plus

(* ^U stops somewhere. *)
LEMMA RuboutStops ==
    ASSUME NEW in, Minus(in.e, in.w) \in Nat
    PROVE  /\ Rubout(in) \in 0 .. Minus(in.e, in.w)
           /\ Rubout(in) = Minus(in.e, in.w) \/ At(in, Minus(in.e, Rubout(in) + 1)) = "nl"
<1>1. PICK n \in Nat : n = Minus(in.e, in.w)
  OBVIOUS
<1> DEFINE S == {k \in 0 .. n : k = n \/ At(in, Minus(in.e, k + 1)) = "nl"}
<1>2. S \subseteq Nat /\ S # {}
  <2>1. n \in S
    OBVIOUS
  <2> QED BY <2>1
<1>3. PICK k \in S : \A j \in S : ~(<<j, k>> \in OpToRel(<, Nat))
  <2> HIDE DEF S
  <2> QED BY <1>2, WFMin, NatLessThanWellFounded
<1>4. k \in 0 .. n /\ (k = n \/ At(in, Minus(in.e, k + 1)) = "nl")
  BY <1>3
<1>5. \A j \in 0 .. k - 1 : At(in, Minus(in.e, j + 1)) # "nl"
  <2>1. SUFFICES ASSUME NEW j \in 0 .. k - 1, At(in, Minus(in.e, j + 1)) = "nl"
                 PROVE  FALSE
    OBVIOUS
  <2>2. j \in S
    BY <1>4, <2>1
  <2>3. <<j, k>> \in OpToRel(<, Nat)
    BY <1>4 DEF OpToRel
  <2> QED BY <1>3, <2>2, <2>3
<1> QED BY <1>1, <1>4, <1>5 DEF Rubout

(* What consoleintr makes of a character. *)
EditOK(in, x) ==
    /\ InputOK(x.input) /\ x.input.r = in.r
    /\ x.wake \in BOOLEAN /\ (~x.wake => x.input.w = in.w)
    /\ \/ x.echo = <<>> \/ \E ch : x.echo = <<ch>>
       \/ \E k \in Nat : x.echo = [i \in 1 .. k |-> "bs"]

(* Erasing goes back to the write index at most. *)
LEMMA BackOK ==
    ASSUME NEW in, InputOK(in), NEW k \in 0 .. Minus(in.e, in.w)
    PROVE  EditOK(in, [input |-> [in EXCEPT !.e = Minus(@, k)],
                       echo |-> [i \in 1 .. k |-> "bs"], wake |-> FALSE])
<1> DEFINE x == [input |-> [in EXCEPT !.e = Minus(@, k)],
                 echo |-> [i \in 1 .. k |-> "bs"], wake |-> FALSE]
<1>0. UINT \in Nat /\ INPUT_BUF \in Nat \ {0} /\ INPUT_BUF < UINT
  BY ConsoleAssumption
<1>1. PICK r \in 0 .. UINT - 1, w \in 0 .. UINT - 1, e \in 0 .. UINT - 1 : r = in.r /\ w = in.w /\ e = in.e
  BY DEF InputOK
<1>2. /\ Minus(w, r) <= Minus(e, r) /\ Minus(e, r) <= INPUT_BUF
      /\ Minus(e, r) = INPUT_BUF => w = e
  BY <1>1 DEF InputOK
<1>3. k \in Nat /\ k <= Minus(e, w) /\ k \in 0 .. UINT - 1
  <2>1. Minus(e, w) \in 0 .. UINT - 1 /\ k \in 0 .. Minus(e, w)
    BY <1>1, Wraps
  <2> QED BY <1>0, <2>1
<1>4. PICK f \in 0 .. UINT - 1 : f = Minus(e, k)
  BY <1>3, Wraps
<1>5. f = IF e >= k THEN e - k ELSE e - k + UINT
  BY <1>3, <1>4, Wraps
<1>6. /\ Minus(w, r) <= Minus(f, r) /\ Minus(f, r) <= INPUT_BUF
      /\ Minus(f, r) = INPUT_BUF => w = f
  <2>1. /\ Minus(w, r) = IF w >= r THEN w - r ELSE w - r + UINT
        /\ Minus(e, r) = IF e >= r THEN e - r ELSE e - r + UINT
        /\ Minus(f, r) = IF f >= r THEN f - r ELSE f - r + UINT
        /\ Minus(e, w) = IF e >= w THEN e - w ELSE e - w + UINT
    BY Wraps
  <2> QED BY <1>0, <1>2, <1>3, <1>5, <2>1
<1>7. PICK y : y = [in EXCEPT !.e = f]
  OBVIOUS
<1>8. y = [buf |-> in.buf, r |-> r, w |-> w, e |-> f]
  BY <1>1, <1>7 DEF InputOK
<1>9. InputOK(y) /\ y.r = in.r /\ y.w = in.w
  BY <1>1, <1>6, <1>8 DEF InputOK
<1>10. x.input = y /\ x.wake = FALSE /\ x.echo = [i \in 1 .. k |-> "bs"]
  BY <1>1, <1>4, <1>7
<1> HIDE DEF x
<1>11. EditOK(in, x)
  BY <1>3, <1>9, <1>10 DEF EditOK
<1> QED BY <1>11 DEF x

(* A character typed goes into a buffer with room; the last that fits      *)
(* makes the line ready.                                                   *)
LEMMA TypedOK ==
    ASSUME NEW in, InputOK(in), NEW c
    PROVE  EditOK(in, Typed(in, c))
<1>0. UINT \in Nat /\ INPUT_BUF \in Nat \ {0} /\ INPUT_BUF < UINT
  BY ConsoleAssumption
<1>1. PICK r \in 0 .. UINT - 1, w \in 0 .. UINT - 1, e \in 0 .. UINT - 1 : r = in.r /\ w = in.w /\ e = in.e
  BY DEF InputOK
<1>2. /\ Minus(w, r) <= Minus(e, r) /\ Minus(e, r) <= INPUT_BUF
      /\ Minus(e, r) = INPUT_BUF => w = e
  BY <1>1 DEF InputOK
<1>3. CASE c = "0" \/ Minus(in.e, in.r) >= INPUT_BUF
  BY <1>3 DEF Typed, EditOK
<1>4. CASE ~(c = "0" \/ Minus(in.e, in.r) >= INPUT_BUF)
  <2>1. PICK ch : ch = IF c = "cr" THEN "nl" ELSE c
    OBVIOUS
  <2>2. PICK f \in 0 .. UINT - 1 : f = Plus(e, 1)
    BY <1>0, Wraps
  <2>3. PICK next : next = [in EXCEPT !.buf[in.e % INPUT_BUF] = ch, !.e = Plus(@, 1)]
    OBVIOUS
  <2>4. next = [buf |-> next.buf, r |-> r, w |-> w, e |-> f]
    BY <1>1, <2>2, <2>3 DEF InputOK
  <2>12. next.r = r /\ next.w = w /\ next.e = f
    BY <2>4
  <2>5. PICK line \in BOOLEAN : line = LineReady(next, ch)
    BY DEF LineReady
  <2>6. Typed(in, c) = [input |-> IF line THEN [next EXCEPT !.w = next.e] ELSE next,
                        echo |-> <<ch>>, wake |-> line]
    BY <1>4, <2>1, <2>3, <2>5 DEF Typed
  <2>7. /\ Minus(w, r) = IF w >= r THEN w - r ELSE w - r + UINT
        /\ Minus(e, r) = IF e >= r THEN e - r ELSE e - r + UINT
        /\ Minus(f, r) = IF f >= r THEN f - r ELSE f - r + UINT
        /\ f = IF e + 1 < UINT THEN e + 1 ELSE e + 1 - UINT
        /\ Plus(r, INPUT_BUF) = IF r + INPUT_BUF < UINT THEN r + INPUT_BUF ELSE r + INPUT_BUF - UINT
    <3>1. 1 \in 0 .. UINT - 1 /\ INPUT_BUF \in 0 .. UINT - 1
      BY <1>0
    <3> QED BY <2>2, <3>1, Wraps
  <2>8. Minus(f, r) = Minus(e, r) + 1 /\ Minus(f, r) <= INPUT_BUF
    BY <1>0, <1>1, <1>4, <2>7
  <2>9. Minus(f, r) = INPUT_BUF => f = Plus(r, INPUT_BUF)
    BY <1>0, <2>7
  <2>10. CASE line
    <3>1. PICK y : y = [next EXCEPT !.w = next.e]
      OBVIOUS
    <3>2. y = [buf |-> next.buf, r |-> r, w |-> f, e |-> f]
      BY <2>4, <2>12, <3>1
    <3>3. y.buf = next.buf /\ y.r = r /\ y.w = f /\ y.e = f
      BY <3>2
    <3>4. InputOK(y)
      BY <2>8, <3>2, <3>3, Wraps DEF InputOK
    <3>5. Typed(in, c) = [input |-> y, echo |-> <<ch>>, wake |-> TRUE]
      BY <2>6, <2>10, <3>1
    <3> QED BY <1>1, <3>3, <3>4, <3>5 DEF EditOK
  <2>11. CASE ~line
    <3>1. Minus(f, r) # INPUT_BUF
      BY <2>5, <2>9, <2>11, <2>12 DEF LineReady
    <3>2. InputOK(next) /\ next.r = in.r /\ next.w = in.w
      BY <1>0, <1>1, <1>2, <2>4, <2>7, <2>8, <3>1 DEF InputOK
    <3> QED BY <2>6, <2>11, <3>2 DEF EditOK
  <2> QED BY <2>10, <2>11
<1> QED BY <1>3, <1>4

(* Both for what consoleintr does with any character. *)
LEMMA EditKeeps ==
    ASSUME NEW in, InputOK(in), NEW c
    PROVE  EditOK(in, Edit(in, c))
<1>1. Minus(in.e, in.w) \in Nat
  BY Wraps DEF InputOK
<1>2. CASE c = "^P"
  <2>1. PICK k \in 0 .. Minus(in.e, in.w) : k = 0
    BY <1>1
  <2>2. EditOK(in, [input |-> [in EXCEPT !.e = Minus(@, k)],
                    echo |-> [i \in 1 .. k |-> "bs"], wake |-> FALSE])
    BY BackOK
  <2> QED BY <1>2, <2>1, <2>2 DEF Edit
<1>3. CASE c = "^U"
  BY <1>1, <1>3, RuboutStops, BackOK DEF Edit
<1>4. CASE c = "^H"
  <2>1. PICK k \in 0 .. 1 : k = IF in.e # in.w THEN 1 ELSE 0
    OBVIOUS
  <2>2. k \in 0 .. Minus(in.e, in.w)
    <3>1. in.e \in 0 .. UINT - 1 /\ in.w \in 0 .. UINT - 1
      BY DEF InputOK
    <3>2. Minus(in.e, in.w) = IF in.e >= in.w THEN in.e - in.w ELSE in.e - in.w + UINT
      BY <3>1, Wraps
    <3> QED BY <1>1, <2>1, <3>1, <3>2, ConsoleAssumption
  <2>3. EditOK(in, [input |-> [in EXCEPT !.e = Minus(@, k)],
                       echo |-> [i \in 1 .. k |-> "bs"], wake |-> FALSE])
    BY <2>2, BackOK
  <2> QED BY <1>4, <2>1, <2>3 DEF Edit
<1>5. CASE c \notin {"^P", "^U", "^H"}
  BY <1>5, TypedOK DEF Edit
<1> QED BY <1>2, <1>3, <1>4, <1>5

----------------------------------------------------------------------------
(* Readers *)

Waking == {"spinwake", "wakeup"}

(* A step after which nobody more sleeps and nothing more can be read. *)
Quiet ==
    /\ input' = input
    /\ hdl.pc \in Waking => hdl'.pc \in Waking
    /\ \A q \in Procs : /\ proc'[q].pc = "spinsleep" => proc[q].pc = "spinsleep"
                        /\ proc'[q].state = "SLEEPING" => proc[q].state = "SLEEPING"

(* Such a step keeps the readers well. *)
LEMMA QuietKept ==
    ASSUME ReadersInv, Quiet
    PROVE  ReadersInv'
BY DEF ReadersInv, Quiet, InputOK, Waking

(* What processes do but reading and going to sleep is such a step, *)
LEMMA QuietRun ==
    ASSUME LocksInv, NEW c \in CPUs, NEW p \in Procs,
           \/ Resume(c, p) \/ Timer(c, p) \/ Yield(c, p) \/ TimerReturn(c, p)
           \/ ReadStart(c, p) \/ WriteStart(c, p) \/ ProcAcquire(c, p)
           \/ Write(c, p) \/ ReadReturn(c, p) \/ Awake(c, p) \/ ExitStart(c, p) \/ Exit(c, p)
    PROVE  Quiet
<1>1. proc \in [Procs -> ProcRecs] /\ proc[p] \in ProcRecs
  BY DEF LocksInv, ConsoleType
<1> USE DEF Quiet, Unless, Halt, Still, io, thread, ProcRecs
<1>2. CASE Resume(c, p)
  BY <1>1, <1>2 DEF Resume
<1>3. CASE Timer(c, p)
  BY <1>1, <1>3 DEF Timer
<1>4. CASE Yield(c, p)
  BY <1>1, <1>4 DEF Yield, Sched
<1>5. CASE TimerReturn(c, p)
  <2>1. proc[p].back # "spinsleep"
    <3>1. On(c, p) /\ proc[p].pc = "iret"
      BY <1>5 DEF TimerReturn, AtPc
    <3>2. RecOK(proc[p])
      BY <3>1, Here
    <3> QED BY <3>1, <3>2 DEF RecOK
  <2> QED BY <1>1, <1>5, <2>1 DEF TimerReturn
<1>6. CASE ReadStart(c, p)
  <2>1. PICK n \in 1 .. MaxRead : StartsAcquire(c, "cons", p, [proc[p] EXCEPT !.pc = "spinread", !.n = n])
    BY <1>6 DEF ReadStart
  <2>2. PICK r : r = [proc[p] EXCEPT !.pc = "spinread", !.n = n]
    OBVIOUS
  <2>3. r.pc = "spinread" /\ r.state = proc[p].state
    BY <1>1, <2>2
  <2>4. CASE Halt
    BY <2>4
  <2>5. CASE proc' = [proc EXCEPT ![p] = r] /\ UNCHANGED io
    BY <1>1, <2>3, <2>5
  <2> QED BY <2>1, <2>2, <2>4, <2>5 DEF StartsAcquire
<1>7. CASE WriteStart(c, p)
  BY <1>1, <1>7 DEF WriteStart, StartsAcquire
<1>8. CASE ProcAcquire(c, p)
  BY <1>1, <1>8 DEF ProcAcquire
<1>9. CASE Write(c, p)
  BY <1>1, <1>9 DEF Write
<1>10. CASE ReadReturn(c, p)
  BY <1>1, <1>10 DEF ReadReturn
<1>11. CASE Awake(c, p)
  BY <1>1, <1>11 DEF Awake, StartsAcquire
<1>12. CASE ExitStart(c, p)
  BY <1>1, <1>12 DEF ExitStart, StartsAcquire
<1>13. CASE Exit(c, p)
  BY <1>1, <1>13 DEF Exit, Sched
<1> QED BY <1>2, <1>3, <1>4, <1>5, <1>6, <1>7, <1>8, <1>9, <1>10, <1>11, <1>12, <1>13

(* and what the handler does but for a character and its wakeup. *)
LEMMA QuietOther ==
    ASSUME LocksInv,
           \/ Interrupt \/ MoreArrives \/ IntrAcquire \/ IntrDone \/ IntrDump \/ IntrReturn
           \/ \E c \in CPUs : SchedLock(c) \/ SchedPick(c) \/ SchedRelease(c)
           \/ \E p \in Procs : Kill(p)
    PROVE  Quiet
<1>1. proc \in [Procs -> ProcRecs] /\ hdl \in [pc : HdlPcs, dump : BOOLEAN]
  BY DEF LocksInv, ConsoleType
<1> USE DEF Quiet, Unless, Halt, Still, io, thread, Waking
<1>2. CASE Interrupt
  <2>1. hdl.pc \notin Waking
    <3>1. CpuOK(Bsp) /\ cpu[Bsp].fl
      BY <1>2, ConsoleAssumption DEF Interrupt, LocksInv
    <3> QED BY <3>1 DEF CpuOK, HdlOK, Handling
  <2> QED BY <1>1, <1>2, <2>1 DEF Interrupt
<1>3. CASE MoreArrives
  BY <1>3 DEF MoreArrives
<1>4. CASE IntrAcquire
  BY <1>1, <1>4 DEF IntrAcquire
<1>5. CASE IntrDone
  BY <1>1, <1>5 DEF IntrDone
<1>6. CASE IntrDump
  BY <1>1, <1>6 DEF IntrDump
<1>7. CASE IntrReturn
  BY <1>1, <1>7 DEF IntrReturn
<1>8. ASSUME NEW c \in CPUs, SchedLock(c) \/ SchedRelease(c)
      PROVE  Quiet
  BY <1>8 DEF SchedLock, SchedRelease
<1>9. ASSUME NEW c \in CPUs, SchedPick(c)
      PROVE  Quiet
  <2>1. CASE UNCHANGED <<cur, proc>>
    BY <1>9, <2>1 DEF SchedPick
  <2>2. ASSUME NEW p \in Procs, proc' = [proc EXCEPT ![p].state = "RUNNING"]
        PROVE  Quiet
    BY <1>1, <1>9, <2>2 DEF SchedPick, ProcRecs
  <2> QED BY <1>9, <2>1, <2>2 DEF SchedPick
<1>10. ASSUME NEW p \in Procs, Kill(p)
       PROVE  Quiet
  BY <1>1, <1>10 DEF Kill, ProcRecs
<1> QED BY <1>2, <1>3, <1>4, <1>5, <1>6, <1>7, <1>8, <1>9, <1>10

(* Only who has the console's lock is on its way to sleep. *)
LEMMA OneSleeps ==
    ASSUME LocksInv, NEW p \in Procs, proc[p].pc = "spinsleep"
    PROVE  \E d \in CPUs : cur[d] = p /\ ~Handling(d) /\ lock["cons"] = d
<1>1. RunsSomewhere(p) /\ RecOK(proc[p]) /\ p # NoProc
  BY ConsoleAssumption DEF LocksInv
<1>2. PICK d \in CPUs : cur[d] = p
  BY <1>1 DEF RecOK, RunsSomewhere
<1>3. CpuOK(d)
  BY DEF LocksInv
<1>4. Pc(d) = "spinsleep"
  BY <1>1, <1>2, <1>3 DEF CpuOK, Pc
<1> QED BY <1>2, <1>3, <1>4 DEF CpuOK, PcHasCons

(* The write index moves only with the wakeup to come. *)
LEMMA IntrGetcReaders ==
    ASSUME LocksInv, ReadersInv, IntrGetc
    PROVE  ReadersInv'
<1>1. PICK x : x = Edit(input, Got.c)
  OBVIOUS
<1>2. CASE Halt
  BY <1>2, QuietKept DEF Quiet, Halt, io, thread
<1>3. CASE /\ input' = x.input /\ UNCHANGED thread
           /\ hdl' = [pc |-> IF x.wake THEN "spinwake" ELSE "getc", dump |-> hdl.dump \/ Got.c = "^P"]
  <2>1. EditOK(input, x)
    BY <1>1, EditKeeps DEF ReadersInv
  <2>2. InputOK(input)' /\ input'.r = input.r
    BY <1>3, <2>1 DEF EditOK, InputOK
  <2>3. hdl.pc = "getc"
    BY DEF IntrGetc
  <2>4. lock["cons"] = Bsp /\ Handling(Bsp)
    BY <2>3, HereHdl DEF HdlHasCons
  <2>5. \A p \in Procs : proc[p].pc # "spinsleep"
    BY <2>4, OneSleeps
  <2>6. hdl'.pc \notin {"spinwake", "wakeup"} => input'.w = input.w
    BY <1>3, <2>1 DEF EditOK
  <2> QED BY <1>3, <2>2, <2>3, <2>5, <2>6 DEF ReadersInv, thread
<1> QED BY <1>1, <1>2, <1>3 DEF IntrGetc, Unless, thread

(* The wakeup leaves nobody asleep. *)
LEMMA IntrWakeupReaders ==
    ASSUME LocksInv, ReadersInv, IntrWakeup
    PROVE  ReadersInv'
<1>1. proc \in [Procs -> ProcRecs]
  BY DEF LocksInv, ConsoleType
<1>2. CASE Halt
  BY <1>2, QuietKept DEF Quiet, Halt, io, thread
<1>3. CASE /\ input' = input
           /\ proc' = [p \in Procs |-> IF proc[p].state = "SLEEPING"
                                       THEN [proc[p] EXCEPT !.state = "RUNNABLE"] ELSE proc[p]]
  <2>1. \A p \in Procs : proc'[p].state # "SLEEPING" /\ proc'[p].pc = proc[p].pc
    BY <1>1, <1>3 DEF ProcRecs
  <2> QED BY <1>3, <2>1 DEF ReadersInv, InputOK
<1> QED BY <1>2, <1>3 DEF IntrWakeup, Unless

(* A reader that takes a character has the lock: nobody else is on the way *)
(* to sleep.                                                               *)
LEMMA ReadCharReaders ==
    ASSUME LocksInv, ReadersInv, NEW c \in CPUs, NEW p \in Procs, ReadChar(c, p)
    PROVE  ReadersInv'
<1>1. On(c, p) /\ proc[p].pc = "read" /\ input.r # input.w /\ UNCHANGED hdl
  BY DEF ReadChar, AtPc
<1>2. cur[c] = p /\ ~Handling(c) /\ lock["cons"] = c
  BY <1>1, Here DEF PcHasCons
<1>3. hdl.pc \notin {"spinwake", "wakeup"}
  BY <1>2, HereHdl DEF HdlHasCons
<1>4. \A q \in Procs : proc[q].pc # "spinsleep"
  BY <1>1, <1>2, OneSleeps
<1>5. \A q \in Procs : proc[q].state # "SLEEPING"
  BY <1>1, <1>3 DEF ReadersInv
<1>6. \A q \in Procs : proc'[q].pc # "spinsleep" /\ proc'[q].state # "SLEEPING"
  <2>1. proc \in [Procs -> ProcRecs]
    BY DEF LocksInv, ConsoleType
  <2>2. PICK x \in {"read", "return"} :
        \/ proc' = [proc EXCEPT ![p].pc = x]
        \/ proc' = [proc EXCEPT ![p].n = @ - 1, ![p].got = @ + 1, ![p].pc = x]
    BY DEF ReadChar
  <2>3. proc'[p].pc = x /\ proc'[p].state = proc[p].state /\ \A q \in Procs \ {p} : proc'[q] = proc[q]
    BY <2>1, <2>2 DEF ProcRecs
  <2> QED BY <1>4, <1>5, <2>3
<1>7. InputOK(input)'
  <2>0. UINT \in Nat /\ INPUT_BUF \in Nat \ {0} /\ INPUT_BUF < UINT
    BY ConsoleAssumption
  <2>1. PICK r \in 0 .. UINT - 1, w \in 0 .. UINT - 1, e \in 0 .. UINT - 1 :
          r = input.r /\ w = input.w /\ e = input.e
    BY DEF ReadersInv, InputOK
  <2>2. /\ input = [buf |-> input.buf, r |-> r, w |-> w, e |-> e]
        /\ Minus(w, r) <= Minus(e, r) /\ Minus(e, r) <= INPUT_BUF
        /\ Minus(e, r) = INPUT_BUF => w = e
    BY <2>1 DEF ReadersInv, InputOK
  <2>3. PICK f \in 0 .. UINT - 1 : f = Plus(r, 1)
    BY <2>0, Wraps
  <2>4. input' = [input EXCEPT !.r = r] \/ input' = [input EXCEPT !.r = f]
    BY <2>1, <2>3 DEF ReadChar, AfterEof
  <2>5. CASE input' = [input EXCEPT !.r = r]
    <3>1. input' = input
      BY <2>2, <2>5
    <3> QED BY <3>1 DEF ReadersInv, InputOK
  <2>6. CASE input' = [input EXCEPT !.r = f]
    <3>1. input' = [buf |-> input.buf, r |-> f, w |-> w, e |-> e]
      BY <2>2, <2>6
    <3>2. input'.buf = input.buf /\ input'.r = f /\ input'.w = w /\ input'.e = e
      BY <3>1
    <3>3. /\ Minus(w, r) = IF w >= r THEN w - r ELSE w - r + UINT
          /\ Minus(e, r) = IF e >= r THEN e - r ELSE e - r + UINT
          /\ Minus(w, f) = IF w >= f THEN w - f ELSE w - f + UINT
          /\ Minus(e, f) = IF e >= f THEN e - f ELSE e - f + UINT
          /\ f = IF r + 1 < UINT THEN r + 1 ELSE r + 1 - UINT
      <4>1. 1 \in 0 .. UINT - 1
        BY <2>0
      <4> QED BY <2>3, <4>1, Wraps
    <3>4. Minus(w, f) <= Minus(e, f) /\ Minus(e, f) < INPUT_BUF
      BY <1>1, <2>0, <2>1, <2>2, <3>3
    <3> QED BY <2>0, <3>1, <3>2, <3>3, <3>4 DEF InputOK
  <2> QED BY <2>4, <2>5, <2>6
<1> QED BY <1>6, <1>7 DEF ReadersInv

(* Who starts to sleep has found the buffer empty, with the lock, *)
LEMMA ReadEmptyReaders ==
    ASSUME LocksInv, ReadersInv, NEW c \in CPUs, NEW p \in Procs, ReadEmpty(c, p)
    PROVE  ReadersInv'
<1>1. input.r = input.w /\ proc \in [Procs -> ProcRecs]
  BY DEF ReadEmpty, LocksInv, ConsoleType
<1>2. UNCHANGED <<input, hdl>>
  BY DEF ReadEmpty, StartsAcquire, Unless, Halt, io
<1> QED BY <1>1, <1>2 DEF ReadersInv, InputOK

(* and finds it empty still when it sleeps. *)
LEMMA SleepReaders ==
    ASSUME LocksInv, ReadersInv, NEW c \in CPUs, NEW p \in Procs, Sleep(c, p)
    PROVE  ReadersInv'
<1>1. input.r = input.w
  BY DEF Sleep, AtPc, ReadersInv
<1>2. UNCHANGED <<input, hdl>>
  BY DEF Sleep, Unless, Halt, io
<1> QED BY <1>1, <1>2 DEF ReadersInv, InputOK

(* Every step keeps the readers well. *)
LEMMA ReadersKept ==
    ASSUME LocksInv, ReadersInv, [Next]_vars
    PROVE  ReadersInv'
<1>1. CASE UNCHANGED vars
  BY <1>1, QuietKept DEF vars, thread, io, Quiet
<1>2. CASE \/ Interrupt \/ MoreArrives \/ IntrAcquire \/ IntrDone \/ IntrDump \/ IntrReturn
           \/ \E c \in CPUs : SchedLock(c) \/ SchedPick(c) \/ SchedRelease(c)
           \/ \E p \in Procs : Kill(p)
  BY <1>2, QuietOther, QuietKept
<1>3. ASSUME NEW c \in CPUs, NEW p \in Procs, Runs(c, p)
      PROVE  ReadersInv'
  BY <1>3, QuietRun, QuietKept, ReadCharReaders, ReadEmptyReaders, SleepReaders DEF Runs
<1> QED BY <1>1, <1>2, <1>3, IntrGetcReaders, IntrWakeupReaders DEF Next

----------------------------------------------------------------------------
(* The theorems on readers and on panics *)

ConsoleInv == LocksInv /\ ReadersInv /\ pos \in Screen /\ ~panicked

(* All that is written stays on the screen. *)
LEMMA OnScreen ==
    ASSUME ReadersInv, pos \in Screen, NEW cs \in Outputs
    PROVE  consputc(pos, cs) \in Screen
<1>1. PICK x : x = Edit(input, Got.c)
  OBVIOUS
<1>2. EditOK(input, x)
  BY <1>1, EditKeeps DEF ReadersInv
<1>3. consputc(pos, x.echo) \in Screen
  BY <1>2, ShortOutput, Backspaces DEF EditOK
<1> QED BY <1>1, <1>3, ShortOutput DEF Outputs

(* The cursor moves by what is written and by nothing else. *)
LEMMA CursorMoves ==
    ASSUME [Next]_vars
    PROVE  pos' = pos \/ \E cs \in Outputs : pos' = consputc(pos, cs)
<1> USE DEF Unless, Halt, Still, io, Outputs
<1>1. CASE UNCHANGED vars
  BY <1>1 DEF vars
<1>2. CASE Interrupt \/ MoreArrives \/ IntrAcquire
  BY <1>2 DEF Interrupt, MoreArrives, IntrAcquire
<1>3. CASE IntrGetc
  BY <1>3 DEF IntrGetc
<1>4. CASE IntrWakeup \/ IntrDone \/ IntrDump \/ IntrReturn
  BY <1>4 DEF IntrWakeup, IntrDone, IntrDump, IntrReturn
<1>5. ASSUME NEW c \in CPUs, SchedLock(c) \/ SchedPick(c) \/ SchedRelease(c)
      PROVE  pos' = pos
  BY <1>5 DEF SchedLock, SchedPick, SchedRelease
<1>6. ASSUME NEW c \in CPUs, NEW p \in Procs, Runs(c, p)
      PROVE  pos' = pos \/ \E cs \in Outputs : pos' = consputc(pos, cs)
  <2>1. CASE Resume(c, p) \/ Timer(c, p) \/ Yield(c, p) \/ TimerReturn(c, p)
    BY <2>1 DEF Resume, Timer, Yield, TimerReturn
  <2>2. CASE ReadStart(c, p) \/ WriteStart(c, p) \/ ProcAcquire(c, p)
    BY <2>2 DEF ReadStart, WriteStart, ProcAcquire, StartsAcquire
  <2>3. CASE Write(c, p)
    BY <2>3 DEF Write
  <2>4. CASE ReadChar(c, p) \/ ReadEmpty(c, p) \/ ReadReturn(c, p)
    BY <2>4 DEF ReadChar, ReadEmpty, ReadReturn, StartsAcquire
  <2>5. CASE Sleep(c, p) \/ Awake(c, p) \/ ExitStart(c, p) \/ Exit(c, p)
    BY <2>5 DEF Sleep, Awake, ExitStart, Exit, StartsAcquire
  <2> QED BY <1>6, <2>1, <2>2, <2>3, <2>4, <2>5 DEF Runs
<1>7. ASSUME NEW p \in Procs, Kill(p)
      PROVE  pos' = pos
  BY <1>7 DEF Kill
<1> QED BY <1>1, <1>2, <1>3, <1>4, <1>5, <1>6, <1>7 DEF Next

(* The whole invariant: locks, readers, and a cursor that stays above the  *)
(* last row.                                                               *)
THEOREM ConsoleSafe == Spec => []ConsoleInv
<1>1. Init => ConsoleInv
  <2>1. SUFFICES ASSUME Init PROVE ConsoleInv
    OBVIOUS
  <2>2. input = [buf |-> [i \in 0 .. INPUT_BUF - 1 |-> "0"], r |-> 0, w |-> 0, e |-> 0] /\ pos = 0 /\ ~panicked
    BY <2>1 DEF Init
  <2>3. InputOK(input)
    <3>1. input.r = 0 /\ input.w = 0 /\ input.e = 0 /\ input = [buf |-> input.buf, r |-> 0, w |-> 0, e |-> 0]
      BY <2>2
    <3>2. 0 \in 0 .. UINT - 1 /\ INPUT_BUF \in Nat \ {0}
      BY ConsoleAssumption
    <3>3. Minus(0, 0) = 0
      BY <3>2, Wraps
    <3> QED BY <3>1, <3>2, <3>3 DEF InputOK
  <2>4. ReadersInv
    BY <2>1, <2>2, <2>3 DEF ReadersInv, Init
  <2>5. pos \in Screen
    <3>1. Cols * (Rows - 1) > 0 /\ Cols * (Rows - 1) \in Int
      BY ConsoleAssumption
    <3> QED BY <2>2, <3>1 DEF Screen
  <2> QED BY <2>1, <2>2, <2>4, <2>5, InitLocks DEF ConsoleInv
<1>2. ConsoleInv /\ [Next]_vars => ConsoleInv'
  <2>1. SUFFICES ASSUME ConsoleInv, [Next]_vars PROVE ConsoleInv'
    OBVIOUS
  <2>2. LocksInv' /\ (panicked' # panicked => OutputPanics)
    BY <2>1, StepKept DEF ConsoleInv, Kept
  <2>3. ReadersInv'
    BY <2>1, ReadersKept DEF ConsoleInv
  <2>4. \A cs \in Outputs : consputc(pos, cs) \in Screen
    BY <2>1, OnScreen DEF ConsoleInv
  <2>5. pos' \in Screen
    BY <2>1, <2>4, CursorMoves DEF ConsoleInv
  <2>6. ~OutputPanics
    <3>1. \A cs \in Outputs : ~(consputc(pos, cs) < 0)
      <4>1. Cols * (Rows - 1) \in Int
        BY ConsoleAssumption
      <4> QED BY <2>4, <4>1 DEF Screen
    <3> QED BY <3>1 DEF OutputPanics, Outputs
  <2> QED BY <2>1, <2>2, <2>3, <2>5, <2>6 DEF ConsoleInv
<1> QED BY <1>1, <1>2, PTL DEF Spec

(* The kernel never panics: acquire never finds the lock its CPU's,        *)
(* release always does, popcli matches pushcli, sched is entered with      *)
(* ptable.lock alone, and the cursor is on the screen (spinlock.c:28, 48,  *)
(* 110, 111, proc.c:557-560, console.c:140).                               *)
THEOREM NoPanicSafe == Spec => []NoPanic
<1>1. ConsoleInv => NoPanic
  BY DEF ConsoleInv, NoPanic
<1> QED BY <1>1, ConsoleSafe, PTL

(* Nobody sleeps on a line that is ready, except until the handler's       *)
(* wakeup, and a full buffer can be read (console.c:213-216, 247-252).     *)
THEOREM ReadersSafe == Spec => []NoReaderForgotten
<1>1. ConsoleInv => NoReaderForgotten
  BY DEF ConsoleInv, ReadersInv, InputOK, NoReaderForgotten
<1> QED BY <1>1, ConsoleSafe, PTL

----------------------------------------------------------------------------
(* The buffer as a function from positions to characters *)

(* The slot of an index: wrapping at UINT, a multiple of INPUT_BUF, does   *)
(* not show in it.                                                         *)
LEMMA SlotPlus ==
    ASSUME NEW a \in 0 .. UINT - 1, NEW j \in 0 .. UINT - 1
    PROVE  Plus(a, j) % INPUT_BUF = (a + j) % INPUT_BUF /\ (a + j) % INPUT_BUF \in 0 .. INPUT_BUF - 1
<1>0. UINT \in Nat \ {0} /\ INPUT_BUF \in Nat \ {0} /\ UINT % INPUT_BUF = 0
  BY ConsoleAssumption
<1>1. PICK k \in Int : UINT = INPUT_BUF * k
  <2>1. UINT = INPUT_BUF * (UINT \div INPUT_BUF) /\ UINT \div INPUT_BUF \in Int
    BY <1>0
  <2> QED BY <2>1
<1>2. Plus(a, j) = IF a + j < UINT THEN a + j ELSE a + j - UINT
  BY Wraps
<1>3. PICK q \in Int, r \in 0 .. INPUT_BUF - 1 : a + j = INPUT_BUF * q + r /\ r = (a + j) % INPUT_BUF
  <2>1. /\ a + j = INPUT_BUF * ((a + j) \div INPUT_BUF) + ((a + j) % INPUT_BUF)
        /\ (a + j) \div INPUT_BUF \in Int /\ (a + j) % INPUT_BUF \in 0 .. INPUT_BUF - 1
    BY <1>0
  <2> QED BY <2>1
<1>4. CASE a + j < UINT
  BY <1>2, <1>3, <1>4
<1>5. CASE ~(a + j < UINT)
  <2>1. Plus(a, j) = INPUT_BUF * (q - k) + r
    BY <1>0, <1>1, <1>2, <1>3, <1>5
  <2>2. (INPUT_BUF * (q - k) + r) % INPUT_BUF = r
    <3>1. PICK d \in Int : d = q - k
      OBVIOUS
    <3>2. (INPUT_BUF * d + r) % INPUT_BUF = r
      BY <1>0
    <3> QED BY <3>1, <3>2
  <2> QED BY <1>3, <2>1, <2>2
<1> QED BY <1>4, <1>5

(* Indices less than INPUT_BUF apart have slots of their own. *)
LEMMA SlotsDiffer ==
    ASSUME NEW a \in Nat, NEW i \in Nat, NEW j \in Nat, i < j, j - i < INPUT_BUF
    PROVE  (a + i) % INPUT_BUF # (a + j) % INPUT_BUF
<1>0. INPUT_BUF \in Nat \ {0}
  BY ConsoleAssumption
<1>1. SUFFICES ASSUME (a + i) % INPUT_BUF = (a + j) % INPUT_BUF PROVE FALSE
  OBVIOUS
<1>2. PICK q \in Int, r \in Int : a + i = INPUT_BUF * q + r /\ r = (a + i) % INPUT_BUF
  <2>1. /\ a + i = INPUT_BUF * ((a + i) \div INPUT_BUF) + ((a + i) % INPUT_BUF)
        /\ (a + i) \div INPUT_BUF \in Int /\ (a + i) % INPUT_BUF \in Int
    BY <1>0
  <2> QED BY <2>1
<1>3. PICK u \in Int : a + j = INPUT_BUF * u + r
  <2>1. /\ a + j = INPUT_BUF * ((a + j) \div INPUT_BUF) + ((a + j) % INPUT_BUF)
        /\ (a + j) \div INPUT_BUF \in Int /\ (a + j) % INPUT_BUF \in Int
    BY <1>0
  <2> QED BY <1>1, <1>2, <2>1
<1>4. j - i = INPUT_BUF * (u - q)
  BY <1>0, <1>2, <1>3
<1>5. u - q > 0
  BY <1>0, <1>4
<1>6. INPUT_BUF * (u - q) >= INPUT_BUF
  BY <1>0, <1>5
<1> QED BY <1>0, <1>4, <1>6

(* Sequences cut from a function: n values from a on. *)
Seg(g, a, n) == [k \in 1 .. n |-> g[a + k - 1]]
IsSeg(t, S, g, a, n) == t \in Seq(S) /\ Len(t) = n /\ \A k \in 1 .. n : t[k] = g[a + k - 1]

(* Such a segment is a sequence of the function's values, *)
LEMMA SegSeq ==
    ASSUME NEW S, NEW g \in [Nat -> S], NEW a \in Nat, NEW n \in Nat
    PROVE  IsSeg(Seg(g, a, n), S, g, a, n)
<1>1. \A k \in 1 .. n : g[a + k - 1] \in S
  OBVIOUS
<1> QED BY <1>1 DEF Seg, IsSeg

(* and the only one with them. *)
LEMMA SegIs ==
    ASSUME NEW S, NEW g \in [Nat -> S], NEW a \in Nat, NEW n \in Nat, NEW t, IsSeg(t, S, g, a, n)
    PROVE  t = Seg(g, a, n)
<1>1. PICK u : u = Seg(g, a, n)
  OBVIOUS
<1>2. IsSeg(u, S, g, a, n)
  BY <1>1, SegSeq
<1>3. t = u
  BY <1>2, SeqEqual DEF IsSeg
<1> QED BY <1>1, <1>3

(* Segments grow at the end, *)
LEMMA SegAppend ==
    ASSUME NEW S, NEW g \in [Nat -> S], NEW a \in Nat, NEW n \in Nat
    PROVE  Append(Seg(g, a, n), g[a + n]) = Seg(g, a, n + 1)
<1>1. PICK u : u = Seg(g, a, n)
  OBVIOUS
<1>2. u \in Seq(S) /\ Len(u) = n /\ \A k \in 1 .. n : u[k] = g[a + k - 1]
  <2>1. IsSeg(u, S, g, a, n)
    BY <1>1, SegSeq
  <2> QED BY <2>1 DEF IsSeg
<1>3. PICK x \in S : x = g[a + n]
  OBVIOUS
<1>4. PICK t : t = Append(u, x)
  OBVIOUS
<1>5. t \in Seq(S) /\ Len(t) = n + 1 /\ (\A k \in 1 .. n : t[k] = u[k]) /\ t[n + 1] = x
  BY <1>2, <1>4, AppendProperties
<1>6. ASSUME NEW k \in 1 .. n + 1 PROVE t[k] = g[a + k - 1]
  <2>1. CASE k = n + 1
    BY <1>3, <1>5, <2>1
  <2>2. CASE k # n + 1
    BY <1>2, <1>5, <2>2
  <2> QED BY <2>1, <2>2
<1>7. IsSeg(t, S, g, a, n + 1) /\ n + 1 \in Nat
  BY <1>5, <1>6 DEF IsSeg
<1> QED BY <1>1, <1>3, <1>4, <1>7, SegIs

(* join where one ends and the next begins, *)
LEMMA SegConcat ==
    ASSUME NEW S, NEW g \in [Nat -> S], NEW a \in Nat, NEW n \in Nat, NEW m \in Nat
    PROVE  Seg(g, a, n) \o Seg(g, a + n, m) = Seg(g, a, n + m)
<1>1. PICK u : u = Seg(g, a, n)
  OBVIOUS
<1>2. u \in Seq(S) /\ Len(u) = n /\ \A k \in 1 .. n : u[k] = g[a + k - 1]
  <2>1. IsSeg(u, S, g, a, n)
    BY <1>1, SegSeq
  <2> QED BY <2>1 DEF IsSeg
<1>3. PICK b \in Nat : b = a + n
  OBVIOUS
<1>4. PICK v : v = Seg(g, b, m)
  OBVIOUS
<1>5. v \in Seq(S) /\ Len(v) = m /\ \A k \in 1 .. m : v[k] = g[b + k - 1]
  <2>1. IsSeg(v, S, g, b, m)
    BY <1>4, SegSeq
  <2> QED BY <2>1 DEF IsSeg
<1>6. PICK t : t = u \o v
  OBVIOUS
<1>7. /\ t \in Seq(S) /\ Len(t) = n + m
      /\ \A k \in 1 .. n + m : t[k] = IF k <= n THEN u[k] ELSE v[k - n]
  BY <1>2, <1>5, <1>6, ConcatProperties
<1>8. ASSUME NEW k \in 1 .. n + m PROVE t[k] = g[a + k - 1]
  <2>1. CASE k <= n
    BY <1>2, <1>7, <2>1
  <2>2. CASE ~(k <= n)
    <3>1. k - n \in 1 .. m /\ b + (k - n) - 1 = a + k - 1
      BY <1>3, <2>2
    <3>2. v[k - n] = g[a + k - 1]
      BY <1>5, <3>1
    <3> QED BY <1>7, <2>2, <3>2
  <2> QED BY <2>1, <2>2
<1>9. IsSeg(t, S, g, a, n + m) /\ n + m \in Nat
  BY <1>7, <1>8 DEF IsSeg
<1> QED BY <1>1, <1>3, <1>4, <1>6, <1>9, SegIs

(* lose their first value, *)
LEMMA SegTail ==
    ASSUME NEW S, NEW g \in [Nat -> S], NEW a \in Nat, NEW n \in Nat \ {0}
    PROVE  /\ Tail(Seg(g, a, n)) = Seg(g, a + 1, n - 1) /\ Head(Seg(g, a, n)) = g[a]
           /\ Seg(g, a, n) # <<>>
<1>1. PICK u : u = Seg(g, a, n)
  OBVIOUS
<1>2. u \in Seq(S) /\ Len(u) = n /\ \A k \in 1 .. n : u[k] = g[a + k - 1]
  <2>1. IsSeg(u, S, g, a, n)
    BY <1>1, n \in Nat, SegSeq
  <2> QED BY <2>1 DEF IsSeg
<1>3. u # <<>> /\ Head(u) = g[a]
  <2>1. u # <<>> /\ Head(u) = u[1]
    BY <1>2
  <2>2. u[1] = g[a + 1 - 1] /\ a + 1 - 1 = a
    BY <1>2
  <2> QED BY <2>1, <2>2
<1>4. PICK t : t = Tail(u)
  OBVIOUS
<1>5. t \in Seq(S) /\ Len(t) = n - 1 /\ \A k \in 1 .. n - 1 : t[k] = u[k + 1]
  BY <1>2, <1>3, <1>4, HeadTailProperties
<1>6. PICK b \in Nat, m \in Nat : b = a + 1 /\ m = n - 1
  OBVIOUS
<1>7. ASSUME NEW k \in 1 .. m PROVE t[k] = g[b + k - 1]
  <2>1. k + 1 \in 1 .. n /\ a + (k + 1) - 1 = b + k - 1 /\ k \in 1 .. n - 1
    BY <1>6
  <2> QED BY <1>2, <1>5, <2>1
<1>8. IsSeg(t, S, g, b, m)
  BY <1>5, <1>6, <1>7 DEF IsSeg
<1> QED BY <1>1, <1>3, <1>4, <1>6, <1>8, SegIs

(* and their last. *)
LEMMA SegFront ==
    ASSUME NEW S, NEW g \in [Nat -> S], NEW a \in Nat, NEW n \in Nat \ {0}
    PROVE  SubSeq(Seg(g, a, n), 1, Len(Seg(g, a, n)) - 1) = Seg(g, a, n - 1)
<1>1. PICK u : u = Seg(g, a, n)
  OBVIOUS
<1>2. u \in Seq(S) /\ Len(u) = n /\ \A k \in 1 .. n : u[k] = g[a + k - 1]
  <2>1. IsSeg(u, S, g, a, n)
    BY <1>1, n \in Nat, SegSeq
  <2> QED BY <2>1 DEF IsSeg
<1>3. SubSeq(u, 1, n - 1) = [k \in 1 .. n - 1 |-> g[a + k - 1]]
  BY <1>2
<1> QED BY <1>1, <1>2, <1>3 DEF Seg

----------------------------------------------------------------------------
(* The characters of the buffer, from the read index on. *)
Cells(in) == [i \in Nat |-> At(in, Plus(in.r, i))]
CellSet(in) == {At(in, Plus(in.r, i)) : i \in Nat}

(* The buffer is an array of INPUT_BUF cells. *)
BufOK(in) == in.buf = [i \in 0 .. INPUT_BUF - 1 |-> in.buf[i]]

(* No newline waits to be erased: it would have ended its line. *)
NoNl(in) == \A i \in Minus(in.w, in.r) .. Minus(in.e, in.r) - 1 : At(in, Plus(in.r, i)) # "nl"

(* The two windows are neighbouring segments of the cells. *)
LEMMA Views ==
    ASSUME NEW in, InputOK(in)
    PROVE  \E W \in Nat, E \in Nat :
              /\ W = Minus(in.w, in.r) /\ E = Minus(in.e, in.r)
              /\ W <= E /\ E <= INPUT_BUF /\ Minus(in.e, in.w) = E - W
              /\ Window(in, in.r, in.w) = Seg(Cells(in), 0, W)
              /\ Window(in, in.w, in.e) = Seg(Cells(in), W, E - W)
<1>0. UINT \in Nat /\ INPUT_BUF \in Nat \ {0} /\ INPUT_BUF < UINT
  BY ConsoleAssumption
<1>1. PICK r \in 0 .. UINT - 1, w \in 0 .. UINT - 1, e \in 0 .. UINT - 1 : r = in.r /\ w = in.w /\ e = in.e
  BY DEF InputOK
<1>2. PICK W \in 0 .. UINT - 1, E \in 0 .. UINT - 1 : W = Minus(w, r) /\ E = Minus(e, r)
  BY Wraps
<1>3. W <= E /\ E <= INPUT_BUF
  BY <1>1, <1>2 DEF InputOK
<1>4. /\ W = IF w >= r THEN w - r ELSE w - r + UINT
      /\ E = IF e >= r THEN e - r ELSE e - r + UINT
      /\ Minus(e, w) = IF e >= w THEN e - w ELSE e - w + UINT
  BY <1>2, Wraps
<1>5. Minus(e, w) = E - W
  BY <1>0, <1>3, <1>4
<1>6. Window(in, r, w) = Seg(Cells(in), 0, W)
  <2>1. ASSUME NEW k \in 1 .. W
        PROVE  At(in, Plus(r, k - 1)) = Cells(in)[0 + k - 1]
    <3>1. 0 + k - 1 = k - 1 /\ k - 1 \in Nat
      OBVIOUS
    <3> QED BY <1>1, <3>1 DEF Cells
  <2> QED BY <1>2, <2>1 DEF Window, Seg
<1>7. Window(in, w, e) = Seg(Cells(in), W, E - W)
  <2>1. ASSUME NEW k \in 1 .. E - W
        PROVE  At(in, Plus(w, k - 1)) = Cells(in)[W + k - 1]
    <3>1. k - 1 \in 0 .. UINT - 1 /\ W + k - 1 \in 0 .. UINT - 1 /\ W + k - 1 \in Nat
      BY <1>0, <1>3
    <3>2. /\ Plus(w, k - 1) = IF w + (k - 1) < UINT THEN w + (k - 1) ELSE w + (k - 1) - UINT
          /\ Plus(r, W + k - 1) = IF r + (W + k - 1) < UINT THEN r + (W + k - 1) ELSE r + (W + k - 1) - UINT
      BY <3>1, Wraps
    <3>3. Plus(w, k - 1) = Plus(r, W + k - 1)
      BY <1>0, <1>3, <1>4, <3>1, <3>2
    <3> QED BY <1>1, <3>1, <3>3 DEF Cells
  <2> QED BY <1>5, <2>1 DEF Window, Seg
<1> QED BY <1>0, <1>1, <1>2, <1>3, <1>5, <1>6, <1>7

(* The cells as a function. *)
LEMMA CellsType == ASSUME NEW in PROVE Cells(in) \in [Nat -> CellSet(in)]
BY DEF Cells, CellSet

(* Where two functions agree, so do their segments. *)
Agree(g, a, h, b, n) == \A k \in 1 .. n : g[a + k - 1] = h[b + k - 1]
LEMMA SegSame ==
    ASSUME NEW g, NEW h, NEW a, NEW b, NEW n, Agree(g, a, h, b, n)
    PROVE  Seg(g, a, n) = Seg(h, b, n)
BY DEF Seg, Agree

(* So ^U erases the whole line. *)
LEMMA RuboutAll ==
    ASSUME NEW in, InputOK(in), NoNl(in)
    PROVE  Rubout(in) = Minus(in.e, in.w)
<1>0. UINT \in Nat /\ INPUT_BUF \in Nat \ {0} /\ INPUT_BUF < UINT
  BY ConsoleAssumption
<1>1. PICK r \in 0 .. UINT - 1, w \in 0 .. UINT - 1, e \in 0 .. UINT - 1 : r = in.r /\ w = in.w /\ e = in.e
  BY DEF InputOK
<1>2. PICK W \in 0 .. UINT - 1, E \in 0 .. UINT - 1 : W = Minus(w, r) /\ E = Minus(e, r)
  BY Wraps
<1>3. W <= E /\ E <= INPUT_BUF
  BY <1>1, <1>2 DEF InputOK
<1>4. /\ W = IF w >= r THEN w - r ELSE w - r + UINT
      /\ E = IF e >= r THEN e - r ELSE e - r + UINT
      /\ Minus(e, w) = IF e >= w THEN e - w ELSE e - w + UINT
  BY <1>2, Wraps
<1>5. Minus(e, w) = E - W
  BY <1>0, <1>3, <1>4
<1>6. PICK k : k = Rubout(in)
  OBVIOUS
<1>7. k \in 0 .. E - W /\ (k = E - W \/ At(in, Minus(e, k + 1)) = "nl")
  BY <1>1, <1>3, <1>5, <1>6, RuboutStops
<1>8. CASE k # E - W
  <2>1. k + 1 \in 0 .. UINT - 1 /\ E - k - 1 \in 0 .. UINT - 1 /\ E - k - 1 \in W .. E - 1
    BY <1>0, <1>3, <1>7, <1>8
  <2>2. /\ Minus(e, k + 1) = IF e >= k + 1 THEN e - (k + 1) ELSE e - (k + 1) + UINT
        /\ Plus(r, E - k - 1) = IF r + (E - k - 1) < UINT THEN r + (E - k - 1) ELSE r + (E - k - 1) - UINT
    BY <2>1, Wraps
  <2>3. Minus(e, k + 1) = Plus(r, E - k - 1)
    BY <1>0, <1>3, <1>4, <1>7, <2>1, <2>2
  <2>4. At(in, Plus(r, E - k - 1)) # "nl"
    BY <1>1, <1>2, <2>1 DEF NoNl
  <2> QED BY <1>7, <1>8, <2>3, <2>4
<1> QED BY <1>1, <1>5, <1>6, <1>8

----------------------------------------------------------------------------
(* What the operations on the buffer do to the two windows *)

(* What is ready, and the line being edited. *)
Rd(in) == Window(in, in.r, in.w)
Ed(in) == Window(in, in.w, in.e)

LinesOK(in) == InputOK(in) /\ BufOK(in) /\ NoNl(in)

(* The steps of ConsoleAbs as relations on values. *)
KeyGives(rd, ed, c, rd2, ed2) ==
    /\ Len(rd) + Len(ed) < INPUT_BUF
    /\ IF c \in {"nl", "^D"} \/ Len(rd) + Len(Append(ed, c)) = INPUT_BUF
       THEN rd2 = rd \o Append(ed, c) /\ ed2 = <<>>
       ELSE ed2 = Append(ed, c) /\ rd2 = rd
EraseGives(ed, ed2) == ed # <<>> /\ ed2 \in {SubSeq(ed, 1, Len(ed) - 1), <<>>}

(* Erasing one character or all of the line leaves what is ready alone. *)
LEMMA BackLines ==
    ASSUME NEW in, LinesOK(in), NEW k \in {0, 1, Minus(in.e, in.w)}, k <= Minus(in.e, in.w),
           NEW y, y = [in EXCEPT !.e = Minus(@, k)]
    PROVE  /\ Rd(y) = Rd(in) /\ (Ed(y) = Ed(in) \/ EraseGives(Ed(in), Ed(y)))
           /\ BufOK(y) /\ NoNl(y)
<1>0. UINT \in Nat /\ INPUT_BUF \in Nat \ {0} /\ INPUT_BUF < UINT
  BY ConsoleAssumption
<1>1. PICK r \in 0 .. UINT - 1, w \in 0 .. UINT - 1, e \in 0 .. UINT - 1 : r = in.r /\ w = in.w /\ e = in.e
  BY DEF LinesOK, InputOK
<1>2. PICK W \in Nat, E \in Nat :
        /\ W = Minus(in.w, in.r) /\ E = Minus(in.e, in.r)
        /\ W <= E /\ E <= INPUT_BUF /\ Minus(in.e, in.w) = E - W
        /\ Rd(in) = Seg(Cells(in), 0, W) /\ Ed(in) = Seg(Cells(in), W, E - W)
  BY Views DEF LinesOK, Rd, Ed
<1>3. k \in 0 .. E - W /\ k \in 0 .. UINT - 1
  BY <1>0, <1>2
<1>4. PICK f \in 0 .. UINT - 1 : f = Minus(e, k)
  BY <1>3, Wraps
<1>5. y = [buf |-> in.buf, r |-> r, w |-> w, e |-> f]
  BY <1>1, <1>4 DEF LinesOK, InputOK
<1>6. y.buf = in.buf /\ y.r = r /\ y.w = w /\ y.e = f
  BY <1>5
<1>7. InputOK(y)
  <2>1. k \in 0 .. Minus(in.e, in.w)
    BY <1>2, <1>3
  <2>2. EditOK(in, [input |-> y, echo |-> [i \in 1 .. k |-> "bs"], wake |-> FALSE])
    BY <2>1, BackOK DEF LinesOK
  <2> QED BY <2>2 DEF EditOK
<1>8. Cells(y) = Cells(in)
  BY <1>1, <1>6 DEF Cells, At
<1>9. Minus(f, r) = E - k
  <2>1. /\ Minus(f, r) = IF f >= r THEN f - r ELSE f - r + UINT
        /\ E = IF e >= r THEN e - r ELSE e - r + UINT
        /\ f = IF e >= k THEN e - k ELSE e - k + UINT
    <3>1. E = Minus(e, r)
      BY <1>1, <1>2
    <3>2. E = IF e >= r THEN e - r ELSE e - r + UINT
      BY <3>1, Wraps
    <3>3. f = IF e >= k THEN e - k ELSE e - k + UINT
      BY <1>3, <1>4, Wraps
    <3> QED BY <3>2, <3>3, Wraps
  <2> QED BY <1>0, <1>2, <1>3, <2>1
<1>10. Rd(y) = Seg(Cells(in), 0, W) /\ Ed(y) = Seg(Cells(in), W, E - k - W)
  <2>1. PICK V \in Nat, F \in Nat :
          /\ V = Minus(y.w, y.r) /\ F = Minus(y.e, y.r)
          /\ Rd(y) = Seg(Cells(y), 0, V) /\ Ed(y) = Seg(Cells(y), V, F - V)
    BY <1>7, Views DEF Rd, Ed
  <2>2. V = W /\ F = E - k
    BY <1>1, <1>2, <1>6, <1>9, <2>1
  <2> QED BY <1>8, <2>1, <2>2
<1>11. BufOK(y)
  BY <1>6 DEF BufOK, LinesOK
<1>12. NoNl(y)
  <2>1. ASSUME NEW i \in W .. E - k - 1
        PROVE  At(y, Plus(y.r, i)) # "nl"
    <3>1. i \in W .. E - 1
      BY <1>2, <1>3
    <3>2. At(in, Plus(in.r, i)) # "nl"
      BY <1>2, <3>1 DEF LinesOK, NoNl
    <3> QED BY <1>1, <1>6, <3>2 DEF At
  <2> QED BY <1>1, <1>2, <1>6, <1>9, <2>1 DEF NoNl
<1>13. Ed(y) = Ed(in) \/ EraseGives(Ed(in), Ed(y))
  <2>1. CASE k = 0
    <3>1. E - k - W = E - W
      BY <2>1
    <3> QED BY <1>2, <1>10, <3>1
  <2>2. CASE k # 0
    <3>1. PICK n \in Nat \ {0} : n = E - W
      BY <1>2, <1>3, <2>2
    <3>2. Seg(Cells(in), W, n) # <<>> /\ SubSeq(Seg(Cells(in), W, n), 1, Len(Seg(Cells(in), W, n)) - 1) = Seg(Cells(in), W, n - 1)
      <4>1. PICK g \in [Nat -> CellSet(in)] : g = Cells(in)
        BY CellsType
      <4>2. Seg(g, W, n) # <<>>
        BY SegTail
      <4>3. SubSeq(Seg(g, W, n), 1, Len(Seg(g, W, n)) - 1) = Seg(g, W, n - 1)
        BY SegFront
      <4> QED BY <4>1, <4>2, <4>3
    <3>3. CASE k = 1
      <4>1. E - k - W = n - 1
        BY <1>2, <3>1, <3>3
      <4> QED BY <1>2, <1>10, <3>1, <3>2, <4>1 DEF EraseGives
    <3>4. CASE k = E - W
      <4>1. E - k - W = 0
        BY <1>2, <3>4
      <4>2. Ed(y) = <<>>
        BY <1>10, <4>1 DEF Seg
      <4> QED BY <1>2, <3>1, <3>2, <4>2 DEF EraseGives
    <3> QED BY <1>2, <2>2, <3>3, <3>4
  <2> QED BY <2>1, <2>2
<1> QED BY <1>2, <1>10, <1>11, <1>12, <1>13

(* A read takes the first of what is ready. *)
LEMMA ReadLines ==
    ASSUME NEW in, LinesOK(in), in.r # in.w,
           NEW y, y = [in EXCEPT !.r = Plus(@, 1)], InputOK(y)
    PROVE  /\ Rd(in) # <<>> /\ Head(Rd(in)) = At(in, in.r) /\ Rd(y) = Tail(Rd(in))
           /\ Ed(y) = Ed(in) /\ BufOK(y) /\ NoNl(y)
<1>0. UINT \in Nat /\ INPUT_BUF \in Nat \ {0} /\ INPUT_BUF < UINT /\ 1 \in 0 .. UINT - 1
  BY ConsoleAssumption
<1>1. PICK r \in 0 .. UINT - 1, w \in 0 .. UINT - 1, e \in 0 .. UINT - 1 : r = in.r /\ w = in.w /\ e = in.e
  BY DEF LinesOK, InputOK
<1>2. PICK W \in Nat, E \in Nat :
        /\ W = Minus(in.w, in.r) /\ E = Minus(in.e, in.r)
        /\ W <= E /\ E <= INPUT_BUF /\ Minus(in.e, in.w) = E - W
        /\ Rd(in) = Seg(Cells(in), 0, W) /\ Ed(in) = Seg(Cells(in), W, E - W)
  BY Views DEF LinesOK, Rd, Ed
<1>3. PICK f \in 0 .. UINT - 1 : f = Plus(r, 1)
  BY <1>0, Wraps
<1>4. y = [buf |-> in.buf, r |-> f, w |-> w, e |-> e]
  BY <1>1, <1>3 DEF LinesOK, InputOK
<1>5. y.buf = in.buf /\ y.r = f /\ y.w = w /\ y.e = e
  BY <1>4
<1>6. /\ W = IF w >= r THEN w - r ELSE w - r + UINT
      /\ E = IF e >= r THEN e - r ELSE e - r + UINT
      /\ Minus(w, f) = IF w >= f THEN w - f ELSE w - f + UINT
      /\ Minus(e, f) = IF e >= f THEN e - f ELSE e - f + UINT
      /\ f = IF r + 1 < UINT THEN r + 1 ELSE r + 1 - UINT
  <2>1. W = Minus(w, r) /\ E = Minus(e, r)
    BY <1>1, <1>2
  <2>2. W = IF w >= r THEN w - r ELSE w - r + UINT
    BY <2>1, Wraps
  <2>3. E = IF e >= r THEN e - r ELSE e - r + UINT
    BY <2>1, Wraps
  <2>4. f = IF r + 1 < UINT THEN r + 1 ELSE r + 1 - UINT
    BY <1>0, <1>3, Wraps
  <2> QED BY <2>2, <2>3, <2>4, Wraps
<1>7. W # 0 /\ E # 0 /\ Minus(w, f) = W - 1 /\ Minus(e, f) = E - 1
  <2>1. w # r /\ W <= E /\ E <= INPUT_BUF
    BY <1>1, <1>2
  <2>2. W # 0 /\ E # 0
    BY <1>0, <1>6, <2>1
  <2>3. Minus(w, f) = W - 1
    BY <1>0, <1>6, <2>1
  <2>4. Minus(e, f) = E - 1
    BY <1>0, <1>6, <2>1, <2>2
  <2> QED BY <2>2, <2>3, <2>4
<1>8. Rd(y) = Seg(Cells(y), 0, W - 1) /\ Ed(y) = Seg(Cells(y), W - 1, E - W)
  <2>1. PICK V \in Nat, F \in Nat :
          /\ V = Minus(y.w, y.r) /\ F = Minus(y.e, y.r)
          /\ Rd(y) = Seg(Cells(y), 0, V) /\ Ed(y) = Seg(Cells(y), V, F - V)
    BY Views DEF Rd, Ed
  <2>2. V = W - 1 /\ F = E - 1 /\ F - V = E - W
    BY <1>2, <1>5, <1>7, <2>1
  <2> QED BY <2>1, <2>2
<1>9. \A i \in 0 .. INPUT_BUF - 1 : Plus(f, i) = Plus(r, i + 1)
  <2>1. SUFFICES ASSUME NEW i \in 0 .. INPUT_BUF - 1 PROVE Plus(f, i) = Plus(r, i + 1)
    OBVIOUS
  <2>2. i \in 0 .. UINT - 1 /\ i + 1 \in 0 .. UINT - 1
    BY <1>0
  <2>3. /\ Plus(f, i) = IF f + i < UINT THEN f + i ELSE f + i - UINT
        /\ Plus(r, i + 1) = IF r + (i + 1) < UINT THEN r + (i + 1) ELSE r + (i + 1) - UINT
    BY <2>2, Wraps
  <2> QED BY <1>0, <1>6, <2>2, <2>3
<1>10. \A i \in 0 .. INPUT_BUF - 1 : Cells(y)[i] = Cells(in)[i + 1]
  <2>1. SUFFICES ASSUME NEW i \in 0 .. INPUT_BUF - 1 PROVE Cells(y)[i] = Cells(in)[i + 1]
    OBVIOUS
  <2>2. i \in Nat /\ i + 1 \in Nat
    BY <1>0
  <2>3. Cells(y)[i] = At(y, Plus(f, i)) /\ Cells(in)[i + 1] = At(in, Plus(r, i + 1))
    BY <1>1, <1>5, <2>2 DEF Cells
  <2> QED BY <1>5, <1>9, <2>3 DEF At
<1>11. Rd(in) # <<>> /\ Head(Rd(in)) = At(in, in.r) /\ Tail(Rd(in)) = Seg(Cells(in), 1, W - 1)
  <2>1. PICK n \in Nat \ {0} : n = W
    BY <1>2, <1>7
  <2>2. PICK z \in Nat : z = 0
    OBVIOUS
  <2>6. PICK g \in [Nat -> CellSet(in)] : g = Cells(in)
    BY CellsType
  <2>7. Tail(Seg(g, z, n)) = Seg(g, z + 1, n - 1) /\ Head(Seg(g, z, n)) = g[z] /\ Seg(g, z, n) # <<>>
    BY SegTail
  <2>3. /\ Tail(Seg(Cells(in), z, n)) = Seg(Cells(in), z + 1, n - 1)
        /\ Head(Seg(Cells(in), z, n)) = Cells(in)[z] /\ Seg(Cells(in), z, n) # <<>>
    BY <2>6, <2>7
  <2>4. Cells(in)[z] = At(in, r)
    <3>1. Plus(r, 0) = r
      <4>1. 0 \in 0 .. UINT - 1
        BY <1>0
      <4>2. Plus(r, 0) = IF r + 0 < UINT THEN r + 0 ELSE r + 0 - UINT
        BY <4>1, Wraps
      <4> QED BY <1>0, <4>2
    <3> QED BY <1>1, <2>2, <3>1 DEF Cells
  <2>5. z + 1 = 1
    BY <2>2
  <2> QED BY <1>1, <1>2, <2>1, <2>2, <2>3, <2>4, <2>5
<1>12. Seg(Cells(y), 0, W - 1) = Seg(Cells(in), 1, W - 1)
  <2>1. ASSUME NEW k \in 1 .. W - 1
        PROVE  Cells(y)[0 + k - 1] = Cells(in)[1 + k - 1]
    <3>1. PICK i \in 0 .. INPUT_BUF - 1 : i = 0 + k - 1 /\ i + 1 = 1 + k - 1
      BY <1>0, <1>2
    <3> QED BY <1>10, <3>1
  <2>2. Agree(Cells(y), 0, Cells(in), 1, W - 1)
    BY <2>1 DEF Agree
  <2> QED BY <2>2, SegSame
<1>13. Seg(Cells(y), W - 1, E - W) = Seg(Cells(in), W, E - W)
  <2>0. PICK v \in Nat, n \in Nat : v = W - 1 /\ n = E - W
    BY <1>2, <1>7
  <2>1. ASSUME NEW k \in 1 .. n
        PROVE  Cells(y)[v + k - 1] = Cells(in)[W + k - 1]
    <3>1. PICK i \in 0 .. INPUT_BUF - 1 : i = v + k - 1 /\ i + 1 = W + k - 1
      BY <1>0, <1>2, <2>0
    <3> QED BY <1>10, <3>1
  <2>2. Agree(Cells(y), v, Cells(in), W, n)
    BY <2>1 DEF Agree
  <2> QED BY <2>0, <2>2, SegSame
<1>14. BufOK(y)
  BY <1>5 DEF BufOK, LinesOK
<1>15. NoNl(y)
  <2>1. ASSUME NEW i \in W - 1 .. E - 1 - 1
        PROVE  At(y, Plus(y.r, i)) # "nl"
    <3>1. i + 1 \in W .. E - 1 /\ i \in 0 .. INPUT_BUF - 1
      BY <1>0, <1>2, <1>7
    <3>2. At(in, Plus(in.r, i + 1)) # "nl"
      BY <1>2, <3>1 DEF LinesOK, NoNl
    <3> QED BY <1>1, <1>5, <1>9, <3>1, <3>2 DEF At
  <2> QED BY <1>5, <1>7, <2>1 DEF NoNl
<1> QED BY <1>2, <1>8, <1>11, <1>12, <1>13, <1>14, <1>15

(* A character typed into a buffer with room: the cells in use stay, and   *)
(* the next one has it.                                                    *)
LEMMA TypedCells ==
    ASSUME NEW in, InputOK(in), BufOK(in), NEW E \in Nat, E = Minus(in.e, in.r), E < INPUT_BUF, NEW ch,
           NEW y, y.r = in.r, y.buf = [in.buf EXCEPT ![in.e % INPUT_BUF] = ch]
    PROVE  (\A i \in 0 .. E - 1 : Cells(y)[i] = Cells(in)[i]) /\ Cells(y)[E] = ch
<1>0. UINT \in Nat /\ INPUT_BUF \in Nat \ {0} /\ INPUT_BUF < UINT
  BY ConsoleAssumption
<1>1. PICK r \in 0 .. UINT - 1, e \in 0 .. UINT - 1 : r = in.r /\ e = in.e
  BY DEF InputOK
<1>2. E \in 0 .. UINT - 1 /\ E = IF e >= r THEN e - r ELSE e - r + UINT
  <2>1. E = Minus(e, r)
    BY <1>1
  <2> QED BY <2>1, Wraps
<1>3. Plus(r, E) = e
  <2>1. Plus(r, E) = IF r + E < UINT THEN r + E ELSE r + E - UINT
    BY <1>2, Wraps
  <2> QED BY <1>0, <1>2, <2>1
<1>4. PICK d \in 0 .. INPUT_BUF - 1 : d = e % INPUT_BUF /\ d = (r + E) % INPUT_BUF
  BY <1>2, <1>3, SlotPlus
<1>5. PICK b : b = in.buf
  OBVIOUS
<1>6. b = [i \in 0 .. INPUT_BUF - 1 |-> b[i]] /\ y.buf = [b EXCEPT ![d] = ch]
  BY <1>1, <1>4, <1>5 DEF BufOK
<1>7. y.buf[d] = ch /\ \A j \in 0 .. INPUT_BUF - 1 : j # d => y.buf[j] = b[j]
  BY <1>6
<1>8. Cells(y)[E] = ch
  <2>1. Cells(y)[E] = At(y, Plus(r, E))
    BY <1>1 DEF Cells
  <2> QED BY <1>3, <1>4, <1>7, <2>1 DEF At
<1>9. ASSUME NEW i \in 0 .. E - 1
      PROVE  Cells(y)[i] = Cells(in)[i]
  <2>1. i \in Nat /\ i \in 0 .. UINT - 1 /\ i < E /\ E - i < INPUT_BUF
    BY <1>0, <1>2
  <2>2. PICK j \in 0 .. INPUT_BUF - 1 : j = Plus(r, i) % INPUT_BUF /\ j = (r + i) % INPUT_BUF
    BY <2>1, SlotPlus
  <2>3. j # d
    <3>1. r \in Nat
      BY <1>0
    <3> QED BY <1>4, <2>1, <2>2, <3>1, SlotsDiffer
  <2>4. Cells(y)[i] = y.buf[j] /\ Cells(in)[i] = b[j]
    BY <1>1, <1>5, <2>1, <2>2 DEF Cells, At
  <2> QED BY <1>7, <2>3, <2>4
<1> QED BY <1>8, <1>9

(* It goes to the end of the line, which it may make ready. *)
LEMMA TypedLines ==
    ASSUME NEW in, LinesOK(in), NEW c, c # "0", Minus(in.e, in.r) < INPUT_BUF,
           NEW ch, ch = IF c = "cr" THEN "nl" ELSE c,
           NEW y, y = Typed(in, c).input
    PROVE  KeyGives(Rd(in), Ed(in), ch, Rd(y), Ed(y)) /\ BufOK(y) /\ NoNl(y)
<1>0. UINT \in Nat /\ INPUT_BUF \in Nat \ {0} /\ INPUT_BUF < UINT
      /\ 1 \in 0 .. UINT - 1 /\ INPUT_BUF \in 0 .. UINT - 1
  BY ConsoleAssumption
<1>1. PICK r \in 0 .. UINT - 1, w \in 0 .. UINT - 1, e \in 0 .. UINT - 1 : r = in.r /\ w = in.w /\ e = in.e
  BY DEF LinesOK, InputOK
<1>2. PICK W \in Nat, E \in Nat :
        /\ W = Minus(in.w, in.r) /\ E = Minus(in.e, in.r)
        /\ W <= E /\ E <= INPUT_BUF /\ Minus(in.e, in.w) = E - W
        /\ Rd(in) = Seg(Cells(in), 0, W) /\ Ed(in) = Seg(Cells(in), W, E - W)
  BY Views DEF LinesOK, Rd, Ed
<1>3. PICK f \in 0 .. UINT - 1 : f = Plus(e, 1)
  BY <1>0, Wraps
<1>4. PICK next : next = [in EXCEPT !.buf[in.e % INPUT_BUF] = ch, !.e = Plus(@, 1)]
  OBVIOUS
<1>5. PICK b : b = [in.buf EXCEPT ![in.e % INPUT_BUF] = ch]
  OBVIOUS
<1>6. next = [buf |-> b, r |-> r, w |-> w, e |-> f]
  BY <1>1, <1>3, <1>4, <1>5 DEF LinesOK, InputOK
<1>7. next.buf = b /\ next.r = r /\ next.w = w /\ next.e = f
  BY <1>6
<1>8. PICK line \in BOOLEAN : line <=> LineReady(next, ch)
  BY DEF LineReady
<1>9. y = IF line THEN [next EXCEPT !.w = next.e] ELSE next
  <2>1. ~(c = "0" \/ Minus(in.e, in.r) >= INPUT_BUF)
    BY <1>0, <1>2
  <2> QED BY <1>4, <1>8, <2>1 DEF Typed
<1>10. y = [buf |-> b, r |-> r, w |-> IF line THEN f ELSE w, e |-> f]
  BY <1>6, <1>7, <1>9
<1>11. y.buf = b /\ y.r = r /\ y.w = (IF line THEN f ELSE w) /\ y.e = f
  BY <1>10
<1>12. /\ E = IF e >= r THEN e - r ELSE e - r + UINT
       /\ Minus(f, r) = IF f >= r THEN f - r ELSE f - r + UINT
       /\ f = IF e + 1 < UINT THEN e + 1 ELSE e + 1 - UINT
       /\ Plus(r, INPUT_BUF) = IF r + INPUT_BUF < UINT THEN r + INPUT_BUF ELSE r + INPUT_BUF - UINT
  <2>1. E = Minus(e, r)
    BY <1>1, <1>2
  <2>2. E = IF e >= r THEN e - r ELSE e - r + UINT
    BY <2>1, Wraps
  <2>3. f = IF e + 1 < UINT THEN e + 1 ELSE e + 1 - UINT
    BY <1>0, <1>3, Wraps
  <2>4. Plus(r, INPUT_BUF) = IF r + INPUT_BUF < UINT THEN r + INPUT_BUF ELSE r + INPUT_BUF - UINT
    BY <1>0, Wraps
  <2> QED BY <2>2, <2>3, <2>4, Wraps
<1>13. E < INPUT_BUF /\ Minus(f, r) = E + 1 /\ (f = Plus(r, INPUT_BUF) <=> E + 1 = INPUT_BUF)
  BY <1>0, <1>2, <1>12
<1>14. line <=> ch \in {"nl", "^D"} \/ E + 1 = INPUT_BUF
  BY <1>7, <1>8, <1>13 DEF LineReady
<1>15. InputOK(y)
  <2>1. EditOK(in, Typed(in, c))
    BY TypedOK DEF LinesOK
  <2> QED BY <2>1 DEF EditOK
<1>16. PICK g \in [Nat -> CellSet(y)], h \in [Nat -> CellSet(in)] : g = Cells(y) /\ h = Cells(in)
  BY CellsType
<1>17. (\A i \in 0 .. E - 1 : g[i] = h[i]) /\ g[E] = ch
  <2>1. InputOK(in) /\ BufOK(in) /\ E = Minus(in.e, in.r) /\ E < INPUT_BUF
    BY <1>2, <1>13 DEF LinesOK
  <2>2. y.r = in.r /\ y.buf = [in.buf EXCEPT ![in.e % INPUT_BUF] = ch]
    BY <1>1, <1>5, <1>11
  <2>3. (\A i \in 0 .. E - 1 : Cells(y)[i] = Cells(in)[i]) /\ Cells(y)[E] = ch
    BY <2>1, <2>2, TypedCells
  <2> QED BY <1>16, <2>3
<1>18. PICK V \in Nat, F \in Nat :
          /\ V = Minus(y.w, y.r) /\ F = Minus(y.e, y.r)
          /\ Rd(y) = Seg(Cells(y), 0, V) /\ Ed(y) = Seg(Cells(y), V, F - V)
  BY <1>15, Views DEF Rd, Ed
<1>19. F = E + 1 /\ V = (IF line THEN E + 1 ELSE W)
  BY <1>1, <1>2, <1>11, <1>13, <1>18
<1>20. PICK n \in Nat : n = E - W
  BY <1>2
<1>21. Rd(in) = Seg(g, 0, W)
  <2>1. ASSUME NEW k \in 1 .. W PROVE h[0 + k - 1] = g[0 + k - 1]
    <3>1. 0 + k - 1 \in 0 .. E - 1
      BY <1>2
    <3> QED BY <1>17, <3>1
  <2>2. Agree(h, 0, g, 0, W)
    BY <2>1 DEF Agree
  <2> QED BY <1>2, <1>16, <2>2, SegSame
<1>22. Ed(in) = Seg(g, W, n)
  <2>1. ASSUME NEW k \in 1 .. n PROVE h[W + k - 1] = g[W + k - 1]
    <3>1. W + k - 1 \in 0 .. E - 1
      BY <1>2, <1>20
    <3> QED BY <1>17, <3>1
  <2>2. Agree(h, W, g, W, n)
    BY <2>1 DEF Agree
  <2> QED BY <1>2, <1>16, <1>20, <2>2, SegSame
<1>23. Append(Ed(in), ch) = Seg(g, W, n + 1)
  <2>1. Append(Seg(g, W, n), g[W + n]) = Seg(g, W, n + 1)
    BY SegAppend
  <2>2. W + n = E
    BY <1>20
  <2> QED BY <1>17, <1>22, <2>1, <2>2
<1>24. Len(Rd(in)) = W /\ Len(Ed(in)) = n /\ Len(Append(Ed(in), ch)) = n + 1
  <2>1. PICK z \in Nat, m \in Nat : z = 0 /\ m = n + 1
    OBVIOUS
  <2>2. IsSeg(Seg(g, z, W), CellSet(y), g, z, W)
    BY SegSeq
  <2>3. IsSeg(Seg(g, W, n), CellSet(y), g, W, n)
    BY SegSeq
  <2>4. IsSeg(Seg(g, W, m), CellSet(y), g, W, m)
    BY SegSeq
  <2> QED BY <1>21, <1>22, <1>23, <2>1, <2>2, <2>3, <2>4 DEF IsSeg
<1>25. /\ W + n < INPUT_BUF
       /\ line <=> ch \in {"nl", "^D"} \/ W + (n + 1) = INPUT_BUF
  BY <1>2, <1>13, <1>14, <1>20
<1>26. CASE line
  <2>1. V = E + 1 /\ F - V = 0
    BY <1>19, <1>26
  <2>2. Ed(y) = <<>>
    BY <1>18, <2>1 DEF Seg
  <2>3. PICK z \in Nat, m \in Nat : z = 0 /\ m = n + 1
    OBVIOUS
  <2>4. Seg(g, z, W) \o Seg(g, z + W, m) = Seg(g, z, W + m)
    <3>1. \A a \in Nat, k \in Nat, j \in Nat : Seg(g, a, k) \o Seg(g, a + k, j) = Seg(g, a, k + j)
      BY SegConcat
    <3> QED BY <3>1
  <2>5. z + W = W /\ W + m = E + 1
    BY <1>20, <2>3
  <2>6. Rd(y) = Rd(in) \o Append(Ed(in), ch)
    BY <1>16, <1>18, <1>21, <1>23, <2>1, <2>3, <2>4, <2>5
  <2>7. KeyGives(Rd(in), Ed(in), ch, Rd(y), Ed(y))
    BY <1>24, <1>25, <1>26, <2>2, <2>6 DEF KeyGives
  <2>8. NoNl(y)
    BY <1>18, <2>1, <1>19 DEF NoNl
  <2>9. BufOK(y)
    BY <1>5, <1>11 DEF BufOK, LinesOK
  <2> QED BY <2>7, <2>8, <2>9
<1>27. CASE ~line
  <2>1. V = W /\ F - V = n + 1
    BY <1>19, <1>20, <1>27
  <2>2. Rd(y) = Rd(in) /\ Ed(y) = Append(Ed(in), ch)
    BY <1>16, <1>18, <1>21, <1>23, <2>1
  <2>3. KeyGives(Rd(in), Ed(in), ch, Rd(y), Ed(y))
    BY <1>24, <1>25, <1>27, <2>2 DEF KeyGives
  <2>4. NoNl(y)
    <3>1. SUFFICES ASSUME NEW i \in W .. E PROVE At(y, Plus(y.r, i)) # "nl"
      BY <1>18, <1>19, <2>1 DEF NoNl
    <3>2. i \in Nat /\ g[i] = At(y, Plus(y.r, i))
      BY <1>2, <1>16 DEF Cells
    <3>3. CASE i = E
      BY <1>14, <1>17, <1>27, <3>2, <3>3
    <3>4. CASE i # E
      <4>1. i \in 0 .. E - 1 /\ i \in W .. E - 1
        BY <1>2, <3>4
      <4>2. h[i] # "nl"
        BY <1>2, <1>16, <3>2, <4>1 DEF LinesOK, NoNl, Cells
      <4> QED BY <1>17, <3>2, <4>1, <4>2
    <3> QED BY <3>3, <3>4
  <2>5. BufOK(y)
    BY <1>5, <1>11 DEF BufOK, LinesOK
  <2> QED BY <2>3, <2>4, <2>5
<1> QED BY <1>26, <1>27

(* One turn of the handler's loop, seen from the lines. *)
LEMMA EditLines ==
    ASSUME NEW in, LinesOK(in), NEW c, NEW y, y = Edit(in, c).input
    PROVE  /\ LinesOK(y)
           /\ \/ Rd(y) = Rd(in) /\ (Ed(y) = Ed(in) \/ EraseGives(Ed(in), Ed(y)))
              \/ /\ c \notin {"0", "^P", "^U", "^H"}
                 /\ KeyGives(Rd(in), Ed(in), IF c = "cr" THEN "nl" ELSE c, Rd(y), Ed(y))
<1>0. InputOK(y)
  BY EditKeeps DEF EditOK, LinesOK
<1>1. PICK n \in Nat : n = Minus(in.e, in.w)
  BY Wraps DEF LinesOK, InputOK
<1>2. CASE c \in {"^P", "^U", "^H"}
  <2>1. PICK k \in {0, 1, n} : k <= n /\ y = [in EXCEPT !.e = Minus(@, k)]
    <3>1. CASE c = "^P"
      BY <3>1 DEF Edit
    <3>2. CASE c = "^U"
      <4>1. Rubout(in) = n
        BY <1>1, RuboutAll DEF LinesOK
      <4> QED BY <3>2, <4>1 DEF Edit
    <3>3. CASE c = "^H"
      <4>1. in.e # in.w => n # 0
        <5>1. in.e \in 0 .. UINT - 1 /\ in.w \in 0 .. UINT - 1
          BY DEF LinesOK, InputOK
        <5>2. n = IF in.e >= in.w THEN in.e - in.w ELSE in.e - in.w + UINT
          BY <1>1, <5>1, Wraps
        <5> QED BY <5>1, <5>2, ConsoleAssumption
      <4>2. PICK k \in {0, 1} : k = IF in.e # in.w THEN 1 ELSE 0
        OBVIOUS
      <4>3. y = [in EXCEPT !.e = Minus(@, k)]
        BY <3>3, <4>2 DEF Edit
      <4>4. k <= n
        BY <4>1, <4>2
      <4> QED BY <4>3, <4>4
    <3> QED BY <1>2, <3>1, <3>2, <3>3
  <2>2. /\ Rd(y) = Rd(in) /\ (Ed(y) = Ed(in) \/ EraseGives(Ed(in), Ed(y)))
        /\ BufOK(y) /\ NoNl(y)
    BY <1>1, <2>1, BackLines
  <2> QED BY <1>0, <2>2 DEF LinesOK
<1>3. CASE c \notin {"^P", "^U", "^H"}
  <2>1. y = Typed(in, c).input
    BY <1>3 DEF Edit
  <2>2. CASE c = "0" \/ Minus(in.e, in.r) >= INPUT_BUF
    <3>1. y = in
      BY <2>1, <2>2 DEF Typed
    <3> QED BY <3>1
  <2>3. CASE ~(c = "0" \/ Minus(in.e, in.r) >= INPUT_BUF)
    <3>1. PICK ch : ch = IF c = "cr" THEN "nl" ELSE c
      OBVIOUS
    <3>2. c # "0" /\ Minus(in.e, in.r) < INPUT_BUF
      <4>1. Minus(in.e, in.r) \in 0 .. UINT - 1
        BY Wraps DEF LinesOK, InputOK
      <4> QED BY <2>3, <4>1, ConsoleAssumption
    <3>3. KeyGives(Rd(in), Ed(in), ch, Rd(y), Ed(y)) /\ BufOK(y) /\ NoNl(y)
      BY <2>1, <3>1, <3>2, TypedLines
    <3> QED BY <1>0, <1>3, <3>1, <3>2, <3>3 DEF LinesOK
  <2> QED BY <2>2, <2>3
<1> QED BY <1>2, <1>3

----------------------------------------------------------------------------
(* The refinement of ConsoleAbs *)

(* What is typed is a character of the setup's line or of the keyboard,    *)
(* the lines are whole, and nobody has read less than nothing.             *)
DevOK == setup.uart => dev = <<>> \/ \E ch \in setup.serial : dev = <<ch>>
LinesInv ==
    /\ LinesOK(input) /\ setup \in Setups /\ DevOK
    /\ \A p \in Procs : proc[p].got \in Nat

(* No reader's count changes. *)
GotSame == \A q \in Procs : proc'[q].got = proc[q].got

(* sched saves intena, and leaves the rest of the process as it was. *)
LEMMA SchedGot ==
    ASSUME proc \in [Procs -> ProcRecs], NEW c, NEW p \in Procs, NEW s, NEW x, NEW z,
           Sched(c, p, s, [proc[p] EXCEPT !.pc = x, !.state = z])
    PROVE  GotSame
<1>1. proc[p] \in ProcRecs
  OBVIOUS
<1>2. PICK r : r = [proc[p] EXCEPT !.pc = x, !.state = z]
  OBVIOUS
<1>3. r.got = proc[p].got /\ r = [pc |-> x, back |-> r.back, state |-> z, intena |-> r.intena, n |-> r.n, got |-> r.got, killed |-> r.killed]
  BY <1>1, <1>2 DEF ProcRecs
<1>4. PICK t : t = [r EXCEPT !.intena = s.intena]
  OBVIOUS
<1>5. t.got = proc[p].got
  BY <1>3, <1>4
<1>6. proc' = [proc EXCEPT ![p] = t]
  BY <1>2, <1>4 DEF Sched
<1> QED BY <1>5, <1>6 DEF GotSame

(* What a process does but taking a character and returning, *)
LEMMA CalmRun ==
    ASSUME LocksInv, NEW c \in CPUs, NEW p \in Procs, Runs(c, p), ~ReadChar(c, p), ~ReadReturn(c, p)
    PROVE  UNCHANGED <<input, setup, dev>> /\ GotSame
<1>1. proc \in [Procs -> ProcRecs] /\ proc[p] \in ProcRecs
  BY DEF LocksInv, ConsoleType
<1> USE DEF GotSame, Unless, Halt, Still, io, thread, ProcRecs
<1>2. CASE Resume(c, p)
  BY <1>1, <1>2 DEF Resume
<1>3. CASE Timer(c, p)
  BY <1>1, <1>3 DEF Timer
<1>4. CASE Yield(c, p)
  BY <1>1, <1>4, SchedGot DEF Yield
<1>5. CASE TimerReturn(c, p)
  BY <1>1, <1>5 DEF TimerReturn
<1>6. CASE ReadStart(c, p)
  <2>1. PICK n \in 1 .. MaxRead : StartsAcquire(c, "cons", p, [proc[p] EXCEPT !.pc = "spinread", !.n = n])
    BY <1>6 DEF ReadStart
  <2>2. PICK r : r = [proc[p] EXCEPT !.pc = "spinread", !.n = n]
    OBVIOUS
  <2>3. r.got = proc[p].got
    BY <1>1, <2>2
  <2>4. CASE Halt
    BY <2>4
  <2>5. CASE proc' = [proc EXCEPT ![p] = r] /\ UNCHANGED io
    BY <1>1, <2>3, <2>5
  <2> QED BY <2>1, <2>2, <2>4, <2>5 DEF StartsAcquire
<1>7. CASE WriteStart(c, p)
  BY <1>1, <1>7 DEF WriteStart, StartsAcquire
<1>8. CASE ProcAcquire(c, p)
  BY <1>1, <1>8 DEF ProcAcquire
<1>9. CASE Write(c, p)
  BY <1>1, <1>9 DEF Write
<1>10. CASE ReadEmpty(c, p)
  BY <1>1, <1>10 DEF ReadEmpty, StartsAcquire
<1>11. CASE Awake(c, p)
  BY <1>1, <1>11 DEF Awake, StartsAcquire
<1>12. CASE ExitStart(c, p)
  BY <1>1, <1>12 DEF ExitStart, StartsAcquire
<1>13. CASE Exit(c, p)
  BY <1>1, <1>13, SchedGot DEF Exit
<1>14. CASE Sleep(c, p)
  BY <1>1, <1>14, SchedGot DEF Sleep
<1> QED BY <1>2, <1>3, <1>4, <1>5, <1>6, <1>7, <1>8, <1>9, <1>10, <1>11, <1>12, <1>13, <1>14 DEF Runs

(* and the handler but editing, leave the lines and the readers alone. *)
LEMMA CalmOther ==
    ASSUME LocksInv,
           \/ Interrupt \/ MoreArrives \/ IntrAcquire \/ IntrWakeup \/ IntrDone \/ IntrDump \/ IntrReturn
           \/ \E c \in CPUs : SchedLock(c) \/ SchedPick(c) \/ SchedRelease(c)
           \/ \E p \in Procs : Kill(p)
    PROVE  UNCHANGED <<input, setup>> /\ (dev' = dev \/ Arrival) /\ GotSame
<1>1. proc \in [Procs -> ProcRecs]
  BY DEF LocksInv, ConsoleType
<1> USE DEF GotSame, Unless, Halt, Still, io, thread
<1>2. CASE Interrupt
  BY <1>2 DEF Interrupt
<1>3. CASE MoreArrives
  BY <1>3 DEF MoreArrives
<1>4. CASE IntrAcquire
  BY <1>4 DEF IntrAcquire
<1>5. CASE IntrDone
  BY <1>5 DEF IntrDone
<1>6. CASE IntrDump
  BY <1>6 DEF IntrDump
<1>7. CASE IntrReturn
  BY <1>7 DEF IntrReturn
<1>8. ASSUME NEW c \in CPUs, SchedLock(c) \/ SchedRelease(c)
      PROVE  UNCHANGED <<input, setup, dev>> /\ GotSame
  BY <1>8 DEF SchedLock, SchedRelease
<1>9. ASSUME NEW c \in CPUs, SchedPick(c)
      PROVE  UNCHANGED <<input, setup, dev>> /\ GotSame
  <2>1. CASE UNCHANGED <<cur, proc>>
    BY <1>9, <2>1 DEF SchedPick
  <2>2. ASSUME NEW p \in Procs, proc' = [proc EXCEPT ![p].state = "RUNNING"]
        PROVE  UNCHANGED <<input, setup, dev>> /\ GotSame
    BY <1>1, <1>9, <2>2 DEF SchedPick, ProcRecs
  <2> QED BY <1>9, <2>1, <2>2 DEF SchedPick
<1>10. ASSUME NEW p \in Procs, Kill(p)
       PROVE  UNCHANGED <<input, setup, dev>> /\ GotSame
  BY <1>1, <1>10 DEF Kill, ProcRecs
<1>11. CASE IntrWakeup
  <2>1. CASE Halt
    BY <2>1
  <2>2. CASE /\ UNCHANGED <<input, setup, dev>>
             /\ proc' = [p \in Procs |-> IF proc[p].state = "SLEEPING"
                                         THEN [proc[p] EXCEPT !.state = "RUNNABLE"] ELSE proc[p]]
    BY <1>1, <2>2 DEF ProcRecs
  <2> QED BY <1>11, <2>1, <2>2 DEF IntrWakeup
<1> QED BY <1>2, <1>3, <1>4, <1>5, <1>6, <1>7, <1>8, <1>9, <1>10, <1>11

(* What arrives is of the setup. *)
LEMMA CalmKeeps ==
    ASSUME LinesInv, UNCHANGED <<input, setup>>, dev' = dev \/ Arrival, GotSame
    PROVE  LinesInv'
<1>1. LinesOK(input)'
  BY DEF LinesInv, LinesOK, InputOK, BufOK, NoNl
<1>2. DevOK'
  BY DEF LinesInv, DevOK, Arrival
<1> QED BY <1>1, <1>2 DEF LinesInv, GotSame

(* The characters the devices give. *)
LEMMA GotTypable ==
    ASSUME LinesInv, dev # <<>>
    PROVE  Got.c \in Typable \cup {"0", "cr", "^U"}
<1>1. CASE setup.uart
  BY <1>1 DEF LinesInv, DevOK, Got, Typable, Serials
<1>2. CASE ~setup.uart
  <2>1. \A s, d : charcode(s, d) \in {"a", "u", "nl", "A", "U", "^A", "^U", "cr", "0"}
    BY DEF charcode, ctlmap, shiftmap, normalmap
  <2>2. \A s, d : Swapcase(charcode(s, d)) \in {"a", "u", "nl", "A", "U", "^A", "^U", "cr", "0"}
    BY <2>1 DEF Swapcase
  <2>3. kbdgetc(shift, Head(dev)).c \in {"a", "u", "nl", "A", "U", "^A", "^U", "cr", "0"}
    BY <2>1, <2>2 DEF kbdgetc
  <2>4. Got.c = kbdgetc(shift, Head(dev)).c
    BY <1>2 DEF Got
  <2>5. {"a", "u", "nl", "A", "U", "^A"} \subseteq Typable
    BY DEF Typable
  <2> QED BY <2>3, <2>4, <2>5
<1> QED BY <1>1, <1>2

(* The abstract state after a step. *)
GotF == [p \in Procs |-> proc[p].got]
AbsStep == [Abs!AbsNext]_<<Window(input, input.r, input.w), Window(input, input.w, input.e), GotF>>

(* The windows of the next state are those of the next buffer. *)
LEMMA WindowsNext ==
    /\ Window(input, input.r, input.w) = Rd(input) /\ Window(input, input.w, input.e) = Ed(input)
    /\ Window(input, input.r, input.w)' = Rd(input') /\ Window(input, input.w, input.e)' = Ed(input')
BY DEF Rd, Ed, Window, At, Minus, Plus

(* So are the properties of its lines. *)
LEMMA LinesNext ==
    ASSUME LinesOK(input')
    PROVE  LinesOK(input)'
BY DEF LinesOK, InputOK, BufOK, NoNl, At, Minus, Plus

(* A step that leaves lines and readers alone stutters. *)
LEMMA CalmStep ==
    ASSUME input' = input, GotSame
    PROVE  AbsStep
<1>1. GotF' = GotF
  BY DEF GotF, GotSame
<1> QED BY <1>1, WindowsNext DEF AbsStep

(* The handler's turn is a key, an erasure or nothing. *)
LEMMA IntrGetcStep ==
    ASSUME LinesInv, IntrGetc
    PROVE  LinesInv' /\ AbsStep
<1>1. dev # <<>>
  BY DEF IntrGetc
<1>2. CASE Halt
  <2>1. UNCHANGED <<input, setup, dev>> /\ GotSame
    BY <1>2 DEF Halt, io, thread, GotSame
  <2> QED BY <2>1, CalmStep, CalmKeeps
<1>3. CASE dev' = Tail(dev) /\ input' = Edit(input, Got.c).input /\ UNCHANGED <<thread, setup>>
  <2>1. PICK c : c = Got.c
    OBVIOUS
  <2>2. PICK y : y = Edit(input, c).input
    OBVIOUS
  <2>3. input' = y
    BY <1>3, <2>1, <2>2
  <2>4. /\ LinesOK(y)
        /\ \/ Rd(y) = Rd(input) /\ (Ed(y) = Ed(input) \/ EraseGives(Ed(input), Ed(y)))
           \/ /\ c \notin {"0", "^P", "^U", "^H"}
              /\ KeyGives(Rd(input), Ed(input), IF c = "cr" THEN "nl" ELSE c, Rd(y), Ed(y))
    BY <2>2, EditLines DEF LinesInv
  <2>5. GotSame /\ GotF' = GotF /\ UNCHANGED setup
    BY <1>3 DEF thread, GotSame, GotF
  <2>6. LinesInv'
    <3>1. LinesOK(input)'
      BY <2>3, <2>4, LinesNext
    <3>2. DevOK'
      <4>1. setup.uart => dev' = <<>>
        BY <1>1, <1>3 DEF LinesInv, DevOK
      <4> QED BY <2>5, <4>1 DEF DevOK
    <3> QED BY <2>5, <3>1, <3>2 DEF LinesInv, GotSame
  <2>7. CASE Rd(y) = Rd(input) /\ Ed(y) = Ed(input)
    BY <2>3, <2>5, <2>6, <2>7, WindowsNext DEF AbsStep
  <2>8. CASE Rd(y) = Rd(input) /\ EraseGives(Ed(input), Ed(y))
    <3>1. Abs!Erase
      BY <2>3, <2>5, <2>8, WindowsNext DEF Abs!Erase, EraseGives, GotF
    <3> QED BY <2>6, <3>1 DEF AbsStep, Abs!AbsNext
  <2>9. ASSUME c \notin {"0", "^P", "^U", "^H"},
               KeyGives(Rd(input), Ed(input), IF c = "cr" THEN "nl" ELSE c, Rd(y), Ed(y))
        PROVE  AbsStep
    <3>1. PICK ch : ch = IF c = "cr" THEN "nl" ELSE c
      OBVIOUS
    <3>2. ch \in Typable \ {"0", "cr", "^H", "^U", "^P"}
      <4>1. c \in Typable \cup {"0", "cr", "^U"} /\ "nl" \in Typable
        BY <1>1, <2>1, GotTypable DEF Typable
      <4> QED BY <2>9, <3>1, <4>1
    <3>3. KeyGives(Rd(input), Ed(input), ch, Rd(y), Ed(y))
      BY <2>9, <3>1
    <3>4. Abs!Key(ch)
      BY <2>3, <2>5, <3>3, WindowsNext DEF Abs!Key, Abs!Ends, KeyGives, GotF
    <3> QED BY <3>2, <3>4 DEF AbsStep, Abs!AbsNext
  <2> QED BY <2>4, <2>6, <2>7, <2>8, <2>9
<1> QED BY <1>2, <1>3 DEF IntrGetc, Unless

(* A character read is taken from what is ready; an end-of-file mark that  *)
(* is put back changes nothing.                                            *)
LEMMA ReadCharStep ==
    ASSUME LocksInv, LinesInv, InputOK(input)', NEW c \in CPUs, NEW p \in Procs, ReadChar(c, p)
    PROVE  LinesInv' /\ AbsStep
<1>1. proc \in [Procs -> ProcRecs] /\ proc[p] \in ProcRecs /\ proc[p].got \in Nat
  BY DEF LocksInv, ConsoleType, LinesInv
<1>2. UNCHANGED <<setup, dev>> /\ input.r # input.w
  BY DEF ReadChar
<1>3. PICK ch : ch = At(input, input.r)
  OBVIOUS
<1>4. ASSUME NEW k \in {0, 1},
             \/ proc' = [proc EXCEPT ![p].pc = "return"] /\ k = 0
             \/ \E x \in {"read", "return"} :
                  proc' = [proc EXCEPT ![p].n = @ - 1, ![p].got = @ + 1, ![p].pc = x] /\ k = 1
      PROVE  /\ GotF' = [GotF EXCEPT ![p] = @ + k] /\ GotF \in [Procs -> Int] /\ GotF[p] = proc[p].got
             /\ \A q \in Procs : proc'[q].got \in Nat
  <2>1. proc'[p].got = proc[p].got + k /\ \A q \in Procs \ {p} : proc'[q].got = proc[q].got
    BY <1>1, <1>4 DEF ProcRecs
  <2>2. GotF \in [Procs -> Int] /\ GotF[p] = proc[p].got
    BY <1>1 DEF GotF, ProcRecs
  <2>3. GotF' = [GotF EXCEPT ![p] = @ + k]
    BY <1>1, <2>1, <2>2 DEF GotF
  <2> QED BY <1>1, <2>1, <2>2, <2>3 DEF LinesInv
<1>5. CASE ch = "^D" /\ proc[p].got > 0
  <2>1. input' = [input EXCEPT !.r = input.r] /\ proc' = [proc EXCEPT ![p].pc = "return"]
    BY <1>3, <1>5 DEF ReadChar, AfterEof
  <2>2. input' = input
    BY <2>1 DEF LinesInv, LinesOK, InputOK
  <2>3. GotSame
    BY <1>1, <2>1 DEF GotSame, ProcRecs
  <2> QED BY <1>2, <2>2, <2>3, CalmStep, CalmKeeps
<1>6. CASE ~(ch = "^D" /\ proc[p].got > 0)
  <2>1. PICK y : y = [input EXCEPT !.r = Plus(@, 1)]
    OBVIOUS
  <2>2. input' = y
    BY <1>3, <1>6, <2>1 DEF ReadChar, AfterEof
  <2>3. InputOK(y)
    BY <2>2 DEF InputOK
  <2>4. /\ Rd(input) # <<>> /\ Head(Rd(input)) = ch /\ Rd(y) = Tail(Rd(input))
        /\ Ed(y) = Ed(input) /\ BufOK(y) /\ NoNl(y)
    BY <1>2, <1>3, <2>1, <2>3, ReadLines DEF LinesInv
  <2>5. LinesOK(input)'
    BY <2>2, <2>3, <2>4, LinesNext DEF LinesOK
  <2>6. DevOK'
    BY <1>2 DEF DevOK, LinesInv
  <2>7. CASE ch = "^D"
    <3>1. proc' = [proc EXCEPT ![p].pc = "return"] /\ proc[p].got = 0
      BY <1>1, <1>3, <1>6, <2>7 DEF ReadChar
    <3>2. /\ GotF' = [GotF EXCEPT ![p] = @ + 0] /\ GotF \in [Procs -> Int] /\ GotF[p] = proc[p].got
          /\ \A q \in Procs : proc'[q].got \in Nat
      BY <1>4, <3>1
    <3>3. GotF' = GotF /\ GotF[p] = 0
      BY <3>1, <3>2
    <3>4. Abs!Take(p)
      BY <2>2, <2>4, <2>7, <3>3, WindowsNext DEF Abs!Take, GotF
    <3>5. LinesInv'
      BY <1>2, <2>5, <2>6, <3>2 DEF LinesInv
    <3> QED BY <3>4, <3>5 DEF AbsStep, Abs!AbsNext
  <2>8. CASE ch # "^D"
    <3>1. \E x \in {"read", "return"} : proc' = [proc EXCEPT ![p].n = @ - 1, ![p].got = @ + 1, ![p].pc = x]
      BY <1>3, <2>8 DEF ReadChar
    <3>2. /\ GotF' = [GotF EXCEPT ![p] = @ + 1] /\ \A q \in Procs : proc'[q].got \in Nat
      BY <1>4, <3>1
    <3>4. Abs!Take(p)
      BY <2>2, <2>4, <2>8, <3>2, WindowsNext DEF Abs!Take, GotF
    <3>5. LinesInv'
      BY <1>2, <2>5, <2>6, <3>2 DEF LinesInv
    <3> QED BY <3>4, <3>5 DEF AbsStep, Abs!AbsNext
  <2> QED BY <2>7, <2>8
<1> QED BY <1>5, <1>6

(* The end of a read. *)
LEMMA ReadReturnStep ==
    ASSUME LocksInv, LinesInv, NEW c \in CPUs, NEW p \in Procs, ReadReturn(c, p)
    PROVE  LinesInv' /\ AbsStep
<1>1. proc \in [Procs -> ProcRecs] /\ proc[p] \in ProcRecs
  BY DEF LocksInv, ConsoleType
<1>2. CASE Halt
  <2>1. UNCHANGED <<input, setup, dev>> /\ GotSame
    BY <1>2 DEF Halt, io, thread, GotSame
  <2> QED BY <2>1, CalmStep, CalmKeeps
<1>3. CASE proc' = [proc EXCEPT ![p].pc = "user", ![p].got = 0, ![p].n = 0] /\ UNCHANGED io
  <2>1. UNCHANGED <<input, setup, dev>>
    BY <1>3 DEF io
  <2>2. proc'[p].got = 0 /\ \A q \in Procs \ {p} : proc'[q].got = proc[q].got
    BY <1>1, <1>3 DEF ProcRecs
  <2>3. GotF' = [GotF EXCEPT ![p] = 0]
    BY <2>2 DEF GotF
  <2>4. Abs!Return(p)
    BY <2>1, <2>3, WindowsNext DEF Abs!Return, GotF
  <2>5. LinesOK(input)' /\ DevOK'
    BY <2>1, LinesNext DEF LinesInv, DevOK
  <2>6. LinesInv'
    BY <2>1, <2>2, <2>5 DEF LinesInv
  <2> QED BY <2>4, <2>6 DEF AbsStep, Abs!AbsNext
<1> QED BY <1>2, <1>3 DEF ReadReturn, Unless

(* Ready lines are read whole and in order, nothing ready is erased, and   *)
(* an end-of-file mark is consumed by a read that returns nothing, whoever *)
(* reads and types when and wherever the indices wrap (console.c:181-288). *)
THEOREM ConsoleRefinement == Spec => LineDiscipline
<1>1. Init => Abs!AbsInit /\ LinesInv
  <2>1. SUFFICES ASSUME Init PROVE Abs!AbsInit /\ LinesInv
    OBVIOUS
  <2>2. input = [buf |-> [i \in 0 .. INPUT_BUF - 1 |-> "0"], r |-> 0, w |-> 0, e |-> 0]
    BY <2>1 DEF Init
  <2>3. input.r = 0 /\ input.w = 0 /\ input.e = 0 /\ input = [buf |-> input.buf, r |-> 0, w |-> 0, e |-> 0]
        /\ input.buf = [i \in 0 .. INPUT_BUF - 1 |-> "0"]
    BY <2>2
  <2>4. 0 \in 0 .. UINT - 1 /\ INPUT_BUF \in Nat \ {0}
    BY ConsoleAssumption
  <2>5. Minus(0, 0) = 0
    BY <2>4, Wraps
  <2>6. LinesOK(input)
    BY <2>3, <2>4, <2>5 DEF LinesOK, InputOK, BufOK, NoNl
  <2>7. Window(input, input.r, input.w) = <<>> /\ Window(input, input.w, input.e) = <<>>
    BY <2>3, <2>5 DEF Window
  <2>8. setup \in Setups /\ dev = <<>> /\ \A p \in Procs : proc[p].got = 0
    BY <2>1 DEF Init
  <2>9. Abs!AbsInit
    BY <2>7, <2>8 DEF Abs!AbsInit
  <2> QED BY <2>6, <2>8, <2>9 DEF LinesInv, DevOK
<1>2. ConsoleInv /\ ConsoleInv' /\ LinesInv /\ [Next]_vars => LinesInv' /\ AbsStep
  <2>1. SUFFICES ASSUME LocksInv, InputOK(input)', LinesInv, [Next]_vars PROVE LinesInv' /\ AbsStep
    BY DEF ConsoleInv, ReadersInv
  <2>2. CASE UNCHANGED vars
    <3>1. UNCHANGED <<input, setup, dev>> /\ GotSame
      BY <2>2 DEF vars, thread, io, GotSame
    <3> QED BY <2>1, <3>1, CalmStep, CalmKeeps
  <2>3. CASE \/ Interrupt \/ MoreArrives \/ IntrAcquire \/ IntrWakeup \/ IntrDone \/ IntrDump \/ IntrReturn
             \/ \E c \in CPUs : SchedLock(c) \/ SchedPick(c) \/ SchedRelease(c)
             \/ \E p \in Procs : Kill(p)
    <3>1. UNCHANGED <<input, setup>> /\ (dev' = dev \/ Arrival) /\ GotSame
      BY <2>1, <2>3, CalmOther
    <3> QED BY <2>1, <3>1, CalmStep, CalmKeeps
  <2>4. ASSUME NEW c \in CPUs, NEW p \in Procs, Runs(c, p)
        PROVE  LinesInv' /\ AbsStep
    <3>1. CASE ReadChar(c, p)
      BY <2>1, <3>1, ReadCharStep
    <3>2. CASE ReadReturn(c, p)
      BY <2>1, <3>2, ReadReturnStep
    <3>3. CASE ~ReadChar(c, p) /\ ~ReadReturn(c, p)
      <4>1. UNCHANGED <<input, setup, dev>> /\ GotSame
        BY <2>1, <2>4, <3>3, CalmRun
      <4> QED BY <2>1, <4>1, CalmStep, CalmKeeps
    <3> QED BY <3>1, <3>2, <3>3
  <2> QED BY <2>1, <2>2, <2>3, <2>4, IntrGetcStep DEF Next
<1>3. AbsStep => [Abs!AbsNext]_(Abs!avars)
  BY DEF AbsStep, Abs!avars, GotF
<1> QED BY <1>1, <1>2, <1>3, ConsoleSafe, PTL DEF Spec, LineDiscipline, Abs!AbsSpec
=============================================================================
