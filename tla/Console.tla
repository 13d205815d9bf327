------------------------------ MODULE Console ------------------------------
(***************************************************************************)
(* The console (console.c, uart.c, kbd.c) on CPUs with interrupts and spin *)
(* locks: processes that read and write it, the interrupt handler that     *)
(* takes what is typed, and the part of the scheduler (proc.c) through     *)
(* which a reader sleeps, is preempted and comes back, on any CPU.         *)
(*                                                                         *)
(* A process is "user" in user mode and in kernel code where it holds no   *)
(* lock.  Each spin... pc waits for a lock with interrupts off.            *)
(***************************************************************************)
EXTENDS Spinlock, Kbd, Sequences, FiniteSets

CONSTANTS Procs,
          Bsp,         \* the CPU that gets the console's interrupts
          INPUT_BUF, UINT,   \* size of the buffer; indices wrap at UINT
          Cols, Rows,  \* the screen
          Keys,        \* keys of the keyboard, by make and break codes
          MaxRead,     \* largest read
          Setups       \* who is there: the processes, those of them that may be
                       \* killed, whether there is a serial line and what
                       \* arrives on it (without one there is the keyboard)

NoProc == "noproc"

ASSUME ConsoleAssumption ==
    /\ Bsp \in CPUs /\ Locks = {"cons", "ptable"} /\ NoProc \notin Procs
    /\ INPUT_BUF \in Nat \ {0} /\ UINT \in Nat /\ UINT % INPUT_BUF = 0 /\ UINT > INPUT_BUF
    /\ Cols \in Nat \ {0} /\ Rows \in Nat /\ Rows >= 2 /\ MaxRead \in Nat

VARIABLES cur,       \* the process on each CPU
          sch,       \* where each CPU's scheduler is
          proc,
          hdl,       \* the console interrupt handler on Bsp
          input,     \* buf, and its read, write and edit indices
          setup,     \* the setup, which stays
          dev,       \* what the devices hold for the handler
          shift,     \* the keyboard driver's modifiers
          held,      \* modifier keys that are down
          pos,       \* the cursor
          panicked

thread == <<cur, sch, proc>>
io == <<hdl, input, setup, dev, shift, held, pos>>
vars == <<cpu, lock, thread, io, panicked>>

Init ==
    /\ cpu = [c \in CPUs |-> [fl |-> TRUE, ncli |-> 0, intena |-> FALSE]]
    /\ lock = [l \in Locks |-> NoCpu]
    /\ cur = [c \in CPUs |-> NoProc] /\ sch = [c \in CPUs |-> "idle"]
    /\ \E s \in Setups :
        /\ setup = s
        /\ proc = [p \in Procs |->
            [pc |-> "new", back |-> "user",
             state |-> IF p \in s.procs THEN "RUNNABLE" ELSE "UNUSED", intena |-> FALSE,
             n |-> 0, got |-> 0, killed |-> FALSE]]
    /\ hdl = [pc |-> "none", dump |-> FALSE]
    /\ input = [buf |-> [i \in 0 .. INPUT_BUF - 1 |-> "0"], r |-> 0, w |-> 0, e |-> 0]
    /\ dev = <<>> /\ shift = {} /\ held = {}
    /\ pos = 0 /\ panicked = FALSE

Halt == ~panicked /\ panicked' = TRUE /\ UNCHANGED <<cpu, lock, thread, io>>

(* A is taken, or the kernel panics and stops. *)
Still == ~panicked /\ UNCHANGED panicked
Unless(bad, A) == IF bad THEN Halt ELSE A /\ Still

SetCpu(c, s) == cpu' = [cpu EXCEPT ![c] = s]

----------------------------------------------------------------------------
(* Output. *)
Moved(at, c) ==
    CASE c = "nl" -> at + (Cols - (at % Cols))
      [] c = "bs" -> IF at > 0 THEN at - 1 ELSE at
      [] OTHER -> at + 1

(* The cursor after a character, negative once cgaputc has panicked        *)
(* (mutant: it scrolls a row late).                                        *)
ScrollsLate(at) == at \div Cols >= Rows + 1
Scrolls(at) == at \div Cols >= Rows - 1
cgaputc(at, c) ==
    LET m == Moved(at, c) IN
    IF at < 0 \/ m > Rows * Cols THEN -1 ELSE IF Scrolls(m) THEN m - Cols ELSE m

consputc(at, cs) ==
    LET after[i \in 0 .. Len(cs)] == IF i = 0 THEN at ELSE cgaputc(after[i - 1], cs[i])
    IN  after[Len(cs)]

----------------------------------------------------------------------------
(* Input.  All arithmetic on the indices is unsigned. *)
Minus(a, b) == (a - b) % UINT
Plus(a, b) == (a + b) % UINT
At(in, i) == in.buf[i % INPUT_BUF]

(* The characters between two indices. *)
Window(in, a, b) == [k \in 1 .. Minus(b, a) |-> At(in, Plus(a, k - 1))]

(* ^U goes back to the write index or to a newline. *)
Rubout(in) ==
    CHOOSE k \in 0 .. Minus(in.e, in.w) :
        /\ k = Minus(in.e, in.w) \/ At(in, Minus(in.e, k + 1)) = "nl"
        /\ \A j \in 0 .. k - 1 : At(in, Minus(in.e, j + 1)) # "nl"

(* Whether a character makes the line ready (mutant: not when it is the    *)
(* last that fits).                                                        *)
ReadyByMark(in, c) == c \in {"nl", "^D"}
LineReady(in, c) == c \in {"nl", "^D"} \/ in.e = Plus(in.r, INPUT_BUF)

Typed(in, c) ==
    LET ch == IF c = "cr" THEN "nl" ELSE c
        next == [in EXCEPT !.buf[in.e % INPUT_BUF] = ch, !.e = Plus(@, 1)]
        line == LineReady(next, ch)
    IN  IF c = "0" \/ Minus(in.e, in.r) >= INPUT_BUF
        THEN [input |-> in, echo |-> <<>>, wake |-> FALSE]
        ELSE [input |-> IF line THEN [next EXCEPT !.w = next.e] ELSE next,
              echo |-> <<ch>>, wake |-> line]

(* One turn of consoleintr's loop. *)
Edit(in, c) ==
    LET back(k) == [input |-> [in EXCEPT !.e = Minus(@, k)],
                    echo |-> [i \in 1 .. k |-> "bs"], wake |-> FALSE]
    IN  CASE c = "^P" -> back(0)
          [] c = "^U" -> back(Rubout(in))
          [] c = "^H" -> back(IF in.e # in.w THEN 1 ELSE 0)
          [] OTHER -> Typed(in, c)

----------------------------------------------------------------------------
(* Something for the handler: a character on the serial line, or a key     *)
(* that goes down or up.  What comes while interrupts are off waits in the *)
(* device, which is the same as coming later.                              *)
Arrival ==
    \/ /\ setup.uart /\ dev = <<>>
       /\ \E ch \in setup.serial : dev' = <<ch>>
       /\ UNCHANGED held
    \/ /\ ~setup.uart /\ Len(dev) <= 1
       /\ \E k \in Keys :
           \/ /\ k \notin held
              /\ dev' = dev \o k.make
              /\ held' = IF k.mod = {} THEN held ELSE held \cup {k}
           \/ /\ k \in held \/ k.mod = {}
              /\ dev' = dev \o k.break
              /\ held' = held \ {k}

(* The handler: an interrupt gate, so interrupts are off throughout. *)
Handling(c) == c = Bsp /\ hdl.pc # "none"
Gate(c) == [cpu[c] EXCEPT !.fl = FALSE]

Interrupt ==
    /\ cpu[Bsp].fl
    /\ Unless(AcquirePanics(Bsp, "cons"),
        /\ Arrival
        /\ Spins(Bsp, Gate(Bsp))
        /\ hdl' = [pc |-> "spin", dump |-> FALSE]
        /\ UNCHANGED <<lock, thread, input, setup, shift, pos>>)

MoreArrives ==
    /\ hdl.pc = "getc" /\ Arrival
    /\ UNCHANGED <<cpu, lock, thread, hdl, input, setup, shift, pos>> /\ Still

IntrAcquire ==
    /\ \/ hdl.pc = "spin" /\ Acquires(Bsp, "cons") /\ hdl' = [hdl EXCEPT !.pc = "getc"]
       \/ hdl.pc = "spinwake" /\ Acquires(Bsp, "ptable") /\ hdl' = [hdl EXCEPT !.pc = "wakeup"]
       \/ hdl.pc = "spindump" /\ Acquires(Bsp, "cons") /\ hdl' = [hdl EXCEPT !.pc = "dump"]
    /\ UNCHANGED <<cpu, thread, input, setup, dev, shift, held, pos>> /\ Still

(* getc is uartgetc or kbdgetc. *)
Got == IF setup.uart THEN [shift |-> shift, c |-> Head(dev)] ELSE kbdgetc(shift, Head(dev))

IntrGetc ==
    /\ hdl.pc = "getc" /\ dev # <<>>
    /\ LET x == Edit(input, Got.c) IN
       Unless(consputc(pos, x.echo) < 0 \/ (x.wake /\ AcquirePanics(Bsp, "ptable")),
        /\ dev' = Tail(dev) /\ shift' = Got.shift
        /\ input' = x.input
        /\ pos' = consputc(pos, x.echo)
        /\ IF x.wake THEN Spins(Bsp, cpu[Bsp]) ELSE UNCHANGED cpu
        /\ hdl' = [pc |-> IF x.wake THEN "spinwake" ELSE "getc", dump |-> hdl.dump \/ Got.c = "^P"]
        /\ UNCHANGED <<lock, thread, setup, held>>)

(* wakeup(&input.r) with ptable.lock. *)
IntrWakeup ==
    /\ hdl.pc = "wakeup"
    /\ Unless(ReleasePanics(Bsp, "ptable", cpu[Bsp]),
        /\ proc' = [p \in Procs |-> IF proc[p].state = "SLEEPING"
                                          THEN [proc[p] EXCEPT !.state = "RUNNABLE"] ELSE proc[p]]
        /\ lock' = Released("ptable") /\ SetCpu(Bsp, popcli(cpu[Bsp]))
        /\ hdl' = [hdl EXCEPT !.pc = "getc"]
        /\ UNCHANGED <<cur, sch, input, setup, dev, shift, held, pos>>)

(* The devices are empty: release, and procdump's cprintf if asked. *)
IntrDone ==
    /\ hdl.pc = "getc" /\ dev = <<>>
    /\ Unless(ReleasePanics(Bsp, "cons", cpu[Bsp]),
        /\ lock' = Released("cons")
        /\ IF hdl.dump THEN Spins(Bsp, popcli(cpu[Bsp])) ELSE SetCpu(Bsp, popcli(cpu[Bsp]))
        /\ hdl' = [hdl EXCEPT !.pc = IF hdl.dump THEN "spindump" ELSE "iret"]
        /\ UNCHANGED <<thread, input, setup, dev, shift, held, pos>>)

(* One cprintf stands for all of procdump's. *)
IntrDump ==
    /\ hdl.pc = "dump"
    /\ Unless(ReleasePanics(Bsp, "cons", cpu[Bsp]) \/ consputc(pos, <<"x", "nl">>) < 0,
        /\ pos' = consputc(pos, <<"x", "nl">>)
        /\ lock' = Released("cons") /\ SetCpu(Bsp, popcli(cpu[Bsp]))
        /\ hdl' = [pc |-> "iret", dump |-> FALSE]
        /\ UNCHANGED <<thread, input, setup, dev, shift, held>>)

IntrReturn ==
    /\ hdl.pc = "iret"
    /\ SetCpu(Bsp, [cpu[Bsp] EXCEPT !.fl = TRUE])
    /\ hdl' = [hdl EXCEPT !.pc = "none"]
    /\ UNCHANGED <<lock, thread, input, setup, dev, shift, held, pos>> /\ Still

----------------------------------------------------------------------------
(* The scheduler of a CPU. *)
SchedLock(c) ==
    /\ sch[c] = "idle" /\ ~Handling(c)
    /\ Unless(AcquirePanics(c, "ptable"),
        /\ Spins(c, cpu[c])
        /\ sch' = [sch EXCEPT ![c] = "spin"]
        /\ UNCHANGED <<lock, cur, proc, io>>)

(* It picks a process, or none. *)
SchedPick(c) ==
    /\ sch[c] = "spin" /\ Acquires(c, "ptable")
    /\ \/ \E p \in Procs :
            /\ proc[p].state = "RUNNABLE"
            /\ proc' = [proc EXCEPT ![p].state = "RUNNING"]
            /\ cur' = [cur EXCEPT ![c] = p]
            /\ sch' = [sch EXCEPT ![c] = "swtch"]
       \/ /\ \A p \in Procs : proc[p].state # "RUNNABLE"
          /\ sch' = [sch EXCEPT ![c] = "release"]
          /\ UNCHANGED <<cur, proc>>
    /\ UNCHANGED <<cpu, io>> /\ Still

(* release, and sti at the top of the loop. *)
SchedRelease(c) ==
    /\ sch[c] = "release"
    /\ Unless(ReleasePanics(c, "ptable", cpu[c]),
        /\ lock' = Released("ptable")
        /\ SetCpu(c, [popcli(cpu[c]) EXCEPT !.fl = TRUE])
        /\ sch' = [sch EXCEPT ![c] = "idle"]
        /\ UNCHANGED <<cur, proc, io>>)

(* sched, with ptable.lock taken in this step and the CPU in state s.      *)
SchedPanics(s) == s.ncli # 1 \/ s.fl
Sched(c, p, s, r) ==
    /\ SetCpu(c, s)
    /\ proc' = [proc EXCEPT ![p] = [r EXCEPT !.intena = s.intena]]
    /\ cur' = [cur EXCEPT ![c] = NoProc]
    /\ sch' = [sch EXCEPT ![c] = "release"]

(* The end of sched: intena is the thread's own again (mutant: it is not   *)
(* saved).                                                                 *)
KeepsCpu(s, r) == s
Restored(s, r) == IF r.pc = "new" THEN s ELSE [s EXCEPT !.intena = r.intena]

(* p is what the CPU c runs, and no interrupt is being served there. *)
On(c, p) == cur[c] = p /\ ~Handling(c)
AtPc(c, p, pc) == On(c, p) /\ proc[p].pc = pc

(* Back on a CPU: forkret, or the rest of yield and of sleep. *)
Resume(c, p) ==
    LET s == Restored(cpu[c], proc[p]) IN
    /\ On(c, p) /\ proc[p].pc \in {"new", "yielded", "slept"}
    /\ Unless(ReleasePanics(c, "ptable", s),
        /\ lock' = Released("ptable") /\ SetCpu(c, popcli(s))
        /\ proc' = [proc EXCEPT ![p].pc = CASE @ = "new" -> "user" [] @ = "yielded" -> "iret"
                                            [] @ = "slept" -> "wake"]
        /\ UNCHANGED <<cur, sch, io>>)

(* The timer: yield. *)
Timer(c, p) ==
    /\ On(c, p) /\ cpu[c].fl
    /\ Unless(AcquirePanics(c, "ptable"),
        /\ Spins(c, Gate(c))
        /\ proc' = [proc EXCEPT ![p].pc = "spinyield", ![p].back = proc[p].pc]
        /\ UNCHANGED <<lock, cur, sch, io>>)

Yield(c, p) ==
    /\ AtPc(c, p, "spinyield") /\ lock["ptable"] = NoCpu
    /\ Unless(SchedPanics(cpu[c]),
        /\ Acquires(c, "ptable")
        /\ Sched(c, p, cpu[c], [proc[p] EXCEPT !.pc = "yielded", !.state = "RUNNABLE"])
        /\ UNCHANGED io)

TimerReturn(c, p) ==
    /\ AtPc(c, p, "iret")
    /\ SetCpu(c, [cpu[c] EXCEPT !.fl = TRUE])
    /\ proc' = [proc EXCEPT ![p].pc = proc[p].back, ![p].back = "user"]
    /\ UNCHANGED <<lock, cur, sch, io>> /\ Still

----------------------------------------------------------------------------
(* Processes. *)
StartsAcquire(c, l, p, r) ==
    Unless(AcquirePanics(c, l),
        /\ Spins(c, cpu[c])
        /\ proc' = [proc EXCEPT ![p] = r]
        /\ UNCHANGED <<lock, cur, sch, io>>)

(* consoleread and consolewrite, after iunlock(ip). *)
ReadStart(c, p) ==
    /\ AtPc(c, p, "user") /\ ~proc[p].killed
    /\ \E n \in 1 .. MaxRead :
        StartsAcquire(c, "cons", p, [proc[p] EXCEPT !.pc = "spinread", !.n = n])

WriteStart(c, p) ==
    /\ AtPc(c, p, "user") /\ ~proc[p].killed
    /\ StartsAcquire(c, "cons", p, [proc[p] EXCEPT !.pc = "spinwrite"])

ProcAcquire(c, p) ==
    /\ On(c, p) /\ proc[p].pc \in {"spinread", "spinwrite"} /\ Acquires(c, "cons")
    /\ proc' = [proc EXCEPT ![p].pc = IF @ = "spinread" THEN "read" ELSE "write"]
    /\ UNCHANGED <<cpu, cur, sch, io>> /\ Still

Write(c, p) ==
    /\ AtPc(c, p, "write")
    /\ \E s \in {<<"x">>, <<"x", "nl">>} :
        Unless(ReleasePanics(c, "cons", cpu[c]) \/ consputc(pos, s) < 0,
            /\ pos' = consputc(pos, s)
            /\ lock' = Released("cons") /\ SetCpu(c, popcli(cpu[c]))
            /\ proc' = [proc EXCEPT ![p].pc = "user"]
            /\ UNCHANGED <<cur, sch, hdl, input, setup, dev, shift, held>>)

(* The index after an end-of-file mark: put back for the next read if this *)
(* one has something to return (mutant: never).                            *)
EatsEof(r, got) == Plus(r, 1)
AfterEof(r, got) == IF got > 0 THEN r ELSE Plus(r, 1)

ReadChar(c, p) ==
    LET ch == At(input, input.r)
        q == proc[p]
    IN  /\ AtPc(c, p, "read") /\ input.r # input.w
        /\ IF ch = "^D"
           THEN /\ input' = [input EXCEPT !.r = AfterEof(@, q.got)]
                /\ proc' = [proc EXCEPT ![p].pc = "return"]
           ELSE /\ input' = [input EXCEPT !.r = Plus(@, 1)]
                /\ proc' = [proc EXCEPT ![p].n = @ - 1, ![p].got = @ + 1,
                                        ![p].pc = IF ch = "nl" \/ q.n = 1 THEN "return" ELSE "read"]
        /\ UNCHANGED <<cpu, lock, cur, sch, hdl, setup, dev, shift, held, pos>> /\ Still

(* Nothing to read: a killed process returns -1, another sleeps. *)
ReadEmpty(c, p) ==
    /\ AtPc(c, p, "read") /\ input.r = input.w
    /\ IF proc[p].killed
       THEN /\ proc' = [proc EXCEPT ![p].pc = "return"]
            /\ UNCHANGED <<cpu, lock, cur, sch, io>> /\ Still
       ELSE StartsAcquire(c, "ptable", p, [proc[p] EXCEPT !.pc = "spinsleep"])

ReadReturn(c, p) ==
    /\ AtPc(c, p, "return")
    /\ Unless(ReleasePanics(c, "cons", cpu[c]),
        /\ lock' = Released("cons") /\ SetCpu(c, popcli(cpu[c]))
        /\ proc' = [proc EXCEPT ![p].pc = "user", ![p].got = 0, ![p].n = 0]
        /\ UNCHANGED <<cur, sch, io>>)

(* sleep(&input.r, &cons.lock): ptable.lock first, then cons.lock goes. *)
Sleep(c, p) ==
    LET s == popcli(cpu[c]) IN
    /\ AtPc(c, p, "spinsleep") /\ lock["ptable"] = NoCpu
    /\ Unless(ReleasePanics(c, "cons", cpu[c]) \/ SchedPanics(s),
        /\ lock' = [lock EXCEPT !["ptable"] = c, !["cons"] = NoCpu]
        /\ Sched(c, p, s, [proc[p] EXCEPT !.pc = "slept", !.state = "SLEEPING"])
        /\ UNCHANGED io)

Awake(c, p) ==
    /\ AtPc(c, p, "wake")
    /\ StartsAcquire(c, "cons", p, [proc[p] EXCEPT !.pc = "spinread"])

(* A killed process exits on its way to user mode. *)
ExitStart(c, p) ==
    /\ AtPc(c, p, "user") /\ proc[p].killed
    /\ StartsAcquire(c, "ptable", p, [proc[p] EXCEPT !.pc = "spinexit"])

Exit(c, p) ==
    /\ AtPc(c, p, "spinexit") /\ lock["ptable"] = NoCpu
    /\ Unless(SchedPanics(cpu[c]),
        /\ Acquires(c, "ptable")
        /\ Sched(c, p, cpu[c], [proc[p] EXCEPT !.pc = "dead", !.state = "ZOMBIE"])
        /\ UNCHANGED io)

(* kill, by some process that has ptable.lock for the while. *)
Kill(p) ==
    /\ lock["ptable"] = NoCpu
    /\ p \in setup.victims /\ proc[p].state \notin {"ZOMBIE", "UNUSED"} /\ ~proc[p].killed
    /\ proc' = [proc EXCEPT ![p].killed = TRUE,
                            ![p].state = IF @ = "SLEEPING" THEN "RUNNABLE" ELSE @]
    /\ UNCHANGED <<cpu, lock, cur, sch, io>> /\ Still

----------------------------------------------------------------------------
Runs(c, p) ==
    \/ Resume(c, p) \/ Timer(c, p) \/ Yield(c, p) \/ TimerReturn(c, p)
    \/ ReadStart(c, p) \/ WriteStart(c, p) \/ ProcAcquire(c, p)
    \/ Write(c, p) \/ ReadChar(c, p) \/ ReadEmpty(c, p) \/ ReadReturn(c, p)
    \/ Sleep(c, p) \/ Awake(c, p) \/ ExitStart(c, p) \/ Exit(c, p)

Next ==
    \/ Interrupt \/ MoreArrives \/ IntrAcquire \/ IntrGetc \/ IntrWakeup
    \/ IntrDone \/ IntrDump \/ IntrReturn
    \/ \E c \in CPUs : SchedLock(c) \/ SchedPick(c) \/ SchedRelease(c) \/ \E p \in Procs : Runs(c, p)
    \/ \E p \in Procs : Kill(p)

Spec == Init /\ [][Next]_vars

----------------------------------------------------------------------------
(* No panic: a CPU never waits for a lock it has (an interrupt taken while *)
(* the lock is held would), never releases one it has not, pushcli and     *)
(* popcli match, sched is entered with ptable.lock alone and interrupts    *)
(* off (spinlock.c:28, 48, 110; proc.c:558), and the cursor stays on the   *)
(* screen (console.c:140).                                                 *)
NoPanic == ~panicked

(* Interrupts are off on a CPU exactly while it holds or waits for a lock  *)
(* or serves an interrupt, whoever ran on it before and wherever its       *)
(* thread slept or was preempted (proc.c:561-563).                         *)
Waits(c) == cur[c] # NoProc /\ proc[cur[c]].pc = "iret"
InterruptsMatch ==
    \A c \in CPUs : cpu[c].fl <=> cpu[c].ncli = 0 /\ ~Handling(c) /\ ~Waits(c)

(* What can be typed on the serial line and on the keyboard. *)
Serials == UNION {s.serial : s \in Setups}
Typable == Serials \cup {"a", "A", "^A", "u", "U", "nl"}

(* The buffer with its wrapping indices keeps the promise of ConsoleAbs.   *)
Abs == INSTANCE ConsoleAbs WITH
    Readers <- Procs, Letters <- Typable \ {"0", "cr", "^H", "^U", "^P"}, Size <- INPUT_BUF,
    ready <- Window(input, input.r, input.w), edit <- Window(input, input.w, input.e),
    got <- [p \in Procs |-> proc[p].got]
LineDiscipline == Abs!AbsSpec

(* Nobody sleeps while there is something to read, except for the moment   *)
(* before the handler's wakeup; and a full buffer can be read, since no    *)
(* newline could be typed into it any more (console.c:213-216).            *)
NoReaderForgotten ==
    /\ input.r # input.w /\ hdl.pc \notin {"spinwake", "wakeup"} =>
         \A p \in Procs : proc[p].state # "SLEEPING"
    /\ Minus(input.e, input.r) = INPUT_BUF => input.w = input.e

(* With all scan codes taken, a modifier that holds belongs to a key that  *)
(* is down, and no escape is pending (kbd.c:17-29).                        *)
NoStuckModifier ==
    dev = <<>> => shift \ {"CAPSLOCK", "NUMLOCK", "SCROLLLOCK"} \subseteq UNION {k.mod : k \in held}
=============================================================================
