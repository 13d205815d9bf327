------------------------------ MODULE Spinlock ------------------------------
(***************************************************************************)
(* Spin locks and the nesting of "interrupts off" (spinlock.c).            *)
(*                                                                         *)
(* A lock belongs to a CPU, not to a process: it is taken by one kernel    *)
(* thread and may be released by the next one on the same CPU (sched).     *)
(* acquire is two steps: pushcli with the check for a lock already held,   *)
(* then the exchange that gets the lock.  Recording lk->cpu goes with the  *)
(* exchange: holding() compares it with the reader's own CPU only.         *)
(***************************************************************************)
EXTENDS Integers

CONSTANTS CPUs, Locks, NoCpu

ASSUME SpinAssumption == CPUs # {} /\ NoCpu \notin CPUs

VARIABLES cpu,    \* per CPU: the interrupt flag, ncli and intena
          lock    \* per lock: the CPU that holds it

SpinTypeOK ==
    /\ cpu \in [CPUs -> [fl : BOOLEAN, ncli : Int, intena : BOOLEAN]]
    /\ lock \in [Locks -> CPUs \cup {NoCpu}]

(* What pushcli and popcli make of a CPU.                                  *)
pushcli(s) == [fl |-> FALSE, ncli |-> s.ncli + 1,
               intena |-> IF s.ncli = 0 THEN s.fl ELSE s.intena]
popcli(s) == [s EXCEPT !.fl = @ \/ (s.ncli = 1 /\ s.intena), !.ncli = @ - 1]
PopPanics(s) == s.fl \/ s.ncli < 1

holding(c, l) == lock[l] = c

(* The two halves of acquire.  The first panics when the CPU has the lock. *)
AcquirePanics(c, l) == holding(c, l)
Spins(c, s) == cpu' = [cpu EXCEPT ![c] = pushcli(s)]
Acquires(c, l) == lock[l] = NoCpu /\ lock' = [lock EXCEPT ![l] = c]

(* release, on the CPU state s. *)
ReleasePanics(c, l, s) == ~holding(c, l) \/ PopPanics(s)
Released(l) == [lock EXCEPT ![l] = NoCpu]
=============================================================================
