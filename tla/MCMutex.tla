------------------------------ MODULE MCMutex ------------------------------
(***************************************************************************)
(* Bounds for Mutex: no action names a process other than First, nor a     *)
(* CPU; the mutexes are numbers, which mcreate compares.                   *)
(***************************************************************************)
EXTENDS Mutex, TLC

Alike == Permutations(Procs \ {First}) \cup Permutations(CPUs)
AlikeProcs == Permutations(Procs \ {First})

(* Programs that use their mutexes well: nothing beyond the first step     *)
(* that spoils one.                                                        *)
Kept == spoiled = {}
=============================================================================
