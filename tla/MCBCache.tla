------------------------------ MODULE MCBCache ------------------------------
(* Model checking of BCache: processes and blocks are interchangeable.     *)
EXTENDS BCache, TLC

Symmetry == Permutations(Procs) \cup Permutations(Blocks) \cup Permutations(Values)
=============================================================================
