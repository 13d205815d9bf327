------------------------------- MODULE MCProc -------------------------------
(* Proc for TLC: the CPUs are interchangeable. *)
EXTENDS Proc, TLC

Symmetry == Permutations(CPUs)

(* Arguments of prio_set, a negative one among them. *)
AnyInt == {-1, 1}
=============================================================================
