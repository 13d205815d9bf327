----------------------------- MODULE BlockStore -----------------------------
(***************************************************************************)
(* What the buffer cache promises the file system: "a locked buf with the  *)
(* contents of the indicated block" (bio.c:95), one process at a time per  *)
(* block, and nothing but its holder changes a block.                      *)
(***************************************************************************)
CONSTANTS Procs, Blocks, Values, Nobody

VARIABLES store,      \* the contents of each block
          holder      \* who has its buffer locked

svars == <<store, holder>>

Init ==
    /\ store \in [Blocks -> Values]
    /\ holder = [k \in Blocks |-> Nobody]

Take(p, k) ==
    /\ holder[k] = Nobody
    /\ holder' = [holder EXCEPT ![k] = p]
    /\ UNCHANGED store

Write(p, k) ==
    /\ holder[k] = p
    /\ \E v \in Values : store' = [store EXCEPT ![k] = v]
    /\ UNCHANGED holder

Drop(p, k) ==
    /\ holder[k] = p
    /\ holder' = [holder EXCEPT ![k] = Nobody]
    /\ UNCHANGED store

Next == \E p \in Procs, k \in Blocks : Take(p, k) \/ Write(p, k) \/ Drop(p, k)

Spec == Init /\ [][Next]_svars
=============================================================================
