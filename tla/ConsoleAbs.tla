----------------------------- MODULE ConsoleAbs -----------------------------
(***************************************************************************)
(* What the console promises a reader: a line being edited, which only the *)
(* user sees, and the characters that are ready, which reads take in       *)
(* order.  A line becomes ready whole, by a newline, by the end-of-file    *)
(* mark or because no more fits; nothing that is ready is ever erased.  An *)
(* end-of-file mark is consumed by a read that returns nothing.            *)
(***************************************************************************)
EXTENDS Integers, Sequences

CONSTANTS Readers, Letters, Size

VARIABLES ready, edit, got

avars == <<ready, edit, got>>

AbsInit == ready = <<>> /\ edit = <<>> /\ got = [p \in Readers |-> 0]

Ends(c, s) == c \in {"nl", "^D"} \/ Len(ready) + Len(s) = Size

Key(c) ==
    /\ Len(ready) + Len(edit) < Size
    /\ LET s == Append(edit, c) IN
       IF Ends(c, s) THEN ready' = ready \o s /\ edit' = <<>>
       ELSE edit' = s /\ UNCHANGED ready
    /\ UNCHANGED got

Erase ==
    /\ edit # <<>>
    /\ edit' \in {SubSeq(edit, 1, Len(edit) - 1), <<>>}
    /\ UNCHANGED <<ready, got>>

Take(p) ==
    /\ ready # <<>> /\ ready' = Tail(ready)
    /\ IF Head(ready) = "^D" THEN got[p] = 0 /\ UNCHANGED got
       ELSE got' = [got EXCEPT ![p] = @ + 1]
    /\ UNCHANGED edit

Return(p) == got' = [got EXCEPT ![p] = 0] /\ UNCHANGED <<ready, edit>>

AbsNext ==
    \/ \E c \in Letters : Key(c)
    \/ Erase
    \/ \E p \in Readers : Take(p) \/ Return(p)

AbsSpec == AbsInit /\ [][AbsNext]_avars
=============================================================================
