------------------------------ MODULE PipeAbs ------------------------------
(***************************************************************************)
(* What a pipe promises: a bounded stream of bytes, read in the order in   *)
(* which it was written.                                                   *)
(***************************************************************************)
EXTENDS Naturals, Sequences

CONSTANTS Bytes, PIPESIZE

VARIABLES stream,     \* bytes written and not yet read
          out         \* what the last read returned

Init == stream = <<>> /\ out = <<>>

Put ==
    /\ \E n \in 1 .. PIPESIZE - Len(stream) :
        \E bs \in [1 .. n -> Bytes] : stream' = stream \o bs
    /\ UNCHANGED out

Get ==
    \E n \in 0 .. Len(stream) :
        /\ out' = SubSeq(stream, 1, n)
        /\ stream' = SubSeq(stream, n + 1, Len(stream))

Next == Put \/ Get

Spec == Init /\ [][Next]_<<stream, out>>
=============================================================================
