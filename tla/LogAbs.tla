------------------------------- MODULE LogAbs -------------------------------
(***************************************************************************)
(* What the log promises the file system: "a log transaction contains the  *)
(* updates of multiple FS system calls" (log.c:11), and a crash leaves the *)
(* disk at the end of the last transaction that committed.                 *)
(***************************************************************************)
EXTENDS Integers

CONSTANTS Blocks, Values

VARIABLES current,    \* what the system calls read
          durable,    \* what a crash leaves
          active      \* the number of system calls in progress

avars == <<current, durable, active>>

Init ==
    /\ current \in [Blocks -> Values]
    /\ durable = current
    /\ active = 0

Begin == active' = active + 1 /\ UNCHANGED <<current, durable>>

End == active > 0 /\ active' = active - 1 /\ UNCHANGED <<current, durable>>

Write ==
    /\ active > 0
    /\ \E b \in Blocks, v \in Values : current' = [current EXCEPT ![b] = v]
    /\ UNCHANGED <<durable, active>>

(* No system call is in progress: all of each one's updates become durable *)
(* together.                                                               *)
Commit ==
    /\ active = 0
    /\ durable' = current
    /\ UNCHANGED <<current, active>>

Crash ==
    /\ current' = durable
    /\ active' = 0
    /\ UNCHANGED durable

Next == Begin \/ End \/ Write \/ Commit \/ Crash

Spec == Init /\ [][Next]_avars
=============================================================================
