----------------------------- MODULE PQueueAbs -----------------------------
(***************************************************************************)
(* What the run queue of proc.c promises its callers: one unbounded FIFO   *)
(* per priority, and a dequeue that serves the highest (numerically        *)
(* lowest) non-empty priority.  PQueue shows that the ring buffers of      *)
(* ptable.pqueues implement this; Proc uses this module's operators.       *)
(***************************************************************************)
EXTENDS Naturals, Sequences

CONSTANTS Proc,      \* the processes that can be queued
          PRIO_MAX,  \* the number of priorities
          NULL       \* what pq_dequeue returns when every queue is empty

VARIABLES q,         \* q[pr]: the processes queued at priority pr
          ret        \* what the last pq_dequeue returned

Prio == 0 .. PRIO_MAX - 1

(* The queues after p is appended at priority pr. *)
Enqueued(queues, pr, p) == [queues EXCEPT ![pr] = Append(@, p)]

(* The highest priority with a queued process. *)
IsTop(queues, pr) ==
    /\ queues[pr] # <<>>
    /\ \A hi \in 0 .. pr - 1 : queues[hi] = <<>>

(* The queues after the head of priority pr is removed. *)
Dequeued(queues, pr) == [queues EXCEPT ![pr] = Tail(@)]

AllEmpty(queues) == \A pr \in Prio : queues[pr] = <<>>

----------------------------------------------------------------------------
Init == q = [pr \in Prio |-> <<>>] /\ ret = NULL

Enqueue(pr, p) ==
    /\ q' = Enqueued(q, pr, p)
    /\ UNCHANGED ret

Dequeue(pr) ==
    /\ IsTop(q, pr)
    /\ ret' = Head(q[pr])
    /\ q' = Dequeued(q, pr)

DequeueEmpty ==
    /\ AllEmpty(q)
    /\ ret' = NULL
    /\ UNCHANGED q

Next ==
    \/ \E pr \in Prio, p \in Proc : Enqueue(pr, p)
    \/ \E pr \in Prio : Dequeue(pr)
    \/ DequeueEmpty

Spec == Init /\ [][Next]_<<q, ret>>
=============================================================================
