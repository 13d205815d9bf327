------------------------------- MODULE PQueue -------------------------------
(***************************************************************************)
(* The scheduler's priority queues (proc.c: pq_enqueue, pq_dequeue, and    *)
(* the queue set-up in userinit): PRIO_MAX ring buffers of QSIZE process   *)
(* pointers with a head and a tail index each.  Every call runs with       *)
(* ptable.lock held, so a call is one step.                                *)
(*                                                                         *)
(* pq_enqueue's -1 return makes every caller panic; NoFullPanic states     *)
(* when that cannot happen.                                                *)
(***************************************************************************)
EXTENDS Integers, Sequences

CONSTANTS Proc,      \* the processes that can be queued
          PRIO_MAX,  \* the number of priorities
          QSIZE,     \* the slots of one ring buffer
          NULL,      \* ((void *)-1), and the contents of an unwritten slot
          MaxQueued  \* bound of the environment: entries of one queue at once

ASSUME PQueueAssumption ==
    /\ PRIO_MAX \in Nat \ {0}
    /\ QSIZE \in Nat /\ QSIZE > 1
    /\ MaxQueued \in Nat
    /\ NULL \notin Proc

VARIABLES head,      \* ptable.head_tail[.][0]
          tail,      \* ptable.head_tail[.][1]
          pqueues,   \* ptable.pqueues
          ret        \* what the last pq_dequeue returned

vars == <<head, tail, pqueues, ret>>

Prio == 0 .. PRIO_MAX - 1
Index == 0 .. QSIZE - 1

(* C's remainder truncates towards zero: -1 % QSIZE is -1, not QSIZE - 1.  *)
CRem(a, b) == IF a >= 0 THEN a % b ELSE -((-a) % b)

----------------------------------------------------------------------------
(* The queues as sequences: the refinement mapping to PQueueAbs.           *)

QLen(pr) == IF tail[pr] >= head[pr] THEN tail[pr] - head[pr]
                                    ELSE tail[pr] - head[pr] + QSIZE

(* The slot of entry i (1 is the head) in a ring whose head is h. *)
Slot(h, i) == IF h + i - 1 < QSIZE THEN h + i - 1 ELSE h + i - 1 - QSIZE

Contents(pr) == [i \in 1 .. QLen(pr) |-> pqueues[pr][Slot(head[pr], i)]]

Queues == [pr \in Prio |-> Contents(pr)]

Abs == INSTANCE PQueueAbs WITH q <- Queues

----------------------------------------------------------------------------
TypeOK ==
    /\ head \in [Prio -> Index]
    /\ tail \in [Prio -> Index]
    /\ pqueues \in [Prio -> [Index -> Proc \cup {NULL}]]
    /\ ret \in Proc \cup {NULL}

Init ==
    /\ head = [pr \in Prio |-> 0]
    /\ tail = [pr \in Prio |-> 0]
    /\ pqueues = [pr \in Prio |-> [i \in Index |-> NULL]]
    /\ ret = NULL

(* "queue is full": with head = 0 the right-hand side is -1. *)
FullTestOneOff(pr) == tail[pr] = CRem(head[pr] - 2, QSIZE)
FullTest(pr) == tail[pr] = CRem(head[pr] - 1, QSIZE)

(* Mutant: the entry goes one slot too far. *)
EnqueueLate(pr, p) ==
    /\ QLen(pr) < MaxQueued
    /\ ~FullTest(pr)
    /\ pqueues' = [pqueues EXCEPT ![pr][CRem(tail[pr] + 1, QSIZE)] = p]
    /\ tail' = [tail EXCEPT ![pr] = CRem(@ + 1, QSIZE)]
    /\ UNCHANGED <<head, ret>>

(* pq_enqueue(p) with p->priority = pr; its callers have made p RUNNABLE.  *)
(* The first conjunct bounds the environment.                              *)
pq_enqueue(pr, p) ==
    /\ QLen(pr) < MaxQueued
    /\ ~FullTest(pr)
    /\ pqueues' = [pqueues EXCEPT ![pr][tail[pr]] = p]
    /\ tail' = [tail EXCEPT ![pr] = CRem(@ + 1, QSIZE)]
    /\ UNCHANGED <<head, ret>>

(* pq_dequeue returning a process: pr is the first queue whose head and    *)
(* tail differ.                                                            *)
pq_dequeue(pr) ==
    /\ head[pr] # tail[pr]
    /\ \A hi \in 0 .. pr - 1 : head[hi] = tail[hi]
    /\ ret' = pqueues[pr][head[pr]]
    /\ head' = [head EXCEPT ![pr] = CRem(@ + 1, QSIZE)]
    /\ UNCHANGED <<tail, pqueues>>

(* pq_dequeue when every head equals its tail. *)
pq_dequeue_empty ==
    /\ \A pr \in Prio : head[pr] = tail[pr]
    /\ ret' = NULL
    /\ UNCHANGED <<head, tail, pqueues>>

Next ==
    \/ \E pr \in Prio, p \in Proc : pq_enqueue(pr, p)
    \/ \E pr \in Prio : pq_dequeue(pr)
    \/ pq_dequeue_empty

Spec == Init /\ [][Next]_vars

----------------------------------------------------------------------------
(* While no queue is ever asked to hold more than QSIZE - 1 entries (the   *)
(* kernel has NPROC = 64 < QSIZE = 100 processes), the ring buffers behave *)
(* as FIFO queues served by strict priority: pq_dequeue returns the oldest *)
(* entry of the highest non-empty priority, and no entry is lost.          *)
RefinesAbs == Abs!Spec

(* Below the environment's bound pq_enqueue never reports a full queue, so *)
(* none of its callers panics "process tried to enqueue when queue is      *)
(* full".                                                                  *)
NoFullPanic == \A pr \in Prio : QLen(pr) < MaxQueued => ~FullTest(pr)
=============================================================================
