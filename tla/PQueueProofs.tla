---------------------------- MODULE PQueueProofs ----------------------------
(***************************************************************************)
(* The ring buffers implement the priority FIFOs for every PRIO_MAX, every *)
(* QSIZE > 1 and every environment that keeps at most QSIZE - 1 entries in *)
(* a queue.                                                                *)
(***************************************************************************)
EXTENDS PQueue, SequenceTheorems, TLAPS

(* A sequence is the function of its elements. *)
LEMMA SeqIs == ASSUME NEW S, NEW t \in Seq(S) PROVE t = [i \in 1 .. Len(t) |-> t[i]]
OBVIOUS

(* Append and Tail as functions on an interval. *)
LEMMA AppendIs ==
    ASSUME NEW S, NEW s \in Seq(S), NEW e \in S
    PROVE  Append(s, e) = [i \in 1 .. Len(s) + 1 |-> IF i = Len(s) + 1 THEN e ELSE s[i]]
<1>1. /\ Append(s, e) \in Seq(S) /\ Len(Append(s, e)) = Len(s) + 1
      /\ \A i \in 1 .. Len(s) : Append(s, e)[i] = s[i]
      /\ Append(s, e)[Len(s) + 1] = e
  BY AppendProperties
<1>2. Append(s, e) = [i \in 1 .. Len(s) + 1 |-> Append(s, e)[i]]
  BY <1>1, SeqIs, Zenon
<1>3. \A i \in 1 .. Len(s) + 1 : Append(s, e)[i] = IF i = Len(s) + 1 THEN e ELSE s[i]
  BY <1>1
<1> QED BY <1>2, <1>3

(* The tail as a function. *)
LEMMA TailIs ==
    ASSUME NEW S, NEW s \in Seq(S), s # <<>>
    PROVE  Tail(s) = [i \in 1 .. Len(s) - 1 |-> s[i + 1]]
<1>1. /\ Tail(s) \in Seq(S) /\ Len(Tail(s)) = Len(s) - 1
      /\ \A i \in 1 .. Len(Tail(s)) : Tail(s)[i] = s[i + 1]
  BY HeadTailProperties
<1>2. Tail(s) = [i \in 1 .. Len(s) - 1 |-> Tail(s)[i]]
  BY <1>1, SeqIs, Zenon
<1> QED BY <1>1, <1>2

(* Advancing an index with C's remainder wraps it to 0 at QSIZE. *)
LEMMA NextIndex ==
    ASSUME NEW x \in Index
    PROVE  CRem(x + 1, QSIZE) = IF x + 1 = QSIZE THEN 0 ELSE x + 1
BY PQueueAssumption DEF Index, CRem

(* The predecessor pq_enqueue compares the tail with: -1 when head is 0. *)
LEMMA PrevIndex ==
    ASSUME NEW x \in Index
    PROVE  CRem(x - 1, QSIZE) = x - 1
BY PQueueAssumption DEF Index, CRem

(* The type invariant: indexes stay inside the rings. *)
THEOREM TypeCorrect == Spec => []TypeOK
<1>1. Init => TypeOK
  BY PQueueAssumption DEF Init, TypeOK, Index
<1>2. TypeOK /\ [Next]_vars => TypeOK'
  <2> SUFFICES ASSUME TypeOK, [Next]_vars PROVE TypeOK'
    OBVIOUS
  <2>1. ASSUME NEW pr \in Prio, NEW p \in Proc, pq_enqueue(pr, p) PROVE TypeOK'
    <3>1. tail[pr] \in Index /\ CRem(tail[pr] + 1, QSIZE) \in Index
      BY NextIndex, PQueueAssumption DEF TypeOK, Index
    <3> QED BY <2>1, <3>1 DEF pq_enqueue, TypeOK
  <2>2. ASSUME NEW pr \in Prio, pq_dequeue(pr) PROVE TypeOK'
    <3>1. head[pr] \in Index /\ CRem(head[pr] + 1, QSIZE) \in Index
      BY NextIndex, PQueueAssumption DEF TypeOK, Index
    <3> QED BY <2>2, <3>1 DEF pq_dequeue, TypeOK
  <2>3. CASE pq_dequeue_empty
    BY <2>3 DEF pq_dequeue_empty, TypeOK
  <2>4. CASE UNCHANGED vars
    BY <2>4 DEF vars, TypeOK
  <2> QED BY <2>1, <2>2, <2>3, <2>4 DEF Next
<1> QED BY <1>1, <1>2, PTL DEF Spec

----------------------------------------------------------------------------
(* The sequence a ring stands for is a sequence of QLen entries. *)
LEMMA ContentsSeq ==
    ASSUME TypeOK, NEW pr \in Prio
    PROVE  /\ QLen(pr) \in 0 .. QSIZE - 1
           /\ Contents(pr) \in Seq(Proc \cup {NULL})
           /\ Len(Contents(pr)) = QLen(pr)
           /\ Contents(pr) = <<>> <=> head[pr] = tail[pr]
<1>1. head[pr] \in Index /\ tail[pr] \in Index
  BY DEF TypeOK
<1>2. QLen(pr) \in 0 .. QSIZE - 1 /\ (QLen(pr) = 0 <=> head[pr] = tail[pr])
  BY <1>1, PQueueAssumption DEF QLen, Index
<1>3. \A i \in 1 .. QLen(pr) : Slot(head[pr], i) \in Index
  BY <1>1, <1>2, PQueueAssumption DEF Slot, Index
<1>4. \A i \in 1 .. QLen(pr) : pqueues[pr][Slot(head[pr], i)] \in Proc \cup {NULL}
  BY <1>3 DEF TypeOK
<1>5. Contents(pr) \in Seq(Proc \cup {NULL}) /\ Len(Contents(pr)) = QLen(pr)
  BY <1>2, <1>4 DEF Contents
<1> QED BY <1>2, <1>5

(* An enqueue appends to the sequence of its priority and leaves the       *)
(* sequences of the other priorities alone.                                *)
LEMMA EnqueueAppends ==
    ASSUME TypeOK, MaxQueued < QSIZE,
           NEW pr \in Prio, NEW p \in Proc, pq_enqueue(pr, p)
    PROVE  Queues' = Abs!Enqueued(Queues, pr, p)
<1>1. head[pr] \in Index /\ tail[pr] \in Index
  BY DEF TypeOK
<1>2. /\ head' = head
      /\ tail'[pr] = IF tail[pr] + 1 = QSIZE THEN 0 ELSE tail[pr] + 1
      /\ QLen(pr) < MaxQueued
  BY <1>1, NextIndex DEF pq_enqueue, TypeOK
<1>3. QLen(pr)' = QLen(pr) + 1
  BY <1>1, <1>2, PQueueAssumption DEF QLen, Index
<1>4. Slot(head[pr], QLen(pr) + 1) = tail[pr]
  BY <1>1, <1>2, PQueueAssumption DEF QLen, Slot, Index
<1>5. \A i \in 1 .. QLen(pr) : Slot(head[pr], i) \in Index /\ Slot(head[pr], i) # tail[pr]
  BY <1>1, <1>2, PQueueAssumption DEF QLen, Slot, Index
<1>6. pqueues'[pr] = [pqueues[pr] EXCEPT ![tail[pr]] = p]
  BY DEF pq_enqueue, TypeOK
<1>7. \A i \in 1 .. QLen(pr) + 1 :
        pqueues'[pr][Slot(head[pr], i)] = IF i = QLen(pr) + 1 THEN p ELSE Contents(pr)[i]
  <2> SUFFICES ASSUME NEW i \in 1 .. QLen(pr) + 1
               PROVE  pqueues'[pr][Slot(head[pr], i)]
                        = IF i = QLen(pr) + 1 THEN p ELSE Contents(pr)[i]
    OBVIOUS
  <2>0. pqueues[pr] \in [Index -> Proc \cup {NULL}]
    BY DEF TypeOK
  <2>1. CASE i = QLen(pr) + 1
    BY <2>0, <2>1, <1>1, <1>4, <1>6
  <2>2. CASE i # QLen(pr) + 1
    <3>1. i \in 1 .. QLen(pr)
      BY <2>2, ContentsSeq
    <3> QED BY <2>0, <2>2, <3>1, <1>5, <1>6 DEF Contents
  <2> QED BY <2>1, <2>2
<1>8. Contents(pr)' = Append(Contents(pr), p)
  <2>1. Contents(pr)' = [i \in 1 .. QLen(pr) + 1 |-> pqueues'[pr][Slot(head[pr], i)]]
    BY <1>2, <1>3 DEF Contents, Slot
  <2>2. Append(Contents(pr), p)
          = [i \in 1 .. QLen(pr) + 1 |-> IF i = QLen(pr) + 1 THEN p ELSE Contents(pr)[i]]
    BY ContentsSeq, AppendIs, p \in Proc \cup {NULL}
  <2> QED BY <2>1, <2>2, <1>7
<1>9. \A o \in Prio \ {pr} : Contents(o)' = Contents(o)
  BY DEF pq_enqueue, Contents, QLen, Slot, TypeOK
<1> QED BY <1>8, <1>9 DEF Queues, Abs!Enqueued

(* A dequeue returns and removes the first entry of its sequence. *)
LEMMA DequeueRemovesHead ==
    ASSUME TypeOK, NEW pr \in Prio, pq_dequeue(pr)
    PROVE  /\ ret' = Head(Contents(pr))
           /\ Queues' = Abs!Dequeued(Queues, pr)
<1>1. head[pr] \in Index /\ tail[pr] \in Index /\ head[pr] # tail[pr]
  BY DEF TypeOK, pq_dequeue
<1>2. /\ tail' = tail /\ pqueues' = pqueues
      /\ head'[pr] = IF head[pr] + 1 = QSIZE THEN 0 ELSE head[pr] + 1
      /\ ret' = pqueues[pr][head[pr]]
  BY <1>1, NextIndex DEF pq_dequeue, TypeOK
<1>3. QLen(pr) \in Nat \ {0} /\ QLen(pr)' = QLen(pr) - 1
  BY <1>1, <1>2, PQueueAssumption DEF QLen, Index
<1>4. Slot(head[pr], 1) = head[pr]
  BY <1>1, PQueueAssumption DEF Slot, Index
<1>5. \A i \in 1 .. QLen(pr) - 1 : Slot(head'[pr], i) = Slot(head[pr], i + 1)
  <2> SUFFICES ASSUME NEW i \in 1 .. QLen(pr) - 1
               PROVE  Slot(head'[pr], i) = Slot(head[pr], i + 1)
    OBVIOUS
  <2>1. i \in Nat /\ 1 <= i /\ i < QSIZE
    BY <1>3, ContentsSeq, PQueueAssumption
  <2>2. CASE head[pr] + 1 = QSIZE
    BY <1>1, <1>2, <2>1, <2>2, PQueueAssumption DEF Slot, Index
  <2>3. CASE head[pr] + 1 # QSIZE
    BY <1>1, <1>2, <2>1, <2>3, PQueueAssumption DEF Slot, Index
  <2> QED BY <2>2, <2>3
<1>6. Contents(pr)' = Tail(Contents(pr))
  <2>1. Contents(pr)' = [i \in 1 .. QLen(pr) - 1 |-> pqueues[pr][Slot(head'[pr], i)]]
    BY <1>2, <1>3 DEF Contents, Slot
  <2>2. Tail(Contents(pr)) = [i \in 1 .. QLen(pr) - 1 |-> Contents(pr)[i + 1]]
    BY <1>3, ContentsSeq, TailIs
  <2>3. \A i \in 1 .. QLen(pr) - 1 : Contents(pr)[i + 1] = pqueues[pr][Slot(head[pr], i + 1)]
    BY <1>3 DEF Contents
  <2> QED BY <2>1, <2>2, <2>3, <1>5
<1>7. Head(Contents(pr)) = pqueues[pr][head[pr]]
  BY <1>3, <1>4, ContentsSeq DEF Contents
<1>8. \A o \in Prio \ {pr} : Contents(o)' = Contents(o)
  BY DEF pq_dequeue, Contents, QLen, Slot, TypeOK
<1> QED BY <1>2, <1>6, <1>7, <1>8 DEF Queues, Abs!Dequeued

----------------------------------------------------------------------------
(* A ring asked to hold at most QSIZE - 1 entries never reports "queue is  *)
(* full" below that bound: no caller of pq_enqueue panics.                 *)
THEOREM NeverFull == ASSUME MaxQueued < QSIZE PROVE Spec => []NoFullPanic
<1>1. TypeOK => NoFullPanic
  <2> SUFFICES ASSUME TypeOK, NEW pr \in Prio, QLen(pr) < MaxQueued
               PROVE  ~FullTest(pr)
    BY DEF NoFullPanic
  <2>1. head[pr] \in Index /\ tail[pr] \in Index
    BY DEF TypeOK
  <2>2. CRem(head[pr] - 1, QSIZE) = head[pr] - 1
    BY <2>1, PrevIndex
  <2> QED BY <2>1, <2>2, PQueueAssumption DEF FullTest, QLen, Index
<1> QED BY <1>1, TypeCorrect, PTL

(* The ring buffers implement the priority FIFOs of PQueueAbs. *)
THEOREM Refinement == ASSUME MaxQueued < QSIZE PROVE Spec => RefinesAbs
<1>1. Init => Abs!Init
  <2> SUFFICES ASSUME Init PROVE Abs!Init
    OBVIOUS
  <2>1. \A pr \in Prio : QLen(pr) = 0
    BY PQueueAssumption DEF Init, QLen
  <2>2. \A pr \in Prio : Contents(pr) = <<>>
    BY <2>1 DEF Contents
  <2> QED BY <2>2 DEF Init, Queues, Abs!Init, Abs!Prio, Prio
<1>2. TypeOK /\ [Next]_vars => [Abs!Next]_<<Queues, ret>>
  <2> SUFFICES ASSUME TypeOK, [Next]_vars PROVE [Abs!Next]_<<Queues, ret>>
    OBVIOUS
  <2>0. Prio = Abs!Prio
    BY DEF Prio, Abs!Prio
  <2>1. ASSUME NEW pr \in Prio, NEW p \in Proc, pq_enqueue(pr, p) PROVE Abs!Next
    <3>1. Abs!Enqueue(pr, p)
      BY <2>1, EnqueueAppends DEF Abs!Enqueue, pq_enqueue
    <3> QED BY <2>0, <3>1 DEF Abs!Next
  <2>2. ASSUME NEW pr \in Prio, pq_dequeue(pr) PROVE Abs!Next
    <3>1. Queues[pr] # <<>> /\ Queues[pr] = Contents(pr)
      BY <2>2, ContentsSeq DEF Queues, pq_dequeue
    <3>2. \A hi \in 0 .. pr - 1 : Queues[hi] = <<>>
      <4> SUFFICES ASSUME NEW hi \in 0 .. pr - 1 PROVE Queues[hi] = <<>>
        OBVIOUS
      <4>1. hi \in Prio
        BY PQueueAssumption DEF Prio
      <4>2. head[hi] = tail[hi]
        BY <2>2 DEF pq_dequeue
      <4> QED BY <4>1, <4>2, ContentsSeq DEF Queues
    <3>3. Abs!Dequeue(pr)
      BY <2>2, <3>1, <3>2, DequeueRemovesHead DEF Abs!Dequeue, Abs!IsTop
    <3> QED BY <2>0, <3>3 DEF Abs!Next
  <2>3. CASE pq_dequeue_empty
    <3>1. Queues' = Queues
      BY <2>3 DEF pq_dequeue_empty, Queues, Contents, QLen, Slot
    <3>2. \A pr \in Prio : Queues[pr] = <<>>
      BY <2>3, ContentsSeq DEF pq_dequeue_empty, Queues
    <3>3. Abs!DequeueEmpty
      BY <2>0, <2>3, <3>1, <3>2 DEF Abs!DequeueEmpty, Abs!AllEmpty, pq_dequeue_empty
    <3> QED BY <3>3 DEF Abs!Next
  <2>4. CASE UNCHANGED vars
    BY <2>4 DEF vars, Queues, Contents, QLen, Slot
  <2> QED BY <2>1, <2>2, <2>3, <2>4 DEF Next
<1> QED BY <1>1, <1>2, TypeCorrect, PTL DEF Spec, RefinesAbs, Abs!Spec
=============================================================================
