----------------------------- MODULE ProcProofs -----------------------------
(***************************************************************************)
(* Invariants of Proc and Boot for every number of slots, CPUs and         *)
(* priorities: the scheduling invariant (SchedInv), the one about parents, *)
(* waiters and pids (TreeInv), and the one about the start of the          *)
(* scheduler (BootInv), which uses both queues as they should be and       *)
(* queues with one stale entry.                                            *)
(***************************************************************************)
EXTENDS Boot, SequenceTheorems, FiniteSetTheorems, TLAPS

----------------------------------------------------------------------------
(* Sequences and the run queue *)

(* The rank of a member of a finite set of integers is a bijection, so     *)
(* InTableOrder lists every member of its argument exactly once.           *)
LEMMA InTableOrderLists ==
    ASSUME NEW S \in SUBSET Slots
    PROVE  /\ InTableOrder(S) \in Seq(S)
           /\ \A x \in S : \E i \in 1 .. Len(InTableOrder(S)) : InTableOrder(S)[i] = x
           /\ \A i, j \in 1 .. Len(InTableOrder(S)) :
                InTableOrder(S)[i] = InTableOrder(S)[j] => i = j
<1> DEFINE n == Cardinality(S)
           Below(x) == {y \in S : y <= x}
           rank == [x \in S |-> Cardinality(Below(x))]
           f == InTableOrder(S)
<1>1. IsFiniteSet(S) /\ n \in Nat /\ S \subseteq Int
  <2>1. IsFiniteSet(Slots)
    BY FS_Interval, ProcAssumption DEF Slots
  <2>2. IsFiniteSet(S)
    BY <2>1, FS_Subset, Zenon
  <2>3. n \in Nat
    BY <2>2, FS_CardinalityType, Zenon
  <2>4. S \subseteq Int
    BY ProcAssumption DEF Slots
  <2> QED BY <2>2, <2>3, <2>4
<1>2. \A x \in S : IsFiniteSet(Below(x)) /\ rank[x] \in 1 .. n
  <2> SUFFICES ASSUME NEW x \in S PROVE IsFiniteSet(Below(x)) /\ rank[x] \in 1 .. n
    OBVIOUS
  <2>1. Below(x) \in SUBSET S /\ x \in Below(x)
    BY <1>1
  <2>2. IsFiniteSet(Below(x)) /\ Cardinality(Below(x)) \in Nat /\ Cardinality(Below(x)) <= n
    BY <1>1, <2>1, FS_Subset, FS_CardinalityType
  <2>3. Cardinality(Below(x)) # 0
    BY <2>1, <2>2, FS_EmptySet
  <2> QED BY <2>2, <2>3, <1>1
<1>3. \A x, y \in S : rank[x] = rank[y] => x = y
  <2>1. ASSUME NEW x \in S, NEW y \in S, x < y PROVE rank[x] # rank[y]
    <3>1. Below(x) \in SUBSET Below(y) /\ y \in Below(y) /\ y \notin Below(x)
      <4>1. x \in Int /\ y \in Int
        BY <1>1
      <4>2. \A z \in S : z \in Int /\ (z <= x => z <= y)
        BY <1>1, <2>1, <4>1
      <4>3. y <= y /\ ~(y <= x)
        BY <2>1, <4>1
      <4> QED BY <4>2, <4>3
    <3>2. Cardinality(Below(y)) = Cardinality(Below(x)) => Below(y) = Below(x)
      BY <3>1, <1>2, FS_Subset
    <3> QED BY <3>1, <3>2
  <2> QED BY <1>1, <2>1
<1>4. rank \in Injection(S, 1 .. n)
  BY <1>2, <1>3 DEF Injection, IsInjective
<1>5. rank \in Surjection(S, 1 .. n)
  <2>1. IsFiniteSet(1 .. n) /\ Cardinality(1 .. n) = n
    BY <1>1, FS_Interval
  <2> QED BY <1>4, <2>1, FS_Injection
<1>6. \A i \in 1 .. n : \E x \in S : rank[x] = i
  BY <1>5 DEF Surjection
<1>7. \A i \in 1 .. n : f[i] \in S /\ rank[f[i]] = i
  <2> SUFFICES ASSUME NEW i \in 1 .. n PROVE f[i] \in S /\ rank[f[i]] = i
    OBVIOUS
  <2>1. f[i] = CHOOSE x \in S : Cardinality(Below(x)) = i
    BY DEF InTableOrder
  <2>2. \E x \in S : Cardinality(Below(x)) = i
    BY <1>6
  <2> QED BY <2>1, <2>2
<1>8. f \in Seq(S) /\ Len(f) = n
  <2>1. f = [i \in 1 .. n |-> f[i]]
    BY DEF InTableOrder
  <2>2. [i \in 1 .. n |-> f[i]] \in [1 .. n -> S]
    BY <1>7
  <2>3. f \in [1 .. n -> S]
    BY <2>1, <2>2
  <2> HIDE DEF f, n
  <2> QED BY <2>3, <1>1
<1>9. \A x \in S : \E i \in 1 .. Len(f) : f[i] = x
  <2> SUFFICES ASSUME NEW x \in S PROVE \E i \in 1 .. n : f[i] = x
    BY <1>8
  <2>1. rank[x] \in 1 .. n
    BY <1>2
  <2>2. f[rank[x]] = x
    BY <2>1, <1>7, <1>3
  <2> QED BY <2>1, <2>2
<1>10. \A i, j \in 1 .. Len(f) : f[i] = f[j] => i = j
  <2> HIDE DEF rank, f
  <2> QED BY <1>7, <1>8
<1> HIDE DEF f
<1> QED BY <1>8, <1>9, <1>10 DEF f

RunQueues == [Prio -> Seq(Slots)]

(* c holds the elements of s followed by those of t. *)
Follows(s, t, c) ==
    /\ \A i \in 1 .. Len(c) :
         \/ i \in 1 .. Len(s) /\ c[i] = s[i]
         \/ \E k \in 1 .. Len(t) : i = Len(s) + k /\ c[i] = t[k]
    /\ \A i \in 1 .. Len(s) : i \in 1 .. Len(c) /\ c[i] = s[i]
    /\ \A k \in 1 .. Len(t) : Len(s) + k \in 1 .. Len(c) /\ c[Len(s) + k] = t[k]

(* No process is in two places of queues that hold a set. *)
LEMMA HoldUnique ==
    ASSUME NEW rq, NEW R, QueuesHold(rq, R), NEW pr1 \in Prio, NEW pr2 \in Prio,
           NEW i \in 1 .. Len(rq[pr1]), NEW j \in 1 .. Len(rq[pr2]),
           rq[pr1][i] = rq[pr2][j]
    PROVE  pr1 = pr2 /\ i = j
BY DEF QueuesHold

(* The places of a concatenation. *)
LEMMA ConcatParts ==
    ASSUME NEW S, NEW s \in Seq(S), NEW t \in Seq(S), NEW c, c = s \o t
    PROVE  c \in Seq(S) /\ Follows(s, t, c)
<1> DEFINE m == Len(s)
           n == Len(t)
<1>1. m \in Nat /\ n \in Nat
  OBVIOUS
<1>2. /\ c \in Seq(S) /\ Len(c) = m + n
      /\ \A i \in 1 .. m + n : c[i] = IF i <= m THEN s[i] ELSE t[i - m]
  BY ConcatProperties
<1> HIDE DEF m, n
<1>3. \A i \in 1 .. m + n : i <= m => i \in 1 .. m /\ c[i] = s[i]
  BY <1>1, <1>2
<1>4. ASSUME NEW i \in 1 .. m + n, ~(i <= m)
      PROVE  \E k \in 1 .. n : i = m + k /\ c[i] = t[k]
  <2>1. i - m \in 1 .. n /\ i = m + (i - m)
    BY <1>1, <1>4
  <2>2. c[i] = t[i - m]
    BY <1>2, <1>4
  <2> QED BY <2>1, <2>2
<1>5. \A i \in 1 .. m : i \in 1 .. m + n /\ c[i] = s[i]
  BY <1>1, <1>2
<1>6. ASSUME NEW k \in 1 .. n
      PROVE  m + k \in 1 .. m + n /\ c[m + k] = t[k]
  <2>1. m + k \in 1 .. m + n /\ ~(m + k <= m) /\ (m + k) - m = k
    BY <1>1
  <2> QED BY <1>2, <2>1
<1> QED BY <1>2, <1>3, <1>4, <1>5, <1>6 DEF m, n, Follows

(* Queues that hold R, followed by queues that hold T, hold R and T. *)
LEMMA HoldMerge ==
    ASSUME NEW rq, NEW tq, NEW R, NEW T, NEW new,
           QueuesHold(rq, R), QueuesHold(tq, T), R \cap T = {},
           \A pr \in Prio : Follows(rq[pr], tq[pr], new[pr])
    PROVE  QueuesHold(new, R \cup T)
<1>1. ASSUME NEW pr \in Prio, NEW i \in 1 .. Len(new[pr])
      PROVE  \/ i \in 1 .. Len(rq[pr]) /\ new[pr][i] = rq[pr][i] /\ new[pr][i] \in R
             \/ \E k \in 1 .. Len(tq[pr]) :
                  i = Len(rq[pr]) + k /\ new[pr][i] = tq[pr][k] /\ new[pr][i] \in T
  <2>1. CASE i \in 1 .. Len(rq[pr]) /\ new[pr][i] = rq[pr][i]
    BY <2>1 DEF QueuesHold
  <2>2. CASE \E k \in 1 .. Len(tq[pr]) : i = Len(rq[pr]) + k /\ new[pr][i] = tq[pr][k]
    BY <2>2 DEF QueuesHold
  <2> QED BY <1>1, <2>1, <2>2 DEF Follows
<1>2. ASSUME NEW s \in R
      PROVE  \E pr \in Prio : \E i \in 1 .. Len(new[pr]) : new[pr][i] = s
  <2>1. PICK pr \in Prio : \E i \in 1 .. Len(rq[pr]) : rq[pr][i] = s
    BY <1>2 DEF QueuesHold
  <2> QED BY <2>1 DEF Follows
<1>3. ASSUME NEW s \in T
      PROVE  \E pr \in Prio : \E i \in 1 .. Len(new[pr]) : new[pr][i] = s
  <2>1. PICK pr \in Prio : \E i \in 1 .. Len(tq[pr]) : tq[pr][i] = s
    BY <1>3 DEF QueuesHold
  <2>2. PICK k \in 1 .. Len(tq[pr]) : tq[pr][k] = s
    BY <2>1
  <2>3. Len(rq[pr]) + k \in 1 .. Len(new[pr]) /\ new[pr][Len(rq[pr]) + k] = tq[pr][k]
    BY DEF Follows
  <2> QED BY <2>2, <2>3
<1>4. ASSUME NEW pr1 \in Prio, NEW pr2 \in Prio,
             NEW i \in 1 .. Len(new[pr1]), NEW j \in 1 .. Len(new[pr2]),
             new[pr1][i] = new[pr2][j]
      PROVE  pr1 = pr2 /\ i = j
  <2>1. CASE new[pr1][i] \in R
    <3>1. /\ i \in 1 .. Len(rq[pr1]) /\ new[pr1][i] = rq[pr1][i]
          /\ j \in 1 .. Len(rq[pr2]) /\ new[pr2][j] = rq[pr2][j]
      BY <2>1, <1>1, <1>4
    <3>2. rq[pr1][i] = rq[pr2][j]
      BY <3>1, <1>4
    <3> QED BY <3>1, <3>2, HoldUnique
  <2>2. CASE new[pr1][i] \notin R
    <3>1. PICK a \in 1 .. Len(tq[pr1]) : i = Len(rq[pr1]) + a /\ new[pr1][i] = tq[pr1][a]
      BY <2>2, <1>1
    <3>2. PICK b \in 1 .. Len(tq[pr2]) : j = Len(rq[pr2]) + b /\ new[pr2][j] = tq[pr2][b]
      BY <2>2, <1>1, <1>4
    <3>3. tq[pr1][a] = tq[pr2][b]
      BY <3>1, <3>2, <1>4
    <3>4. pr1 = pr2 /\ a = b
      BY <3>3, HoldUnique
    <3> QED BY <3>1, <3>2, <3>4
  <2> QED BY <2>1, <2>2
<1> QED BY <1>1, <1>2, <1>3, <1>4 DEF QueuesHold

(* Queues joined hold the processes of both. *)
LEMMA HoldConcat ==
    ASSUME NEW rq \in RunQueues, NEW tq \in RunQueues, NEW R, NEW T,
           QueuesHold(rq, R), QueuesHold(tq, T), R \cap T = {},
           NEW new, new = [pr \in Prio |-> rq[pr] \o tq[pr]]
    PROVE  new \in RunQueues /\ QueuesHold(new, R \cup T)
<1>1. ASSUME NEW pr \in Prio
      PROVE  new[pr] \in Seq(Slots) /\ Follows(rq[pr], tq[pr], new[pr])
  <2>1. rq[pr] \in Seq(Slots) /\ tq[pr] \in Seq(Slots)
    BY DEF RunQueues
  <2>2. new[pr] = rq[pr] \o tq[pr]
    OBVIOUS
  <2> QED BY <2>1, <2>2, ConcatParts, Zenon
<1>2. new \in RunQueues
  BY <1>1 DEF RunQueues
<1>3. QueuesHold(new, R \cup T)
  BY <1>1, HoldMerge, Zenon
<1> QED BY <1>2, <1>3

(* pq_enqueue of every process of S puts queues that hold S behind rq. *)
LEMMA EnqueueSetJoins ==
    ASSUME NEW rq \in RunQueues, NEW S \in SUBSET Slots,
           \A s \in S : priority[s] \in Prio
    PROVE  \E tq \in RunQueues :
             /\ QueuesHold(tq, S)
             /\ EnqueueSet(rq, S) = [pr \in Prio |-> rq[pr] \o tq[pr]]
<1> DEFINE At(pr) == {s \in S : priority[s] = pr}
           tq == [pr \in Prio |-> InTableOrder(At(pr))]
<1>1. \A pr \in Prio :
        /\ tq[pr] = InTableOrder(At(pr))
        /\ InTableOrder(At(pr)) \in Seq(At(pr))
        /\ \A x \in At(pr) : \E i \in 1 .. Len(InTableOrder(At(pr))) : InTableOrder(At(pr))[i] = x
        /\ \A i, j \in 1 .. Len(InTableOrder(At(pr))) :
             InTableOrder(At(pr))[i] = InTableOrder(At(pr))[j] => i = j
  BY InTableOrderLists
<1>2. \A pr \in Prio : tq[pr] \in Seq(Slots)
                    /\ \A i \in 1 .. Len(tq[pr]) : tq[pr][i] \in At(pr)
  <2> SUFFICES ASSUME NEW pr \in Prio
               PROVE  tq[pr] \in Seq(Slots) /\ \A i \in 1 .. Len(tq[pr]) : tq[pr][i] \in At(pr)
    OBVIOUS
  <2>1. tq[pr] \in Seq(At(pr)) /\ At(pr) \in SUBSET Slots
    BY <1>1
  <2> HIDE DEF tq, At
  <2> QED BY <2>1
<1>3. tq \in RunQueues
  BY <1>2 DEF RunQueues
<1>4. QueuesHold(tq, S)
  <2>1. \A pr \in Prio : \A i \in 1 .. Len(tq[pr]) : tq[pr][i] \in S /\ priority[tq[pr][i]] = pr
    BY <1>2
  <2>2. \A s \in S : \E pr \in Prio : \E i \in 1 .. Len(tq[pr]) : tq[pr][i] = s
    <3> SUFFICES ASSUME NEW s \in S
                 PROVE  \E pr \in Prio : \E i \in 1 .. Len(tq[pr]) : tq[pr][i] = s
      OBVIOUS
    <3>1. s \in At(priority[s]) /\ priority[s] \in Prio
      OBVIOUS
    <3> HIDE DEF tq, At
    <3> QED BY <3>1, <1>1
  <2>3. \A pr \in Prio : \A i, j \in 1 .. Len(tq[pr]) : tq[pr][i] = tq[pr][j] => i = j
    <3> HIDE DEF tq, At
    <3> QED BY <1>1
  <2> HIDE DEF tq
  <2>4. \A pr1, pr2 \in Prio : \A i \in 1 .. Len(tq[pr1]), j \in 1 .. Len(tq[pr2]) :
          tq[pr1][i] = tq[pr2][j] => pr1 = pr2 /\ i = j
    BY <2>1, <2>3
  <2> QED BY <2>1, <2>2, <2>4 DEF QueuesHold
<1>5. EnqueueSet(rq, S) = [pr \in Prio |-> rq[pr] \o tq[pr]]
  BY DEF EnqueueSet
<1> HIDE DEF tq
<1> QED BY <1>3, <1>4, <1>5

(* pq_enqueue of one process. *)
LEMMA EnqueueJoins ==
    ASSUME NEW rq \in RunQueues, NEW p \in Slots, priority[p] \in Prio
    PROVE  \E tq \in RunQueues :
             /\ QueuesHold(tq, {p})
             /\ Enqueue(rq, p) = [pr \in Prio |-> rq[pr] \o tq[pr]]
<1> DEFINE tq == [pr \in Prio |-> IF pr = priority[p] THEN <<p>> ELSE <<>>]
<1>1. tq \in RunQueues
  BY DEF RunQueues
<1>2. QueuesHold(tq, {p})
  BY DEF QueuesHold
<1>3. Enqueue(rq, p) = [pr \in Prio |-> rq[pr] \o tq[pr]]
  <2>1. \A pr \in Prio : Enqueue(rq, p)[pr] = rq[pr] \o tq[pr]
    <3> SUFFICES ASSUME NEW pr \in Prio PROVE Enqueue(rq, p)[pr] = rq[pr] \o tq[pr]
      OBVIOUS
    <3>0. rq[pr] \in Seq(Slots)
      BY DEF RunQueues
    <3>1. CASE pr = priority[p]
      <4>1. Enqueue(rq, p)[pr] = Append(rq[pr], p)
        BY <3>1 DEF Enqueue, RQ!Enqueued, RunQueues
      <4>2. Append(rq[pr], p) = rq[pr] \o <<p>>
        BY <3>0, AppendIsConcat
      <4> QED BY <3>1, <4>1, <4>2
    <3>2. CASE pr # priority[p]
      <4>1. Enqueue(rq, p)[pr] = rq[pr]
        BY <3>2 DEF Enqueue, RQ!Enqueued, RunQueues
      <4>2. rq[pr] \o <<>> = rq[pr]
        BY <3>0, ConcatEmptySeq
      <4> QED BY <3>2, <4>1, <4>2
    <3> QED BY <3>1, <3>2
  <2>2. Enqueue(rq, p) = [pr \in Prio |-> Enqueue(rq, p)[pr]]
    BY DEF Enqueue, RQ!Enqueued, RunQueues
  <2> QED BY <2>1, <2>2
<1> HIDE DEF tq
<1> QED BY <1>1, <1>2, <1>3

(* Neither is queued twice when none of them was queued. *)
LEMMA HoldEnqueueSet ==
    ASSUME NEW rq \in RunQueues, NEW R, QueuesHold(rq, R),
           NEW S \in SUBSET Slots, R \cap S = {},
           \A s \in S : priority[s] \in Prio
    PROVE  EnqueueSet(rq, S) \in RunQueues /\ QueuesHold(EnqueueSet(rq, S), R \cup S)
<1> PICK tq \in RunQueues : /\ QueuesHold(tq, S)
                            /\ EnqueueSet(rq, S) = [pr \in Prio |-> rq[pr] \o tq[pr]]
  BY EnqueueSetJoins
<1> QED BY HoldConcat

(* Appending a process that is not queued adds its one entry. *)
LEMMA HoldEnqueue ==
    ASSUME NEW rq \in RunQueues, NEW R, QueuesHold(rq, R),
           NEW p \in Slots, p \notin R, priority[p] \in Prio
    PROVE  Enqueue(rq, p) \in RunQueues /\ QueuesHold(Enqueue(rq, p), R \cup {p})
<1> PICK tq \in RunQueues : /\ QueuesHold(tq, {p})
                            /\ Enqueue(rq, p) = [pr \in Prio |-> rq[pr] \o tq[pr]]
  BY EnqueueJoins
<1>1. R \cap {p} = {}
  OBVIOUS
<1> QED BY <1>1, HoldConcat

(* pq_dequeue removes exactly the process it returns. *)
LEMMA HoldDequeue ==
    ASSUME NEW rq \in RunQueues, NEW R, QueuesHold(rq, R),
           NEW pr \in Prio, rq[pr] # <<>>
    PROVE  /\ Head(rq[pr]) \in R
           /\ RQ!Dequeued(rq, pr) \in RunQueues
           /\ QueuesHold(RQ!Dequeued(rq, pr), R \ {Head(rq[pr])})
<1> DEFINE new == RQ!Dequeued(rq, pr)
           h == Head(rq[pr])
<1>1. \A o \in Prio : rq[o] \in Seq(Slots) /\ Len(rq[o]) \in Nat
  BY DEF RunQueues
<1>2. h = rq[pr][1] /\ 1 \in 1 .. Len(rq[pr])
  BY <1>1
<1>3. /\ new[pr] = Tail(rq[pr])
      /\ \A o \in Prio \ {pr} : new[o] = rq[o]
      /\ new = [o \in Prio |-> new[o]]
  BY DEF RQ!Dequeued, RunQueues
<1>4. /\ new[pr] \in Seq(Slots) /\ Len(new[pr]) = Len(rq[pr]) - 1
      /\ \A i \in 1 .. Len(new[pr]) : new[pr][i] = rq[pr][i + 1]
  BY <1>1, <1>3, HeadTailProperties
<1>5. h \in R
  BY <1>2 DEF QueuesHold
<1> HIDE DEF new, h
<1>6. new \in RunQueues
  BY <1>1, <1>3, <1>4 DEF RunQueues
<1>7. \A o \in Prio : \A i \in 1 .. Len(new[o]) :
        \E j \in 1 .. Len(rq[o]) : /\ new[o][i] = rq[o][j]
                                  /\ j = IF o = pr THEN i + 1 ELSE i
  BY <1>1, <1>3, <1>4
<1>8. \A o \in Prio : \A i \in 1 .. Len(new[o]) : new[o][i] \in R \ {h}
  <2> SUFFICES ASSUME NEW o \in Prio, NEW i \in 1 .. Len(new[o]) PROVE new[o][i] \in R \ {h}
    OBVIOUS
  <2>1. PICK j \in 1 .. Len(rq[o]) : new[o][i] = rq[o][j] /\ j = IF o = pr THEN i + 1 ELSE i
    BY <1>7
  <2>2. ~(o = pr /\ j = 1)
    BY <2>1
  <2> QED BY <1>2, <2>1, <2>2 DEF QueuesHold
<1>9. \A s \in R \ {h} : \E o \in Prio : \E i \in 1 .. Len(new[o]) : new[o][i] = s
  <2> SUFFICES ASSUME NEW s \in R \ {h}
               PROVE  \E o \in Prio : \E i \in 1 .. Len(new[o]) : new[o][i] = s
    OBVIOUS
  <2>1a. PICK o \in Prio : \E i \in 1 .. Len(rq[o]) : rq[o][i] = s
    BY DEF QueuesHold
  <2>1. PICK i \in 1 .. Len(rq[o]) : rq[o][i] = s
    BY <2>1a
  <2>2. CASE o = pr
    <3>1. i # 1
      BY <1>2, <2>1, <2>2
    <3>2. i - 1 \in 1 .. Len(new[o]) /\ (i - 1) + 1 = i
      BY <1>1, <1>4, <2>2, <3>1
    <3>3. new[o][i - 1] = s
      BY <1>4, <2>1, <2>2, <3>2
    <3> QED BY <3>2, <3>3
  <2>3. CASE o # pr
    BY <2>1, <2>3, <1>3
  <2> QED BY <2>2, <2>3
<1>10. \A o1, o2 \in Prio : \A i \in 1 .. Len(new[o1]), j \in 1 .. Len(new[o2]) :
        new[o1][i] = new[o2][j] => o1 = o2 /\ i = j
  <2> SUFFICES ASSUME NEW o1 \in Prio, NEW o2 \in Prio,
                      NEW i \in 1 .. Len(new[o1]), NEW j \in 1 .. Len(new[o2]),
                      new[o1][i] = new[o2][j]
               PROVE  o1 = o2 /\ i = j
    OBVIOUS
  <2>1. PICK i1 \in 1 .. Len(rq[o1]) : new[o1][i] = rq[o1][i1] /\ i1 = IF o1 = pr THEN i + 1 ELSE i
    BY <1>7
  <2>2. PICK j1 \in 1 .. Len(rq[o2]) : new[o2][j] = rq[o2][j1] /\ j1 = IF o2 = pr THEN j + 1 ELSE j
    BY <1>7
  <2>3. rq[o1][i1] = rq[o2][j1]
    BY <2>1, <2>2
  <2>4. o1 = o2 /\ i1 = j1
    BY <2>3, HoldUnique
  <2> QED BY <2>1, <2>2, <2>4
<1> QED
  <2>1. QueuesHold(new, R \ {h})
    BY <1>8, <1>9, <1>10 DEF QueuesHold
  <2> QED BY <1>5, <1>6, <2>1 DEF new, h

----------------------------------------------------------------------------
(* The scheduling invariant *)

(* Priorities, stored or about to be, are in range. *)
PrioOK == \A s \in Slots : priority[s] \in Prio /\ req[s] \in Prio

(* A fork between allocproc and its critical section owns an EMBRYO, and   *)
(* no other fork has the same one.                                         *)
ForkOwns ==
    /\ \A p \in Slots : pc[p] = "fork" => np[p] \in Slots /\ state[np[p]] = "EMBRYO"
    /\ \A p, r \in Slots : pc[p] = "fork" /\ pc[r] = "fork" /\ np[p] = np[r] => p = r

SchedInv == TypeOK /\ PrioOK /\ ForkOwns /\ QueuedIffRunnable /\ RunningOnOneCpu

(* What an action that touches neither states, queues nor CPUs preserves.  *)
LEMMA KeepsScheduling ==
    ASSUME SchedInv, UNCHANGED <<state, runq, cpu>>
    PROVE  QueuedIffRunnable' /\ RunningOnOneCpu'
<1>1. Runnable' = Runnable
  BY DEF Runnable
<1>2. QueuesHold(runq, Runnable)' <=> QueuesHold(runq', Runnable')
  BY DEF QueuesHold
<1> QED BY <1>1, <1>2 DEF SchedInv, QueuedIffRunnable, RunningOnOneCpu

(* Sleeping processes S become RUNNABLE and are queued. *)
LEMMA WakeKeepsQueues ==
    ASSUME TypeOK, PrioOK, NEW st \in [Slots -> States], NEW rq \in RunQueues,
           QueuesHold(rq, {s \in Slots : st[s] = "RUNNABLE"}),
           NEW S \in SUBSET Slots, \A s \in S : st[s] = "SLEEPING"
    PROVE  /\ SetRunnable(st, S) \in [Slots -> States]
           /\ EnqueueSet(rq, S) \in RunQueues
           /\ QueuesHold(EnqueueSet(rq, S),
                         {s \in Slots : SetRunnable(st, S)[s] = "RUNNABLE"})
<1>1. {s \in Slots : st[s] = "RUNNABLE"} \cap S = {}
  OBVIOUS
<1>2. {s \in Slots : SetRunnable(st, S)[s] = "RUNNABLE"}
        = {s \in Slots : st[s] = "RUNNABLE"} \cup S
  BY DEF SetRunnable
<1>3. SetRunnable(st, S) \in [Slots -> States]
  BY DEF SetRunnable, States
<1>4. \A s \in S : priority[s] \in Prio
  BY DEF PrioOK
<1> QED BY <1>1, <1>2, <1>3, <1>4, HoldEnqueueSet

(* The invariant holds after userinit. *)
LEMMA SchedInit == Init => SchedInv
<1> SUFFICES ASSUME Init PROVE SchedInv
  OBVIOUS
<1>1. InitProc \in Slots /\ 0 \in Prio
  BY ProcAssumption DEF InitProc, Slots, Prio
<1>2. TypeOK
  BY <1>1 DEF Init, TypeOK, States, Labels
<1>3. PrioOK
  BY <1>1 DEF Init, PrioOK
<1>4. ForkOwns
  BY DEF Init, ForkOwns
<1>5. QueuedIffRunnable
  <2>1. Runnable = {InitProc}
    BY <1>1 DEF Init, Runnable
  <2>2. QueuesHold(runq, {InitProc})
    BY <1>1 DEF Init, QueuesHold
  <2> QED BY <2>1, <2>2 DEF QueuedIffRunnable
<1>6. RunningOnOneCpu
  BY <1>1 DEF Init, RunningOnOneCpu, NoProc, Slots
<1> QED BY <1>2, <1>3, <1>4, <1>5, <1>6 DEF SchedInv

(* Every step keeps the invariant. *)
LEMMA SchedStep == ASSUME PrioArgs \subseteq Nat, SchedInv, [Next]_vars PROVE SchedInv'
<1> USE DEF SchedInv
<1>a. NoProc \notin Slots
  BY DEF NoProc, Slots
<1>b. \A c \in CPUs, p \in Slots : cpu[c] = p => state[p] = "RUNNING"
  BY DEF RunningOnOneCpu
<1>c. runq \in RunQueues /\ QueuesHold(runq, Runnable)
  BY DEF RunQueues, TypeOK, QueuedIffRunnable
<1>d. QueuedIffRunnable' <=> QueuesHold(runq', Runnable')
  BY DEF QueuedIffRunnable, QueuesHold
<1>1. ASSUME NEW c \in CPUs, NEW pr \in Prio, Scheduler(c, pr) PROVE SchedInv'
  <2> DEFINE p == Head(runq[pr])
  <2>1. /\ p \in Runnable /\ RQ!Dequeued(runq, pr) \in RunQueues
        /\ QueuesHold(RQ!Dequeued(runq, pr), Runnable \ {p})
    BY <1>1, <1>c, HoldDequeue DEF Scheduler, RQ!IsTop
  <2>2. /\ p \in Slots /\ state[p] = "RUNNABLE"
        /\ state' = [state EXCEPT ![p] = "RUNNING"] /\ runq' = RQ!Dequeued(runq, pr)
        /\ cpu' = [cpu EXCEPT ![c] = p] /\ cpu[c] = NoProc
    BY <1>1, <2>1 DEF Scheduler, Runnable, Dequeue
  <2> HIDE DEF p
  <2>3. TypeOK'
    BY <1>1, <2>1, <2>2 DEF Scheduler, TypeOK, States, RunQueues, p
  <2>4. Runnable' = Runnable \ {p}
    BY <2>2 DEF Runnable, TypeOK
  <2>5. ForkOwns'
    BY <1>1, <2>2 DEF Scheduler, ForkOwns, TypeOK
  <2>6. RunningOnOneCpu'
    <3>1. \A d \in CPUs : cpu[d] # p
      BY <2>2, <1>b
    <3>2. \A s \in Slots : state'[s] = "RUNNING" <=> state[s] = "RUNNING" \/ s = p
      BY <2>2 DEF TypeOK
    <3>3. \A d \in CPUs : cpu'[d] = IF d = c THEN p ELSE cpu[d]
      BY <2>2 DEF TypeOK
    <3>4. \A s \in Slots : state'[s] = "RUNNING" <=> \E d \in CPUs : cpu'[d] = s
      BY <2>2, <3>1, <3>2, <3>3, <1>a DEF RunningOnOneCpu
    <3>5. \A d, e \in CPUs : cpu'[d] = cpu'[e] /\ cpu'[d] # NoProc => d = e
      BY <2>2, <3>1, <3>3 DEF RunningOnOneCpu
    <3> QED BY <3>4, <3>5 DEF RunningOnOneCpu
  <2>7. PrioOK'
    BY <1>1 DEF Scheduler, PrioOK
  <2> QED BY <2>1, <2>2, <2>3, <2>4, <2>5, <2>6, <2>7, <1>d
<1>2. ASSUME NEW p \in Slots, Resume(p) PROVE SchedInv'
  BY <1>2, KeepsScheduling DEF Resume, TypeOK, PrioOK, ForkOwns
<1>3. ASSUME NEW ch \in Chans, Wakeup(ch) PROVE SchedInv'
  <2> DEFINE S == Sleepers(state, ch)
  <2>1. S \in SUBSET Slots /\ \A s \in S : state[s] = "SLEEPING"
    BY DEF Sleepers
  <2>2. state' = SetRunnable(state, S) /\ runq' = EnqueueSet(runq, S)
    BY <1>3 DEF Wakeup
  <2> HIDE DEF S
  <2>3. /\ state' \in [Slots -> States] /\ runq' \in RunQueues
        /\ QueuesHold(runq', Runnable')
    BY <2>1, <2>2, <1>c, WakeKeepsQueues DEF Runnable, TypeOK
  <2>4. TypeOK'
    BY <1>3, <2>3 DEF Wakeup, TypeOK, RunQueues
  <2>5. ForkOwns' /\ PrioOK'
    BY <1>3, <2>1, <2>2 DEF Wakeup, ForkOwns, PrioOK, SetRunnable, TypeOK
  <2>6. RunningOnOneCpu'
    BY <1>3, <2>1, <2>2 DEF Wakeup, RunningOnOneCpu, SetRunnable
  <2> QED BY <2>3, <2>4, <2>5, <2>6, <1>d
<1>4. ASSUME NEW c \in CPUs, NEW p \in Slots, Yield(c, p) PROVE SchedInv'
  <2>1. state[p] = "RUNNING" /\ cpu[c] = p
    BY <1>4, <1>b DEF Yield, Exec
  <2>2. Runnable' = Runnable \cup {p} /\ p \notin Runnable
    BY <1>4, <2>1 DEF Yield, Runnable, TypeOK
  <2>3. runq' \in RunQueues /\ QueuesHold(runq', Runnable')
    BY <1>4, <1>c, <2>2, HoldEnqueue DEF Yield, PrioOK
  <2>4. TypeOK' /\ PrioOK' /\ ForkOwns'
    BY <1>4, <2>1, <2>3 DEF Yield, SwitchOut, TypeOK, PrioOK, ForkOwns, States, RunQueues
  <2>5. RunningOnOneCpu'
    BY <1>4, <2>1, <1>a DEF Yield, SwitchOut, RunningOnOneCpu, TypeOK
  <2> QED BY <2>3, <2>4, <2>5, <1>d
<1>5. ASSUME NEW c \in CPUs, NEW p \in Slots, NEW ch \in Chans, Sleep(c, p, ch)
      PROVE  SchedInv'
  <2>1. state[p] = "RUNNING" /\ cpu[c] = p
    BY <1>5, <1>b DEF Sleep, Exec
  <2>2. Runnable' = Runnable /\ runq' = runq
    BY <1>5, <2>1 DEF Sleep, Runnable, TypeOK
  <2>4. TypeOK' /\ PrioOK' /\ ForkOwns'
    BY <1>5, <2>1 DEF Sleep, SwitchOut, TypeOK, PrioOK, ForkOwns, States
  <2>5. RunningOnOneCpu'
    BY <1>5, <2>1, <1>a DEF Sleep, SwitchOut, RunningOnOneCpu, TypeOK
  <2> QED BY <2>2, <2>4, <2>5, <1>c, <1>d
<1>6. ASSUME NEW c \in CPUs, NEW p \in Slots,
             \/ SysEnter(c, p) \/ SysReturn(c, p) \/ UserFault(c, p)
             \/ ExitBegin(c, p) \/ WaitBegin(c, p) \/ WaitNone(c, p)
      PROVE  SchedInv'
  <2>1. UNCHANGED <<state, runq, cpu>>
    BY <1>6 DEF SysEnter, SysReturn, UserFault, ExitBegin, WaitBegin, WaitNone
  <2>2. TypeOK' /\ PrioOK'
    BY <1>6 DEF SysEnter, SysReturn, UserFault, ExitBegin, WaitBegin, WaitNone,
                TypeOK, PrioOK, Labels
  <2>3. ForkOwns'
    <3>1. np' = np /\ (pc' = pc \/ \E l \in Labels \ {"fork"} : pc' = [pc EXCEPT ![p] = l])
      BY <1>6 DEF SysEnter, SysReturn, UserFault, ExitBegin, WaitBegin, WaitNone, Labels
    <3>2. \A r \in Slots : pc'[r] = "fork" => pc[r] = "fork"
      BY <3>1 DEF TypeOK
    <3> QED BY <2>1, <3>1, <3>2 DEF ForkOwns
  <2> QED BY <2>1, <2>2, <2>3, KeepsScheduling
<1>7. ASSUME NEW c \in CPUs, NEW p \in Slots, ForkAlloc(c, p) PROVE SchedInv'
  <2>1. PICK s \in Slots : /\ state[s] = "UNUSED"
                          /\ state' = [state EXCEPT ![s] = "EMBRYO"]
                          /\ pid' = [pid EXCEPT ![s] = nextpid]
                          /\ np' = [np EXCEPT ![p] = s]
    BY <1>7 DEF ForkAlloc, First, AllocState
  <2>2. Runnable' = Runnable /\ runq' = runq
    BY <1>7, <2>1 DEF ForkAlloc, Runnable, TypeOK
  <2>6. /\ nextpid' = nextpid + 1 /\ pc' = [pc EXCEPT ![p] = "fork"]
        /\ UNCHANGED <<parent, chan, killed, priority, runq, cpu, req, ptlock>>
    BY <1>7 DEF ForkAlloc, NextPid
  <2>3. TypeOK' /\ PrioOK'
    <3>1. state' \in [Slots -> States] /\ pc' \in [Slots -> Labels]
      BY <2>1, <2>6 DEF TypeOK, States, Labels
    <3>2. pid' \in [Slots -> Nat] /\ nextpid' \in Nat
      BY <2>1, <2>6 DEF TypeOK
    <3>3. np' \in [Slots -> Slots \cup {NoProc}]
      BY <2>1 DEF TypeOK
    <3>4. PrioOK'
      BY <2>6 DEF PrioOK
    <3> QED BY <2>6, <3>1, <3>2, <3>3, <3>4 DEF TypeOK
  <2>4. ForkOwns'
    <3>1. \A r \in Slots : pc'[r] = "fork" <=> r = p \/ pc[r] = "fork"
      BY <2>6 DEF TypeOK
    <3>2. \A r \in Slots : np'[r] = IF r = p THEN s ELSE np[r]
      BY <2>1 DEF TypeOK
    <3>3. \A r \in Slots : pc[r] = "fork" => np[r] # s
      BY <2>1 DEF ForkOwns
    <3>4. \A r \in Slots : state'[r] = IF r = s THEN "EMBRYO" ELSE state[r]
      BY <2>1 DEF TypeOK
    <3> QED BY <3>1, <3>2, <3>3, <3>4 DEF ForkOwns
  <2>5. RunningOnOneCpu'
    BY <2>1, <2>6 DEF RunningOnOneCpu, TypeOK
  <2> QED BY <2>2, <2>3, <2>4, <2>5, <1>c, <1>d
<1>8. ASSUME NEW c \in CPUs, NEW p \in Slots, ForkFail(c, p) PROVE SchedInv'
  <2>1. np[p] \in Slots /\ state[np[p]] = "EMBRYO" /\ pc[p] = "fork"
    BY <1>8 DEF ForkFail, ForkOwns
  <2>2. Runnable' = Runnable /\ runq' = runq
    BY <1>8, <2>1 DEF ForkFail, Runnable, TypeOK
  <2>3. TypeOK' /\ PrioOK'
    BY <1>8, <2>1 DEF ForkFail, TypeOK, PrioOK, States, Labels
  <2>4. ForkOwns'
    BY <1>8, <2>1 DEF ForkFail, ForkOwns, TypeOK
  <2>5. RunningOnOneCpu'
    BY <1>8, <2>1 DEF ForkFail, RunningOnOneCpu, TypeOK
  <2> QED BY <2>2, <2>3, <2>4, <2>5, <1>c, <1>d
<1>9. ASSUME NEW c \in CPUs, NEW p \in Slots, ForkRunnable(c, p) PROVE SchedInv'
  <2> DEFINE s == np[p]
  <2>1. s \in Slots /\ state[s] = "EMBRYO" /\ pc[p] = "fork" /\ s # p
    BY <1>9, <1>b DEF ForkRunnable, ForkOwns, Exec
  <2>2. state' = [state EXCEPT ![s] = "RUNNABLE"] /\ runq' = Enqueue(runq, s)
    BY <1>9 DEF ForkRunnable
  <2>3. pc' = [pc EXCEPT ![p] = "fork2", ![s] = "user"] /\ UNCHANGED <<np, cpu, priority, req>>
    BY <1>9 DEF ForkRunnable
  <2>4. parent' = [parent EXCEPT ![s] = p]
    BY <1>9 DEF ForkRunnable
  <2> HIDE DEF s
  <2>5. Runnable' = Runnable \cup {s} /\ s \notin Runnable
    BY <2>1, <2>2 DEF Runnable, TypeOK
  <2>6. runq' \in RunQueues /\ QueuesHold(runq', Runnable')
    BY <2>1, <2>2, <2>5, <1>c, HoldEnqueue DEF PrioOK
  <2>7. TypeOK' /\ PrioOK'
    <3>1. UNCHANGED <<pid, chan, killed, priority, nextpid, cpu, np, req, ptlock>>
      BY <1>9 DEF ForkRunnable
    <3>2. state' \in [Slots -> States] /\ parent' \in [Slots -> Slots \cup {NoProc}]
      BY <2>1, <2>2, <2>4 DEF TypeOK, States
    <3>3. pc' \in [Slots -> Labels]
      BY <2>1, <2>3 DEF TypeOK, Labels
    <3> QED BY <2>6, <3>1, <3>2, <3>3 DEF TypeOK, PrioOK, RunQueues
  <2>8. ForkOwns'
    <3>1. \A r \in Slots : pc'[r] = "fork" => pc[r] = "fork" /\ r # p
      BY <2>1, <2>3 DEF TypeOK
    <3>2. \A r \in Slots : pc[r] = "fork" /\ r # p => np[r] # s
      BY <2>1 DEF ForkOwns, s
    <3> QED BY <2>1, <2>2, <2>3, <3>1, <3>2 DEF ForkOwns, TypeOK
  <2>9. RunningOnOneCpu'
    BY <2>1, <2>2, <2>3 DEF RunningOnOneCpu, TypeOK
  <2> QED BY <2>6, <2>7, <2>8, <2>9, <1>d
<1>10. ASSUME NEW c \in CPUs, NEW p \in Slots, ForkInherit(c, p) PROVE SchedInv'
  <2>1. UNCHANGED <<state, runq, cpu>>
    BY <1>10 DEF ForkInherit
  <2>2. TypeOK' /\ PrioOK'
    BY <1>10 DEF ForkInherit, TypeOK, PrioOK, Labels
  <2>3. ForkOwns'
    BY <1>10 DEF ForkInherit, ForkOwns, TypeOK
  <2> QED BY <2>1, <2>2, <2>3, KeepsScheduling
<1>11. ASSUME NEW c \in CPUs, NEW p \in Slots, ExitFinal(c, p) PROVE SchedInv'
  <2> DEFINE S1 == WakesParent(p)
             st1 == SetRunnable(state, S1)
             S2 == WakesInit(p, st1)
             st2 == SetRunnable(st1, S2)
             rq1 == EnqueueSet(runq, S1)
  <2>1. state[p] = "RUNNING" /\ cpu[c] = p
    BY <1>11, <1>b DEF ExitFinal, Exec
  <2>2. /\ state' = [st2 EXCEPT ![p] = "ZOMBIE"] /\ runq' = EnqueueSet(rq1, S2)
        /\ parent' = ChildrenToInit(p) /\ SwitchOut(c)
        /\ UNCHANGED <<pid, chan, killed, priority, nextpid, pc, np, req>>
    BY <1>11 DEF ExitFinal
  <2>3. S1 \in SUBSET Slots /\ \A s \in S1 : state[s] = "SLEEPING"
    BY DEF WakesParent, Sleepers
  <2>4. S2 \in SUBSET Slots /\ \A s \in S2 : st1[s] = "SLEEPING"
    BY DEF WakesInit, Sleepers
  <2> HIDE DEF S1, S2
  <2>5. /\ st1 \in [Slots -> States] /\ rq1 \in RunQueues
        /\ QueuesHold(rq1, {s \in Slots : st1[s] = "RUNNABLE"})
    BY <2>3, <1>c, WakeKeepsQueues DEF Runnable, TypeOK
  <2>6. \A s \in Slots : st1[s] # state[s] => state[s] = "SLEEPING" /\ st1[s] = "RUNNABLE"
    BY <2>3 DEF SetRunnable
  <2> HIDE DEF st1, rq1
  <2>7. /\ st2 \in [Slots -> States] /\ runq' \in RunQueues
        /\ QueuesHold(runq', {s \in Slots : st2[s] = "RUNNABLE"})
    BY <2>2, <2>4, <2>5, WakeKeepsQueues
  <2>8. \A s \in Slots : st2[s] # state[s] => state[s] = "SLEEPING" /\ st2[s] = "RUNNABLE"
    BY <2>4, <2>6 DEF SetRunnable
  <2> HIDE DEF st2
  <2>9. {s \in Slots : st2[s] = "RUNNABLE"} = Runnable'
    BY <2>1, <2>2, <2>7, <2>8 DEF Runnable
  <2>10. ChildrenToInit(p) \in [Slots -> Slots \cup {NoProc}]
    BY ProcAssumption DEF ChildrenToInit, TypeOK, InitProc, Slots
  <2>11. TypeOK' /\ PrioOK'
    BY <2>2, <2>7, <2>10 DEF SwitchOut, TypeOK, PrioOK, States, RunQueues
  <2>12. ForkOwns'
    BY <2>1, <2>2, <2>7, <2>8 DEF ForkOwns, TypeOK
  <2>13. RunningOnOneCpu'
    <3>1. \A s \in Slots : state'[s] = "RUNNING" <=> state[s] = "RUNNING" /\ s # p
      BY <2>1, <2>2, <2>7, <2>8
    <3> QED BY <2>1, <2>2, <3>1, <1>a DEF SwitchOut, RunningOnOneCpu, TypeOK
  <2> QED BY <2>7, <2>9, <2>11, <2>12, <2>13, <1>d
<1>12. ASSUME NEW c \in CPUs, NEW p \in Slots, WaitReap(c, p) PROVE SchedInv'
  <2>1. PICK s \in Slots : /\ state[s] = "ZOMBIE"
                          /\ state' = [state EXCEPT ![s] = "UNUSED"]
                          /\ pid' = [pid EXCEPT ![s] = 0]
                          /\ parent' = [parent EXCEPT ![s] = NoProc]
                          /\ killed' = [killed EXCEPT ![s] = FALSE]
    BY <1>12 DEF WaitReap, First, Zombies
  <2>2. Runnable' = Runnable /\ runq' = runq
    BY <1>12, <2>1 DEF WaitReap, Runnable, TypeOK
  <2>6. /\ chan' = [chan EXCEPT ![p] = NoChan] /\ pc' = [pc EXCEPT ![p] = "user"]
        /\ ptlock' = NoProc /\ UNCHANGED <<priority, runq, nextpid, cpu, np, req>>
    BY <1>12 DEF WaitReap
  <2>3. TypeOK' /\ PrioOK'
    BY <2>1, <2>6 DEF TypeOK, PrioOK, States, Labels
  <2>4. ForkOwns'
    BY <2>1, <2>6 DEF ForkOwns, TypeOK
  <2>5. RunningOnOneCpu'
    BY <2>1, <2>6 DEF RunningOnOneCpu, TypeOK
  <2> QED BY <2>2, <2>3, <2>4, <2>5, <1>c, <1>d
<1>13. ASSUME NEW c \in CPUs, NEW p \in Slots, WaitSleep(c, p) PROVE SchedInv'
  <2>1. state[p] = "RUNNING" /\ cpu[c] = p
    BY <1>13, <1>b DEF WaitSleep, Scanning
  <2>2. Runnable' = Runnable /\ runq' = runq
    BY <1>13, <2>1 DEF WaitSleep, Runnable, TypeOK
  <2>4. TypeOK' /\ PrioOK' /\ ForkOwns'
    BY <1>13, <2>1 DEF WaitSleep, SwitchOut, TypeOK, PrioOK, ForkOwns, States
  <2>5. RunningOnOneCpu'
    BY <1>13, <2>1, <1>a DEF WaitSleep, SwitchOut, RunningOnOneCpu, TypeOK
  <2> QED BY <2>2, <2>4, <2>5, <1>c, <1>d
<1>14. ASSUME NEW c \in CPUs, NEW p \in Slots, NEW n \in KillPids, Kill(c, p, n)
       PROVE  SchedInv'
  <2>1. PICK t \in Slots : /\ killed' = [killed EXCEPT ![t] = TRUE]
                          /\ state' = SetRunnable(state, KillWakes(t))
                          /\ runq' = EnqueueSet(runq, KillWakes(t))
    BY <1>14 DEF Kill
  <2> DEFINE S == KillWakes(t)
  <2>2. S \in SUBSET Slots /\ \A s \in S : state[s] = "SLEEPING"
    BY DEF KillWakes
  <2> HIDE DEF S
  <2>3. /\ state' \in [Slots -> States] /\ runq' \in RunQueues
        /\ QueuesHold(runq', Runnable')
    BY <2>1, <2>2, <1>c, WakeKeepsQueues DEF Runnable, TypeOK, S
  <2>4. TypeOK'
    BY <1>14, <2>1, <2>3 DEF Kill, TypeOK, RunQueues
  <2>5. ForkOwns' /\ PrioOK'
    BY <1>14, <2>1, <2>2 DEF Kill, ForkOwns, PrioOK, SetRunnable, TypeOK, S
  <2>6. RunningOnOneCpu'
    BY <1>14, <2>1, <2>2 DEF Kill, RunningOnOneCpu, SetRunnable, S
  <2> QED BY <2>3, <2>4, <2>5, <2>6, <1>d
<1>15. ASSUME NEW c \in CPUs, NEW p \in Slots, NEW a \in PrioArgs, PrioCheck(c, p, a)
       PROVE  SchedInv'
  <2>1. ToUint(a) \in Prio
    <3>1. a \in Nat /\ ~(a >= PRIO_MAX)
      BY <1>15 DEF PrioCheck, PrioTooBig
    <3> QED BY <3>1, ProcAssumption DEF ToUint, Prio
  <2>2. TypeOK' /\ PrioOK' /\ ForkOwns'
    <3>1. /\ req' = [req EXCEPT ![p] = ToUint(a)] /\ pc' = [pc EXCEPT ![p] = "prio"]
          /\ UNCHANGED <<state, pid, parent, chan, killed, priority, runq, nextpid,
                         cpu, np, ptlock>>
      BY <1>15 DEF PrioCheck
    <3>2. ToUint(a) \in Nat
      BY <2>1 DEF Prio
    <3>3. TypeOK'
      BY <3>1, <3>2 DEF TypeOK, Labels
    <3>4. PrioOK'
      BY <3>1, <2>1 DEF TypeOK, PrioOK
    <3> QED BY <3>1, <3>3, <3>4 DEF ForkOwns, TypeOK
  <2> QED BY <1>15, <2>2, KeepsScheduling DEF PrioCheck
<1>16. ASSUME NEW c \in CPUs, NEW p \in Slots, PrioSelf(c, p) \/ PrioOther(c, p)
       PROVE  SchedInv'
  <2>1. 0 \in Prio
    BY ProcAssumption DEF Prio
  <2>2. PICK t \in Slots : priority' \in {priority, [priority EXCEPT ![t] = req[p]]}
    BY <1>16 DEF PrioSelf, PrioOther
  <2>3. TypeOK' /\ PrioOK' /\ ForkOwns'
    <3>1. /\ req' = [req EXCEPT ![p] = 0] /\ pc' = [pc EXCEPT ![p] = "user"]
          /\ UNCHANGED <<state, pid, parent, chan, killed, runq, nextpid, cpu, np, ptlock>>
      BY <1>16 DEF PrioSelf, PrioOther
    <3>2. priority' \in [Slots -> Nat] /\ \A s \in Slots : priority'[s] \in Prio
      BY <2>2 DEF TypeOK, PrioOK
    <3>3. TypeOK'
      BY <3>1, <3>2 DEF TypeOK, Labels
    <3>4. PrioOK'
      BY <3>1, <3>2, <2>1 DEF TypeOK, PrioOK
    <3> QED BY <3>1, <3>3, <3>4 DEF ForkOwns, TypeOK
  <2>4. UNCHANGED <<state, runq, cpu>>
    BY <1>16 DEF PrioSelf, PrioOther
  <2> QED BY <2>3, <2>4, KeepsScheduling
<1>17. CASE UNCHANGED vars
  BY <1>17, KeepsScheduling DEF vars, TypeOK, PrioOK, ForkOwns
<1> QED
  BY <1>1, <1>2, <1>3, <1>4, <1>5, <1>6, <1>7, <1>8, <1>9, <1>10, <1>11, <1>12,
     <1>13, <1>14, <1>15, <1>16, <1>17 DEF Next

----------------------------------------------------------------------------
(* With non-negative arguments of prio_set, the scheduling invariant holds *)
(* throughout, and with it types, the run queue, the CPUs and priorities.  *)
THEOREM SchedulingSafe == ASSUME PrioArgs \subseteq Nat PROVE Spec => []SchedInv
BY SchedInit, SchedStep, PTL DEF Spec

(* Every variable keeps its type. *)
THEOREM ProcTypeCorrect == ASSUME PrioArgs \subseteq Nat PROVE Spec => []TypeOK
BY SchedulingSafe, PTL DEF SchedInv

(* The run queue holds exactly the RUNNABLE processes, each once. *)
THEOREM QueueSafe == ASSUME PrioArgs \subseteq Nat PROVE Spec => []QueuedIffRunnable
BY SchedulingSafe, PTL DEF SchedInv

(* A process runs on one CPU at most, and is RUNNING exactly then. *)
THEOREM CpuSafe == ASSUME PrioArgs \subseteq Nat PROVE Spec => []RunningOnOneCpu
BY SchedulingSafe, PTL DEF SchedInv

----------------------------------------------------------------------------
(* Parents, waiters and pids.  The scheduling invariant is used for one    *)
(* fact: what executes on a CPU is RUNNING, so neither asleep nor dead.    *)

(* Free and half-made slots belong to nobody, nobody is its own parent;    *)
(* init is live, has no parent and never exits.                            *)
Roots ==
    /\ \A s \in Slots : parent[s] # s
    /\ \A s \in Slots : state[s] \in {"UNUSED", "EMBRYO"} => parent[s] = NoProc
    /\ parent[InitProc] = NoProc
    /\ InitProc \in Live
    /\ pc[InitProc] # "exit"

PidsBelow == nextpid > 0 /\ \A s \in Slots : pid[s] < nextpid

TreeInv == Roots /\ ParentAlive /\ WaiterMissesNothing /\ PidsBelow /\ PidsDistinct

----------------------------------------------------------------------------
(* A step that only moves live processes between the live states, leaves   *)
(* parents and pids alone and puts nobody to sleep in wait.                *)
LEMMA KeepsTree ==
    ASSUME TypeOK, TypeOK', TreeInv,
           UNCHANGED <<parent, pid, nextpid>>,
           Live' = Live,
           \A s \in Slots : s \notin Live => state'[s] = state[s],
           \A s \in Slots : state'[s] = "SLEEPING" /\ chan'[s] = s
               => state[s] = "SLEEPING" /\ chan[s] = s /\ killed'[s] = killed[s],
           pc'[InitProc] # "exit"
    PROVE  TreeInv'
<1>1. Zombies' = Zombies
  BY DEF Zombies, Live
<1>2. Roots'
  BY DEF TreeInv, Roots, Live
<1>3. ParentAlive'
  BY <1>1 DEF TreeInv, ParentAlive
<1>4. WaiterMissesNothing'
  BY <1>1 DEF TreeInv, WaiterMissesNothing, Children
<1>5. PidsBelow' /\ PidsDistinct'
  <2>1. \A s \in Slots : state'[s] = "UNUSED" <=> state[s] = "UNUSED"
    BY DEF Live
  <2> QED BY <2>1 DEF TreeInv, PidsBelow, PidsDistinct
<1> QED BY <1>2, <1>3, <1>4, <1>5 DEF TreeInv

(* Waking processes S that sleep. *)
LEMMA WakesLive ==
    ASSUME NEW st, NEW S \in SUBSET Slots, \A s \in S : st[s] = "SLEEPING"
    PROVE  \A s \in Slots : /\ s \in S => SetRunnable(st, S)[s] = "RUNNABLE"
                            /\ s \notin S => SetRunnable(st, S)[s] = st[s]
BY DEF SetRunnable

(* The invariant holds after userinit. *)
LEMMA TreeInit == Init => TreeInv
<1> SUFFICES ASSUME Init PROVE TreeInv
  OBVIOUS
<1>1. InitProc \in Slots /\ NoProc \notin Slots /\ NoChan \notin Slots
  BY ProcAssumption DEF InitProc, NoProc, Slots
<1>2. Live = {InitProc} /\ Zombies = {}
  BY <1>1 DEF Init, Live, Zombies
<1>3. Roots
  BY <1>1, <1>2 DEF Init, Roots
<1>4. ParentAlive /\ WaiterMissesNothing
  BY <1>1, <1>2 DEF Init, ParentAlive, WaiterMissesNothing
<1>5. PidsBelow /\ PidsDistinct
  BY <1>1 DEF Init, PidsBelow, PidsDistinct
<1> QED BY <1>3, <1>4, <1>5 DEF TreeInv

(* Every step keeps the invariant. *)
LEMMA TreeStep ==
    ASSUME SchedInv, SchedInv', TreeInv, [Next]_vars PROVE TreeInv'
<1>t. TypeOK /\ TypeOK'
  BY DEF SchedInv
<1>a. NoProc \notin Slots /\ InitProc \in Slots
  BY ProcAssumption DEF NoProc, Slots, InitProc
<1>b. \A c \in CPUs, p \in Slots : cpu[c] = p => state[p] = "RUNNING"
  BY DEF SchedInv, RunningOnOneCpu
<1>c. NoChan \notin Slots /\ \A ch \in Chans : ch \notin Slots
  BY ProcAssumption
<1>1. ASSUME NEW c \in CPUs, NEW pr \in Prio, Scheduler(c, pr) PROVE TreeInv'
  <2>1. PICK p \in Slots : /\ state[p] = "RUNNABLE"
                          /\ state' = [state EXCEPT ![p] = "RUNNING"]
    <3>1. runq \in RunQueues /\ QueuesHold(runq, Runnable)
      BY DEF SchedInv, RunQueues, TypeOK, QueuedIffRunnable
    <3>2. Head(runq[pr]) \in Runnable
      BY <1>1, <3>1, HoldDequeue DEF Scheduler, RQ!IsTop
    <3> QED BY <1>1, <3>2 DEF Scheduler, Runnable
  <2>2. Live' = Live /\ \A s \in Slots : s \notin Live => state'[s] = state[s]
    BY <1>t, <2>1 DEF Live, TypeOK
  <2>3. UNCHANGED <<parent, pid, nextpid, chan, killed, pc>>
    BY <1>1 DEF Scheduler
  <2> QED BY <1>t, <2>1, <2>2, <2>3, KeepsTree DEF TreeInv, Roots, TypeOK
<1>2. ASSUME NEW p \in Slots, Resume(p) PROVE TreeInv'
  <2>1. UNCHANGED <<state, parent, pid, nextpid, killed, pc>>
    BY <1>2 DEF Resume
  <2>2. \A s \in Slots : chan'[s] = s => chan[s] = s
    BY <1>2, <1>c, <1>t DEF Resume, TypeOK
  <2> QED BY <1>t, <2>1, <2>2, KeepsTree DEF TreeInv, Roots, Live
<1>3. ASSUME NEW ch \in Chans, Wakeup(ch) PROVE TreeInv'
  <2> DEFINE S == Sleepers(state, ch)
  <2>1. S \in SUBSET Slots /\ \A s \in S : state[s] = "SLEEPING"
    BY DEF Sleepers
  <2>2. state' = SetRunnable(state, S) /\ UNCHANGED <<parent, pid, nextpid, chan, killed, pc>>
    BY <1>3 DEF Wakeup
  <2> HIDE DEF S
  <2>3. \A s \in Slots : /\ s \in S => state'[s] = "RUNNABLE"
                         /\ s \notin S => state'[s] = state[s]
    BY <2>1, <2>2, WakesLive
  <2>4. Live' = Live /\ \A s \in Slots : s \notin Live => state'[s] = state[s]
    BY <2>1, <2>3 DEF Live
  <2> QED BY <1>t, <2>2, <2>3, <2>4, KeepsTree DEF TreeInv, Roots
<1>4. ASSUME NEW c \in CPUs, NEW p \in Slots,
             Yield(c, p) \/ \E ch \in Chans : Sleep(c, p, ch)
      PROVE  TreeInv'
  <2>1. state[p] = "RUNNING"
    BY <1>4, <1>b DEF Yield, Sleep, Exec
  <2>2. /\ UNCHANGED <<parent, pid, nextpid, killed, pc>>
        /\ \/ state' = [state EXCEPT ![p] = "RUNNABLE"] /\ chan' = chan
           \/ /\ state' = [state EXCEPT ![p] = "SLEEPING"]
              /\ \E ch \in Chans : chan' = [chan EXCEPT ![p] = ch]
    BY <1>4 DEF Yield, Sleep
  <2>3. Live' = Live /\ \A s \in Slots : s \notin Live => state'[s] = state[s]
    BY <1>t, <2>1, <2>2 DEF Live, TypeOK
  <2>4. \A s \in Slots : state'[s] = "SLEEPING" /\ chan'[s] = s
            => state[s] = "SLEEPING" /\ chan[s] = s
    BY <1>t, <1>c, <2>2 DEF TypeOK
  <2> QED BY <1>t, <2>2, <2>3, <2>4, KeepsTree DEF TreeInv, Roots
<1>5. ASSUME NEW c \in CPUs, NEW p \in Slots,
             \/ SysEnter(c, p) \/ SysReturn(c, p) \/ UserFault(c, p)
             \/ ExitBegin(c, p) \/ WaitBegin(c, p) \/ WaitNone(c, p)
             \/ ForkInherit(c, p) \/ PrioSelf(c, p) \/ PrioOther(c, p)
             \/ \E a \in PrioArgs : PrioCheck(c, p, a)
      PROVE  TreeInv'
  <2>1. state[p] = "RUNNING"
    BY <1>5, <1>b DEF SysEnter, SysReturn, UserFault, ExitBegin, WaitBegin, WaitNone,
                      ForkInherit, PrioSelf, PrioOther, PrioCheck, Exec, Scanning
  <2>2. UNCHANGED <<state, parent, pid, nextpid>>
    BY <1>5 DEF SysEnter, SysReturn, UserFault, ExitBegin, WaitBegin, WaitNone,
                ForkInherit, PrioSelf, PrioOther, PrioCheck
  <2>3. \/ pc' = pc
        \/ \E l \in Labels \ {"exit"} : pc' = [pc EXCEPT ![p] = l]
        \/ pc' = [pc EXCEPT ![p] = "exit"] /\ p # InitProc
    BY <1>5 DEF SysEnter, SysReturn, UserFault, ExitBegin, WaitBegin, WaitNone,
                ForkInherit, PrioSelf, PrioOther, PrioCheck, Labels
  <2>4. \/ chan' = chan /\ killed' = killed
        \/ chan' = chan /\ killed' = [killed EXCEPT ![p] = TRUE]
        \/ chan' = [chan EXCEPT ![p] = NoChan] /\ killed' = killed
    BY <1>5 DEF SysEnter, SysReturn, UserFault, ExitBegin, WaitBegin, WaitNone,
                ForkInherit, PrioSelf, PrioOther, PrioCheck
  <2>5. pc'[InitProc] # "exit"
    BY <1>t, <1>a, <2>3 DEF TreeInv, Roots, TypeOK
  <2>6. \A s \in Slots : state'[s] = "SLEEPING" /\ chan'[s] = s
            => state[s] = "SLEEPING" /\ chan[s] = s /\ killed'[s] = killed[s]
    BY <1>t, <1>c, <2>1, <2>2, <2>4 DEF TypeOK
  <2> QED BY <1>t, <2>2, <2>5, <2>6, KeepsTree DEF Live
<1>6. ASSUME NEW c \in CPUs, NEW p \in Slots, NEW n \in KillPids, Kill(c, p, n)
      PROVE  TreeInv'
  <2>1. PICK t \in Slots : /\ killed' = [killed EXCEPT ![t] = TRUE]
                          /\ state' = SetRunnable(state, KillWakes(t))
    BY <1>6 DEF Kill
  <2>2. UNCHANGED <<parent, pid, nextpid, chan, pc>>
    BY <1>6 DEF Kill
  <2>3. \A s \in Slots : state'[s] = IF s = t /\ state[s] = "SLEEPING" THEN "RUNNABLE"
                                                                       ELSE state[s]
    BY <2>1 DEF SetRunnable, KillWakes
  <2>4. Live' = Live /\ \A s \in Slots : s \notin Live => state'[s] = state[s]
    BY <2>3 DEF Live
  <2>5. \A s \in Slots : state'[s] = "SLEEPING" /\ chan'[s] = s
            => state[s] = "SLEEPING" /\ chan[s] = s /\ killed'[s] = killed[s]
    BY <1>t, <2>1, <2>2, <2>3 DEF TypeOK
  <2> QED BY <1>t, <2>2, <2>4, <2>5, KeepsTree DEF TreeInv, Roots
<1>7. ASSUME NEW c \in CPUs, NEW p \in Slots, WaitSleep(c, p) PROVE TreeInv'
  <2>1. state[p] = "RUNNING"
    BY <1>7, <1>b DEF WaitSleep, Scanning
  <2>2. /\ state' = [state EXCEPT ![p] = "SLEEPING"] /\ chan' = [chan EXCEPT ![p] = p]
        /\ UNCHANGED <<parent, pid, nextpid, killed, pc>>
        /\ Children(p) # {} /\ Children(p) \cap Zombies = {} /\ ~killed[p]
    BY <1>7 DEF WaitSleep
  <2>3. Live' = Live /\ Zombies' = Zombies
    BY <1>t, <2>1, <2>2 DEF Live, Zombies, TypeOK
  <2>4. \A q \in Slots : Children(q)' = Children(q)
    BY <2>2 DEF Children
  <2>5. WaiterMissesNothing'
    <3> SUFFICES ASSUME NEW q \in Slots, state'[q] = "SLEEPING", chan'[q] = q
                 PROVE  Children(q)' # {} /\ (Children(q) \cap Zombies)' = {} /\ ~killed'[q]
      BY DEF WaiterMissesNothing
    <3>1. CASE q = p
      BY <2>2, <2>3, <2>4, <3>1
    <3>2. CASE q # p
      BY <1>t, <2>2, <2>3, <2>4, <3>2 DEF TreeInv, WaiterMissesNothing, TypeOK
    <3> QED BY <3>1, <3>2
  <2>6. Roots' /\ ParentAlive'
    BY <1>t, <1>a, <2>1, <2>2, <2>3 DEF TreeInv, Roots, ParentAlive, TypeOK
  <2>7. PidsBelow' /\ PidsDistinct'
    BY <1>t, <2>1, <2>2 DEF TreeInv, PidsBelow, PidsDistinct, TypeOK
  <2> QED BY <2>5, <2>6, <2>7 DEF TreeInv
<1>8. ASSUME NEW c \in CPUs, NEW p \in Slots, ForkAlloc(c, p) PROVE TreeInv'
  <2>1. PICK s \in Slots : /\ state[s] = "UNUSED"
                          /\ state' = [state EXCEPT ![s] = "EMBRYO"]
                          /\ pid' = [pid EXCEPT ![s] = nextpid]
    BY <1>8 DEF ForkAlloc, First, AllocState
  <2>2. /\ nextpid' = nextpid + 1 /\ pc' = [pc EXCEPT ![p] = "fork"]
        /\ UNCHANGED <<parent, chan, killed>>
    BY <1>8 DEF ForkAlloc, NextPid
  <2>3. Live' = Live /\ Zombies' = Zombies
    BY <1>t, <2>1 DEF Live, Zombies, TypeOK
  <2>4. Roots'
    BY <1>t, <1>a, <2>1, <2>2, <2>3 DEF TreeInv, Roots, TypeOK
  <2>5. ParentAlive'
    BY <2>2, <2>3 DEF TreeInv, ParentAlive
  <2>6. WaiterMissesNothing'
    <3>1. \A q \in Slots : state'[q] = "SLEEPING" => state[q] = "SLEEPING"
      BY <1>t, <2>1, <2>2 DEF TypeOK
    <3>2. \A q \in Slots : Children(q)' = Children(q)
      BY <2>2 DEF Children
    <3> QED BY <2>2, <2>3, <3>1, <3>2 DEF TreeInv, WaiterMissesNothing
  <2>7. PidsBelow'
    BY <1>t, <2>1, <2>2 DEF TreeInv, PidsBelow, TypeOK
  <2>8. PidsDistinct'
    <3>1. \A r \in Slots : r # s => pid'[r] = pid[r] /\ pid[r] # nextpid /\ state'[r] = state[r]
      BY <1>t, <2>1 DEF TreeInv, PidsBelow, TypeOK
    <3>2. pid'[s] = nextpid
      BY <1>t, <2>1 DEF TypeOK
    <3> QED BY <3>1, <3>2 DEF TreeInv, PidsDistinct
  <2> QED BY <2>4, <2>5, <2>6, <2>7, <2>8 DEF TreeInv
<1>9. ASSUME NEW c \in CPUs, NEW p \in Slots, ForkFail(c, p) PROVE TreeInv'
  <2> DEFINE s == np[p]
  <2>1. s \in Slots /\ state[s] = "EMBRYO"
    BY <1>9 DEF ForkFail, SchedInv, ForkOwns
  <2>2. /\ state' = [state EXCEPT ![s] = "UNUSED"] /\ pc' = [pc EXCEPT ![p] = "user"]
        /\ UNCHANGED <<parent, pid, chan, killed, nextpid>>
    BY <1>9 DEF ForkFail
  <2> HIDE DEF s
  <2>3. Live' = Live /\ Zombies' = Zombies
    BY <1>t, <2>1, <2>2 DEF Live, Zombies, TypeOK
  <2>4. Roots'
    BY <1>t, <1>a, <2>1, <2>2, <2>3 DEF TreeInv, Roots, TypeOK
  <2>5. ParentAlive'
    BY <2>2, <2>3 DEF TreeInv, ParentAlive
  <2>6. WaiterMissesNothing'
    <3>1. \A q \in Slots : state'[q] = "SLEEPING" => state[q] = "SLEEPING"
      BY <1>t, <2>1, <2>2 DEF TypeOK
    <3>2. \A q \in Slots : Children(q)' = Children(q)
      BY <2>2 DEF Children
    <3> QED BY <2>2, <2>3, <3>1, <3>2 DEF TreeInv, WaiterMissesNothing
  <2>7. PidsBelow' /\ PidsDistinct'
    BY <1>t, <2>1, <2>2 DEF TreeInv, PidsBelow, PidsDistinct, TypeOK
  <2> QED BY <2>4, <2>5, <2>6, <2>7 DEF TreeInv
<1>10. ASSUME NEW c \in CPUs, NEW p \in Slots, ForkRunnable(c, p) PROVE TreeInv'
  <2> DEFINE s == np[p]
  <2>1. s \in Slots /\ state[s] = "EMBRYO" /\ state[p] = "RUNNING" /\ s # p
    BY <1>10, <1>b DEF ForkRunnable, SchedInv, ForkOwns, Exec
  <2>2. /\ state' = [state EXCEPT ![s] = "RUNNABLE"]
        /\ parent' = [parent EXCEPT ![s] = p]
        /\ pc' = [pc EXCEPT ![p] = "fork2", ![s] = "user"]
        /\ UNCHANGED <<pid, chan, killed, nextpid>>
    BY <1>10 DEF ForkRunnable
  <2> HIDE DEF s
  <2>3. Live' = Live \cup {s} /\ Zombies' = Zombies
    BY <1>t, <2>1, <2>2 DEF Live, Zombies, TypeOK
  <2>4. s # InitProc /\ parent[s] = NoProc
    BY <2>1 DEF TreeInv, Roots, Live
  <2>5. Roots'
    BY <1>t, <1>a, <2>1, <2>2, <2>3, <2>4 DEF TreeInv, Roots, TypeOK
  <2>6. ParentAlive'
    BY <1>t, <2>1, <2>2, <2>3 DEF TreeInv, ParentAlive, Live, TypeOK
  <2>7. \A q \in Slots : q # p => Children(q)' = Children(q)
    <3>1. \A q, r \in Slots : q # p => (parent'[r] = q <=> parent[r] = q)
      <4>1. \A r \in Slots : parent'[r] = IF r = s THEN p ELSE parent[r]
        BY <1>t, <2>2 DEF TypeOK
      <4> QED BY <1>a, <2>4, <4>1
    <3> QED BY <3>1 DEF Children
  <2>8. WaiterMissesNothing'
    BY <1>t, <2>1, <2>2, <2>3, <2>7 DEF TreeInv, WaiterMissesNothing, TypeOK
  <2>9. PidsBelow' /\ PidsDistinct'
    BY <1>t, <2>1, <2>2 DEF TreeInv, PidsBelow, PidsDistinct, TypeOK
  <2> QED BY <2>5, <2>6, <2>8, <2>9 DEF TreeInv
<1>11. ASSUME NEW c \in CPUs, NEW p \in Slots, ExitFinal(c, p) PROVE TreeInv'
  <2> DEFINE S1 == WakesParent(p)
             st1 == SetRunnable(state, S1)
             S2 == WakesInit(p, st1)
             st2 == SetRunnable(st1, S2)
  <2>1. state[p] = "RUNNING" /\ pc[p] = "exit" /\ p # InitProc /\ p \in Live
    BY <1>11, <1>b DEF ExitFinal, Exec, TreeInv, Roots, Live
  <2>2. /\ state' = [st2 EXCEPT ![p] = "ZOMBIE"]
        /\ parent' = ChildrenToInit(p)
        /\ UNCHANGED <<pid, chan, killed, nextpid, pc>>
    BY <1>11 DEF ExitFinal
  <2>3. \A s \in Slots : s \in S1 <=> state[s] = "SLEEPING" /\ chan[s] = parent[p]
    BY DEF WakesParent, Sleepers
  <2>4. \A s \in Slots : s \in S2 <=> /\ Children(p) \cap Zombies # {}
                                      /\ st1[s] = "SLEEPING" /\ chan[s] = InitProc
    BY DEF WakesInit, Sleepers
  <2>5. \A s \in Slots : st2[s] = IF s \in S1 \/ s \in S2 THEN "RUNNABLE" ELSE state[s]
    BY DEF SetRunnable
  <2>6. \A s \in Slots : st1[s] = IF s \in S1 THEN "RUNNABLE" ELSE state[s]
    BY DEF SetRunnable
  <2>7. st2 \in [Slots -> {"RUNNABLE"} \cup States]
    BY <1>t DEF TypeOK, SetRunnable
  <2> HIDE DEF S1, S2, st1, st2
  <2>8. \A s \in Slots : state'[s] = IF s = p THEN "ZOMBIE" ELSE st2[s]
    BY <2>2, <2>7
  <2>9. Live' = Live \ {p} /\ Zombies' = Zombies \cup {p}
    BY <2>1, <2>3, <2>4, <2>5, <2>6, <2>8 DEF Live, Zombies
  <2>10. \A s \in Slots : parent'[s] = IF parent[s] = p THEN InitProc ELSE parent[s]
    BY <2>2 DEF ChildrenToInit
  <2>11. Roots'
    <3>1. \A s \in Slots : state'[s] \in {"UNUSED", "EMBRYO"} => state'[s] = state[s]
      BY <2>5, <2>8
    <3> QED BY <1>a, <2>1, <2>2, <2>9, <2>10, <3>1 DEF TreeInv, Roots
  <2>12. ParentAlive'
    <3>1. InitProc \in Live \ {p}
      BY <2>1 DEF TreeInv, Roots
    <3>2. \A s \in (Live \cup Zombies) \ {InitProc} : s \in Slots /\ parent[s] \in Live
      BY DEF TreeInv, ParentAlive, Live, Zombies
    <3>3. (Live \cup Zombies)' = Live \cup Zombies
      BY <2>1, <2>9
    <3> QED BY <2>9, <2>10, <3>1, <3>2, <3>3 DEF ParentAlive
  <2>13. WaiterMissesNothing'
    <3> SUFFICES ASSUME NEW q \in Slots, state'[q] = "SLEEPING", chan'[q] = q
                 PROVE  Children(q)' # {} /\ (Children(q) \cap Zombies)' = {} /\ ~killed'[q]
      BY DEF WaiterMissesNothing
    <3>1. q # p /\ q \notin S1 /\ q \notin S2 /\ state[q] = "SLEEPING" /\ chan[q] = q
      BY <2>2, <2>5, <2>8
    <3>2. parent[p] # q
      BY <2>3, <3>1
    <3>3. Children(q) # {} /\ Children(q) \cap Zombies = {} /\ ~killed[q]
      BY <3>1 DEF TreeInv, WaiterMissesNothing
    <3>4. \A s \in Slots : parent[s] = q => parent'[s] = q
      BY <2>10, <3>1
    <3>5. Children(q)' # {}
      BY <3>3, <3>4 DEF Children
    <3>6. q = InitProc => Children(p) \cap Zombies = {}
      BY <2>4, <2>6, <3>1
    <3>7. ASSUME NEW s \in Slots, parent'[s] = q, s \in Zombies' PROVE FALSE
      <4>1. s # p
        BY <2>10, <3>2, <3>7 DEF TreeInv, Roots
      <4>2. s \in Zombies
        BY <2>9, <3>7, <4>1
      <4>3. parent[s] = q \/ (parent[s] = p /\ q = InitProc)
        BY <2>10, <3>7
      <4> QED BY <3>3, <3>6, <4>2, <4>3 DEF Children
    <3> QED BY <2>2, <3>3, <3>5, <3>7 DEF Children
  <2>14. PidsBelow' /\ PidsDistinct'
    <3>1. \A s \in Slots : state'[s] = "UNUSED" <=> state[s] = "UNUSED"
      BY <2>1, <2>3, <2>4, <2>5, <2>6, <2>8
    <3> QED BY <2>2, <3>1 DEF TreeInv, PidsBelow, PidsDistinct
  <2> QED BY <2>11, <2>12, <2>13, <2>14 DEF TreeInv
<1>12. ASSUME NEW c \in CPUs, NEW p \in Slots, WaitReap(c, p) PROVE TreeInv'
  <2>1. PICK s \in Slots : /\ state[s] = "ZOMBIE" /\ parent[s] = p
                          /\ state' = [state EXCEPT ![s] = "UNUSED"]
                          /\ pid' = [pid EXCEPT ![s] = 0]
                          /\ parent' = [parent EXCEPT ![s] = NoProc]
                          /\ killed' = [killed EXCEPT ![s] = FALSE]
    BY <1>12 DEF WaitReap, First, Zombies, Children
  <2>2. /\ state[p] = "RUNNING"
        /\ chan' = [chan EXCEPT ![p] = NoChan] /\ pc' = [pc EXCEPT ![p] = "user"]
        /\ UNCHANGED nextpid
    BY <1>12, <1>b DEF WaitReap, Scanning
  <2>3. Live' = Live /\ Zombies' = Zombies \ {s} /\ s \notin Live
    BY <1>t, <2>1 DEF Live, Zombies, TypeOK
  <2>4. Roots'
    BY <1>t, <1>a, <2>1, <2>2, <2>3 DEF TreeInv, Roots, TypeOK
  <2>5. ParentAlive'
    BY <1>t, <2>1, <2>3 DEF TreeInv, ParentAlive, TypeOK
  <2>6. \A q \in Slots : q # p => Children(q)' = Children(q)
    <3>1. \A q, r \in Slots : q # p => (parent'[r] = q <=> parent[r] = q)
      BY <1>t, <1>a, <2>1 DEF TypeOK
    <3> QED BY <3>1 DEF Children
  <2>7. WaiterMissesNothing'
    <3> SUFFICES ASSUME NEW q \in Slots, state'[q] = "SLEEPING", chan'[q] = q
                 PROVE  Children(q)' # {} /\ (Children(q) \cap Zombies)' = {} /\ ~killed'[q]
      BY DEF WaiterMissesNothing
    <3>1. q # p /\ q # s /\ state[q] = "SLEEPING" /\ chan[q] = q /\ killed'[q] = killed[q]
      BY <1>t, <2>1, <2>2 DEF TypeOK
    <3> QED BY <2>3, <2>6, <3>1 DEF TreeInv, WaiterMissesNothing
  <2>8. PidsBelow'
    BY <1>t, <2>1, <2>2 DEF TreeInv, PidsBelow, TypeOK
  <2>9. PidsDistinct'
    BY <1>t, <2>1 DEF TreeInv, PidsDistinct, TypeOK
  <2> QED BY <2>4, <2>5, <2>7, <2>8, <2>9 DEF TreeInv
<1>13. CASE UNCHANGED vars
  BY <1>13, <1>t, KeepsTree DEF vars, TreeInv, Roots, Live
<1> QED
  BY <1>1, <1>2, <1>3, <1>4, <1>5, <1>6, <1>7, <1>8, <1>9, <1>10, <1>11, <1>12,
     <1>13 DEF Next

----------------------------------------------------------------------------
(* Parents, waiters and pids are consistent in every reachable state.      *)
THEOREM TreeSafe == ASSUME PrioArgs \subseteq Nat PROVE Spec => []TreeInv
<1>1. TreeInv /\ SchedInv /\ SchedInv' /\ [Next]_vars => TreeInv'
  BY TreeStep
<1> QED BY <1>1, TreeInit, SchedulingSafe, PTL DEF Spec

(* Whoever is live or ZOMBIE, but init, has a live parent to reap it.      *)
THEOREM ParentSafe == ASSUME PrioArgs \subseteq Nat PROVE Spec => []ParentAlive
BY TreeSafe, PTL DEF TreeInv

(* wait() sleeps only while there is something to wait for and nothing to  *)
(* report.                                                                 *)
THEOREM WaitSafe == ASSUME PrioArgs \subseteq Nat PROVE Spec => []WaiterMissesNothing
BY TreeSafe, PTL DEF TreeInv

(* Pids in use are distinct. *)
THEOREM PidSafe == ASSUME PrioArgs \subseteq Nat PROVE Spec => []PidsDistinct
BY TreeSafe, PTL DEF TreeInv

----------------------------------------------------------------------------
(* The start of the scheduler *)

(* The queues rq hold only processes of R, each at most once, but for one  *)
(* process x that may have one more entry than that.                       *)
QueuesBound(rq, R, x) ==
    /\ \A pr \in Prio : \A i \in 1 .. Len(rq[pr]) : rq[pr][i] \in R \cup {x}
    /\ \A pr1, pr2 \in Prio :
        \A i \in 1 .. Len(rq[pr1]), j \in 1 .. Len(rq[pr2]) :
            /\ rq[pr1][i] = rq[pr2][j]
            /\ rq[pr1][i] # x \/ x \notin R
            => pr1 = pr2 /\ i = j
    /\ \A pr1, pr2, pr3 \in Prio :
        \A i \in 1 .. Len(rq[pr1]), j \in 1 .. Len(rq[pr2]), k \in 1 .. Len(rq[pr3]) :
            rq[pr1][i] = x /\ rq[pr2][j] = x /\ rq[pr3][k] = x
            => \/ pr1 = pr2 /\ i = j
               \/ pr1 = pr3 /\ i = k
               \/ pr2 = pr3 /\ j = k

(* What is executed is RUNNING, and only CPU c executes. *)
OnlyRuns(c) == \A d \in CPUs : cpu[d] # NoProc => d = c /\ state[cpu[d]] = "RUNNING"

InitStays == InitProc \in Live /\ pc[InitProc] # "exit"

(* What remains of the scheduling invariant on one CPU, after its first    *)
(* pass over the table has left a stale entry of init in the queue.        *)
StaleInv ==
    /\ TypeOK /\ PrioOK /\ ForkOwns
    /\ QueuesBound(runq, Runnable, InitProc)
    /\ OnlyRuns(BootCPU) /\ InitStays

(* Only init exists, it has not been run, and no CPU runs anything. *)
AtRest ==
    /\ TypeOK /\ PrioOK
    /\ \A s \in Slots \ {InitProc} : state[s] = "UNUSED"
    /\ \A s \in Slots : pc[s] = IF s = InitProc THEN "sys" ELSE "user"
    /\ \A c \in CPUs : cpu[c] = NoProc
    /\ LockFree

Unborn == AtRest /\ state[InitProc] = "EMBRYO" /\ runq = [pr \in Prio |-> <<>>]
Newborn == AtRest /\ state[InitProc] = "RUNNABLE" /\ QueuedIffRunnable

(* The first pass on one CPU: init is alone, in the kernel; once it has    *)
(* left the CPU nothing runs until the pass ends.                          *)
Passing ==
    /\ \A s \in Slots \ {InitProc} : state[s] = "UNUSED"
    /\ pc[InitProc] = "sys"
    /\ IF cpu[BootCPU] = NoProc THEN LockFree ELSE ~slept
    /\ IF next = 0 THEN Newborn /\ ~slept ELSE next = 1

(* The CPUs, the flags of main.c and proc.c. *)
BootFlags ==
    /\ BootCPU \in present /\ started \subseteq present
    /\ BootCPU \in started => published
    /\ sweep # NoProc => sweep \in started /\ sweep \in CPUs /\ ~first_time
    /\ early => ~first_time /\ present # {BootCPU}
    /\ ~published /\ ~first_time => early
    /\ first_time => ~slept

BootInv ==
    /\ BootFlags
    /\ ~published => Unborn
    /\ published /\ first_time => Newborn
    /\ published /\ early => sweep = NoProc /\ SchedInv
    /\ published /\ ~first_time /\ present = {BootCPU}
        => StaleInv /\ (sweep # NoProc => Passing)

----------------------------------------------------------------------------
(* Two entries of one process, and three of x, in such queues. *)
LEMMA BoundUnique ==
    ASSUME NEW rq, NEW R, NEW x, QueuesBound(rq, R, x), NEW pr1 \in Prio, NEW pr2 \in Prio,
           NEW i \in 1 .. Len(rq[pr1]), NEW j \in 1 .. Len(rq[pr2]),
           rq[pr1][i] = rq[pr2][j], rq[pr1][i] # x \/ x \notin R
    PROVE  pr1 = pr2 /\ i = j
BY DEF QueuesBound

(* The process that may be queued twice is never queued three times. *)
LEMMA BoundThree ==
    ASSUME NEW rq, NEW R, NEW x, QueuesBound(rq, R, x),
           NEW pr1 \in Prio, NEW pr2 \in Prio, NEW pr3 \in Prio,
           NEW i \in 1 .. Len(rq[pr1]), NEW j \in 1 .. Len(rq[pr2]), NEW k \in 1 .. Len(rq[pr3]),
           rq[pr1][i] = x, rq[pr2][j] = x, rq[pr3][k] = x
    PROVE  \/ pr1 = pr2 /\ i = j
           \/ pr1 = pr3 /\ i = k
           \/ pr2 = pr3 /\ j = k
BY DEF QueuesBound

(* Queues joined: one side may have the stale entry. *)
LEMMA BoundMerge ==
    ASSUME NEW rq, NEW tq, NEW new, NEW R, NEW T, NEW x,
           QueuesBound(rq, R, x), QueuesHold(tq, T), R \cap T = {},
           \A pr \in Prio : Len(rq[pr]) \in Nat /\ Len(tq[pr]) \in Nat,
           \A pr \in Prio : Follows(rq[pr], tq[pr], new[pr])
    PROVE  QueuesBound(new, R \cup T, x)
<1> DEFINE Old(pr, i) == i \in 1 .. Len(rq[pr]) /\ new[pr][i] = rq[pr][i]
           New(pr, i) == \E k \in 1 .. Len(tq[pr]) :
                            i = Len(rq[pr]) + k /\ new[pr][i] = tq[pr][k]
<1>1. \A pr \in Prio : \A i \in 1 .. Len(new[pr]) : Old(pr, i) \/ New(pr, i)
  BY DEF Follows
<1>2. \A pr \in Prio : \A i : Old(pr, i) => new[pr][i] \in R \cup {x}
  BY DEF QueuesBound
<1>3. \A pr \in Prio : \A i : New(pr, i) => new[pr][i] \in T
  BY DEF QueuesHold
<1>4. ASSUME NEW pr1 \in Prio, NEW pr2 \in Prio, NEW i, NEW j, Old(pr1, i), Old(pr2, j),
             new[pr1][i] = new[pr2][j], new[pr1][i] # x \/ x \notin R
      PROVE  pr1 = pr2 /\ i = j
  <2>1. rq[pr1][i] = rq[pr2][j] /\ (rq[pr1][i] # x \/ x \notin R)
    BY <1>4
  <2>2. i \in 1 .. Len(rq[pr1]) /\ j \in 1 .. Len(rq[pr2])
    BY <1>4
  <2> QED BY <2>1, <2>2, BoundUnique
<1>5. ASSUME NEW pr1 \in Prio, NEW pr2 \in Prio, NEW i, NEW j,
             New(pr1, i), New(pr2, j), new[pr1][i] = new[pr2][j]
      PROVE  pr1 = pr2 /\ i = j
  <2>1. PICK k \in 1 .. Len(tq[pr1]) : i = Len(rq[pr1]) + k /\ new[pr1][i] = tq[pr1][k]
    BY <1>5
  <2>2. PICK l \in 1 .. Len(tq[pr2]) : j = Len(rq[pr2]) + l /\ new[pr2][j] = tq[pr2][l]
    BY <1>5
  <2>a. tq[pr1][k] = tq[pr2][l]
    BY <1>5, <2>1, <2>2
  <2>3. pr1 = pr2 /\ k = l
    BY <2>a, HoldUnique
  <2> QED BY <2>1, <2>2, <2>3
<1>6. ASSUME NEW pr1 \in Prio, NEW pr2 \in Prio, NEW pr3 \in Prio, NEW i, NEW j, NEW k,
             Old(pr1, i), Old(pr2, j), Old(pr3, k),
             new[pr1][i] = x, new[pr2][j] = x, new[pr3][k] = x
      PROVE  \/ pr1 = pr2 /\ i = j
             \/ pr1 = pr3 /\ i = k
             \/ pr2 = pr3 /\ j = k
  <2>1. rq[pr1][i] = x /\ rq[pr2][j] = x /\ rq[pr3][k] = x
    BY <1>6
  <2>2. i \in 1 .. Len(rq[pr1]) /\ j \in 1 .. Len(rq[pr2]) /\ k \in 1 .. Len(rq[pr3])
    BY <1>6
  <2> QED BY <2>1, <2>2, BoundThree
<1> HIDE DEF Old, New
<1>7. \A pr \in Prio : \A i \in 1 .. Len(new[pr]) : new[pr][i] \in (R \cup T) \cup {x}
  BY <1>1, <1>2, <1>3
<1>8. ASSUME NEW pr1 \in Prio, NEW pr2 \in Prio,
             NEW i \in 1 .. Len(new[pr1]), NEW j \in 1 .. Len(new[pr2]),
             new[pr1][i] = new[pr2][j], new[pr1][i] # x \/ x \notin R \cup T
      PROVE  pr1 = pr2 /\ i = j
  <2>1. CASE Old(pr1, i) /\ Old(pr2, j)
    BY <1>4, <1>8, <2>1
  <2>2. CASE New(pr1, i) /\ New(pr2, j)
    BY <1>5, <1>8, <2>2
  <2>3. CASE (Old(pr1, i) /\ New(pr2, j)) \/ (New(pr1, i) /\ Old(pr2, j))
    BY <1>2, <1>3, <1>8, <2>3
  <2> QED BY <1>1, <2>1, <2>2, <2>3
<1>9. ASSUME NEW pr1 \in Prio, NEW pr2 \in Prio, NEW pr3 \in Prio,
             NEW i \in 1 .. Len(new[pr1]), NEW j \in 1 .. Len(new[pr2]),
             NEW k \in 1 .. Len(new[pr3]),
             new[pr1][i] = x, new[pr2][j] = x, new[pr3][k] = x
      PROVE  \/ pr1 = pr2 /\ i = j
             \/ pr1 = pr3 /\ i = k
             \/ pr2 = pr3 /\ j = k
  <2>1. CASE Old(pr1, i) /\ Old(pr2, j) /\ Old(pr3, k)
    BY <1>6, <1>9, <2>1
  <2>2. CASE x \in T
    <3>1. x \notin R
      BY <2>2
    <3> QED BY <1>1, <1>4, <1>5, <1>9, <3>1
  <2>3. CASE x \notin T
    BY <1>1, <1>3, <1>9, <2>1, <2>3
  <2> QED BY <2>2, <2>3
<1> QED BY <1>7, <1>8, <1>9 DEF QueuesBound

(* The same for queues. *)
LEMMA BoundConcat ==
    ASSUME NEW rq \in RunQueues, NEW tq \in RunQueues, NEW R, NEW T, NEW x,
           QueuesBound(rq, R, x), QueuesHold(tq, T), R \cap T = {},
           NEW new, new = [pr \in Prio |-> rq[pr] \o tq[pr]]
    PROVE  new \in RunQueues /\ QueuesBound(new, R \cup T, x)
<1>1. ASSUME NEW pr \in Prio
      PROVE  /\ new[pr] \in Seq(Slots) /\ Follows(rq[pr], tq[pr], new[pr])
             /\ Len(rq[pr]) \in Nat /\ Len(tq[pr]) \in Nat
  <2>1. rq[pr] \in Seq(Slots) /\ tq[pr] \in Seq(Slots)
    BY DEF RunQueues
  <2>2. new[pr] = rq[pr] \o tq[pr]
    OBVIOUS
  <2>3. Len(rq[pr]) \in Nat /\ Len(tq[pr]) \in Nat
    BY <2>1
  <2> QED BY <2>1, <2>2, <2>3, ConcatParts, Zenon
<1>2. new \in RunQueues
  BY <1>1 DEF RunQueues
<1>3. QueuesBound(new, R \cup T, x)
  BY <1>1, BoundMerge, Zenon
<1> QED BY <1>2, <1>3

(* pq_dequeue removes one entry of the process it returns. *)
LEMMA BoundDequeue ==
    ASSUME NEW rq \in RunQueues, NEW R, NEW x, QueuesBound(rq, R, x),
           NEW pr \in Prio, rq[pr] # <<>>
    PROVE  /\ Head(rq[pr]) \in R \cup {x} /\ Head(rq[pr]) \in Slots
           /\ RQ!Dequeued(rq, pr) \in RunQueues
           /\ QueuesBound(RQ!Dequeued(rq, pr), R \ {Head(rq[pr])}, x)
<1> DEFINE new == RQ!Dequeued(rq, pr)
           h == Head(rq[pr])
<1>1. \A o \in Prio : rq[o] \in Seq(Slots) /\ Len(rq[o]) \in Nat
  BY DEF RunQueues
<1>2. h = rq[pr][1] /\ 1 \in 1 .. Len(rq[pr])
  BY <1>1
<1>3. /\ new[pr] = Tail(rq[pr])
      /\ \A o \in Prio \ {pr} : new[o] = rq[o]
      /\ new = [o \in Prio |-> new[o]]
  BY DEF RQ!Dequeued, RunQueues
<1>4. /\ new[pr] \in Seq(Slots) /\ Len(new[pr]) = Len(rq[pr]) - 1
      /\ \A i \in 1 .. Len(new[pr]) : new[pr][i] = rq[pr][i + 1]
  BY <1>1, <1>3, HeadTailProperties
<1>5. h \in R \cup {x} /\ h \in Slots
  <2>1. h \in R \cup {x}
    BY <1>2 DEF QueuesBound
  <2> QED BY <1>1, <2>1
<1> HIDE DEF new, h
<1>6. new \in RunQueues
  BY <1>1, <1>3, <1>4 DEF RunQueues
<1> DEFINE at(o, i) == IF o = pr THEN i + 1 ELSE i
<1>7. \A o \in Prio : \A i \in 1 .. Len(new[o]) :
        /\ at(o, i) \in 1 .. Len(rq[o])
        /\ new[o][i] = rq[o][at(o, i)]
        /\ ~(o = pr /\ at(o, i) = 1)
  BY <1>1, <1>3, <1>4
<1>8. \A o \in Prio : \A i, j \in 1 .. Len(new[o]) : at(o, i) = at(o, j) => i = j
  OBVIOUS
<1> HIDE DEF at
<1>9. \A o1, o2 \in Prio : \A i \in 1 .. Len(rq[o1]), j \in 1 .. Len(rq[o2]) :
        /\ rq[o1][i] = rq[o2][j]
        /\ rq[o1][i] # x \/ x \notin R
        => o1 = o2 /\ i = j
  BY DEF QueuesBound
<1>10. \A o \in Prio : \A i \in 1 .. Len(new[o]) : new[o][i] \in (R \ {h}) \cup {x}
  <2> SUFFICES ASSUME NEW o \in Prio, NEW i \in 1 .. Len(new[o]), new[o][i] # x
               PROVE  new[o][i] \in R \ {h}
    OBVIOUS
  <2>1. rq[o][at(o, i)] \in R
    BY <1>7 DEF QueuesBound
  <2>2. rq[o][at(o, i)] # h
    BY <1>2, <1>7, <1>9
  <2> QED BY <1>7, <2>1, <2>2
<1>12. ASSUME NEW o1 \in Prio, NEW o2 \in Prio,
              NEW i \in 1 .. Len(new[o1]), NEW j \in 1 .. Len(new[o2]),
              new[o1][i] = new[o2][j], new[o1][i] # x \/ x \notin R \ {h}
       PROVE  o1 = o2 /\ i = j
  <2> PICK a \in 1 .. Len(rq[o1]) : a = at(o1, i)
    BY <1>7
  <2> PICK b \in 1 .. Len(rq[o2]) : b = at(o2, j)
    BY <1>7
  <2>1. /\ rq[o1][a] = new[o1][i] /\ rq[o2][b] = new[o2][j]
        /\ ~(o1 = pr /\ a = 1) /\ ~(o2 = pr /\ b = 1)
    BY <1>7
  <2>2. CASE new[o1][i] # x \/ x \notin R
    <3>1. rq[o1][a] = rq[o2][b] /\ (rq[o1][a] # x \/ x \notin R)
      BY <1>12, <2>1, <2>2
    <3>2. o1 = o2 /\ a = b
      BY <3>1, BoundUnique
    <3> QED BY <1>8, <3>2
  <2>3. CASE new[o1][i] = x /\ x = h
    <3>1. rq[pr][1] = x /\ rq[o1][a] = x /\ rq[o2][b] = x
      BY <1>2, <1>12, <2>1, <2>3
    <3>2. (pr = o1 /\ 1 = a) \/ (pr = o2 /\ 1 = b) \/ (o1 = o2 /\ a = b)
      BY <1>2, <3>1, BoundThree
    <3>3. o1 = o2 /\ a = b
      BY <2>1, <3>2
    <3> QED BY <1>8, <3>3
  <2> QED BY <1>12, <2>2, <2>3
<1>13. ASSUME NEW o1 \in Prio, NEW o2 \in Prio, NEW o3 \in Prio,
              NEW i \in 1 .. Len(new[o1]), NEW j \in 1 .. Len(new[o2]),
              NEW k \in 1 .. Len(new[o3]), new[o1][i] = x, new[o2][j] = x, new[o3][k] = x
       PROVE  \/ o1 = o2 /\ i = j
              \/ o1 = o3 /\ i = k
              \/ o2 = o3 /\ j = k
  <2> PICK a \in 1 .. Len(rq[o1]) : a = at(o1, i)
    BY <1>7
  <2> PICK b \in 1 .. Len(rq[o2]) : b = at(o2, j)
    BY <1>7
  <2> PICK d \in 1 .. Len(rq[o3]) : d = at(o3, k)
    BY <1>7
  <2>1. rq[o1][a] = x /\ rq[o2][b] = x /\ rq[o3][d] = x
    BY <1>7, <1>13
  <2>2. (o1 = o2 /\ a = b) \/ (o1 = o3 /\ a = d) \/ (o2 = o3 /\ b = d)
    BY <2>1, BoundThree
  <2> QED BY <1>8, <2>2
<1> QED
  <2>1. QueuesBound(new, R \ {h}, x)
    <3>1. \A o1, o2 \in Prio : \A i \in 1 .. Len(new[o1]), j \in 1 .. Len(new[o2]) :
            /\ new[o1][i] = new[o2][j]
            /\ new[o1][i] # x \/ x \notin R \ {h}
            => o1 = o2 /\ i = j
      BY <1>12
    <3>2. \A o1, o2, o3 \in Prio :
            \A i \in 1 .. Len(new[o1]), j \in 1 .. Len(new[o2]), k \in 1 .. Len(new[o3]) :
                new[o1][i] = x /\ new[o2][j] = x /\ new[o3][k] = x
                => \/ o1 = o2 /\ i = j
                   \/ o1 = o3 /\ i = k
                   \/ o2 = o3 /\ j = k
      BY <1>13
    <3> QED BY <1>10, <3>1, <3>2 DEF QueuesBound
  <2> QED BY <1>5, <1>6, <2>1 DEF new, h

(* pq_enqueue of processes that are not RUNNABLE. *)
LEMMA BoundEnqueueSet ==
    ASSUME NEW rq \in RunQueues, NEW R, NEW x, QueuesBound(rq, R, x),
           NEW S \in SUBSET Slots, R \cap S = {},
           \A s \in S : priority[s] \in Prio
    PROVE  EnqueueSet(rq, S) \in RunQueues /\ QueuesBound(EnqueueSet(rq, S), R \cup S, x)
<1> PICK tq \in RunQueues : /\ QueuesHold(tq, S)
                            /\ EnqueueSet(rq, S) = [pr \in Prio |-> rq[pr] \o tq[pr]]
  BY EnqueueSetJoins
<1> QED BY BoundConcat

(* Appending a process that is not queued, next to the one stale entry. *)
LEMMA BoundEnqueue ==
    ASSUME NEW rq \in RunQueues, NEW R, NEW x, QueuesBound(rq, R, x),
           NEW p \in Slots, p \notin R, priority[p] \in Prio
    PROVE  Enqueue(rq, p) \in RunQueues /\ QueuesBound(Enqueue(rq, p), R \cup {p}, x)
<1> PICK tq \in RunQueues : /\ QueuesHold(tq, {p})
                            /\ Enqueue(rq, p) = [pr \in Prio |-> rq[pr] \o tq[pr]]
  BY EnqueueJoins
<1>1. R \cap {p} = {}
  OBVIOUS
<1> QED BY <1>1, BoundConcat

(* Sleeping processes S become RUNNABLE and are queued. *)
LEMMA WakeKeepsBound ==
    ASSUME TypeOK, PrioOK, NEW st \in [Slots -> States], NEW rq \in RunQueues, NEW x,
           QueuesBound(rq, {s \in Slots : st[s] = "RUNNABLE"}, x),
           NEW S \in SUBSET Slots, \A s \in S : st[s] = "SLEEPING"
    PROVE  /\ SetRunnable(st, S) \in [Slots -> States]
           /\ EnqueueSet(rq, S) \in RunQueues
           /\ QueuesBound(EnqueueSet(rq, S),
                          {s \in Slots : SetRunnable(st, S)[s] = "RUNNABLE"}, x)
<1>1. {s \in Slots : st[s] = "RUNNABLE"} \cap S = {}
  OBVIOUS
<1>2. {s \in Slots : SetRunnable(st, S)[s] = "RUNNABLE"}
        = {s \in Slots : st[s] = "RUNNABLE"} \cup S
  BY DEF SetRunnable
<1>3. SetRunnable(st, S) \in [Slots -> States]
  BY DEF SetRunnable, States
<1>4. \A s \in S : priority[s] \in Prio
  BY DEF PrioOK
<1> QED BY <1>1, <1>2, <1>3, <1>4, BoundEnqueueSet

(* Queues that hold R, and a process x of R that leaves R but not them. *)
LEMMA HoldBound ==
    ASSUME NEW rq, NEW R, NEW x, QueuesHold(rq, R)
    PROVE  QueuesBound(rq, R, x) /\ QueuesBound(rq, R \ {x}, x)
<1>1. \A pr1, pr2 \in Prio : \A i \in 1 .. Len(rq[pr1]), j \in 1 .. Len(rq[pr2]) :
        rq[pr1][i] = rq[pr2][j] => pr1 = pr2 /\ i = j
  BY DEF QueuesHold
<1>2. \A pr \in Prio : \A i \in 1 .. Len(rq[pr]) : rq[pr][i] \in R /\ rq[pr][i] \in (R \ {x}) \cup {x}
  BY DEF QueuesHold
<1> QED BY <1>1, <1>2 DEF QueuesBound

----------------------------------------------------------------------------
(* What a step that touches neither states, queues nor CPUs preserves. *)
LEMMA KeepsStale ==
    ASSUME StaleInv, UNCHANGED <<state, runq, cpu>>, pc'[InitProc] # "exit"
    PROVE  QueuesBound(runq, Runnable, InitProc)' /\ OnlyRuns(BootCPU)' /\ InitStays'
<1>1. Runnable' = Runnable
  BY DEF Runnable
<1>2. QueuesBound(runq, Runnable, InitProc)' <=> QueuesBound(runq', Runnable', InitProc)
  BY DEF QueuesBound, InitProc
<1>3. OnlyRuns(BootCPU)' /\ InitStays'
  BY DEF StaleInv, OnlyRuns, InitStays, Live
<1> QED BY <1>1, <1>2, <1>3 DEF StaleInv

(* A step of module Proc keeps what remains of the scheduling invariant,   *)
(* when only the boot CPU goes on.                                         *)
LEMMA StaleStep ==
    ASSUME PrioArgs \subseteq Nat, StaleInv, Next,
           \A c \in CPUs : cpu[c] = NoProc /\ cpu'[c] # NoProc => c = BootCPU
    PROVE  StaleInv'
<1> USE DEF StaleInv
<1>a. NoProc \notin Slots /\ InitProc \in Slots
  BY ProcAssumption DEF NoProc, InitProc, Slots
<1>b. \A c \in CPUs, p \in Slots : cpu[c] = p => c = BootCPU /\ state[p] = "RUNNING"
  BY <1>a DEF OnlyRuns
<1>c. runq \in RunQueues /\ QueuesBound(runq, Runnable, InitProc)
  BY DEF RunQueues, TypeOK
<1>d. QueuesBound(runq, Runnable, InitProc)' <=> QueuesBound(runq', Runnable', InitProc)
  BY DEF QueuesBound, InitProc
<1>1. ASSUME NEW c \in CPUs, NEW pr \in Prio, Scheduler(c, pr) PROVE StaleInv'
  <2> DEFINE p == Head(runq[pr])
  <2>1. /\ p \in Runnable \cup {InitProc} /\ p \in Slots
        /\ RQ!Dequeued(runq, pr) \in RunQueues
        /\ QueuesBound(RQ!Dequeued(runq, pr), Runnable \ {p}, InitProc)
    BY <1>1, <1>c, BoundDequeue DEF Scheduler, RQ!IsTop
  <2>2. /\ state' = [state EXCEPT ![p] = "RUNNING"] /\ runq' = RQ!Dequeued(runq, pr)
        /\ cpu' = [cpu EXCEPT ![c] = p] /\ cpu[c] = NoProc
    BY <1>1 DEF Scheduler, Dequeue
  <2>3. state[p] # "EMBRYO"
    BY <2>1 DEF Runnable, InitStays, Live
  <2> HIDE DEF p
  <2>4. TypeOK'
    BY <1>1, <2>1, <2>2 DEF Scheduler, TypeOK, States, RunQueues, p
  <2>5. Runnable' = Runnable \ {p}
    BY <2>1, <2>2 DEF Runnable, TypeOK
  <2>6. ForkOwns'
    BY <1>1, <2>1, <2>2, <2>3 DEF Scheduler, ForkOwns, TypeOK
  <2>7. OnlyRuns(BootCPU)'
    <3>1. c = BootCPU
      BY <2>1, <2>2, <1>a DEF TypeOK
    <3>2. \A d \in CPUs : cpu'[d] # NoProc => d = BootCPU /\ cpu'[d] = p
      BY <2>2, <3>1 DEF TypeOK, OnlyRuns
    <3>3. state'[p] = "RUNNING"
      BY <2>1, <2>2 DEF TypeOK
    <3> QED BY <3>2, <3>3 DEF OnlyRuns
  <2>8. PrioOK'
    BY <1>1 DEF Scheduler, PrioOK
  <2>9. InitStays'
    BY <1>1, <2>1, <2>2, <1>a DEF Scheduler, InitStays, Live, TypeOK
  <2> QED BY <2>1, <2>2, <2>4, <2>5, <2>6, <2>7, <2>8, <2>9, <1>d
<1>2. ASSUME NEW p \in Slots, Resume(p) PROVE StaleInv'
  <2>1. pc'[InitProc] # "exit" /\ UNCHANGED <<state, runq, cpu>>
    BY <1>2 DEF Resume, InitStays
  <2> QED BY <1>2, <2>1, KeepsStale DEF Resume, TypeOK, PrioOK, ForkOwns
<1>3. ASSUME NEW ch \in Chans, Wakeup(ch) PROVE StaleInv'
  <2> DEFINE S == Sleepers(state, ch)
  <2>1. S \in SUBSET Slots /\ \A s \in S : state[s] = "SLEEPING"
    BY DEF Sleepers
  <2>2. state' = SetRunnable(state, S) /\ runq' = EnqueueSet(runq, S)
    BY <1>3 DEF Wakeup
  <2> HIDE DEF S
  <2>3. /\ state' \in [Slots -> States] /\ runq' \in RunQueues
        /\ QueuesBound(runq', Runnable', InitProc)
    BY <2>1, <2>2, <1>c, WakeKeepsBound DEF Runnable, TypeOK
  <2>4. TypeOK'
    BY <1>3, <2>3 DEF Wakeup, TypeOK, RunQueues
  <2>5. ForkOwns' /\ PrioOK'
    BY <1>3, <2>1, <2>2 DEF Wakeup, ForkOwns, PrioOK, SetRunnable, TypeOK
  <2>6. OnlyRuns(BootCPU)' /\ InitStays'
    <3>1. \A s \in Slots : state'[s] # state[s] => state[s] = "SLEEPING" /\ state'[s] = "RUNNABLE"
      BY <2>1, <2>2 DEF SetRunnable
    <3>2. UNCHANGED <<cpu, pc>>
      BY <1>3 DEF Wakeup
    <3> QED BY <3>1, <3>2, <1>a DEF OnlyRuns, InitStays, Live, TypeOK
  <2> QED BY <2>3, <2>4, <2>5, <2>6, <1>d
<1>4. ASSUME NEW c \in CPUs, NEW p \in Slots, Yield(c, p) PROVE StaleInv'
  <2>1. state[p] = "RUNNING" /\ cpu[c] = p /\ c = BootCPU
    BY <1>4, <1>b DEF Yield, Exec
  <2>2. Runnable' = Runnable \cup {p} /\ p \notin Runnable
    BY <1>4, <2>1 DEF Yield, Runnable, TypeOK
  <2>3. runq' \in RunQueues /\ QueuesBound(runq', Runnable', InitProc)
    BY <1>4, <1>c, <2>2, BoundEnqueue DEF Yield, PrioOK
  <2>4. TypeOK' /\ PrioOK' /\ ForkOwns'
    BY <1>4, <2>1, <2>3 DEF Yield, SwitchOut, TypeOK, PrioOK, ForkOwns, States, RunQueues
  <2>5. OnlyRuns(BootCPU)'
    BY <1>4, <2>1 DEF Yield, SwitchOut, OnlyRuns, TypeOK
  <2>6. InitStays'
    BY <1>4, <1>a DEF Yield, InitStays, Live, TypeOK
  <2> QED BY <2>3, <2>4, <2>5, <2>6, <1>d
<1>5. ASSUME NEW c \in CPUs, NEW p \in Slots,
             WaitSleep(c, p) \/ \E ch \in Chans : Sleep(c, p, ch)
      PROVE  StaleInv'
  <2>1. state[p] = "RUNNING" /\ cpu[c] = p /\ c = BootCPU
    BY <1>5, <1>b DEF Sleep, WaitSleep, Scanning, Exec
  <2>2. PICK ch \in Slots \cup Chans : chan' = [chan EXCEPT ![p] = ch]
    BY <1>5 DEF Sleep, WaitSleep
  <2>3. /\ state' = [state EXCEPT ![p] = "SLEEPING"] /\ SwitchOut(c)
        /\ UNCHANGED <<pid, parent, killed, priority, runq, nextpid, pc, np, req>>
    BY <1>5 DEF Sleep, WaitSleep
  <2>4. Runnable' = Runnable
    BY <2>1, <2>3 DEF Runnable, TypeOK
  <2>5. TypeOK' /\ PrioOK' /\ ForkOwns'
    BY <2>1, <2>2, <2>3 DEF SwitchOut, TypeOK, PrioOK, ForkOwns, States
  <2>6. OnlyRuns(BootCPU)'
    BY <2>1, <2>3 DEF SwitchOut, OnlyRuns, TypeOK
  <2>7. InitStays'
    BY <2>3, <1>a DEF InitStays, Live, TypeOK
  <2> QED BY <2>3, <2>4, <2>5, <2>6, <2>7, <1>c, <1>d
<1>6. ASSUME NEW c \in CPUs, NEW p \in Slots,
             \/ SysEnter(c, p) \/ SysReturn(c, p) \/ UserFault(c, p)
             \/ ExitBegin(c, p) \/ WaitBegin(c, p) \/ WaitNone(c, p)
      PROVE  StaleInv'
  <2>1. UNCHANGED <<state, runq, cpu>>
    BY <1>6 DEF SysEnter, SysReturn, UserFault, ExitBegin, WaitBegin, WaitNone
  <2>2. TypeOK' /\ PrioOK'
    BY <1>6 DEF SysEnter, SysReturn, UserFault, ExitBegin, WaitBegin, WaitNone,
                TypeOK, PrioOK, Labels
  <2>3. np' = np /\ (pc' = pc \/ \E l \in Labels \ {"fork"} :
                        pc' = [pc EXCEPT ![p] = l] /\ (p = InitProc => l # "exit"))
    BY <1>6 DEF SysEnter, SysReturn, UserFault, ExitBegin, WaitBegin, WaitNone, Labels
  <2>4. \A r \in Slots : pc'[r] = "fork" => pc[r] = "fork"
    BY <2>3 DEF TypeOK
  <2>5. ForkOwns'
    BY <2>1, <2>3, <2>4 DEF ForkOwns
  <2>6. pc'[InitProc] # "exit"
    BY <2>3, <1>a DEF TypeOK, InitStays
  <2> QED BY <2>1, <2>2, <2>5, <2>6, KeepsStale
<1>7. ASSUME NEW c \in CPUs, NEW p \in Slots, ForkAlloc(c, p) PROVE StaleInv'
  <2>1. PICK s \in Slots : /\ state[s] = "UNUSED"
                          /\ state' = [state EXCEPT ![s] = "EMBRYO"]
                          /\ pid' = [pid EXCEPT ![s] = nextpid]
                          /\ np' = [np EXCEPT ![p] = s]
    BY <1>7 DEF ForkAlloc, First, AllocState
  <2>2. /\ nextpid' = nextpid + 1 /\ pc' = [pc EXCEPT ![p] = "fork"]
        /\ UNCHANGED <<parent, chan, killed, priority, runq, cpu, req, ptlock>>
    BY <1>7 DEF ForkAlloc, NextPid
  <2>3. Runnable' = Runnable
    BY <2>1 DEF Runnable, TypeOK
  <2>4. TypeOK' /\ PrioOK'
    <3>1. state' \in [Slots -> States] /\ pc' \in [Slots -> Labels]
      BY <2>1, <2>2 DEF TypeOK, States, Labels
    <3>2. pid' \in [Slots -> Nat] /\ nextpid' \in Nat
      BY <2>1, <2>2 DEF TypeOK
    <3>3. np' \in [Slots -> Slots \cup {NoProc}]
      BY <2>1 DEF TypeOK
    <3>4. PrioOK'
      BY <2>2 DEF PrioOK
    <3> QED BY <2>2, <3>1, <3>2, <3>3, <3>4 DEF TypeOK
  <2>5. ForkOwns'
    <3>1. \A r \in Slots : pc'[r] = "fork" <=> r = p \/ pc[r] = "fork"
      BY <2>2 DEF TypeOK
    <3>2. \A r \in Slots : np'[r] = IF r = p THEN s ELSE np[r]
      BY <2>1 DEF TypeOK
    <3>3. \A r \in Slots : pc[r] = "fork" => np[r] # s
      BY <2>1 DEF ForkOwns
    <3>4. \A r \in Slots : state'[r] = IF r = s THEN "EMBRYO" ELSE state[r]
      BY <2>1 DEF TypeOK
    <3> QED BY <3>1, <3>2, <3>3, <3>4 DEF ForkOwns
  <2>6. OnlyRuns(BootCPU)' /\ InitStays'
    BY <2>1, <2>2, <1>a DEF OnlyRuns, InitStays, Live, TypeOK
  <2> QED BY <2>2, <2>3, <2>4, <2>5, <2>6, <1>c, <1>d
<1>8. ASSUME NEW c \in CPUs, NEW p \in Slots, ForkFail(c, p) PROVE StaleInv'
  <2>1. np[p] \in Slots /\ state[np[p]] = "EMBRYO" /\ pc[p] = "fork"
    BY <1>8 DEF ForkFail, ForkOwns
  <2>2. Runnable' = Runnable /\ runq' = runq
    BY <1>8, <2>1 DEF ForkFail, Runnable, TypeOK
  <2>3. TypeOK' /\ PrioOK'
    BY <1>8, <2>1 DEF ForkFail, TypeOK, PrioOK, States, Labels
  <2>4. ForkOwns'
    BY <1>8, <2>1 DEF ForkFail, ForkOwns, TypeOK
  <2>5. OnlyRuns(BootCPU)' /\ InitStays'
    BY <1>8, <2>1, <1>a DEF ForkFail, OnlyRuns, InitStays, Live, TypeOK
  <2> QED BY <2>2, <2>3, <2>4, <2>5, <1>c, <1>d
<1>9. ASSUME NEW c \in CPUs, NEW p \in Slots, ForkRunnable(c, p) PROVE StaleInv'
  <2> DEFINE s == np[p]
  <2>1. s \in Slots /\ state[s] = "EMBRYO" /\ pc[p] = "fork" /\ s # p
    BY <1>9, <1>b DEF ForkRunnable, ForkOwns, Exec
  <2>2. state' = [state EXCEPT ![s] = "RUNNABLE"] /\ runq' = Enqueue(runq, s)
    BY <1>9 DEF ForkRunnable
  <2>3. /\ pc' = [pc EXCEPT ![p] = "fork2", ![s] = "user"]
        /\ parent' = [parent EXCEPT ![s] = p]
        /\ UNCHANGED <<pid, chan, killed, priority, nextpid, cpu, np, req, ptlock>>
    BY <1>9 DEF ForkRunnable
  <2> HIDE DEF s
  <2>4. Runnable' = Runnable \cup {s} /\ s \notin Runnable
    BY <2>1, <2>2 DEF Runnable, TypeOK
  <2>5. runq' \in RunQueues /\ QueuesBound(runq', Runnable', InitProc)
    BY <2>1, <2>2, <2>4, <1>c, BoundEnqueue DEF PrioOK
  <2>6. TypeOK' /\ PrioOK'
    <3>1. state' \in [Slots -> States] /\ parent' \in [Slots -> Slots \cup {NoProc}]
      BY <2>1, <2>2, <2>3 DEF TypeOK, States
    <3>2. pc' \in [Slots -> Labels]
      BY <2>1, <2>3 DEF TypeOK, Labels
    <3> QED BY <2>3, <2>5, <3>1, <3>2 DEF TypeOK, PrioOK, RunQueues
  <2>7. ForkOwns'
    <3>1. \A r \in Slots : pc'[r] = "fork" => pc[r] = "fork" /\ r # p
      BY <2>1, <2>3 DEF TypeOK
    <3>2. \A r \in Slots : pc[r] = "fork" /\ r # p => np[r] # s
      BY <2>1 DEF ForkOwns, s
    <3> QED BY <2>1, <2>2, <2>3, <3>1, <3>2 DEF ForkOwns, TypeOK
  <2>8. OnlyRuns(BootCPU)' /\ InitStays'
    BY <2>1, <2>2, <2>3, <1>a DEF OnlyRuns, InitStays, Live, TypeOK
  <2> QED BY <2>5, <2>6, <2>7, <2>8, <1>d
<1>10. ASSUME NEW c \in CPUs, NEW p \in Slots, ForkInherit(c, p) PROVE StaleInv'
  <2>1. UNCHANGED <<state, runq, cpu>> /\ pc'[InitProc] # "exit"
    BY <1>10, <1>a DEF ForkInherit, InitStays, TypeOK
  <2>2. TypeOK' /\ PrioOK'
    BY <1>10 DEF ForkInherit, TypeOK, PrioOK, Labels
  <2>3. ForkOwns'
    BY <1>10 DEF ForkInherit, ForkOwns, TypeOK
  <2> QED BY <2>1, <2>2, <2>3, KeepsStale
<1>11. ASSUME NEW c \in CPUs, NEW p \in Slots, ExitFinal(c, p) PROVE StaleInv'
  <2> DEFINE S1 == WakesParent(p)
             st1 == SetRunnable(state, S1)
             S2 == WakesInit(p, st1)
             st2 == SetRunnable(st1, S2)
             rq1 == EnqueueSet(runq, S1)
  <2>1. state[p] = "RUNNING" /\ cpu[c] = p /\ c = BootCPU /\ p # InitProc
    BY <1>11, <1>b DEF ExitFinal, Exec, InitStays
  <2>2. /\ state' = [st2 EXCEPT ![p] = "ZOMBIE"] /\ runq' = EnqueueSet(rq1, S2)
        /\ parent' = ChildrenToInit(p) /\ SwitchOut(c)
        /\ UNCHANGED <<pid, chan, killed, priority, nextpid, pc, np, req>>
    BY <1>11 DEF ExitFinal
  <2>3. S1 \in SUBSET Slots /\ \A s \in S1 : state[s] = "SLEEPING"
    BY DEF WakesParent, Sleepers
  <2>4. S2 \in SUBSET Slots /\ \A s \in S2 : st1[s] = "SLEEPING"
    BY DEF WakesInit, Sleepers
  <2> HIDE DEF S1, S2
  <2>5. /\ st1 \in [Slots -> States] /\ rq1 \in RunQueues
        /\ QueuesBound(rq1, {s \in Slots : st1[s] = "RUNNABLE"}, InitProc)
    BY <2>3, <1>c, WakeKeepsBound DEF Runnable, TypeOK
  <2>6. \A s \in Slots : st1[s] # state[s] => state[s] = "SLEEPING" /\ st1[s] = "RUNNABLE"
    BY <2>3 DEF SetRunnable
  <2> HIDE DEF st1, rq1
  <2>7. /\ st2 \in [Slots -> States] /\ runq' \in RunQueues
        /\ QueuesBound(runq', {s \in Slots : st2[s] = "RUNNABLE"}, InitProc)
    BY <2>2, <2>4, <2>5, WakeKeepsBound
  <2>8. \A s \in Slots : st2[s] # state[s] => state[s] = "SLEEPING" /\ st2[s] = "RUNNABLE"
    BY <2>4, <2>6 DEF SetRunnable
  <2> HIDE DEF st2
  <2>9. {s \in Slots : st2[s] = "RUNNABLE"} = Runnable'
    BY <2>1, <2>2, <2>7, <2>8 DEF Runnable
  <2>10. ChildrenToInit(p) \in [Slots -> Slots \cup {NoProc}]
    BY <1>a DEF ChildrenToInit, TypeOK
  <2>11. TypeOK' /\ PrioOK'
    BY <2>2, <2>7, <2>10 DEF SwitchOut, TypeOK, PrioOK, States, RunQueues
  <2>12. ForkOwns'
    BY <2>1, <2>2, <2>7, <2>8 DEF ForkOwns, TypeOK
  <2>13. OnlyRuns(BootCPU)'
    BY <2>1, <2>2 DEF SwitchOut, OnlyRuns, TypeOK
  <2>14. InitStays'
    BY <2>1, <2>2, <2>7, <2>8, <1>a DEF InitStays, Live
  <2> QED BY <2>7, <2>9, <2>11, <2>12, <2>13, <2>14, <1>d
<1>12. ASSUME NEW c \in CPUs, NEW p \in Slots, WaitReap(c, p) PROVE StaleInv'
  <2>1. PICK s \in Slots : /\ state[s] = "ZOMBIE"
                          /\ state' = [state EXCEPT ![s] = "UNUSED"]
                          /\ pid' = [pid EXCEPT ![s] = 0]
                          /\ parent' = [parent EXCEPT ![s] = NoProc]
                          /\ killed' = [killed EXCEPT ![s] = FALSE]
    BY <1>12 DEF WaitReap, First, Zombies
  <2>2. /\ chan' = [chan EXCEPT ![p] = NoChan] /\ pc' = [pc EXCEPT ![p] = "user"]
        /\ ptlock' = NoProc /\ UNCHANGED <<priority, runq, nextpid, cpu, np, req>>
    BY <1>12 DEF WaitReap
  <2>3. Runnable' = Runnable
    BY <2>1 DEF Runnable, TypeOK
  <2>4. TypeOK' /\ PrioOK'
    BY <2>1, <2>2 DEF TypeOK, PrioOK, States, Labels
  <2>5. ForkOwns'
    BY <2>1, <2>2 DEF ForkOwns, TypeOK
  <2>6. OnlyRuns(BootCPU)' /\ InitStays'
    BY <2>1, <2>2, <1>a DEF OnlyRuns, InitStays, Live, TypeOK
  <2> QED BY <2>2, <2>3, <2>4, <2>5, <2>6, <1>c, <1>d
<1>13. ASSUME NEW c \in CPUs, NEW p \in Slots, NEW n \in KillPids, Kill(c, p, n)
       PROVE  StaleInv'
  <2>1. PICK t \in Slots : /\ killed' = [killed EXCEPT ![t] = TRUE]
                          /\ state' = SetRunnable(state, KillWakes(t))
                          /\ runq' = EnqueueSet(runq, KillWakes(t))
    BY <1>13 DEF Kill
  <2> DEFINE S == KillWakes(t)
  <2>2. S \in SUBSET Slots /\ \A s \in S : state[s] = "SLEEPING"
    BY DEF KillWakes
  <2> HIDE DEF S
  <2>3. /\ state' \in [Slots -> States] /\ runq' \in RunQueues
        /\ QueuesBound(runq', Runnable', InitProc)
    BY <2>1, <2>2, <1>c, WakeKeepsBound DEF Runnable, TypeOK, S
  <2>4. TypeOK'
    BY <1>13, <2>1, <2>3 DEF Kill, TypeOK, RunQueues
  <2>5. \A s \in Slots : state'[s] # state[s] => state[s] = "SLEEPING" /\ state'[s] = "RUNNABLE"
    BY <2>1, <2>2 DEF SetRunnable, S
  <2>6. UNCHANGED <<priority, cpu, pc, np, req>>
    BY <1>13 DEF Kill
  <2>7. ForkOwns'
    BY <2>5, <2>6 DEF ForkOwns
  <2>8. PrioOK'
    BY <2>6 DEF PrioOK
  <2>9. OnlyRuns(BootCPU)' /\ InitStays'
    BY <2>5, <2>6, <1>a DEF OnlyRuns, InitStays, Live, TypeOK
  <2> QED BY <2>3, <2>4, <2>7, <2>8, <2>9, <1>d
<1>14. ASSUME NEW c \in CPUs, NEW p \in Slots, NEW a \in PrioArgs, PrioCheck(c, p, a)
       PROVE  StaleInv'
  <2>1. ToUint(a) \in Prio
    <3>1. a \in Nat /\ ~(a >= PRIO_MAX)
      BY <1>14 DEF PrioCheck, PrioTooBig
    <3> QED BY <3>1, ProcAssumption DEF ToUint, Prio
  <2>2. /\ req' = [req EXCEPT ![p] = ToUint(a)] /\ pc' = [pc EXCEPT ![p] = "prio"]
        /\ UNCHANGED <<state, pid, parent, chan, killed, priority, runq, nextpid,
                       cpu, np, ptlock>>
    BY <1>14 DEF PrioCheck
  <2>3. ToUint(a) \in Nat
    BY <2>1 DEF Prio
  <2>4. TypeOK'
    BY <2>2, <2>3 DEF TypeOK, Labels
  <2>5. PrioOK'
    BY <2>1, <2>2 DEF TypeOK, PrioOK
  <2>6. ForkOwns' /\ pc'[InitProc] # "exit"
    BY <2>2, <1>a DEF ForkOwns, TypeOK, InitStays
  <2> QED BY <2>2, <2>4, <2>5, <2>6, KeepsStale
<1>15. ASSUME NEW c \in CPUs, NEW p \in Slots, PrioSelf(c, p) \/ PrioOther(c, p)
       PROVE  StaleInv'
  <2>1. 0 \in Prio
    BY ProcAssumption DEF Prio
  <2>2. PICK t \in Slots : priority' \in {priority, [priority EXCEPT ![t] = req[p]]}
    BY <1>15 DEF PrioSelf, PrioOther
  <2>3. /\ req' = [req EXCEPT ![p] = 0] /\ pc' = [pc EXCEPT ![p] = "user"]
        /\ UNCHANGED <<state, pid, parent, chan, killed, runq, nextpid, cpu, np, ptlock>>
    BY <1>15 DEF PrioSelf, PrioOther
  <2>4. priority' \in [Slots -> Nat] /\ \A s \in Slots : priority'[s] \in Prio
    BY <2>2 DEF TypeOK, PrioOK
  <2>5. TypeOK'
    BY <2>3, <2>4 DEF TypeOK, Labels
  <2>6. PrioOK'
    BY <2>3, <2>4, <2>1 DEF TypeOK, PrioOK
  <2>7. ForkOwns' /\ pc'[InitProc] # "exit"
    BY <2>3, <1>a DEF ForkOwns, TypeOK, InitStays
  <2> QED BY <2>3, <2>5, <2>6, <2>7, KeepsStale
<1> QED
  BY <1>1, <1>2, <1>3, <1>4, <1>5, <1>6, <1>7, <1>8, <1>9, <1>10, <1>11, <1>12,
     <1>13, <1>14, <1>15 DEF Next

----------------------------------------------------------------------------
(* As long as nothing has run, nothing but the scheduler can step. *)
LEMMA RestSteps ==
    ASSUME AtRest, state[InitProc] # "SLEEPING", Next
    PROVE  \E c \in CPUs, pr \in Prio : Scheduler(c, pr)
<1>1. NoProc \notin Slots
  BY DEF NoProc, Slots
<1>2. \A c \in CPUs, p \in Slots : ~(cpu[c] = p)
  BY <1>1 DEF AtRest
<1>3. ASSUME NEW p \in Slots, Resume(p) PROVE FALSE
  BY <1>1, <1>3 DEF Resume, AtRest, LockFree
<1>4. ASSUME NEW ch \in Chans, Wakeup(ch) PROVE FALSE
  <2>1. \A s \in Slots : state[s] # "SLEEPING"
    BY DEF AtRest
  <2> QED BY <1>4, <2>1 DEF Wakeup, Sleepers
<1>5. \A c \in CPUs, p \in Slots : ~Exec(c, p) /\ ~Scanning(c, p)
  BY <1>2 DEF Exec, Scanning
<1>6. ASSUME NEW c \in CPUs, NEW p \in Slots
      PROVE  /\ ~Yield(c, p) /\ (\A ch \in Chans : ~Sleep(c, p, ch))
             /\ ~SysEnter(c, p) /\ ~SysReturn(c, p) /\ ~UserFault(c, p)
             /\ ~ForkAlloc(c, p) /\ ~ForkFail(c, p) /\ ~ForkRunnable(c, p) /\ ~ForkInherit(c, p)
  BY <1>5 DEF Yield, Sleep, SysEnter, SysReturn, UserFault, ForkAlloc, ForkFail,
              ForkRunnable, ForkInherit
<1>7. ASSUME NEW c \in CPUs, NEW p \in Slots
      PROVE  /\ ~ExitBegin(c, p) /\ ~ExitFinal(c, p)
             /\ ~WaitBegin(c, p) /\ ~WaitReap(c, p) /\ ~WaitNone(c, p) /\ ~WaitSleep(c, p)
             /\ (\A n \in KillPids : ~Kill(c, p, n))
             /\ (\A a \in PrioArgs : ~PrioCheck(c, p, a))
             /\ ~PrioSelf(c, p) /\ ~PrioOther(c, p)
  BY <1>5 DEF ExitBegin, ExitFinal, WaitBegin, WaitReap, WaitNone, WaitSleep, Kill,
              PrioCheck, PrioSelf, PrioOther
<1> QED BY <1>3, <1>4, <1>6, <1>7, Zenon DEF Next

(* Before userinit nothing is queued, so nothing can step. *)
LEMMA UnbornRests ==
    ASSUME Unborn
    PROVE  QueuedIffRunnable /\ RunningOnOneCpu /\ ~Next
<1>1. NoProc \notin Slots /\ InitProc \in Slots
  BY ProcAssumption DEF NoProc, InitProc, Slots
<1>2. Runnable = {} /\ \A s \in Slots : state[s] # "RUNNING"
  BY DEF Unborn, AtRest, Runnable
<1>3. \A pr \in Prio : runq[pr] = <<>>
  BY DEF Unborn
<1>4. QueuedIffRunnable
  BY <1>2, <1>3 DEF QueuedIffRunnable, QueuesHold
<1>5. RunningOnOneCpu
  BY <1>1, <1>2 DEF Unborn, AtRest, RunningOnOneCpu
<1>6. ~Next
  <2>1. \A c \in CPUs, pr \in Prio : ~Scheduler(c, pr)
    BY <1>3 DEF Scheduler, RQ!IsTop
  <2> QED BY <2>1, RestSteps DEF Unborn
<1> QED BY <1>4, <1>5, <1>6

(* After userinit the scheduling invariant holds. *)
LEMMA NewbornSched ==
    ASSUME Newborn
    PROVE  SchedInv /\ StaleInv
<1>1. NoProc \notin Slots /\ InitProc \in Slots
  BY ProcAssumption DEF NoProc, InitProc, Slots
<1>2. \A s \in Slots : state[s] # "RUNNING" /\ pc[s] # "fork" /\ pc[s] # "exit"
  BY DEF Newborn, AtRest
<1>3. RunningOnOneCpu /\ ForkOwns
  BY <1>1, <1>2 DEF Newborn, AtRest, RunningOnOneCpu, ForkOwns
<1>4. QueuesBound(runq, Runnable, InitProc)
  BY HoldBound DEF Newborn, QueuedIffRunnable
<1>5. OnlyRuns(BootCPU) /\ InitStays
  BY <1>1, <1>2 DEF Newborn, AtRest, OnlyRuns, InitStays, Live
<1> QED BY <1>3, <1>4, <1>5 DEF SchedInv, StaleInv, Newborn, AtRest

(* userinit makes the first process RUNNABLE and queues it. *)
LEMMA UserInitPublishes ==
    ASSUME Unborn, UserInit
    PROVE  Newborn'
<1>1. InitProc \in Slots
  BY ProcAssumption DEF InitProc, Slots
<1>2. /\ state' = [state EXCEPT ![InitProc] = "RUNNABLE"] /\ runq' = Enqueue(runq, InitProc)
      /\ UNCHANGED <<pid, parent, chan, killed, priority, nextpid, cpu, pc, np, req, ptlock>>
  BY DEF UserInit, PublishedQueue
<1>3. runq \in RunQueues /\ QueuesHold(runq, Runnable)
  BY UnbornRests DEF Unborn, AtRest, TypeOK, RunQueues, QueuedIffRunnable
<1>4. InitProc \notin Runnable /\ Runnable' = Runnable \cup {InitProc}
  BY <1>1, <1>2 DEF Unborn, AtRest, TypeOK, Runnable
<1>5. priority[InitProc] \in Prio
  BY <1>1 DEF Unborn, AtRest, PrioOK
<1>6. runq' \in RunQueues /\ QueuesHold(runq', Runnable')
  BY <1>1, <1>2, <1>3, <1>4, <1>5, HoldEnqueue
<1>7. QueuedIffRunnable'
  BY <1>6 DEF QueuedIffRunnable, QueuesHold
<1>8. TypeOK'
  BY <1>1, <1>2, <1>6 DEF Unborn, AtRest, TypeOK, States, RunQueues
<1>9. AtRest' /\ state'[InitProc] = "RUNNABLE"
  BY <1>1, <1>2, <1>8 DEF Unborn, AtRest, TypeOK, PrioOK, LockFree
<1> QED BY <1>7, <1>9 DEF Newborn

(* The kernel before any CPU is in scheduler(). *)
LEMMA BootStarts == BootInit => BootInv
<1> SUFFICES ASSUME BootInit PROVE BootInv
  OBVIOUS
<1>1. InitProc \in Slots /\ 0 \in Prio
  BY ProcAssumption DEF InitProc, Slots, Prio
<1>2. TypeOK
  BY <1>1 DEF BootInit, TypeOK, States, Labels
<1>3. Unborn
  BY <1>1, <1>2 DEF BootInit, Unborn, AtRest, PrioOK, LockFree
<1>4. BootFlags
  BY DEF BootInit, BootFlags
<1> QED BY <1>3, <1>4 DEF BootInv, BootInit

(* During the first pass on one CPU init, in the kernel, can only release  *)
(* ptable.lock, yield or sleep.                                            *)
LEMMA PassingStep ==
    ASSUME StaleInv, Passing, ProcStep, sweep = BootCPU, BootCPU # NoProc,
           started \subseteq {BootCPU}
    PROVE  Passing'
<1>1. NoProc \notin Slots /\ InitProc \in Slots
  BY ProcAssumption DEF NoProc, InitProc, Slots
<1>2. cpu[BootCPU] # NoProc
  BY DEF ProcStep, SweepHolds, Passing
<1>3. next = 1 /\ ~slept
  BY <1>2, BootAssumption DEF Passing, Newborn, AtRest
<1>4. cpu[BootCPU] = InitProc /\ state[InitProc] = "RUNNING"
  BY <1>2, BootAssumption DEF StaleInv, OnlyRuns, TypeOK, Passing
<1>5. \A c \in CPUs, p \in Slots : cpu[c] = p => c = BootCPU /\ p = InitProc
  BY <1>1, <1>4 DEF StaleInv, OnlyRuns
<1>6. next' = 1 /\ next' # 0 /\ (slept' => state'[InitProc] = "SLEEPING")
  <2>1. next' = 1 /\ next' # 0
    BY <1>3 DEF ProcStep
  <2>2. slept' = (slept \/ state'[InitProc] = "SLEEPING")
    BY DEF ProcStep
  <2>3. slept' => state'[InitProc] = "SLEEPING"
    BY <1>3, <2>2, Zenon
  <2> QED BY <2>1, <2>3
<1>7. pc'[InitProc] = "sys"
  BY <1>3 DEF ProcStep, MayReturn, Passing
<1> SUFFICES /\ \A s \in Slots \ {InitProc} : state'[s] = "UNUSED"
             /\ IF cpu'[BootCPU] = NoProc THEN ptlock' = NoProc
                                          ELSE state'[InitProc] # "SLEEPING"
  BY <1>6, <1>7 DEF Passing, LockFree
<1>8. ASSUME UNCHANGED <<state, cpu>>
      PROVE  /\ \A s \in Slots \ {InitProc} : state'[s] = "UNUSED"
             /\ cpu'[BootCPU] # NoProc /\ state'[InitProc] # "SLEEPING"
  BY <1>2, <1>4, <1>8 DEF Passing
<1>9. ASSUME NEW c \in CPUs, NEW pr \in Prio, Scheduler(c, pr) PROVE FALSE
  <2>1. cpu[c] = NoProc /\ cpu' = [cpu EXCEPT ![c] = Head(runq[pr])]
    BY <1>9 DEF Scheduler
  <2>2. Head(runq[pr]) \in Slots
    <3>1. runq[pr] \in Seq(Slots) /\ runq[pr] # <<>>
      BY <1>9 DEF Scheduler, RQ!IsTop, StaleInv, TypeOK
    <3> QED BY <3>1
  <2>3. cpu'[c] # NoProc
    BY <2>1, <2>2, <1>1 DEF StaleInv, TypeOK
  <2>4. c \in started
    BY <2>1, <2>3 DEF ProcStep
  <2> QED BY <2>1, <2>4, <1>2
<1>10. ASSUME NEW p \in Slots, Resume(p) PROVE UNCHANGED <<state, cpu>>
  BY <1>10 DEF Resume
<1>11. ASSUME NEW ch \in Chans, Wakeup(ch) PROVE FALSE
  <2>1. \A s \in Slots : state[s] # "SLEEPING"
    BY <1>4 DEF Passing
  <2> QED BY <1>11, <2>1 DEF Wakeup, Sleepers
<1>12. ASSUME NEW c \in CPUs, NEW p \in Slots,
              Yield(c, p) \/ \E ch \in Chans : Sleep(c, p, ch)
       PROVE  /\ \A s \in Slots \ {InitProc} : state'[s] = "UNUSED"
              /\ cpu'[BootCPU] = NoProc /\ ptlock' = NoProc
  <2>1. p = InitProc /\ c = BootCPU
    BY <1>5, <1>12 DEF Yield, Sleep, Exec
  <2>2. \E st : state' = [state EXCEPT ![p] = st]
    BY <1>12 DEF Yield, Sleep
  <2>3. SwitchOut(c)
    BY <1>12 DEF Yield, Sleep
  <2> QED BY <2>1, <2>2, <2>3, BootAssumption DEF SwitchOut, Passing, StaleInv, TypeOK
<1>13. ASSUME NEW c \in CPUs, NEW p \in Slots, SysReturn(c, p) PROVE FALSE
  <2>1. p = InitProc
    BY <1>5, <1>13 DEF SysReturn, Exec
  <2>2. pc'[InitProc] = "user"
    BY <1>1, <1>13, <2>1 DEF SysReturn, StaleInv, TypeOK
  <2> QED BY <1>7, <2>2
<1>14. \A c \in CPUs, p \in Slots :
        Exec(c, p) \/ Scanning(c, p) => pc[p] = "sys"
  BY <1>5 DEF Exec, Scanning, Passing
<1>15. ASSUME NEW c \in CPUs, NEW p \in Slots
       PROVE  /\ ~SysEnter(c, p) /\ ~UserFault(c, p) /\ ~ForkAlloc(c, p) /\ ~ForkFail(c, p)
              /\ ~ForkRunnable(c, p) /\ ~ForkInherit(c, p) /\ ~ExitBegin(c, p)
              /\ ~ExitFinal(c, p) /\ ~WaitBegin(c, p)
  BY <1>14 DEF SysEnter, UserFault, ForkAlloc, ForkFail, ForkRunnable, ForkInherit,
               ExitBegin, ExitFinal, WaitBegin
<1>16. ASSUME NEW c \in CPUs, NEW p \in Slots
       PROVE  /\ ~WaitReap(c, p) /\ ~WaitNone(c, p) /\ ~WaitSleep(c, p)
              /\ (\A n \in KillPids : ~Kill(c, p, n))
              /\ (\A a \in PrioArgs : ~PrioCheck(c, p, a))
              /\ ~PrioSelf(c, p) /\ ~PrioOther(c, p)
  BY <1>14 DEF WaitReap, WaitNone, WaitSleep, Scanning, Kill, PrioCheck, PrioSelf, PrioOther
<1>17. \/ UNCHANGED <<state, cpu>>
       \/ \E c \in CPUs, p \in Slots : Yield(c, p) \/ \E ch \in Chans : Sleep(c, p, ch)
  <2>1. Next
    BY DEF ProcStep
  <2> QED BY <2>1, <1>9, <1>10, <1>11, <1>13, <1>15, <1>16, Zenon DEF Next
<1> QED BY <1>8, <1>12, <1>17

(* A step of module Proc after the start. *)
LEMMA BootProcStep ==
    ASSUME PrioArgs \subseteq Nat, BootInv, ProcStep PROVE BootInv'
<1>1. UNCHANGED <<present, started, published, first_time, sweep, next, early>> /\ Next
  BY DEF ProcStep
<1>2. published
  BY <1>1, UnbornRests DEF BootInv
<1>3. ~first_time
  <2> SUFFICES ASSUME first_time PROVE FALSE
    OBVIOUS
  <2>1. Newborn
    BY <1>2 DEF BootInv
  <2>2. PICK c \in CPUs, pr \in Prio : Scheduler(c, pr)
    BY <1>1, <2>1, RestSteps DEF Newborn
  <2>3. cpu[c] = NoProc /\ cpu' = [cpu EXCEPT ![c] = Head(runq[pr])]
    BY <2>2 DEF Scheduler
  <2>4. Head(runq[pr]) \in Slots
    <3>1. runq[pr] \in Seq(Slots) /\ runq[pr] # <<>>
      BY <2>1, <2>2 DEF Scheduler, RQ!IsTop, Newborn, AtRest, TypeOK
    <3> QED BY <3>1
  <2>5. cpu'[c] # NoProc
    BY <2>1, <2>3, <2>4 DEF Newborn, AtRest, TypeOK, NoProc, Slots
  <2> QED BY <2>3, <2>5 DEF ProcStep
<1>4. BootFlags'
  BY <1>1, <1>3 DEF BootInv, BootFlags
<1>5. early => SchedInv'
  BY <1>1, <1>2, SchedStep DEF BootInv
<1>6. ASSUME present = {BootCPU} PROVE StaleInv' /\ (sweep # NoProc => Passing')
  <2>1. StaleInv /\ (sweep # NoProc => Passing) /\ started \subseteq {BootCPU}
    BY <1>2, <1>3, <1>6 DEF BootInv, BootFlags
  <2>2. \A c \in CPUs : cpu[c] = NoProc /\ cpu'[c] # NoProc => c = BootCPU
    BY <2>1 DEF ProcStep
  <2>3. StaleInv'
    BY <1>1, <2>1, <2>2, StaleStep
  <2>4. ASSUME sweep # NoProc PROVE Passing'
    <3>1. sweep = BootCPU
      BY <2>1, <2>4 DEF BootInv, BootFlags
    <3> QED BY <2>1, <2>4, <3>1, PassingStep
  <2> QED BY <2>3, <2>4
<1> QED BY <1>1, <1>2, <1>3, <1>4, <1>5, <1>6 DEF BootInv

(* A step that leaves the variables of module Proc alone. *)
LEMMA RestKept ==
    ASSUME UNCHANGED vars
    PROVE  /\ Unborn => Unborn'
           /\ Newborn => Newborn'
           /\ StaleInv => StaleInv'
           /\ SchedInv => SchedInv'
<1>1. AtRest => AtRest'
  BY DEF vars, AtRest, TypeOK, PrioOK, LockFree
<1>2. QueuedIffRunnable => QueuedIffRunnable'
  BY DEF vars, QueuedIffRunnable, QueuesHold, Runnable
<1>3. Unborn => Unborn'
  BY <1>1 DEF vars, Unborn
<1>4. Newborn => Newborn'
  BY <1>1, <1>2 DEF vars, Newborn
<1>5. TypeOK /\ PrioOK /\ ForkOwns => TypeOK' /\ PrioOK' /\ ForkOwns'
  BY DEF vars, TypeOK, PrioOK, ForkOwns
<1>6. ASSUME StaleInv PROVE StaleInv'
  <2>1. pc'[InitProc] # "exit" /\ UNCHANGED <<state, runq, cpu>>
    BY <1>6 DEF vars, StaleInv, InitStays
  <2> QED BY <1>5, <1>6, <2>1, KeepsStale DEF StaleInv
<1>7. SchedInv => SchedInv'
  BY <1>2, <1>5 DEF vars, SchedInv, RunningOnOneCpu
<1> QED BY <1>3, <1>4, <1>6, <1>7

(* The CPUs come up, and userinit. *)
LEMMA StartSteps ==
    ASSUME BootInv, UserInit \/ BootEnter \/ \E c \in CPUs : StartOther(c)
    PROVE  BootInv'
<1>1. ASSUME NEW c \in CPUs, StartOther(c) PROVE BootInv'
  <2>1. /\ UNCHANGED <<vars, present, published, first_time, sweep, early, slept>>
        /\ ~published /\ started' = started \cup {c} /\ c \in present /\ c # BootCPU
    BY <1>1 DEF StartOther
  <2>2. Unborn'
    BY <2>1, RestKept DEF BootInv
  <2>3. BootFlags'
    BY <2>1 DEF BootInv, BootFlags
  <2> QED BY <2>1, <2>2, <2>3 DEF BootInv
<1>2. ASSUME BootEnter PROVE BootInv'
  <2>1. /\ UNCHANGED <<vars, present, published, first_time, sweep, next, early, slept>>
        /\ published /\ started' = started \cup {BootCPU}
    BY <1>2 DEF BootEnter
  <2>2. BootFlags'
    BY <2>1 DEF BootInv, BootFlags
  <2>3. Passing => Passing'
    BY <2>1, RestKept DEF vars, Passing, LockFree
  <2> QED BY <2>1, <2>2, <2>3, RestKept DEF BootInv
<1>3. ASSUME UserInit PROVE BootInv'
  <2>1. /\ UNCHANGED <<present, started, first_time, sweep, early, slept>>
        /\ ~published /\ published' /\ ~SweepHolds
    BY <1>3 DEF UserInit
  <2>2. Unborn /\ Newborn'
    BY <1>3, <2>1, UserInitPublishes DEF BootInv
  <2>3. SchedInv'
    <3>1. Newborn' => SchedInv'
      BY NewbornSched, PTL
    <3> QED BY <2>2, <3>1
  <2>4. sweep = NoProc
    BY <2>1, <2>2 DEF SweepHolds, Unborn, AtRest, BootInv, BootFlags
  <2>5. BootFlags'
    BY <2>1 DEF BootInv, BootFlags
  <2>6. present = {BootCPU} => first_time
    BY <2>1 DEF BootInv, BootFlags
  <2> QED BY <2>1, <2>2, <2>3, <2>4, <2>5, <2>6 DEF BootInv
<1> QED BY <1>1, <1>2, <1>3

(* The first pass over the table. *)
LEMMA SweepSteps ==
    ASSUME BootInv, SweepRun \/ SweepEnd \/ \E c \in CPUs : SweepStart(c)
    PROVE  BootInv'
<1>1. ASSUME NEW c \in CPUs, SweepStart(c) PROVE BootInv'
  <2>1. /\ UNCHANGED <<vars, present, started, published, slept>>
        /\ first_time /\ ~first_time' /\ sweep' = c /\ next' = 0 /\ c \in started
        /\ early' = ~published
    BY <1>1 DEF SweepStart
  <2>2. BootFlags'
    <3>1. early' => present # {BootCPU}
      BY <2>1 DEF BootInv, BootFlags
    <3>2. early' <=> ~published
      BY <2>1
    <3> QED BY <2>1, <3>1, <3>2 DEF BootInv, BootFlags
  <2>3. ~published => Unborn'
    BY <2>1, RestKept DEF BootInv
  <2>4. ASSUME published PROVE ~early' /\ StaleInv' /\ Passing'
    <3>1. Newborn /\ ~slept
      BY <2>1, <2>4 DEF BootInv, BootFlags
    <3>2. Newborn' /\ StaleInv' /\ ~slept'
      BY <2>1, <3>1, NewbornSched, RestKept
    <3>3. InitProc \in Slots
      BY ProcAssumption DEF InitProc, Slots
    <3>4. Passing'
      BY <2>1, <3>2, <3>3, BootAssumption DEF Passing, Newborn, AtRest, LockFree
    <3>5. ~early'
      BY <2>1, <2>4
    <3> QED BY <3>2, <3>4, <3>5
  <2> QED BY <2>1, <2>2, <2>3, <2>4 DEF BootInv
<1>2. ASSUME SweepRun PROVE BootInv'
  <2>1. PICK p \in Slots : /\ First(RunnableFrom(next), p)
                           /\ cpu' = [cpu EXCEPT ![sweep] = p]
                           /\ state' = [state EXCEPT ![p] = "RUNNING"]
                           /\ ptlock' = p
                           /\ next' = p + 1
    BY <1>2 DEF SweepRun
  <2>2. /\ UNCHANGED <<pid, parent, chan, killed, priority, runq, nextpid, pc, np, req>>
        /\ UNCHANGED <<present, started, published, first_time, sweep, early, slept>>
        /\ sweep # NoProc /\ cpu[sweep] = NoProc
    BY <1>2 DEF SweepRun, SweepHolds
  <2>3. p >= next /\ state[p] = "RUNNABLE"
    BY <2>1 DEF First, RunnableFrom
  <2>4. BootFlags' /\ ~first_time
    BY <2>2 DEF BootInv, BootFlags
  <2>5. published /\ ~early
    BY <2>2, <2>3 DEF BootInv, Unborn, AtRest
  <2>6. ASSUME present = {BootCPU} PROVE StaleInv' /\ Passing'
    <3>1. StaleInv /\ Passing /\ sweep = BootCPU
      BY <2>2, <2>4, <2>5, <2>6 DEF BootInv, BootFlags
    <3>2. InitProc \in Slots /\ InitProc = 0 /\ NoProc \notin Slots
      BY ProcAssumption DEF InitProc, Slots, NoProc
    <3>3. p = InitProc
      BY <2>3, <3>1 DEF Passing
    <3>4. next = 0 /\ Newborn /\ ~slept
      BY <2>3, <3>1, <3>2, <3>3 DEF Passing
    <3>5. Runnable' = Runnable \ {InitProc}
      BY <2>1, <3>2, <3>3, <3>4 DEF Runnable, Newborn, AtRest, TypeOK
    <3>6. QueuesBound(runq, Runnable, InitProc)'
      <4>1. QueuesBound(runq', Runnable', InitProc)
        BY <2>2, <3>4, <3>5, HoldBound DEF Newborn, QueuedIffRunnable
      <4> QED BY <4>1 DEF QueuesBound, InitProc
    <3>7. TypeOK' /\ PrioOK'
      BY <2>1, <2>2, <3>4 DEF Newborn, AtRest, TypeOK, PrioOK, States
    <3>8. ForkOwns' /\ InitStays'
      BY <2>1, <2>2, <3>2, <3>3, <3>4 DEF Newborn, AtRest, ForkOwns, InitStays, Live, TypeOK
    <3>9. OnlyRuns(BootCPU)'
      BY <2>1, <3>1, <3>2, <3>3, <3>4, BootAssumption DEF Newborn, AtRest, OnlyRuns, TypeOK
    <3>10. Passing'
      BY <2>1, <2>2, <3>1, <3>2, <3>3, <3>4, BootAssumption
         DEF Passing, Newborn, AtRest, TypeOK
    <3> QED BY <3>6, <3>7, <3>8, <3>9, <3>10 DEF StaleInv
  <2> QED BY <2>2, <2>4, <2>5, <2>6 DEF BootInv
<1>3. ASSUME SweepEnd PROVE BootInv'
  <2>1. UNCHANGED <<vars, present, started, published, first_time, early, slept>> /\ sweep' = NoProc
    BY <1>3 DEF SweepEnd
  <2>2. BootFlags'
    BY <2>1 DEF BootInv, BootFlags
  <2> QED BY <2>1, <2>2, RestKept DEF BootInv
<1> QED BY <1>1, <1>2, <1>3

(* Every step keeps the invariant of the start. *)
LEMMA BootStep ==
    ASSUME PrioArgs \subseteq Nat, BootInv, [BootNext]_allvars PROVE BootInv'
<1>1. CASE UNCHANGED allvars
  <2>1. UNCHANGED <<vars, present, started, published, first_time, sweep, next, early, slept>>
    BY <1>1 DEF allvars, bvars
  <2>2. BootFlags'
    BY <2>1 DEF BootInv, BootFlags
  <2>3. Passing => Passing'
    BY <2>1, RestKept DEF vars, Passing, LockFree
  <2> QED BY <2>1, <2>2, <2>3, RestKept DEF BootInv
<1>2. CASE BootNext
  BY <1>2, StartSteps, SweepSteps, BootProcStep DEF BootNext
<1> QED BY <1>1, <1>2

----------------------------------------------------------------------------
(* Cardinalities of small sets. *)
LEMMA AtMostOne ==
    ASSUME NEW T, \A t, u \in T : t = u
    PROVE  Cardinality(T) \in Nat /\ Cardinality(T) <= 1
<1>1. CASE T = {}
  BY <1>1, FS_EmptySet
<1>2. CASE T # {}
  <2>1. PICK t : T = {t}
    BY <1>2
  <2>2. Cardinality(T) = 1
    BY <2>1, FS_Singleton
  <2> QED BY <2>2
<1> QED BY <1>1, <1>2

(* A set without three different members has at most two. *)
LEMMA AtMostTwo ==
    ASSUME NEW T, \A t, u, v \in T : t = u \/ t = v \/ u = v
    PROVE  Cardinality(T) \in Nat /\ Cardinality(T) <= 2
<1>1. CASE T = {}
  BY <1>1, FS_EmptySet
<1>2. CASE T # {}
  <2>1. PICK t \in T : TRUE
    BY <1>2
  <2>2. \A u, v \in T \ {t} : u = v
    BY <2>1
  <2>3. Cardinality(T \ {t}) \in Nat /\ Cardinality(T \ {t}) <= 1 /\ IsFiniteSet(T \ {t})
    <3>1. T \ {t} = {} \/ \E u : T \ {t} = {u}
      BY <2>2
    <3>2. \A u : IsFiniteSet({u})
      BY FS_Singleton
    <3>3. IsFiniteSet({})
      BY FS_EmptySet
    <3>4. IsFiniteSet(T \ {t})
      BY <3>1, <3>2, <3>3
    <3> QED BY <2>2, <3>4, AtMostOne
  <2>4. T = (T \ {t}) \cup {t} /\ t \notin T \ {t}
    BY <2>1
  <2>5. Cardinality(T) = Cardinality(T \ {t}) + 1
    BY <2>3, <2>4, FS_AddElement
  <2> QED BY <2>3, <2>5
<1> QED BY <1>1, <1>2

(* A bound on the entries is one on their number. *)
LEMMA FewTokens ==
    ASSUME runq \in RunQueues, QueuesBound(runq, Runnable, InitProc), NEW s \in Slots
    PROVE  Cardinality(Tokens(s)) <= (IF state[s] = "RUNNABLE" THEN 1 ELSE 0)
                                      + (IF s = InitProc THEN 1 ELSE 0)
<1>1. \A t \in Tokens(s) : /\ t[1] \in Prio /\ t[2] \in 1 .. Len(runq[t[1]])
                           /\ runq[t[1]][t[2]] = s /\ t = <<t[1], t[2]>>
  <2> SUFFICES ASSUME NEW t \in Tokens(s)
               PROVE  /\ t[1] \in Prio /\ t[2] \in 1 .. Len(runq[t[1]])
                      /\ runq[t[1]][t[2]] = s /\ t = <<t[1], t[2]>>
    OBVIOUS
  <2>1. t \in Prio \X (1 .. 2 * NPROC) /\ t[2] <= Len(runq[t[1]]) /\ runq[t[1]][t[2]] = s
    BY DEF Tokens
  <2>2. t[1] \in Prio /\ t[2] \in 1 .. 2 * NPROC /\ t = <<t[1], t[2]>>
    BY <2>1
  <2>3. runq[t[1]] \in Seq(Slots)
    BY <2>2 DEF RunQueues
  <2>4. Len(runq[t[1]]) \in Nat
    BY <2>3
  <2> QED BY <2>1, <2>2, <2>4, ProcAssumption
<1>2. ASSUME s # InitProc \/ InitProc \notin Runnable
      PROVE  \A t, u \in Tokens(s) : t = u
  <2> SUFFICES ASSUME NEW t \in Tokens(s), NEW u \in Tokens(s) PROVE t = u
    OBVIOUS
  <2> PICK pr1 \in Prio, i \in 1 .. Len(runq[t[1]]) : pr1 = t[1] /\ i = t[2]
    BY <1>1
  <2> PICK pr2 \in Prio, j \in 1 .. Len(runq[u[1]]) : pr2 = u[1] /\ j = u[2]
    BY <1>1
  <2>1. /\ i \in 1 .. Len(runq[pr1]) /\ j \in 1 .. Len(runq[pr2])
        /\ runq[pr1][i] = s /\ runq[pr2][j] = s
        /\ t = <<pr1, i>> /\ u = <<pr2, j>>
    BY <1>1
  <2>2. runq[pr1][i] # InitProc \/ InitProc \notin Runnable
    BY <1>2, <2>1
  <2>3. runq[pr1][i] = runq[pr2][j]
    BY <2>1
  <2>4. pr1 = pr2 /\ i = j
    BY ONLY QueuesBound(runq, Runnable, InitProc), pr1 \in Prio, pr2 \in Prio,
            <2>1, <2>2, <2>3, BoundUnique
  <2> QED BY <2>1, <2>4
<1>3. CASE s # InitProc
  <2>1. CASE state[s] = "RUNNABLE"
    BY <1>2, <1>3, <2>1, AtMostOne
  <2>2. CASE state[s] # "RUNNABLE"
    <3>1. Tokens(s) = {}
      <4>1. \A pr \in Prio : \A i \in 1 .. Len(runq[pr]) : runq[pr][i] \in Runnable \cup {InitProc}
        BY DEF QueuesBound
      <4>2. s \notin Runnable \cup {InitProc}
        BY <1>3, <2>2 DEF Runnable
      <4> QED BY <1>1, <4>1, <4>2
    <3> QED BY <1>3, <2>2, <3>1, FS_EmptySet
  <2> QED BY <2>1, <2>2
<1>4. CASE s = InitProc /\ state[s] # "RUNNABLE"
  <2>1. InitProc \notin Runnable
    BY <1>4 DEF Runnable
  <2> QED BY <1>2, <1>4, <2>1, AtMostOne
<1>5. CASE s = InitProc /\ state[s] = "RUNNABLE"
  <2>1. ASSUME NEW t \in Tokens(s), NEW u \in Tokens(s), NEW v \in Tokens(s)
        PROVE  t = u \/ t = v \/ u = v
    <3>1. /\ t[1] \in Prio /\ t[2] \in 1 .. Len(runq[t[1]]) /\ t = <<t[1], t[2]>>
          /\ u[1] \in Prio /\ u[2] \in 1 .. Len(runq[u[1]]) /\ u = <<u[1], u[2]>>
          /\ v[1] \in Prio /\ v[2] \in 1 .. Len(runq[v[1]]) /\ v = <<v[1], v[2]>>
      BY <1>1
    <3>2. /\ runq[t[1]][t[2]] = InitProc /\ runq[u[1]][u[2]] = InitProc
          /\ runq[v[1]][v[2]] = InitProc
      BY <1>1, <1>5
    <3>3. \/ t[1] = u[1] /\ t[2] = u[2]
          \/ t[1] = v[1] /\ t[2] = v[2]
          \/ u[1] = v[1] /\ u[2] = v[2]
      BY <3>1, <3>2, BoundThree
    <3> QED BY <3>1, <3>3
  <2> QED BY <1>5, <2>1, AtMostTwo
<1> QED BY <1>3, <1>4, <1>5

(* The first pass of scheduler() over the table: begun before userinit is  *)
(* done it is harmless; on one CPU, where it comes after, it leaves at     *)
(* most one stale entry in the run queue, of init, however long the        *)
(* system runs.                                                            *)
THEOREM BootQueueSafe == ASSUME PrioArgs \subseteq Nat PROVE BootSpec => []QueueAfterSweep
<1>1. BootInv => QueueAfterSweep
  <2> SUFFICES ASSUME BootInv PROVE QueueAfterSweep
    OBVIOUS
  <2>1. early /\ sweep = NoProc => QueuedIffRunnable /\ RunningOnOneCpu
    BY UnbornRests DEF BootInv, SchedInv
  <2>2. ASSUME present = {BootCPU}
        PROVE  runq \in RunQueues /\ QueuesBound(runq, Runnable, InitProc)
    <3>1. CASE ~published
      <4>1. Unborn
        BY <3>1 DEF BootInv
      <4> QED BY <4>1, UnbornRests, HoldBound
              DEF Unborn, AtRest, TypeOK, RunQueues, QueuedIffRunnable
    <3>2. CASE published
      BY <2>2, <3>2, NewbornSched DEF BootInv, StaleInv, TypeOK, RunQueues
    <3> QED BY <3>1, <3>2
  <2> QED BY <2>1, <2>2, FewTokens DEF QueueAfterSweep
<1> QED BY <1>1, BootStarts, BootStep, PTL DEF BootSpec
=============================================================================
