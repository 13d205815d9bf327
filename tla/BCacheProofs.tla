---------------------------- MODULE BCacheProofs ----------------------------
(***************************************************************************)
(* The buffer cache is a coherent store of blocks with one holder each, it *)
(* recycles no buffer in use, and nobody waits in it without a cause, for  *)
(* every number of buffers, blocks and processes.                          *)
(***************************************************************************)
EXTENDS BCache, SequenceTheorems, FiniteSetTheorems, WellFoundedInduction, TLAPS

----------------------------------------------------------------------------
(* The inductive invariant *)

Elements(s) == {s[i] : i \in 1 .. Len(s)}
Distinct(s) == \A i, j \in 1 .. Len(s) : s[i] = s[j] => i = j

(* A process inside the cache has a buffer, and looks for a block. *)
InCache ==
    \A p \in Procs : /\ pc[p] \in {"idle", "panic"} => mine[p] = 0
                     /\ pc[p] \notin {"idle", "panic"} => mine[p] \in Bufs /\ want[p] \in Blocks

(* All buffers are on the list. *)
AllListed == Elements(lru) = Bufs

(* A sleep lock has one holder, and is locked while somebody waits. *)
LocksHeld ==
    /\ \A p \in Procs : Holds(p) => locked[mine[p]]
    /\ \A p, q \in Procs : Holds(p) /\ Holds(q) /\ mine[p] = mine[q] => p = q
    /\ \A p \in Procs : pc[p] = "lsleep" => locked[mine[p]]

(* The requests are those of the processes in iderw whose buffer is not    *)
(* ready yet, each once.                                                   *)
Requests ==
    /\ Distinct(idequeue)
    /\ \A b \in Elements(idequeue) : \E p \in Procs : pc[p] \in {"io", "woken"} /\ mine[p] = b
    /\ \A p \in Procs :
        /\ pc[p] = "io" => mine[p] \in Elements(idequeue)
        /\ pc[p] \in {"io", "woken"} => (mine[p] \in Elements(idequeue) <=> Unfinished(mine[p]))
        /\ pc[p] = "rw" => Unfinished(mine[p])
        /\ pc[p] = "held" => valid[mine[p]]

(* A buffer that is not dirty has what the disk has, and the disk was sent *)
(* what the buffer has.                                                    *)
CleanOnDisk ==
    /\ \A b \in Bufs : dirty[b] => valid[b]
    /\ \A b \in Bufs : valid[b] => blockno[b] \in Blocks
    /\ \A b \in Bufs : valid[b] /\ ~dirty[b] => data[b] = disk[blockno[b]]
    /\ idequeue # <<>> /\ dirty[Head(idequeue)] => sent = data[Head(idequeue)]

(* After a panic no buffer is free: bcache.lock is held. *)
Exhausted == ~Unlocked => \A b \in Bufs : ~Free(b)

CacheInv ==
    /\ TypeOK /\ InCache /\ AllListed /\ OneBufferKept /\ LocksHeld /\ Requests
    /\ CleanOnDisk /\ Exhausted

----------------------------------------------------------------------------
(* Lemmas about the parts of the invariant *)

(* The buffers are the numbers 1 .. NBUF. *)
LEMMA BufsAre == /\ Bufs \subseteq Nat /\ IsFiniteSet(Bufs) /\ Cardinality(Bufs) = NBUF
                 /\ 0 \notin Bufs
<1>1. 1 \in Int /\ NBUF \in Nat
  BY BCacheAssumption
<1>2. IsFiniteSet(Bufs) /\ Cardinality(Bufs) = IF 1 > NBUF THEN 0 ELSE NBUF - 1 + 1
  BY <1>1, FS_Interval DEF Bufs
<1> QED BY <1>1, <1>2 DEF Bufs

(* The buffer of a process that has locked it and is not in iderw's loop   *)
(* is not queued.                                                          *)
LEMMA NotQueued ==
    ASSUME CacheInv, NEW p \in Procs, pc[p] \in {"locked", "rw", "held"}
    PROVE  mine[p] \notin Elements(idequeue)
BY DEF CacheInv, Requests, LocksHeld, Holds

(* Nobody has a buffer whose count is 0, and it is not queued. *)
LEMMA Unused ==
    ASSUME CacheInv, NEW b \in Bufs, refcnt[b] = 0
    PROVE  /\ \A p \in Procs : mine[p] # b
           /\ b \notin Elements(idequeue)
<1> DEFINE S == {p \in Procs : Has(p, b)}
<1>1. IsFiniteSet(S)
  BY BCacheAssumption, FS_Subset
<1>2. S = {}
  BY <1>1, FS_EmptySet DEF CacheInv, OneBufferKept
<1>3. \A p \in Procs : mine[p] # b
  BY <1>2, BufsAre DEF CacheInv, InCache, Has, Using
<1> QED BY <1>3 DEF CacheInv, Requests

(* A queued buffer is locked by a process in iderw, and by nobody else. *)
LEMMA QueuedHolder ==
    ASSUME CacheInv, NEW b \in Elements(idequeue)
    PROVE  /\ b \in Bufs /\ blockno[b] \in Blocks
           /\ \E p \in Procs : /\ pc[p] \in {"io", "woken"} /\ mine[p] = b
                               /\ \A q \in Procs : Holds(q) /\ mine[q] = b => q = p
BY DEF CacheInv, Requests, LocksHeld, Holds, InCache, OneBufferKept, Using

(* A set of processes with one more. *)
LEMMA OneMore ==
    ASSUME NEW S \in SUBSET Procs, NEW p \in Procs, p \notin S
    PROVE  /\ Cardinality(S) \in Nat /\ Cardinality(S \cup {p}) = Cardinality(S) + 1
<1>1. IsFiniteSet(S)
  BY BCacheAssumption, FS_Subset
<1> QED BY <1>1, FS_AddElement, FS_CardinalityType

(* The same processes have the same buffers. *)
LEMMA KeepsCounts ==
    ASSUME OneBufferKept, UNCHANGED <<blockno, refcnt>>,
           \A p \in Procs : /\ mine'[p] = mine[p] /\ want'[p] = want[p]
                            /\ Using(p)' <=> Using(p)
    PROVE  OneBufferKept'
<1>1. \A b \in Bufs : {p \in Procs : Has(p, b)}' = {p \in Procs : Has(p, b)}
  BY DEF Has, Using
<1> QED BY <1>1 DEF OneBufferKept

(* What a process does outside of iderw concerns no request. *)
LEMMA KeepsRequests ==
    ASSUME InCache, Requests, UNCHANGED idequeue, NEW p \in Procs,
           pc[p] \notin {"io", "woken"}, pc'[p] \notin {"rw", "io", "woken", "held"},
           \A q \in Procs \ {p} :
               /\ mine'[q] = mine[q]
               /\ pc'[q] = pc[q] \/ (pc[q] = "lsleep" /\ pc'[q] = "lock")
               /\ mine[q] \in Bufs => /\ valid'[mine[q]] = valid[mine[q]]
                                      /\ dirty'[mine[q]] = dirty[mine[q]]
    PROVE  Requests'
<1>1. Distinct(idequeue)'
  BY DEF Requests, Distinct
<1>2. Elements(idequeue)' = Elements(idequeue)
  BY DEF Elements
<1>3. ASSUME NEW b \in Elements(idequeue)
      PROVE  \E q \in Procs : pc'[q] \in {"io", "woken"} /\ mine'[q] = b
  BY DEF Requests
<1>4. ASSUME NEW q \in Procs, pc'[q] \in {"rw", "io", "woken", "held"}
      PROVE  /\ pc'[q] = "io" => mine'[q] \in Elements(idequeue)
             /\ pc'[q] \in {"io", "woken"} => (mine'[q] \in Elements(idequeue) <=> Unfinished(mine[q])')
             /\ pc'[q] = "rw" => Unfinished(mine[q])'
             /\ pc'[q] = "held" => valid'[mine'[q]]
  <2>1. q # p /\ pc'[q] = pc[q] /\ mine'[q] = mine[q] /\ mine[q] \in Bufs
    BY <1>4 DEF InCache
  <2>2. valid'[mine'[q]] = valid[mine[q]] /\ (Unfinished(mine[q])' <=> Unfinished(mine[q]))
    BY <2>1 DEF Unfinished
  <2> QED BY <2>1, <2>2 DEF Requests
<1> QED BY <1>1, <1>2, <1>3, <1>4 DEF Requests

(* No buffer becomes free, and nobody panics. *)
LEMMA KeepsExhausted ==
    ASSUME Exhausted, Unlocked => Unlocked', \A b \in Bufs : Free(b)' => Free(b)
    PROVE  Exhausted'
BY DEF Exhausted

(* Append and Tail, as the queue of requests uses them. *)
LEMMA Enqueued ==
    ASSUME NEW s \in Seq(Bufs), NEW b \in Bufs, Distinct(s), b \notin Elements(s)
    PROVE  /\ Append(s, b) \in Seq(Bufs) /\ Distinct(Append(s, b))
           /\ Elements(Append(s, b)) = Elements(s) \cup {b}
           /\ Append(s, b) # <<>>
           /\ Head(Append(s, b)) = IF s = <<>> THEN b ELSE Head(s)
<1> DEFINE l == Append(s, b)
           n == Len(s)
<1>1. /\ l \in Seq(Bufs) /\ Len(l) = n + 1 /\ n \in Nat
      /\ \A i \in 1 .. n : l[i] = s[i]
      /\ l[n + 1] = b
  BY AppendProperties
<1>2. Head(l) = IF s = <<>> THEN b ELSE Head(s)
  BY <1>1
<1> HIDE DEF l
<1>3. \A i \in 1 .. n : l[i] # b
  BY <1>1 DEF Elements
<1>4. \A i \in 1 .. n + 1 : i \in 1 .. n \/ i = n + 1
  BY <1>1
<1>5. Distinct(l)
  BY <1>1, <1>3, <1>4 DEF Distinct
<1>6. Elements(l) = Elements(s) \cup {b}
  <2>1. \A i \in 1 .. n : i \in 1 .. n + 1
    BY <1>1
  <2>2. n + 1 \in 1 .. n + 1
    BY <1>1
  <2> QED BY <1>1, <1>4, <2>1, <2>2 DEF Elements
<1>7. l # <<>>
  BY <1>1
<1> QED BY <1>1, <1>2, <1>5, <1>6, <1>7 DEF l

(* The rest of a queue without repetitions has all but the head. *)
LEMMA Dequeued ==
    ASSUME NEW s \in Seq(Bufs), s # <<>>, Distinct(s)
    PROVE  /\ Head(s) \in Elements(s) /\ Tail(s) \in Seq(Bufs) /\ Distinct(Tail(s))
           /\ Elements(Tail(s)) = Elements(s) \ {Head(s)}
           /\ Tail(s) # <<>> => Head(Tail(s)) \in Elements(Tail(s))
<1> DEFINE t == Tail(s)
           n == Len(t)
<1>1. /\ t \in Seq(Bufs) /\ Len(s) = n + 1 /\ n \in Nat
      /\ \A i \in 1 .. n : t[i] = s[i + 1]
      /\ Head(s) = s[1]
      /\ t # <<>> => n > 0 /\ Head(t) = t[1]
  BY HeadTailProperties
<1> HIDE DEF t
<1>2. \A i \in 1 .. n : i + 1 \in 1 .. n + 1 /\ i + 1 # 1
  BY <1>1
<1>3. \A i \in 1 .. n + 1 : i = 1 \/ (i - 1 \in 1 .. n /\ i = (i - 1) + 1)
  BY <1>1
<1>4. 1 \in 1 .. n + 1
  BY <1>1
<1>5. Distinct(t)
  BY <1>1, <1>2 DEF Distinct
<1>6. Elements(t) = Elements(s) \ {Head(s)}
  <2>1. ASSUME NEW i \in 1 .. n PROVE t[i] \in Elements(s) \ {Head(s)}
    BY <1>1, <1>2, <1>4 DEF Elements, Distinct
  <2>2. ASSUME NEW x \in Elements(s) \ {Head(s)} PROVE x \in Elements(t)
    <3>1. PICK i \in 1 .. n + 1 : x = s[i]
      BY <1>1 DEF Elements
    <3>2. i # 1
      BY <1>1, <3>1
    <3>3. i - 1 \in 1 .. n /\ t[i - 1] = x
      BY <1>1, <1>3, <3>1, <3>2
    <3> QED BY <3>3 DEF Elements
  <2> QED BY <2>1, <2>2 DEF Elements
<1>7. Head(s) \in Elements(s)
  BY <1>1, <1>4 DEF Elements
<1>8. ASSUME t # <<>> PROVE Head(t) \in Elements(t)
  BY <1>1, <1>8 DEF Elements
<1> QED BY <1>1, <1>5, <1>6, <1>7, <1>8 DEF t

(* brelse's unlinking and linking keeps all buffers on the list. *)
LEMMA FrontLists ==
    ASSUME TypeOK, AllListed, NEW b \in Bufs
    PROVE  Front(b) \in Seq(Bufs) /\ Elements(Front(b)) = Bufs
<1> DEFINE n == Len(lru)
           at == CHOOSE i \in 1 .. n : lru[i] = b
           f == Front(b)
<1>1. at \in 1 .. n /\ lru[at] = b
  BY DEF AllListed, Elements
<1>2. f = [j \in 1 .. n |-> IF j = 1 THEN b ELSE IF j <= at THEN lru[j - 1] ELSE lru[j]]
  BY DEF Front
<1> HIDE DEF at, f
<1>3. n \in Nat /\ \A j \in 1 .. n : lru[j] \in Bufs
  BY DEF TypeOK
<1>4. \A j \in 1 .. n : j # 1 /\ j <= at => j - 1 \in 1 .. n
  BY <1>1, <1>3
<1>5. \A j \in 1 .. n : f[j] \in Bufs
  BY <1>2, <1>3, <1>4
<1>6. f \in Seq(Bufs) /\ Len(f) = n
  <2>1. f \in [1 .. n -> Bufs]
    BY <1>2, <1>5
  <2> QED BY <1>3, <2>1, IsASeq
<1>7. ASSUME NEW x \in Bufs PROVE x \in Elements(f)
  <2>1. PICK i \in 1 .. n : lru[i] = x
    BY DEF AllListed, Elements
  <2>2. CASE i = at
    <3>1. 1 \in 1 .. n /\ f[1] = x
      BY <1>1, <1>2, <1>3, <2>1, <2>2
    <3> QED BY <1>6, <3>1 DEF Elements
  <2>3. CASE i < at
    <3>1. i + 1 \in 1 .. n /\ f[i + 1] = x
      BY <1>1, <1>2, <1>3, <2>1, <2>3
    <3> QED BY <1>6, <3>1 DEF Elements
  <2>4. CASE i > at
    <3>1. f[i] = x
      BY <1>1, <1>2, <1>3, <2>1, <2>4
    <3> QED BY <1>6, <3>1 DEF Elements
  <2> QED BY <1>1, <2>2, <2>3, <2>4
<1> QED BY <1>5, <1>6, <1>7 DEF f, Elements

----------------------------------------------------------------------------
(* The invariant holds *)

(* The invariant holds after binit. *)
LEMMA CacheInit == Init => CacheInv
<1> SUFFICES ASSUME Init PROVE CacheInv
  OBVIOUS
<1> USE DEF Init
<1>a. NBUF \in Nat /\ lru = [i \in 1 .. NBUF |-> NBUF + 1 - i]
  BY BCacheAssumption DEF Bufs
<1>b. \A i \in 1 .. NBUF : NBUF + 1 - i \in 1 .. NBUF /\ NBUF + 1 - (NBUF + 1 - i) = i
  BY <1>a
<1>c. lru \in Seq(Bufs) /\ Len(lru) = NBUF
  <2>1. lru \in [1 .. NBUF -> Bufs]
    BY <1>a, <1>b DEF Bufs
  <2> QED BY <1>a, <2>1, IsASeq
<1>1. TypeOK
  BY <1>c, BCacheAssumption DEF TypeOK, Labels
<1>2. InCache /\ LocksHeld
  BY DEF InCache, LocksHeld, Holds
<1>3. AllListed
  <2>1. \A i \in 1 .. NBUF : lru[i] \in 1 .. NBUF /\ lru[NBUF + 1 - i] = i
    BY <1>a, <1>b
  <2>2. \A i \in 1 .. NBUF : i \in Elements(lru)
    BY <1>b, <1>c, <2>1 DEF Elements
  <2>3. \A x \in Elements(lru) : x \in 1 .. NBUF
    BY <1>c, <2>1 DEF Elements
  <2> QED BY <2>2, <2>3 DEF AllListed, Bufs
<1>4. OneBufferKept
  <2>1. \A b \in Bufs : {p \in Procs : Has(p, b)} = {}
    BY DEF Has, Using
  <2> QED BY <2>1, FS_EmptySet DEF OneBufferKept, Using
<1>5. Requests
  BY DEF Requests, Distinct, Elements
<1>6. CleanOnDisk
  BY DEF CleanOnDisk
<1>7. Exhausted
  BY DEF Exhausted, Unlocked
<1> QED BY <1>1, <1>2, <1>3, <1>4, <1>5, <1>6, <1>7 DEF CacheInv

(* bget's scan from the end of the list stops at the last free buffer. *)
LEMMA FreeIsFound ==
    ASSUME TypeOK, AllListed, NEW b \in Bufs, Free(b)
    PROVE  \E c \in Bufs : Victim(c)
<1> DEFINE n == Len(lru)
           D == {d \in Nat : n - d \in 1 .. n /\ Free(lru[n - d])}
<1>1. n \in Nat
  BY DEF TypeOK
<1>2. PICK i \in 1 .. n : lru[i] = b
  BY DEF AllListed, Elements
<1>3. n - i \in D
  BY <1>1, <1>2
<1>4. PICK d \in D : \A e \in D : ~(<<e, d>> \in OpToRel(<, Nat))
  <2>1. IsWellFoundedOn(OpToRel(<, Nat), Nat)
    BY NatLessThanWellFounded
  <2>2. D \subseteq Nat /\ D # {}
    BY <1>3
  <2> HIDE DEF D
  <2> QED BY <2>1, <2>2, WFMin
<1>5. \A e \in D : ~(e < d)
  BY <1>4 DEF OpToRel
<1> DEFINE j == n - d
<1>6. j \in 1 .. n /\ Free(lru[j])
  OBVIOUS
<1>7. ASSUME NEW k \in j + 1 .. n, Free(lru[k]) PROVE FALSE
  <2>1. n - k \in Nat /\ n - (n - k) = k /\ k \in 1 .. n /\ n - k < d
    BY <1>1, <1>6, <1>7
  <2>2. n - k \in D
    BY <1>7, <2>1
  <2> QED BY <1>5, <2>1, <2>2
<1>8. lru[j] \in Bufs
  BY <1>6 DEF TypeOK
<1> QED BY <1>6, <1>7, <1>8 DEF Victim

(* bget's two ways to a buffer *)
LEMMA HitStep ==
    ASSUME CacheInv, NEW p \in Procs, NEW k \in Blocks, NEW b \in Bufs, BgetHit(p, k, b)
    PROVE  CacheInv'
<1> USE DEF BgetHit, Goto
<1>a. /\ TypeOK /\ InCache /\ AllListed /\ OneBufferKept /\ LocksHeld /\ Requests
      /\ CleanOnDisk /\ Exhausted
  BY DEF CacheInv
<1>b. /\ pc[p] = "idle" /\ mine[p] = 0 /\ blockno[b] = k /\ b # 0
      /\ pc' = [pc EXCEPT ![p] = "lock"] /\ mine' = [mine EXCEPT ![p] = b]
      /\ want' = [want EXCEPT ![p] = k] /\ refcnt' = [refcnt EXCEPT ![b] = @ + 1]
  BY <1>a, BufsAre DEF Cached, InCache
<1>1. TypeOK'
  BY <1>a, <1>b DEF TypeOK, Labels
<1>2. InCache' /\ AllListed'
  BY <1>a, <1>b DEF InCache, AllListed, TypeOK
<1>3. OneBufferKept'
  <2> DEFINE S(c) == {q \in Procs : Has(q, c)}
             T(c) == {q \in Procs : Has(q, c)'}
  <2>1. T(b) = S(b) \cup {p} /\ p \notin S(b)
    BY <1>a, <1>b DEF Has, Using, TypeOK
  <2>2. \A c \in Bufs : c # b => T(c) = S(c)
    BY <1>a, <1>b DEF Has, Using, TypeOK
  <2>3. \A c \in Bufs : refcnt[c] = Cardinality(S(c))
    BY <1>a DEF OneBufferKept
  <2>4. Cardinality(T(b)) = Cardinality(S(b)) + 1
    BY <2>1, OneMore
  <2>5. \A c \in Bufs : refcnt'[c] = Cardinality(T(c))
    <3> HIDE DEF S, T
    <3> QED BY <1>a, <1>b, <2>2, <2>3, <2>4 DEF TypeOK
  <2> QED BY <1>a, <1>b, <2>5 DEF OneBufferKept, TypeOK, Using
<1>4. LocksHeld'
  BY <1>a, <1>b DEF LocksHeld, Holds, TypeOK
<1>5. Requests'
  BY <1>a, <1>b, KeepsRequests DEF TypeOK
<1>6. CleanOnDisk'
  BY <1>a DEF CleanOnDisk
<1>7. Exhausted'
  BY <1>a, <1>b DEF Exhausted, Unlocked, TypeOK
<1> QED BY <1>1, <1>2, <1>3, <1>4, <1>5, <1>6, <1>7 DEF CacheInv

(* bget recycles the least recently used buffer that nobody has. *)
LEMMA RecycleStep ==
    ASSUME CacheInv, NEW p \in Procs, NEW k \in Blocks, NEW b \in Bufs, BgetRecycle(p, k, b)
    PROVE  CacheInv'
<1> USE DEF BgetRecycle, Goto
<1>a. /\ TypeOK /\ InCache /\ AllListed /\ OneBufferKept /\ LocksHeld /\ Requests
      /\ CleanOnDisk /\ Exhausted
  BY DEF CacheInv
<1>b. /\ pc[p] = "idle" /\ mine[p] = 0 /\ b # 0 /\ \A c \in Bufs : blockno[c] # k
      /\ pc' = [pc EXCEPT ![p] = "lock"] /\ mine' = [mine EXCEPT ![p] = b]
      /\ want' = [want EXCEPT ![p] = k] /\ refcnt' = [refcnt EXCEPT ![b] = 1]
      /\ refcnt[b] = 0 /\ ~dirty[b] /\ k # NoBlock
  BY <1>a, BufsAre, BCacheAssumption DEF Cached, InCache, Victim, Free
<1>c. (\A q \in Procs : mine[q] # b) /\ b \notin Elements(idequeue)
  BY <1>b, Unused
<1>1. TypeOK'
  BY <1>a, <1>b DEF TypeOK, Labels
<1>2. InCache' /\ AllListed'
  BY <1>a, <1>b DEF InCache, AllListed, TypeOK
<1>3. OneBufferKept'
  <2> DEFINE S(c) == {q \in Procs : Has(q, c)}
             T(c) == {q \in Procs : Has(q, c)'}
  <2>1. T(b) = {p}
    BY <1>a, <1>b, <1>c DEF Has, Using, TypeOK
  <2>2. \A c \in Bufs : c # b => T(c) = S(c)
    BY <1>a, <1>b DEF Has, Using, TypeOK
  <2>3. \A c \in Bufs : refcnt[c] = Cardinality(S(c))
    BY <1>a DEF OneBufferKept
  <2>4. Cardinality(T(b)) = 1
    BY <2>1, FS_Singleton
  <2>5. \A c \in Bufs : refcnt'[c] = Cardinality(T(c))
    <3> HIDE DEF S, T
    <3> QED BY <1>a, <1>b, <2>2, <2>3, <2>4 DEF TypeOK
  <2>6. \A c, d \in Bufs : blockno'[c] = blockno'[d] /\ blockno'[c] # NoBlock => c = d
    BY <1>a, <1>b DEF OneBufferKept, TypeOK
  <2>7. \A q \in Procs : Using(q)' => blockno'[mine'[q]] = want'[q]
    BY <1>a, <1>b, <1>c DEF OneBufferKept, TypeOK, InCache, Using
  <2> QED BY <2>5, <2>6, <2>7 DEF OneBufferKept
<1>4. LocksHeld'
  BY <1>a, <1>b DEF LocksHeld, Holds, TypeOK
<1>5. Requests'
  <2>1. \A c \in Bufs : c # b => valid'[c] = valid[c] /\ dirty'[c] = dirty[c]
    BY <1>a DEF TypeOK
  <2>2. \A q \in Procs \ {p} :
            /\ mine'[q] = mine[q] /\ pc'[q] = pc[q]
            /\ mine[q] \in Bufs => /\ valid'[mine[q]] = valid[mine[q]]
                                   /\ dirty'[mine[q]] = dirty[mine[q]]
    BY <1>a, <1>b, <1>c, <2>1 DEF TypeOK
  <2>3. pc'[p] = "lock"
    BY <1>a, <1>b DEF TypeOK
  <2> QED BY <1>a, <1>b, <2>2, <2>3, KeepsRequests
<1>6. CleanOnDisk'
  <2>1. idequeue # <<>> => Head(idequeue) # b
    BY <1>a, <1>c, Dequeued DEF Requests, TypeOK
  <2> QED BY <1>a, <1>b, <2>1 DEF CleanOnDisk, TypeOK
<1>7. Exhausted'
  BY <1>a, <1>b DEF Exhausted, Unlocked, TypeOK
<1> QED BY <1>1, <1>2, <1>3, <1>4, <1>5, <1>6, <1>7 DEF CacheInv

(* bget panics when its scan finds no free buffer. *)
LEMMA PanicStep ==
    ASSUME CacheInv, NEW p \in Procs, NEW k \in Blocks, BgetPanic(p, k)
    PROVE  CacheInv'
<1>a. /\ TypeOK /\ InCache /\ AllListed /\ OneBufferKept /\ LocksHeld /\ Requests
      /\ CleanOnDisk /\ Exhausted
  BY DEF CacheInv
<1>b. /\ pc[p] = "idle" /\ \A b \in Bufs : ~Victim(b)
      /\ pc'[p] = "panic" /\ \A q \in Procs \ {p} : pc'[q] = pc[q]
      /\ pc' \in [Procs -> Labels]
      /\ UNCHANGED <<blockno, valid, dirty, refcnt, data, locked, lru, idequeue, sent, disk, mine, want>>
  BY <1>a DEF BgetPanic, Goto, bufs, TypeOK, Labels
<1>1. TypeOK'
  BY <1>a, <1>b DEF TypeOK
<1>2. InCache' /\ AllListed'
  BY <1>a, <1>b DEF InCache, AllListed
<1>3. OneBufferKept'
  <2>1. \A q \in Procs : Using(q)' <=> Using(q)
    BY <1>b DEF Using
  <2> QED BY <1>a, <1>b, <2>1, KeepsCounts
<1>4. LocksHeld'
  BY <1>a, <1>b DEF LocksHeld, Holds
<1>5. Requests'
  BY <1>a, <1>b, KeepsRequests
<1>6. CleanOnDisk'
  BY <1>a, <1>b DEF CleanOnDisk
<1>7. Exhausted'
  <2>1. \A b \in Bufs : ~Free(b)
    BY <1>a, <1>b, FreeIsFound
  <2> QED BY <1>b, <2>1 DEF Exhausted, Free
<1> QED BY <1>1, <1>2, <1>3, <1>4, <1>5, <1>6, <1>7 DEF CacheInv

(* acquiresleep: the lock is taken, or the process sleeps for it. *)
LEMMA AcquireStep ==
    ASSUME CacheInv, NEW p \in Procs, AcquireSleep(p)
    PROVE  CacheInv'
<1> USE DEF AcquireSleep, Goto
<1>a. /\ TypeOK /\ InCache /\ AllListed /\ OneBufferKept /\ LocksHeld /\ Requests
      /\ CleanOnDisk /\ Exhausted
  BY DEF CacheInv
<1>b. /\ pc[p] = "lock" /\ mine[p] \in Bufs
      /\ \/ locked[mine[p]] /\ pc' = [pc EXCEPT ![p] = "lsleep"] /\ locked' = locked
         \/ /\ ~locked[mine[p]] /\ pc' = [pc EXCEPT ![p] = "locked"]
            /\ locked' = [locked EXCEPT ![mine[p]] = TRUE]
      /\ UNCHANGED <<blockno, valid, dirty, refcnt, data, lru, idequeue, sent, disk, mine, want>>
  BY <1>a DEF InCache
<1>c. pc'[p] \in {"lsleep", "locked"} /\ \A q \in Procs \ {p} : pc'[q] = pc[q]
  BY <1>a, <1>b DEF TypeOK
<1>1. TypeOK'
  BY <1>a, <1>b DEF TypeOK, Labels
<1>2. InCache' /\ AllListed'
  BY <1>a, <1>b, <1>c DEF InCache, AllListed
<1>3. OneBufferKept'
  BY <1>a, <1>b, <1>c, KeepsCounts DEF Using
<1>4. LocksHeld'
  <2>1. CASE locked[mine[p]]
    <3>1. pc'[p] = "lsleep" /\ locked' = locked
      BY <1>a, <1>b, <2>1 DEF TypeOK
    <3> QED BY <1>a, <1>b, <1>c, <2>1, <3>1 DEF LocksHeld, Holds
  <2>2. CASE ~locked[mine[p]]
    <3>1. \A q \in Procs : Holds(q) => mine[q] # mine[p]
      BY <1>a, <2>2 DEF LocksHeld
    <3>2. \A q \in Procs : mine[q] \in Bufs /\ locked[mine[q]] => locked'[mine[q]]
      BY <1>a, <1>b, <2>2 DEF TypeOK
    <3>3. locked'[mine[p]] /\ pc'[p] = "locked"
      BY <1>a, <1>b, <2>2 DEF TypeOK
    <3>4. \A q \in Procs : Holds(q) \/ pc[q] = "lsleep" => mine[q] \in Bufs
      BY <1>a DEF InCache, Holds
    <3> QED BY <1>a, <1>b, <1>c, <3>1, <3>2, <3>3, <3>4 DEF LocksHeld, Holds
  <2> QED BY <2>1, <2>2
<1>5. Requests'
  BY <1>a, <1>b, <1>c, KeepsRequests
<1>6. CleanOnDisk'
  BY <1>a, <1>b DEF CleanOnDisk
<1>7. Exhausted'
  <2>1. Unlocked => Unlocked'
    BY <1>a, <1>b, <1>c DEF Unlocked, TypeOK
  <2>2. \A c \in Bufs : Free(c)' => Free(c)
    BY <1>a, <1>b, <1>c DEF Free, TypeOK
  <2> QED BY <1>a, <2>1, <2>2, KeepsExhausted
<1> QED BY <1>1, <1>2, <1>3, <1>4, <1>5, <1>6, <1>7 DEF CacheInv

(* bread's look at B_VALID *)
LEMMA BreadStep ==
    ASSUME CacheInv, NEW p \in Procs, Bread(p)
    PROVE  CacheInv'
<1> USE DEF Bread, Goto, bufs
<1>a. /\ TypeOK /\ InCache /\ AllListed /\ OneBufferKept /\ LocksHeld /\ Requests
      /\ CleanOnDisk /\ Exhausted
  BY DEF CacheInv
<1>b. /\ pc[p] = "locked" /\ mine[p] \in Bufs /\ mine[p] \notin Elements(idequeue)
      /\ pc' = [pc EXCEPT ![p] = IF valid[mine[p]] THEN "held" ELSE "rw"]
      /\ UNCHANGED <<blockno, valid, dirty, refcnt, data, locked, lru, idequeue, sent, disk, mine, want>>
  BY <1>a, NotQueued DEF InCache
<1>c. /\ pc'[p] \in {"held", "rw"} /\ \A q \in Procs \ {p} : pc'[q] = pc[q]
      /\ pc'[p] = "held" => valid[mine[p]]
      /\ pc'[p] = "rw" => ~valid[mine[p]]
  BY <1>a, <1>b DEF TypeOK
<1>1. TypeOK'
  BY <1>a, <1>b DEF TypeOK, Labels
<1>2. InCache' /\ AllListed'
  BY <1>a, <1>b, <1>c DEF InCache, AllListed
<1>3. OneBufferKept'
  BY <1>a, <1>b, <1>c, KeepsCounts DEF Using
<1>4. LocksHeld'
  BY <1>a, <1>b, <1>c DEF LocksHeld, Holds
<1>5. Requests'
  <2>1. /\ Distinct(idequeue)' = Distinct(idequeue) /\ Elements(idequeue)' = Elements(idequeue)
        /\ \A q \in Procs : Unfinished(mine[q])' <=> Unfinished(mine[q])
    BY <1>b DEF Distinct, Elements, Unfinished
  <2>2. pc'[p] = "rw" => Unfinished(mine[p])
    BY <1>c DEF Unfinished
  <2>3. ASSUME NEW b \in Elements(idequeue)
        PROVE  \E q \in Procs : pc'[q] \in {"io", "woken"} /\ mine'[q] = b
    BY <1>a, <1>b, <1>c DEF Requests
  <2> QED BY <1>a, <1>b, <1>c, <2>1, <2>2, <2>3 DEF Requests
<1>6. CleanOnDisk'
  BY <1>a, <1>b DEF CleanOnDisk
<1>7. Exhausted'
  <2>1. Unlocked => Unlocked'
    BY <1>a, <1>b, <1>c DEF Unlocked, TypeOK
  <2>2. \A c \in Bufs : Free(c)' => Free(c)
    BY <1>a, <1>b, <1>c DEF Free, TypeOK
  <2> QED BY <1>a, <2>1, <2>2, KeepsExhausted
<1> QED BY <1>1, <1>2, <1>3, <1>4, <1>5, <1>6, <1>7 DEF CacheInv

(* log_write: the buffer is changed and pinned. *)
LEMMA LogWriteStep ==
    ASSUME CacheInv, NEW p \in Procs, NEW v \in Values, LogWrite(p, v)
    PROVE  CacheInv'
<1> USE DEF LogWrite
<1>a. /\ TypeOK /\ InCache /\ AllListed /\ OneBufferKept /\ LocksHeld /\ Requests
      /\ CleanOnDisk /\ Exhausted
  BY DEF CacheInv
<1> DEFINE b == mine[p]
<1>b. /\ pc[p] = "held" /\ b \in Bufs /\ b \notin Elements(idequeue) /\ valid[b]
      /\ dirty' = [dirty EXCEPT ![b] = TRUE] /\ data' = [data EXCEPT ![b] = v]
  BY <1>a, NotQueued DEF InCache, Requests
<1>c. \A q \in Procs \ {p} : Holds(q) => mine[q] # b
  BY <1>a, <1>b DEF LocksHeld, Holds
<1>1. TypeOK'
  BY <1>a, <1>b DEF TypeOK
<1>2. InCache' /\ AllListed' /\ LocksHeld'
  BY <1>a DEF InCache, AllListed, LocksHeld, Holds
<1>3. OneBufferKept'
  BY <1>a, KeepsCounts DEF Using
<1>5. Requests'
  <2>1. \A q \in Procs : pc[q] \in {"rw", "io", "woken"} =>
            q # p /\ (Unfinished(mine[q])' <=> Unfinished(mine[q]))
    BY <1>a, <1>b, <1>c DEF Holds, Unfinished, TypeOK, InCache
  <2>2. Elements(idequeue)' = Elements(idequeue) /\ Distinct(idequeue)' = Distinct(idequeue)
    BY DEF Elements, Distinct
  <2> QED BY <1>a, <2>1, <2>2 DEF Requests
<1>6. CleanOnDisk'
  <2>1. idequeue # <<>> => Head(idequeue) # b /\ Head(idequeue) \in Bufs
    BY <1>a, <1>b, Dequeued DEF Requests, TypeOK
  <2>2. \A c \in Bufs : dirty'[c] => valid'[c]
    BY <1>a, <1>b DEF CleanOnDisk, TypeOK
  <2>3. \A c \in Bufs : valid'[c] /\ ~dirty'[c] => data'[c] = disk'[blockno'[c]]
    BY <1>a, <1>b DEF CleanOnDisk, TypeOK
  <2>4. idequeue # <<>> => /\ dirty'[Head(idequeue)] = dirty[Head(idequeue)]
                           /\ data'[Head(idequeue)] = data[Head(idequeue)]
    BY <1>a, <1>b, <2>1 DEF TypeOK
  <2> QED BY <1>a, <2>2, <2>3, <2>4 DEF CleanOnDisk
<1>7. Exhausted'
  <2>1. Unlocked => Unlocked'
    BY <1>a, <1>b DEF Unlocked, TypeOK
  <2>2. \A c \in Bufs : Free(c)' => Free(c)
    BY <1>a, <1>b DEF Free, TypeOK
  <2> QED BY <1>a, <2>1, <2>2, KeepsExhausted
<1> QED BY <1>1, <1>2, <1>3, <1>5, <1>6, <1>7 DEF CacheInv

(* bwrite: the buffer is changed, and iderw is called. *)
LEMMA BwriteStep ==
    ASSUME CacheInv, NEW p \in Procs, NEW v \in Values, Bwrite(p, v)
    PROVE  CacheInv'
<1> USE DEF Bwrite, Goto
<1>a. /\ TypeOK /\ InCache /\ AllListed /\ OneBufferKept /\ LocksHeld /\ Requests
      /\ CleanOnDisk /\ Exhausted
  BY DEF CacheInv
<1> DEFINE b == mine[p]
<1>b. /\ pc[p] = "held" /\ b \in Bufs /\ b \notin Elements(idequeue) /\ valid[b]
      /\ dirty' = [dirty EXCEPT ![b] = TRUE] /\ data' = [data EXCEPT ![b] = v]
  BY <1>a, NotQueued DEF InCache, Requests
<1>c. pc'[p] = "rw" /\ \A q \in Procs \ {p} : pc'[q] = pc[q]
  BY <1>a, <1>b DEF TypeOK
<1>d. \A q \in Procs \ {p} : Holds(q) => mine[q] # b
  BY <1>a, <1>b DEF LocksHeld, Holds
<1>1. TypeOK'
  BY <1>a, <1>b DEF TypeOK, Labels
<1>2. InCache' /\ AllListed' /\ LocksHeld'
  BY <1>a, <1>b, <1>c DEF InCache, AllListed, LocksHeld, Holds
<1>3. OneBufferKept'
  BY <1>a, <1>b, <1>c, KeepsCounts DEF Using
<1>5. Requests'
  <2>1. \A q \in Procs \ {p} : pc[q] \in {"rw", "io", "woken"} =>
            (Unfinished(mine[q])' <=> Unfinished(mine[q]))
    BY <1>a, <1>b, <1>d DEF Holds, Unfinished, TypeOK, InCache
  <2>2. Elements(idequeue)' = Elements(idequeue) /\ Distinct(idequeue)' = Distinct(idequeue)
    BY DEF Elements, Distinct
  <2>3. Unfinished(mine[p])'
    BY <1>a, <1>b DEF Unfinished, TypeOK
  <2>4. ASSUME NEW c \in Elements(idequeue)
        PROVE  \E q \in Procs : pc'[q] \in {"io", "woken"} /\ mine'[q] = c
    BY <1>a, <1>b, <1>c DEF Requests
  <2> QED BY <1>a, <1>c, <2>1, <2>2, <2>3, <2>4 DEF Requests
<1>6. CleanOnDisk'
  <2>1. idequeue # <<>> => Head(idequeue) # b /\ Head(idequeue) \in Bufs
    BY <1>a, <1>b, Dequeued DEF Requests, TypeOK
  <2>2. \A c \in Bufs : dirty'[c] => valid'[c]
    BY <1>a, <1>b DEF CleanOnDisk, TypeOK
  <2>3. \A c \in Bufs : valid'[c] /\ ~dirty'[c] => data'[c] = disk'[blockno'[c]]
    BY <1>a, <1>b DEF CleanOnDisk, TypeOK
  <2>4. idequeue # <<>> => /\ dirty'[Head(idequeue)] = dirty[Head(idequeue)]
                           /\ data'[Head(idequeue)] = data[Head(idequeue)]
    BY <1>a, <1>b, <2>1 DEF TypeOK
  <2> QED BY <1>a, <2>2, <2>3, <2>4 DEF CleanOnDisk
<1>7. Exhausted'
  <2>1. Unlocked => Unlocked'
    BY <1>a, <1>b, <1>c DEF Unlocked, TypeOK
  <2>2. \A c \in Bufs : Free(c)' => Free(c)
    BY <1>a, <1>b, <1>c DEF Free, TypeOK
  <2> QED BY <1>a, <2>1, <2>2, KeepsExhausted
<1> QED BY <1>1, <1>2, <1>3, <1>5, <1>6, <1>7 DEF CacheInv

(* releasesleep wakes those who wait for the lock. *)
LEMMA UnlockStep ==
    ASSUME CacheInv, NEW p \in Procs, BrelseUnlock(p)
    PROVE  CacheInv'
<1> USE DEF BrelseUnlock
<1>a. /\ TypeOK /\ InCache /\ AllListed /\ OneBufferKept /\ LocksHeld /\ Requests
      /\ CleanOnDisk /\ Exhausted
  BY DEF CacheInv
<1> DEFINE b == mine[p]
<1>b. pc[p] = "held" /\ b \in Bufs /\ locked' = [locked EXCEPT ![b] = FALSE]
  BY <1>a DEF InCache
<1>c. /\ pc'[p] = "release"
      /\ \A q \in Procs \ {p} : pc'[q] = IF pc[q] = "lsleep" /\ mine[q] = b THEN "lock" ELSE pc[q]
      /\ pc' \in [Procs -> Labels]
  BY <1>a, <1>b DEF TypeOK, Wake, Labels
<1>d. \A q \in Procs \ {p} : Holds(q) => mine[q] # b
  BY <1>a, <1>b DEF LocksHeld, Holds
<1>e. \A q \in Procs \ {p} : pc'[q] = pc[q] \/ (pc[q] = "lsleep" /\ pc'[q] = "lock")
  BY <1>c
<1>1. TypeOK'
  BY <1>a, <1>b, <1>c DEF TypeOK
<1>2. InCache' /\ AllListed'
  BY <1>a, <1>b, <1>c, <1>e DEF InCache, AllListed
<1>3. OneBufferKept'
  <2>1. \A q \in Procs : Using(q)' <=> Using(q)
    BY <1>b, <1>c, <1>e DEF Using
  <2> QED BY <1>a, <2>1, KeepsCounts
<1>4. LocksHeld'
  <2>1. \A q \in Procs : Holds(q)' => q # p /\ Holds(q)
    BY <1>c, <1>e DEF Holds
  <2>2. \A c \in Bufs : c # b => locked'[c] = locked[c]
    BY <1>a, <1>b DEF TypeOK
  <2>3. \A q \in Procs : pc'[q] = "lsleep" => q # p /\ pc[q] = "lsleep" /\ mine[q] # b
    BY <1>c, <1>e
  <2>4. \A q \in Procs : Holds(q) \/ pc[q] = "lsleep" => mine[q] \in Bufs
    BY <1>a DEF InCache, Holds
  <2> QED BY <1>a, <1>d, <2>1, <2>2, <2>3, <2>4 DEF LocksHeld
<1>5. Requests'
  BY <1>a, <1>b, <1>c, <1>e, KeepsRequests
<1>6. CleanOnDisk'
  BY <1>a DEF CleanOnDisk
<1>7. Exhausted'
  <2>1. Unlocked => Unlocked'
    BY <1>a, <1>b, <1>c, <1>e DEF Unlocked, TypeOK
  <2>2. \A c \in Bufs : Free(c)' => Free(c)
    BY <1>a, <1>b, <1>c, <1>e DEF Free, TypeOK
  <2> QED BY <1>a, <2>1, <2>2, KeepsExhausted
<1> QED BY <1>1, <1>2, <1>3, <1>4, <1>5, <1>6, <1>7 DEF CacheInv

(* The end of brelse drops the reference. *)
LEMMA DropStep ==
    ASSUME CacheInv, NEW p \in Procs, BrelseDrop(p)
    PROVE  CacheInv'
<1> USE DEF BrelseDrop, Goto, Dropped
<1>a. /\ TypeOK /\ InCache /\ AllListed /\ OneBufferKept /\ LocksHeld /\ Requests
      /\ CleanOnDisk /\ Exhausted
  BY DEF CacheInv
<1> DEFINE b == mine[p]
<1>b. /\ pc[p] = "release" /\ b \in Bufs /\ b # 0
      /\ refcnt' = [refcnt EXCEPT ![b] = @ - 1]
      /\ mine'[p] = 0 /\ want'[p] = NoBlock /\ pc'[p] = "idle"
      /\ \A q \in Procs \ {p} : mine'[q] = mine[q] /\ want'[q] = want[q] /\ pc'[q] = pc[q]
  BY <1>a, BufsAre DEF InCache, TypeOK
<1> DEFINE S(c) == {q \in Procs : Has(q, c)}
           T(c) == {q \in Procs : mine'[q] = c /\ pc'[q] \notin {"idle", "panic"}}
<1>c. /\ p \in S(b) /\ p \notin T(b) /\ S(b) = T(b) \cup {p}
      /\ \A c \in Bufs : c # b => T(c) = S(c)
  BY <1>b DEF Has, Using
<1>d. Cardinality(T(b)) \in Nat /\ Cardinality(S(b)) = Cardinality(T(b)) + 1
  BY <1>c, OneMore
<1>e. \A c \in Bufs : refcnt[c] = Cardinality(S(c))
  BY <1>a DEF OneBufferKept
<1> HIDE DEF S, T
<1>f. refcnt' \in [Bufs -> Nat] /\ \A c \in Bufs : refcnt'[c] = Cardinality(T(c))
  <2>1. refcnt[b] - 1 \in Nat /\ refcnt[b] - 1 = Cardinality(T(b))
    BY <1>b, <1>d, <1>e
  <2> QED BY <1>a, <1>b, <1>c, <1>e, <2>1 DEF TypeOK
<1>g. lru' \in Seq(Bufs) /\ Elements(lru)' = Bufs
  <2>1. lru' = lru \/ lru' = Front(b)
    OBVIOUS
  <2>2. Front(b) \in Seq(Bufs) /\ Elements(Front(b)) = Bufs
    BY <1>a, <1>b, FrontLists
  <2> QED BY <1>a, <2>1, <2>2 DEF TypeOK, AllListed, Elements
<1>1. TypeOK'
  <2>1. pc' \in [Procs -> Labels] /\ mine' \in [Procs -> Bufs \cup {0}]
        /\ want' \in [Procs -> Blocks \cup {NoBlock}]
    BY <1>a DEF TypeOK, Labels
  <2> QED BY <1>a, <1>f, <1>g, <2>1 DEF TypeOK
<1>2. InCache' /\ AllListed'
  BY <1>a, <1>b, <1>g DEF InCache, AllListed
<1>3. OneBufferKept'
  <2>1. \A c \in Bufs : refcnt'[c] = Cardinality({q \in Procs : Has(q, c)'})
    BY <1>f DEF T, Has, Using
  <2> QED BY <1>a, <1>b, <2>1 DEF OneBufferKept, Using
<1>4. LocksHeld'
  BY <1>a, <1>b DEF LocksHeld, Holds
<1>5. Requests'
  BY <1>a, <1>b, KeepsRequests
<1>6. CleanOnDisk'
  BY <1>a DEF CleanOnDisk
<1>7. Exhausted'
  BY <1>a, <1>b DEF Exhausted, Unlocked
<1> QED BY <1>1, <1>2, <1>3, <1>4, <1>5, <1>6, <1>7 DEF CacheInv

(* iderw queues the buffer, and starts an idle disk. *)
LEMMA IderwStep ==
    ASSUME CacheInv, NEW p \in Procs, Iderw(p)
    PROVE  CacheInv'
<1> USE DEF Iderw, Goto, bufs
<1>a. /\ TypeOK /\ InCache /\ AllListed /\ OneBufferKept /\ LocksHeld /\ Requests
      /\ CleanOnDisk /\ Exhausted
  BY DEF CacheInv
<1> DEFINE b == mine[p]
           l == Append(idequeue, b)
<1>b. /\ pc[p] = "rw" /\ b \in Bufs /\ b \notin Elements(idequeue) /\ idequeue' = l
      /\ Unfinished(b)
      /\ UNCHANGED <<blockno, valid, dirty, refcnt, data, locked, lru, disk, mine, want>>
  BY <1>a, NotQueued DEF InCache, Requests
<1>c. pc'[p] = "io" /\ \A q \in Procs \ {p} : pc'[q] = pc[q]
  BY <1>a, <1>b DEF TypeOK
<1>d. /\ l \in Seq(Bufs) /\ Distinct(l) /\ Elements(l) = Elements(idequeue) \cup {b} /\ l # <<>>
      /\ Head(l) = IF idequeue = <<>> THEN b ELSE Head(idequeue)
  BY <1>a, <1>b, Enqueued DEF TypeOK, Requests
<1>e. /\ idequeue = <<>> => Head(l) = b /\ sent' = IF dirty[b] THEN data[b] ELSE sent
      /\ idequeue # <<>> => Head(l) = Head(idequeue) /\ sent' = sent
  BY <1>b, <1>d DEF Started
<1> HIDE DEF l
<1>1. TypeOK'
  <2>1. pc' \in [Procs -> Labels]
    BY <1>a DEF TypeOK, Labels
  <2>2. sent' \in Values
    BY <1>a, <1>b, <1>e DEF TypeOK
  <2> QED BY <1>a, <1>b, <1>d, <2>1, <2>2 DEF TypeOK
<1>2. InCache' /\ AllListed' /\ LocksHeld'
  BY <1>a, <1>b, <1>c DEF InCache, AllListed, LocksHeld, Holds
<1>3. OneBufferKept'
  BY <1>a, <1>b, <1>c, KeepsCounts DEF Using
<1>5. Requests'
  <2>1. \A q \in Procs : Unfinished(mine[q])' <=> Unfinished(mine[q])
    BY <1>b DEF Unfinished
  <2>2. Elements(idequeue)' = Elements(idequeue) \cup {b} /\ Distinct(idequeue)'
    <3>1. Elements(idequeue)' = Elements(l) /\ Distinct(idequeue)' = Distinct(l)
      BY <1>b DEF Elements, Distinct
    <3> QED BY <1>d, <3>1
  <2>3. ASSUME NEW c \in Elements(idequeue)'
        PROVE  \E q \in Procs : pc'[q] \in {"io", "woken"} /\ mine'[q] = c
    BY <1>a, <1>b, <1>c, <2>2 DEF Requests
  <2>4. \A q \in Procs \ {p} : pc[q] \in {"io", "woken"} => mine[q] # b
    BY <1>a, <1>b DEF LocksHeld, Holds
  <2> QED BY <1>a, <1>b, <1>c, <2>1, <2>2, <2>3, <2>4 DEF Requests
<1>6. CleanOnDisk'
  <2>1. dirty[Head(l)] => sent' = data[Head(l)]
    BY <1>a, <1>e DEF CleanOnDisk
  <2> QED BY <1>a, <1>b, <2>1 DEF CleanOnDisk
<1>7. Exhausted'
  <2>1. Unlocked => Unlocked'
    BY <1>a, <1>b, <1>c DEF Unlocked, TypeOK
  <2>2. \A c \in Bufs : Free(c)' => Free(c)
    BY <1>a, <1>b, <1>c DEF Free, TypeOK
  <2> QED BY <1>a, <2>1, <2>2, KeepsExhausted
<1> QED BY <1>1, <1>2, <1>3, <1>5, <1>6, <1>7 DEF CacheInv

(* iderw looks again, also after a wakeup that was not meant for it. *)
LEMMA LoopStep ==
    ASSUME CacheInv, NEW p \in Procs, IderwLoop(p) \/ KillWakes(p)
    PROVE  CacheInv'
<1> USE DEF IderwLoop, KillWakes, Goto, bufs
<1>a. /\ TypeOK /\ InCache /\ AllListed /\ OneBufferKept /\ LocksHeld /\ Requests
      /\ CleanOnDisk /\ Exhausted
  BY DEF CacheInv
<1>b. UNCHANGED <<blockno, valid, dirty, refcnt, data, locked, lru, idequeue, sent, disk, mine, want>>
  OBVIOUS
<1>c. /\ Using(p) /\ mine[p] \in Bufs
      /\ \/ pc[p] = "woken" /\ Unfinished(mine[p]) /\ pc'[p] = "io"
         \/ pc[p] = "woken" /\ ~Unfinished(mine[p]) /\ pc'[p] = "held"
         \/ pc[p] = "io" /\ pc'[p] = "woken"
         \/ pc[p] = "lsleep" /\ pc'[p] = "lock"
      /\ \A q \in Procs \ {p} : pc'[q] = pc[q]
  BY <1>a DEF TypeOK, InCache, Using
<1>1. TypeOK'
  <2>1. pc' \in [Procs -> Labels]
    BY <1>a DEF TypeOK, Labels
  <2> QED BY <1>a, <1>b, <2>1 DEF TypeOK
<1>2. InCache' /\ AllListed' /\ LocksHeld'
  BY <1>a, <1>b, <1>c DEF InCache, AllListed, LocksHeld, Holds
<1>3. OneBufferKept'
  BY <1>a, <1>b, <1>c, KeepsCounts DEF Using
<1>5. Requests'
  <2>1. /\ \A q \in Procs : Unfinished(mine[q])' <=> Unfinished(mine[q])
        /\ Elements(idequeue)' = Elements(idequeue) /\ Distinct(idequeue)' = Distinct(idequeue)
    BY <1>b DEF Unfinished, Elements, Distinct
  <2>2. ASSUME NEW c \in Elements(idequeue)
        PROVE  \E q \in Procs : pc'[q] \in {"io", "woken"} /\ mine'[q] = c
    BY <1>a, <1>b, <1>c DEF Requests
  <2>3. ~Unfinished(mine[p]) => valid[mine[p]]
    BY DEF Unfinished
  <2> QED BY <1>a, <1>b, <1>c, <2>1, <2>2, <2>3 DEF Requests
<1>6. CleanOnDisk'
  BY <1>a, <1>b DEF CleanOnDisk
<1>7. Exhausted'
  <2>1. Unlocked => Unlocked'
    BY <1>a, <1>b, <1>c DEF Unlocked, TypeOK
  <2>2. \A c \in Bufs : Free(c)' => Free(c)
    BY <1>a, <1>b, <1>c DEF Free, TypeOK
  <2> QED BY <1>a, <2>1, <2>2, KeepsExhausted
<1> QED BY <1>1, <1>2, <1>3, <1>5, <1>6, <1>7 DEF CacheInv

(* The interrupt ends the first request and starts the next. *)
LEMMA InterruptStep ==
    ASSUME CacheInv, Ideintr
    PROVE  CacheInv'
<1> USE DEF Ideintr
<1>a. /\ TypeOK /\ InCache /\ AllListed /\ OneBufferKept /\ LocksHeld /\ Requests
      /\ CleanOnDisk /\ Exhausted
  BY DEF CacheInv
<1> DEFINE b == Head(idequeue)
           t == Tail(idequeue)
<1>b. /\ b \in Elements(idequeue) /\ t \in Seq(Bufs) /\ Distinct(t)
      /\ Elements(t) = Elements(idequeue) \ {b}
      /\ t # <<>> => Head(t) \in Elements(t)
  BY <1>a, Dequeued DEF TypeOK, Requests
<1>c. /\ b \in Bufs /\ blockno[b] \in Blocks
      /\ \E p \in Procs : /\ pc[p] \in {"io", "woken"} /\ mine[p] = b
                          /\ \A q \in Procs : Holds(q) /\ mine[q] = b => q = p
  BY <1>b, QueuedHolder
<1>d. \A c \in Elements(idequeue) : c \in Bufs
  BY QueuedHolder
<1>e. /\ idequeue' = t /\ sent' = IF t # <<>> /\ dirty[Head(t)] THEN data[Head(t)] ELSE sent
      /\ valid' = [valid EXCEPT ![b] = TRUE] /\ dirty' = [dirty EXCEPT ![b] = FALSE]
      /\ pc' = [q \in Procs |-> IF pc[q] = "io" /\ mine[q] = b THEN "woken" ELSE pc[q]]
      /\ UNCHANGED <<blockno, refcnt, locked, lru, mine, want>>
  BY DEF NextRequest, Started, Wake
<1>f. /\ idequeue # <<>>
      /\ dirty[b] => disk' = [disk EXCEPT ![blockno[b]] = sent] /\ data' = data
      /\ ~dirty[b] => data' = [data EXCEPT ![b] = disk[blockno[b]]] /\ disk' = disk
  OBVIOUS
<1> HIDE DEF b, t, Ideintr
<1>g. \A q \in Procs : \/ pc'[q] = pc[q] /\ (pc[q] = "io" => mine[q] # b)
                       \/ pc[q] = "io" /\ mine[q] = b /\ pc'[q] = "woken"
  BY <1>a, <1>e DEF TypeOK
<1>h. \A c \in Bufs \ {b} : valid'[c] = valid[c] /\ dirty'[c] = dirty[c] /\ data'[c] = data[c]
  BY <1>a, <1>c, <1>e, <1>f DEF TypeOK
<1>i. /\ valid'[b] /\ ~dirty'[b]
      /\ dirty[b] => data'[b] = data[b] /\ disk'[blockno[b]] = data[b]
      /\ ~dirty[b] => data'[b] = disk[blockno[b]] /\ disk' = disk
  BY <1>a, <1>c, <1>e, <1>f DEF TypeOK, CleanOnDisk, b
<1>1. TypeOK'
  <2>1. pc' \in [Procs -> Labels]
    BY <1>a, <1>e DEF TypeOK, Labels
  <2>2. sent' \in Values
    BY <1>a, <1>b, <1>d, <1>e DEF TypeOK
  <2>3. disk' \in [Blocks -> Values] /\ data' \in [Bufs -> Values]
    BY <1>a, <1>c, <1>f DEF TypeOK
  <2>4. valid' \in [Bufs -> BOOLEAN] /\ dirty' \in [Bufs -> BOOLEAN]
    BY <1>a, <1>e DEF TypeOK
  <2> QED BY <1>a, <1>b, <1>e, <2>1, <2>2, <2>3, <2>4 DEF TypeOK
<1>2. InCache' /\ AllListed' /\ LocksHeld'
  <2>1. /\ \A q \in Procs : (pc'[q] \in {"idle", "panic"} <=> pc[q] \in {"idle", "panic"}) /\ (Holds(q)' <=> Holds(q))
        /\ \A q \in Procs : pc'[q] = "lsleep" <=> pc[q] = "lsleep"
    BY <1>g DEF Holds
  <2>2. Elements(lru)' = Elements(lru)
    BY <1>e DEF Elements
  <2>3. InCache' /\ AllListed'
    BY <1>a, <1>e, <2>1, <2>2 DEF InCache, AllListed
  <2> QED BY <1>a, <1>e, <2>1, <2>3 DEF LocksHeld
<1>3. OneBufferKept'
  <2>1. \A q \in Procs : Using(q)' <=> Using(q)
    BY <1>g DEF Using
  <2> QED BY <1>a, <1>e, <2>1, KeepsCounts
<1>5. Requests'
  <2>1. Elements(idequeue)' = Elements(idequeue) \ {b} /\ Distinct(idequeue)'
    <3>1. Elements(idequeue)' = Elements(t)
      <4>1. idequeue' = t
        BY <1>e
      <4> QED BY <4>1, Zenon DEF Elements
    <3>2. Distinct(idequeue)'
      BY <1>b, <1>e DEF Distinct
    <3> QED BY <1>b, <3>1, <3>2
  <2>2. ASSUME NEW c \in Elements(idequeue)'
        PROVE  \E q \in Procs : pc'[q] \in {"io", "woken"} /\ mine'[q] = c
    <3>1. PICK q \in Procs : pc[q] \in {"io", "woken"} /\ mine[q] = c
      BY <1>a, <2>1 DEF Requests
    <3> QED BY <1>e, <1>g, <3>1
  <2>4. ASSUME NEW q \in Procs
        PROVE  /\ pc'[q] = "io" => mine'[q] \in Elements(idequeue)'
               /\ pc'[q] \in {"io", "woken"} =>
                    (mine'[q] \in Elements(idequeue)' <=> Unfinished(mine[q])')
               /\ pc'[q] = "rw" => Unfinished(mine[q])'
               /\ pc'[q] = "held" => valid'[mine'[q]]
    <3>1. CASE mine[q] = b
      <4>1. pc'[q] \notin {"io", "rw"} /\ (pc'[q] = "held" => valid'[mine'[q]])
        BY <1>a, <1>c, <1>e, <1>g, <1>i, <3>1 DEF Holds
      <4>2. ~Unfinished(mine[q])'
        BY <1>e, <1>i, <3>1 DEF Unfinished
      <4> QED BY <1>e, <2>1, <3>1, <4>1, <4>2
    <3>2. CASE mine[q] # b /\ Using(q)
      <4>1. mine[q] \in Bufs \ {b} /\ pc'[q] = pc[q] /\ mine'[q] = mine[q]
        BY <1>a, <1>e, <1>g, <3>2 DEF InCache, Using
      <4>2. /\ Unfinished(mine[q])' <=> Unfinished(mine[q])
            /\ valid'[mine'[q]] = valid[mine[q]]
        BY <1>e, <1>h, <4>1 DEF Unfinished
      <4> QED BY <1>a, <2>1, <4>1, <4>2 DEF Requests
    <3>3. CASE ~Using(q)
      BY <1>g, <3>3 DEF Using
    <3> QED BY <3>1, <3>2, <3>3
  <2> QED BY <2>1, <2>2, <2>4 DEF Requests
<1>6. CleanOnDisk'
  <2>1. \A c \in Bufs : dirty'[c] => valid'[c]
    BY <1>a, <1>h, <1>i DEF CleanOnDisk
  <2>2. \A c \in Bufs : valid'[c] => blockno'[c] \in Blocks
    BY <1>a, <1>c, <1>e, <1>h DEF CleanOnDisk
  <2>3. ASSUME NEW c \in Bufs, valid'[c], ~dirty'[c] PROVE data'[c] = disk'[blockno'[c]]
    <3>1. CASE c = b
      BY <1>e, <1>i, <3>1
    <3>2. CASE c # b
      <4>1. valid[c] /\ ~dirty[c] /\ data'[c] = data[c] /\ blockno[c] \in Blocks
        BY <1>a, <1>h, <2>3, <3>2 DEF CleanOnDisk
      <4>2. blockno[c] # blockno[b]
        BY <1>a, <1>c, <3>2, <4>1, BCacheAssumption DEF OneBufferKept
      <4>3. disk'[blockno[c]] = disk[blockno[c]]
        BY <1>a, <1>f, <4>1, <4>2 DEF TypeOK
      <4> QED BY <1>a, <1>e, <4>1, <4>3 DEF CleanOnDisk
    <3> QED BY <3>1, <3>2
  <2>4. t # <<>> => Head(t) \in Bufs \ {b}
    BY <1>b, <1>d
  <2>5. t # <<>> /\ dirty'[Head(t)] => sent' = data'[Head(t)]
    BY <1>e, <1>h, <2>4
  <2> QED BY <1>e, <2>1, <2>2, <2>3, <2>5 DEF CleanOnDisk
<1>7. Exhausted'
  <2>1. Unlocked => Unlocked'
    BY <1>g DEF Unlocked
  <2>2. refcnt[b] # 0
    BY <1>b, <1>c, Unused
  <2>3. \A c \in Bufs : Free(c)' => Free(c)
    BY <1>e, <1>h, <2>2 DEF Free
  <2> QED BY <1>a, <2>1, <2>3, KeepsExhausted
<1> QED BY <1>1, <1>2, <1>3, <1>5, <1>6, <1>7 DEF CacheInv

(* Every step keeps the invariant. *)
LEMMA CacheStep == ASSUME CacheInv, [Next]_vars PROVE CacheInv'
<1>1. ASSUME NEW p \in Procs, NEW k \in Blocks, NEW b \in Bufs, BgetHit(p, k, b) PROVE CacheInv'
  BY <1>1, HitStep
<1>2. ASSUME NEW p \in Procs, NEW k \in Blocks, NEW b \in Bufs, BgetRecycle(p, k, b) PROVE CacheInv'
  BY <1>2, RecycleStep
<1>3. ASSUME NEW p \in Procs, AcquireSleep(p) PROVE CacheInv'
  BY <1>3, AcquireStep
<1>4. ASSUME NEW p \in Procs, Bread(p) PROVE CacheInv'
  BY <1>4, BreadStep
<1>5. ASSUME NEW p \in Procs, NEW v \in Values, LogWrite(p, v) PROVE CacheInv'
  BY <1>5, LogWriteStep
<1>6. ASSUME NEW p \in Procs, NEW v \in Values, Bwrite(p, v) PROVE CacheInv'
  BY <1>6, BwriteStep
<1>7. ASSUME NEW p \in Procs, BrelseUnlock(p) PROVE CacheInv'
  BY <1>7, UnlockStep
<1>8. ASSUME NEW p \in Procs, BrelseDrop(p) PROVE CacheInv'
  BY <1>8, DropStep
<1>9. ASSUME NEW p \in Procs, Iderw(p) PROVE CacheInv'
  BY <1>9, IderwStep
<1>10. ASSUME NEW p \in Procs, IderwLoop(p) \/ KillWakes(p) PROVE CacheInv'
  BY <1>10, LoopStep
<1>11. ASSUME Ideintr PROVE CacheInv'
  BY <1>11, InterruptStep
<1>13. ASSUME NEW p \in Procs, NEW k \in Blocks, BgetPanic(p, k) PROVE CacheInv'
  BY <1>13, PanicStep
<1>12. ASSUME UNCHANGED vars PROVE CacheInv'
  <2>1. UNCHANGED <<blockno, valid, dirty, refcnt, data, locked, lru, idequeue, sent, disk, pc, mine, want>>
    BY <1>12 DEF vars, bufs
  <2>2. Exhausted'
    BY <2>1 DEF CacheInv, Exhausted, Unlocked, Free
  <2>3. OneBufferKept'
    BY <2>1, KeepsCounts DEF CacheInv, Using
  <2>4. Elements(idequeue)' = Elements(idequeue) /\ Distinct(idequeue)' = Distinct(idequeue)
    BY <2>1 DEF Elements, Distinct
  <2>5. Requests'
    BY <2>1, <2>4 DEF CacheInv, Requests, Unfinished
  <2>6. TypeOK' /\ InCache'
    BY <2>1 DEF CacheInv, TypeOK, InCache
  <2>7. AllListed'
    BY <2>1 DEF CacheInv, AllListed, Elements
  <2>8. LocksHeld' /\ CleanOnDisk'
    BY <2>1 DEF CacheInv, LocksHeld, Holds, CleanOnDisk
  <2> QED BY <2>2, <2>3, <2>5, <2>6, <2>7, <2>8 DEF CacheInv
<1> QED BY <1>1, <1>2, <1>3, <1>4, <1>5, <1>6, <1>7, <1>8, <1>9, <1>10, <1>11, <1>12, <1>13
  DEF Next, Halted

----------------------------------------------------------------------------
(* What follows from the invariant *)

(* The invariant holds in every reachable state. *)
THEOREM CacheSafe == Spec => []CacheInv
BY CacheInit, CacheStep, PTL DEF Spec

(* A block is in one buffer at most, every process that looks for, waits   *)
(* for or works on a buffer is counted in it, and finds its own block      *)
(* there: bget recycles nothing in use.                                    *)
THEOREM OneBufferSafe == Spec => []OneBufferKept
<1>1. CacheInv => OneBufferKept
  BY DEF CacheInv
<1> QED BY <1>1, CacheSafe, PTL

(* Nobody sleeps for a lock that is free or for a request that is not      *)
(* queued, and bget panics only when every buffer is pinned or in use.     *)
THEOREM NobodyStuckSafe == Spec => []NobodyStuck
<1>1. CacheInv => NobodyStuck
  <2> SUFFICES ASSUME CacheInv PROVE NobodyStuck
    OBVIOUS
  <2>1. \A p \in Procs : pc[p] = "lsleep" => locked[mine[p]]
    BY DEF CacheInv, LocksHeld
  <2>2. ASSUME NEW p \in Procs, pc[p] = "io"
        PROVE  Cardinality({i \in 1 .. Len(idequeue) : idequeue[i] = mine[p]}) = 1
    <3>1. PICK i \in 1 .. Len(idequeue) : idequeue[i] = mine[p]
      BY <2>2 DEF CacheInv, Requests, Elements
    <3>2. {j \in 1 .. Len(idequeue) : idequeue[j] = mine[p]} = {i}
      BY <3>1 DEF CacheInv, Requests, Distinct
    <3> QED BY <3>2, FS_Singleton
  <2>3. ASSUME ~Unlocked, NEW b \in Bufs, \A p \in Procs : ~Has(p, b) PROVE b \in Pinned
    <3>1. {p \in Procs : Has(p, b)} = {}
      BY <2>3
    <3>2. refcnt[b] = 0
      BY <3>1, FS_EmptySet DEF CacheInv, OneBufferKept
    <3>3. dirty[b]
      BY <2>3, <3>2 DEF CacheInv, Exhausted, Free
    <3> QED BY <2>3, <3>3 DEF Pinned, Has, Using
  <2> QED BY <2>1, <2>2, <2>3 DEF NobodyStuck
<1> QED BY <1>1, CacheSafe, PTL

----------------------------------------------------------------------------
(* The cache implements BlockStore *)

(* The contents of the blocks with the buffers and the disk given. *)
ViewOf(bn, va, da, dk) ==
    [k \in Blocks |->
        IF \E b \in {c \in Bufs : bn[c] = k} : va[b]
        THEN da[CHOOSE b \in {c \in Bufs : bn[c] = k} : va[b]] ELSE dk[k]]

(* A valid buffer is what the store has of its block; a block in none is   *)
(* what the disk has.                                                      *)
LEMMA ViewAt ==
    ASSUME NEW bn, NEW va, NEW da, NEW dk,
           \A b, c \in Bufs : bn[b] = bn[c] /\ bn[b] # NoBlock => b = c
    PROVE  /\ \A b \in Bufs : va[b] /\ bn[b] \in Blocks => ViewOf(bn, va, da, dk)[bn[b]] = da[b]
           /\ \A k \in Blocks : (\A b \in Bufs : va[b] => bn[b] # k) => ViewOf(bn, va, da, dk)[k] = dk[k]
           /\ ViewOf(bn, va, da, dk) = [k \in Blocks |-> ViewOf(bn, va, da, dk)[k]]
<1>1. ASSUME NEW b \in Bufs, va[b], bn[b] \in Blocks
      PROVE  ViewOf(bn, va, da, dk)[bn[b]] = da[b]
  <2> DEFINE c == CHOOSE x \in {x \in Bufs : bn[x] = bn[b]} : va[x]
  <2>1. c \in {x \in Bufs : bn[x] = bn[b]}
    BY <1>1
  <2>2. c = b
    BY <1>1, <2>1, BCacheAssumption
  <2>3. ViewOf(bn, va, da, dk)[bn[b]] = da[c]
    BY <1>1 DEF ViewOf
  <2> HIDE DEF c
  <2> QED BY <2>2, <2>3
<1>2. ASSUME NEW k \in Blocks, \A b \in Bufs : va[b] => bn[b] # k
      PROVE  ViewOf(bn, va, da, dk)[k] = dk[k]
  BY <1>2 DEF ViewOf
<1>3. ViewOf(bn, va, da, dk) = [k \in Blocks |-> ViewOf(bn, va, da, dk)[k]]
  BY DEF ViewOf
<1> QED BY <1>1, <1>2, <1>3

(* The holders, with the processes that hold a lock and what they want. *)
OwnerOf(H, w) ==
    [k \in Blocks |-> IF \E p \in Procs : p \in H /\ w[p] = k
                      THEN CHOOSE p \in Procs : p \in H /\ w[p] = k ELSE Nobody]
Lockers == {p \in Procs : Holds(p)}

(* Where no two of H want the same block, each is the owner of its own. *)
LEMMA OwnerAt ==
    ASSUME NEW H \in SUBSET Procs, NEW w, \A p, q \in H : w[p] = w[q] => p = q
    PROVE  /\ \A p \in H : w[p] \in Blocks => OwnerOf(H, w)[w[p]] = p
           /\ \A k \in Blocks : (\A p \in H : w[p] # k) => OwnerOf(H, w)[k] = Nobody
           /\ OwnerOf(H, w) = [k \in Blocks |-> OwnerOf(H, w)[k]]
<1>1. ASSUME NEW p \in H, w[p] \in Blocks PROVE OwnerOf(H, w)[w[p]] = p
  <2> DEFINE c == CHOOSE x \in Procs : x \in H /\ w[x] = w[p]
  <2>1. c \in H /\ w[c] = w[p]
    OBVIOUS
  <2>2. c = p
    BY <2>1
  <2>3. OwnerOf(H, w)[w[p]] = c
    BY <1>1 DEF OwnerOf
  <2> HIDE DEF c
  <2> QED BY <2>2, <2>3
<1>2. ASSUME NEW k \in Blocks, \A p \in H : w[p] # k PROVE OwnerOf(H, w)[k] = Nobody
  BY <1>2 DEF OwnerOf
<1>3. OwnerOf(H, w) = [k \in Blocks |-> OwnerOf(H, w)[k]]
  BY DEF OwnerOf
<1> QED BY <1>1, <1>2, <1>3

(* In every state, and in the next one, the mapping is these two. *)
LEMMA Mapping ==
    /\ Contents = ViewOf(blockno, valid, data, disk)
    /\ Contents' = ViewOf(blockno', valid', data', disk')
    /\ Holder = OwnerOf(Lockers, want)
    /\ Holder' = OwnerOf(Lockers', want')
BY DEF Contents, Cached, ViewOf, Holder, OwnerOf, Lockers

(* A block has one holder. *)
LEMMA OneHolder ==
    ASSUME CacheInv
    PROVE  /\ Lockers \in SUBSET Procs
           /\ \A p, q \in Lockers : want[p] = want[q] => p = q
           /\ \A p \in Lockers : mine[p] \in Bufs /\ want[p] = blockno[mine[p]] /\ want[p] \in Blocks
<1>1. \A p \in Lockers : /\ mine[p] \in Bufs /\ want[p] = blockno[mine[p]]
                         /\ want[p] \in Blocks /\ want[p] # NoBlock
  BY BCacheAssumption DEF CacheInv, OneBufferKept, InCache, Lockers, Holds, Using
<1>2. \A p, q \in Lockers : want[p] = want[q] => p = q
  BY <1>1 DEF CacheInv, OneBufferKept, LocksHeld, Lockers
<1> QED BY <1>1, <1>2 DEF Lockers

(* Two stores that agree on every block are the same. *)
LEMMA SameView ==
    ASSUME NEW V, NEW W, V = [k \in Blocks |-> V[k]], W = [k \in Blocks |-> W[k]],
           \A k \in Blocks : V[k] = W[k]
    PROVE  V = W
<1>1. [k \in Blocks |-> V[k]] = [k \in Blocks |-> W[k]]
  OBVIOUS
<1> QED BY <1>1

(* What leaves buffers and disk alone leaves the contents alone, *)
LEMMA KeepsStore == ASSUME UNCHANGED <<blockno, valid, data, disk>> PROVE Contents' = Contents
BY Mapping

(* and the same lockers with the same blocks are the same owners. *)
LEMMA KeepsHolder ==
    ASSUME CacheInv, Lockers' = Lockers, \A p \in Lockers : want'[p] = want[p]
    PROVE  Holder' = Holder
<1> DEFINE V == OwnerOf(Lockers, want)
           W == OwnerOf(Lockers, want')
<1>1. /\ \A p \in Lockers : want[p] \in Blocks => V[want[p]] = p
      /\ \A k \in Blocks : (\A p \in Lockers : want[p] # k) => V[k] = Nobody
      /\ V = [k \in Blocks |-> V[k]]
  BY OneHolder, OwnerAt
<1>2. \A p, q \in Lockers : want'[p] = want'[q] => p = q
  BY OneHolder
<1>3. /\ \A p \in Lockers : want'[p] \in Blocks => W[want'[p]] = p
      /\ \A k \in Blocks : (\A p \in Lockers : want'[p] # k) => W[k] = Nobody
      /\ W = [k \in Blocks |-> W[k]]
  BY <1>2, OneHolder, OwnerAt
<1> HIDE DEF V, W
<1>4. \A k \in Blocks : V[k] = W[k]
  BY <1>1, <1>3
<1>5. V = W
  BY <1>1, <1>3, <1>4, SameView
<1> QED BY <1>5, Mapping DEF V, W

(* One more process holds a lock, and has its block. *)
LEMMA HolderAdded ==
    ASSUME CacheInv, CacheInv', NEW p \in Procs, p \notin Lockers, Lockers' = Lockers \cup {p},
           UNCHANGED want
    PROVE  /\ want[p] \in Blocks /\ Holder[want[p]] = Nobody
           /\ Holder' = [Holder EXCEPT ![want[p]] = p]
<1> DEFINE V == OwnerOf(Lockers, want)
           W == OwnerOf(Lockers', want)
<1>1. /\ Lockers' \in SUBSET Procs
      /\ \A q, r \in Lockers' : want[q] = want[r] => q = r
      /\ \A q \in Lockers' : want[q] \in Blocks
  BY BCacheAssumption DEF CacheInv, OneBufferKept, LocksHeld, InCache, Lockers, Holds, Using
<1>2. /\ \A q \in Lockers : want[q] \in Blocks => V[want[q]] = q
      /\ \A k \in Blocks : (\A q \in Lockers : want[q] # k) => V[k] = Nobody
      /\ V = [k \in Blocks |-> V[k]]
  BY OneHolder, OwnerAt
<1>3. /\ \A q \in Lockers' : want[q] \in Blocks => W[want[q]] = q
      /\ \A k \in Blocks : (\A q \in Lockers' : want[q] # k) => W[k] = Nobody
      /\ W = [k \in Blocks |-> W[k]]
  BY <1>1, OwnerAt
<1> HIDE DEF V, W
<1>4. want[p] \in Blocks /\ V[want[p]] = Nobody /\ W[want[p]] = p
  BY <1>1, <1>2, <1>3
<1>5. \A k \in Blocks : k # want[p] => W[k] = V[k]
  <2> SUFFICES ASSUME NEW k \in Blocks, k # want[p] PROVE W[k] = V[k]
    OBVIOUS
  <2>1. CASE \E q \in Lockers : want[q] = k
    BY <1>2, <1>3, <2>1
  <2>2. CASE \A q \in Lockers : want[q] # k
    BY <1>2, <1>3, <2>2
  <2> QED BY <2>1, <2>2
<1>6. W = [V EXCEPT ![want[p]] = p]
  <2>1. [V EXCEPT ![want[p]] = p] = [k \in Blocks |-> [V EXCEPT ![want[p]] = p][k]]
    BY <1>2
  <2>2. \A k \in Blocks : W[k] = [V EXCEPT ![want[p]] = p][k]
    BY <1>2, <1>4, <1>5
  <2> QED BY <1>3, <2>1, <2>2, SameView
<1> QED BY <1>4, <1>6, Mapping DEF V, W

(* One process less holds a lock. *)
LEMMA HolderRemoved ==
    ASSUME CacheInv, CacheInv', NEW p \in Lockers, Lockers' = Lockers \ {p}, UNCHANGED want
    PROVE  /\ want[p] \in Blocks /\ Holder[want[p]] = p
           /\ Holder' = [Holder EXCEPT ![want[p]] = Nobody]
<1> DEFINE V == OwnerOf(Lockers, want)
           W == OwnerOf(Lockers', want)
<1>1. /\ Lockers \in SUBSET Procs /\ Lockers' \in SUBSET Procs
      /\ \A q, r \in Lockers : want[q] = want[r] => q = r
      /\ \A q \in Lockers : want[q] \in Blocks
  BY OneHolder
<1>a. \A q, r \in Lockers' : want[q] = want[r] => q = r
  BY <1>1
<1>2. /\ \A q \in Lockers : want[q] \in Blocks => V[want[q]] = q
      /\ \A k \in Blocks : (\A q \in Lockers : want[q] # k) => V[k] = Nobody
      /\ V = [k \in Blocks |-> V[k]]
  BY <1>1, OwnerAt
<1>3. /\ \A q \in Lockers' : want[q] \in Blocks => W[want[q]] = q
      /\ \A k \in Blocks : (\A q \in Lockers' : want[q] # k) => W[k] = Nobody
      /\ W = [k \in Blocks |-> W[k]]
  BY <1>1, <1>a, OwnerAt
<1> HIDE DEF V, W
<1>4. want[p] \in Blocks /\ V[want[p]] = p /\ W[want[p]] = Nobody
  BY <1>1, <1>2, <1>3
<1>5. \A k \in Blocks : k # want[p] => W[k] = V[k]
  <2> SUFFICES ASSUME NEW k \in Blocks, k # want[p] PROVE W[k] = V[k]
    OBVIOUS
  <2>1. CASE \E q \in Lockers : want[q] = k
    BY <1>2, <1>3, <2>1
  <2>2. CASE \A q \in Lockers : want[q] # k
    BY <1>2, <1>3, <2>2
  <2> QED BY <2>1, <2>2
<1>6. W = [V EXCEPT ![want[p]] = Nobody]
  <2>1. [V EXCEPT ![want[p]] = Nobody] = [k \in Blocks |-> [V EXCEPT ![want[p]] = Nobody][k]]
    BY <1>2
  <2>2. \A k \in Blocks : W[k] = [V EXCEPT ![want[p]] = Nobody][k]
    BY <1>2, <1>4, <1>5
  <2> QED BY <1>3, <2>1, <2>2, SameView
<1> QED BY <1>4, <1>6, Mapping DEF V, W

(* The store before and after a step, block by block. *)
LEMMA StoreAt ==
    ASSUME CacheInv, CacheInv'
    PROVE  /\ \A b \in Bufs : valid[b] => Contents[blockno[b]] = data[b]
           /\ \A k \in Blocks : (\A b \in Bufs : valid[b] => blockno[b] # k) => Contents[k] = disk[k]
           /\ Contents = [k \in Blocks |-> Contents[k]]
           /\ \A b \in Bufs : valid'[b] => Contents'[blockno'[b]] = data'[b]
           /\ \A k \in Blocks : (\A b \in Bufs : valid'[b] => blockno'[b] # k) => Contents'[k] = disk'[k]
           /\ Contents' = [k \in Blocks |-> Contents'[k]]
<1>1. \A b, c \in Bufs : blockno[b] = blockno[c] /\ blockno[b] # NoBlock => b = c
  BY DEF CacheInv, OneBufferKept
<1>2. \A b, c \in Bufs : blockno'[b] = blockno'[c] /\ blockno'[b] # NoBlock => b = c
  BY DEF CacheInv, OneBufferKept
<1>3. /\ \A b \in Bufs : valid[b] => blockno[b] \in Blocks
      /\ \A b \in Bufs : valid'[b] => blockno'[b] \in Blocks
  BY DEF CacheInv, CleanOnDisk
<1> DEFINE V == ViewOf(blockno, valid, data, disk)
           W == ViewOf(blockno', valid', data', disk')
<1>4. /\ \A b \in Bufs : valid[b] /\ blockno[b] \in Blocks => V[blockno[b]] = data[b]
      /\ \A k \in Blocks : (\A b \in Bufs : valid[b] => blockno[b] # k) => V[k] = disk[k]
      /\ V = [k \in Blocks |-> V[k]]
  BY <1>1, ViewAt
<1>5. /\ \A b \in Bufs : valid'[b] /\ blockno'[b] \in Blocks => W[blockno'[b]] = data'[b]
      /\ \A k \in Blocks : (\A b \in Bufs : valid'[b] => blockno'[b] # k) => W[k] = disk'[k]
      /\ W = [k \in Blocks |-> W[k]]
  BY <1>2, ViewAt
<1>6. Contents = V /\ Contents' = W
  BY Mapping
<1> HIDE DEF V, W
<1> QED BY <1>3, <1>4, <1>5, <1>6

(* Recycling a clean buffer and ending a request change no block. *)
LEMMA RecycleKeepsStore ==
    ASSUME CacheInv, CacheInv', NEW p \in Procs, NEW k \in Blocks, NEW b \in Bufs, BgetRecycle(p, k, b)
    PROVE  Contents' = Contents
<1>1. /\ ~dirty[b] /\ ~valid'[b] /\ UNCHANGED <<data, disk>>
      /\ \A c \in Bufs \ {b} : valid'[c] = valid[c] /\ blockno'[c] = blockno[c]
      /\ \A c \in Bufs : blockno[c] # k
  BY DEF BgetRecycle, CacheInv, TypeOK, Victim, Free, Cached
<1>2. ASSUME NEW j \in Blocks PROVE Contents'[j] = Contents[j]
  <2>1. CASE \E c \in Bufs : valid'[c] /\ blockno'[c] = j
    <3>1. PICK c \in Bufs : valid'[c] /\ blockno'[c] = j
      BY <2>1
    <3>2. c # b /\ valid[c] /\ blockno[c] = j
      BY <1>1, <3>1
    <3> QED BY <1>1, <3>1, <3>2, StoreAt
  <2>2. CASE \A c \in Bufs : valid'[c] => blockno'[c] # j
    <3>1. Contents'[j] = disk[j]
      BY <1>1, <2>2, StoreAt
    <3>2. CASE valid[b] /\ blockno[b] = j
      <4>1. data[b] = disk[j]
        BY <1>1, <3>2 DEF CacheInv, CleanOnDisk
      <4> QED BY <3>1, <3>2, <4>1, StoreAt
    <3>3. CASE ~(valid[b] /\ blockno[b] = j)
      <4>1. \A c \in Bufs : valid[c] => blockno[c] # j
        BY <1>1, <2>2, <3>3
      <4> QED BY <3>1, <4>1, StoreAt
    <3> QED BY <3>2, <3>3
  <2> QED BY <2>1, <2>2
<1> QED BY <1>2, StoreAt, SameView

(* The disk interrupt moves data between a buffer and the disk only. *)
LEMMA InterruptKeepsStore ==
    ASSUME CacheInv, CacheInv', Ideintr
    PROVE  Contents' = Contents
<1> DEFINE b == Head(idequeue)
<1>a. b \in Elements(idequeue) /\ idequeue # <<>>
  BY Dequeued DEF Ideintr, CacheInv, TypeOK, Requests
<1>b. b \in Bufs /\ blockno[b] \in Blocks
  BY <1>a, QueuedHolder
<1>c. Unfinished(b)
  BY <1>a DEF CacheInv, Requests
<1>1. /\ blockno' = blockno /\ valid' = [valid EXCEPT ![b] = TRUE]
      /\ dirty[b] => disk' = [disk EXCEPT ![blockno[b]] = sent] /\ data' = data
      /\ ~dirty[b] => data' = [data EXCEPT ![b] = disk[blockno[b]]] /\ disk' = disk
  BY DEF Ideintr
<1> HIDE DEF b
<1>2. /\ valid'[b] /\ \A c \in Bufs \ {b} : valid'[c] = valid[c] /\ data'[c] = data[c]
      /\ \A j \in Blocks : j # blockno[b] => disk'[j] = disk[j]
  BY <1>b, <1>1 DEF CacheInv, TypeOK
<1>3. Contents'[blockno[b]] = Contents[blockno[b]]
  <2>1. Contents'[blockno[b]] = data'[b]
    BY <1>b, <1>1, <1>2, StoreAt
  <2>2. CASE dirty[b]
    BY <1>b, <1>1, <2>1, <2>2, StoreAt DEF CacheInv, CleanOnDisk
  <2>3. CASE ~dirty[b]
    <3>1. ~valid[b] /\ data'[b] = disk[blockno[b]]
      BY <1>b, <1>c, <1>1, <2>3 DEF Unfinished, CacheInv, TypeOK
    <3>2. \A c \in Bufs : valid[c] => blockno[c] # blockno[b]
      BY <1>b, <3>1, BCacheAssumption DEF CacheInv, OneBufferKept
    <3> QED BY <1>b, <2>1, <3>1, <3>2, StoreAt
  <2> QED BY <2>2, <2>3
<1>4. ASSUME NEW j \in Blocks, j # blockno[b] PROVE Contents'[j] = Contents[j]
  <2>1. CASE \E c \in Bufs : valid'[c] /\ blockno'[c] = j
    <3>1. PICK c \in Bufs : valid'[c] /\ blockno'[c] = j
      BY <2>1
    <3>2. c # b /\ valid[c] /\ blockno[c] = j /\ data'[c] = data[c]
      BY <1>1, <1>2, <1>4, <3>1
    <3> QED BY <1>1, <3>1, <3>2, StoreAt
  <2>2. CASE \A c \in Bufs : valid'[c] => blockno'[c] # j
    <3>1. \A c \in Bufs : valid[c] => blockno[c] # j
      BY <1>1, <1>2, <1>4, <2>2
    <3> QED BY <1>1, <1>2, <1>4, <2>2, <3>1, StoreAt
  <2> QED BY <2>1, <2>2
<1> QED BY <1>3, <1>4, StoreAt, SameView

(* Its holder changes a block. *)
LEMMA WriteStores ==
    ASSUME CacheInv, CacheInv', NEW p \in Procs, NEW v \in Values, pc[p] = "held",
           data' = [data EXCEPT ![mine[p]] = v], UNCHANGED <<blockno, valid, disk>>
    PROVE  want[p] \in Blocks /\ Contents' = [Contents EXCEPT ![want[p]] = v]
<1> DEFINE b == mine[p]
<1>1. b \in Bufs /\ blockno[b] = want[p] /\ want[p] \in Blocks /\ valid[b] /\ want[p] # NoBlock
  BY BCacheAssumption DEF CacheInv, InCache, OneBufferKept, Requests, Using
<1>2. data'[b] = v /\ \A c \in Bufs \ {b} : data'[c] = data[c]
  BY <1>1 DEF CacheInv, TypeOK
<1>3. Contents'[want[p]] = v
  BY <1>1, <1>2, StoreAt
<1>4. ASSUME NEW j \in Blocks, j # want[p] PROVE Contents'[j] = Contents[j]
  <2>1. CASE \E c \in Bufs : valid[c] /\ blockno[c] = j
    BY <1>1, <1>2, <1>4, <2>1, StoreAt
  <2>2. CASE \A c \in Bufs : valid[c] => blockno[c] # j
    BY <2>2, StoreAt
  <2> QED BY <2>1, <2>2
<1> HIDE DEF Contents
<1> DEFINE N == [Contents EXCEPT ![want[p]] = v]
<1>5. N = [k \in Blocks |-> N[k]] /\ \A k \in Blocks : Contents'[k] = N[k]
  BY <1>1, <1>3, <1>4, StoreAt
<1> QED BY <1>1, <1>5, StoreAt, SameView

(* The cache is a store of blocks with one holder each: the buffer cache   *)
(* and the disk driver implement BlockStore (bread, bwrite, brelse,        *)
(* ideintr).                                                               *)
THEOREM CacheCoherent == Spec => Coherent
<1>1. Init => BS!Init
  <2> SUFFICES ASSUME Init PROVE BS!Init
    OBVIOUS
  <2>1. Contents = disk /\ disk \in [Blocks -> Values]
    <3>1. Contents = [k \in Blocks |-> disk[k]]
      BY BCacheAssumption DEF Init, Contents, Cached
    <3> QED BY <3>1 DEF Init
  <2>2. Holder = [k \in Blocks |-> Nobody]
    BY DEF Init, Holder, Holds
  <2> HIDE DEF Contents, Holder
  <2> QED BY <2>1, <2>2 DEF BS!Init
<1>2. CacheInv /\ CacheInv' /\ [Next]_vars => [BS!Next]_<<Contents, Holder>>
  <2> SUFFICES ASSUME CacheInv, CacheInv', [Next]_vars PROVE [BS!Next]_<<Contents, Holder>>
    OBVIOUS
  <2>a. TypeOK /\ InCache
    BY DEF CacheInv
  <2>1. ASSUME NEW p \in Procs, NEW k \in Blocks, NEW b \in Bufs,
               BgetHit(p, k, b) \/ BgetRecycle(p, k, b)
        PROVE  Contents' = Contents /\ Holder' = Holder
    <3>1. pc[p] = "idle" /\ pc' = [pc EXCEPT ![p] = "lock"] /\ want' = [want EXCEPT ![p] = k]
      BY <2>1 DEF BgetHit, BgetRecycle, Goto
    <3>2. Lockers' = Lockers /\ \A q \in Lockers : want'[q] = want[q]
      BY <2>a, <3>1 DEF Lockers, Holds, TypeOK
    <3>3. Holder' = Holder
      BY <3>2, KeepsHolder
    <3>4. Contents' = Contents
      BY <2>1, KeepsStore, RecycleKeepsStore DEF BgetHit
    <3> QED BY <3>3, <3>4
  <2>2. ASSUME NEW p \in Procs, AcquireSleep(p), locked[mine[p]]
        PROVE  Contents' = Contents /\ Holder' = Holder
    <3>1. /\ pc[p] = "lock" /\ pc' = [pc EXCEPT ![p] = "lsleep"]
          /\ UNCHANGED <<blockno, valid, data, disk, want>>
      BY <2>2 DEF AcquireSleep, Goto
    <3>2. Lockers' = Lockers
      BY <2>a, <3>1 DEF Lockers, Holds, TypeOK
    <3> QED BY <3>1, <3>2, KeepsHolder, KeepsStore
  <2>3. ASSUME NEW p \in Procs, AcquireSleep(p), ~locked[mine[p]]
        PROVE  BS!Take(p, want[p]) /\ want[p] \in Blocks
    <3>1. /\ pc[p] = "lock" /\ pc' = [pc EXCEPT ![p] = "locked"]
          /\ UNCHANGED <<blockno, valid, data, disk, want>>
      BY <2>3 DEF AcquireSleep, Goto
    <3>2. p \notin Lockers /\ Lockers' = Lockers \cup {p}
      BY <2>a, <3>1 DEF Lockers, Holds, TypeOK
    <3>3. /\ want[p] \in Blocks /\ Holder[want[p]] = Nobody
          /\ Holder' = [Holder EXCEPT ![want[p]] = p] /\ Contents' = Contents
      BY <3>1, <3>2, HolderAdded, KeepsStore
    <3> HIDE DEF Contents, Holder
    <3> QED BY <3>3 DEF BS!Take
  <2>4. ASSUME NEW p \in Procs, Bread(p) \/ Iderw(p) \/ IderwLoop(p) \/ KillWakes(p)
        PROVE  Contents' = Contents /\ Holder' = Holder
    <3>1. /\ UNCHANGED <<blockno, valid, data, disk, want>>
          /\ \A q \in Procs : Holds(q)' <=> Holds(q)
      BY <2>4, <2>a DEF Bread, Iderw, IderwLoop, KillWakes, Goto, bufs, Holds, TypeOK
    <3>2. Lockers' = Lockers
      BY <3>1 DEF Lockers
    <3> QED BY <3>1, <3>2, KeepsHolder, KeepsStore
  <2>5. ASSUME NEW p \in Procs, NEW v \in Values, LogWrite(p, v) \/ Bwrite(p, v)
        PROVE  BS!Write(p, want[p]) /\ want[p] \in Blocks
    <3>1. /\ pc[p] = "held" /\ data' = [data EXCEPT ![mine[p]] = v]
          /\ UNCHANGED <<blockno, valid, disk, want>>
          /\ pc' = pc \/ pc' = [pc EXCEPT ![p] = "rw"]
      BY <2>5 DEF LogWrite, Bwrite, Goto
    <3>2. Lockers' = Lockers /\ p \in Lockers
      BY <2>a, <3>1 DEF Lockers, Holds, TypeOK
    <3>3. want[p] \in Blocks /\ Contents' = [Contents EXCEPT ![want[p]] = v] /\ Holder' = Holder
      BY <3>1, <3>2, WriteStores, KeepsHolder
    <3>4. Holder[want[p]] = p
      BY <3>2, <3>3, OneHolder, OwnerAt, Mapping
    <3> HIDE DEF Contents, Holder
    <3> QED BY <3>3, <3>4 DEF BS!Write
  <2>6. ASSUME NEW p \in Procs, BrelseUnlock(p)
        PROVE  BS!Drop(p, want[p]) /\ want[p] \in Blocks
    <3>1. /\ pc[p] = "held" /\ UNCHANGED <<blockno, valid, data, disk, want>>
          /\ pc'[p] = "release"
          /\ \A q \in Procs \ {p} : pc'[q] = pc[q] \/ (pc[q] = "lsleep" /\ pc'[q] = "lock")
      BY <2>6, <2>a DEF BrelseUnlock, Wake, TypeOK
    <3>2. p \in Lockers /\ Lockers' = Lockers \ {p}
      <4>1. \A q \in Procs \ {p} : Holds(q)' <=> Holds(q)
        BY <3>1 DEF Holds
      <4>2. Holds(p) /\ ~Holds(p)'
        BY <3>1 DEF Holds
      <4> QED BY <4>1, <4>2 DEF Lockers
    <3>3. /\ want[p] \in Blocks /\ Holder[want[p]] = p
          /\ Holder' = [Holder EXCEPT ![want[p]] = Nobody] /\ Contents' = Contents
      BY <3>1, <3>2, HolderRemoved, KeepsStore
    <3> HIDE DEF Contents, Holder
    <3> QED BY <3>3 DEF BS!Drop
  <2>7. ASSUME NEW p \in Procs, BrelseDrop(p)
        PROVE  Contents' = Contents /\ Holder' = Holder
    <3>1. /\ pc[p] = "release" /\ pc' = [pc EXCEPT ![p] = "idle"]
          /\ want' = [want EXCEPT ![p] = NoBlock] /\ UNCHANGED <<blockno, valid, data, disk>>
      BY <2>7 DEF BrelseDrop, Goto
    <3>2. Lockers' = Lockers /\ \A q \in Lockers : want'[q] = want[q]
      BY <2>a, <3>1 DEF Lockers, Holds, TypeOK
    <3> QED BY <3>1, <3>2, KeepsHolder, KeepsStore
  <2>8. ASSUME Ideintr PROVE Contents' = Contents /\ Holder' = Holder
    <3>1. \A q \in Procs : pc'[q] = pc[q] \/ (pc[q] = "io" /\ pc'[q] = "woken")
      BY <2>8, <2>a DEF Ideintr, Wake, TypeOK
    <3>2. Lockers' = Lockers /\ UNCHANGED want
      BY <2>8, <3>1 DEF Lockers, Holds, Ideintr
    <3> QED BY <2>8, <3>2, KeepsHolder, InterruptKeepsStore
  <2>10. ASSUME NEW p \in Procs, NEW k \in Blocks, BgetPanic(p, k)
         PROVE  Contents' = Contents /\ Holder' = Holder
    <3>1. /\ pc[p] = "idle" /\ pc' = [pc EXCEPT ![p] = "panic"]
          /\ UNCHANGED <<blockno, valid, data, disk, want>>
      BY <2>10 DEF BgetPanic, Goto, bufs
    <3>2. Lockers' = Lockers
      BY <2>a, <3>1 DEF Lockers, Holds, TypeOK
    <3> QED BY <3>1, <3>2, KeepsHolder, KeepsStore
  <2>9. ASSUME UNCHANGED vars PROVE Contents' = Contents /\ Holder' = Holder
    <3>1. UNCHANGED <<blockno, valid, data, disk, want, pc>>
      BY <2>9 DEF vars, bufs
    <3>2. Lockers' = Lockers
      BY <3>1 DEF Lockers, Holds
    <3> QED BY <3>1, <3>2, KeepsHolder, KeepsStore
  <2> HIDE DEF Contents, Holder
  <2> QED BY <2>1, <2>2, <2>3, <2>4, <2>5, <2>6, <2>7, <2>8, <2>9, <2>10 DEF Next, Halted, BS!Next
<1>3. Coherent <=> BS!Init /\ [][BS!Next]_<<Contents, Holder>>
  BY DEF Coherent, BS!Spec, BS!svars
<1> QED BY <1>1, <1>2, <1>3, CacheSafe, PTL DEF Spec
=============================================================================
