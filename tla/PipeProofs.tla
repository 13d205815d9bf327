----------------------------- MODULE PipeProofs -----------------------------
(***************************************************************************)
(* A pipe is a bounded stream, and nobody sleeps on it without a cause,    *)
(* for every PIPESIZE, every width of the counters that PIPESIZE divides   *)
(* and every number of readers and writers.                                *)
(***************************************************************************)
EXTENDS Pipe, SequenceTheorems, TLAPS

----------------------------------------------------------------------------
(* Remainders *)

(* A number is its quotient and its remainder. *)
LEMMA DivMod ==
    ASSUME NEW u \in Nat \ {0}, NEW x \in Int
    PROVE  x = u * (x \div u) + (x % u) /\ x % u \in 0 .. u - 1 /\ x \div u \in Int
OBVIOUS

(* The remainder is the only number below u at a multiple of u from x. *)
LEMMA ModUnique ==
    ASSUME NEW u \in Nat \ {0}, NEW q \in Int, NEW r \in 0 .. u - 1
    PROVE  (u * q + r) % u = r
OBVIOUS

(* A multiple of u does not change the remainder. *)
LEMMA ModShift ==
    ASSUME NEW u \in Nat \ {0}, NEW x \in Int, NEW q \in Int
    PROVE  (u * q + x) % u = x % u
<1> DEFINE d == x \div u
           r == x % u
<1>1. x = u * d + r /\ r \in 0 .. u - 1 /\ d \in Int
  BY DivMod
<1>2. u * q + x = u * (q + d) + r
  BY <1>1
<1>3. (u * (q + d) + r) % u = r
  <2>1. q + d \in Int
    BY <1>1
  <2> QED BY <1>1, <2>1, ModUnique, Zenon
<1> QED BY <1>2, <1>3

(* Adding inside and outside of a remainder is the same. *)
LEMMA ModPlus ==
    ASSUME NEW u \in Nat \ {0}, NEW x \in Int, NEW y \in Int
    PROVE  ((x % u) + y) % u = (x + y) % u
<1> DEFINE d == x \div u
           r == x % u
<1>1. x = u * d + r /\ r \in 0 .. u - 1 /\ d \in Int
  BY DivMod
<1>2. x + y = u * d + (r + y)
  BY <1>1
<1>3. (u * d + (r + y)) % u = (r + y) % u
  <2>1. r + y \in Int
    BY <1>1
  <2> QED BY <1>1, <2>1, ModShift, Zenon
<1> QED BY <1>2, <1>3

(* The same from the other side of a difference. *)
LEMMA ModMinus ==
    ASSUME NEW u \in Nat \ {0}, NEW x \in Int, NEW y \in Int
    PROVE  (y - (x % u)) % u = (y - x) % u
<1> DEFINE d == x \div u
           r == x % u
<1>1. x = u * d + r /\ r \in 0 .. u - 1 /\ d \in Int
  BY DivMod
<1>2. y - r = u * d + (y - x)
  BY <1>1
<1>3. (u * d + (y - x)) % u = (y - x) % u
  <2> DEFINE z == y - x
  <2>1. z \in Int
    OBVIOUS
  <2>2. (u * d + z) % u = z % u
    <3> HIDE DEF z
    <3> QED BY <1>1, <2>1, ModShift, Zenon
  <2> QED BY <2>2
<1> QED BY <1>2, <1>3

----------------------------------------------------------------------------
(* Slots of the ring *)

(* The counter may wrap: a slot depends on it only modulo UINT, because    *)
(* PIPESIZE divides UINT.                                                  *)
LEMMA SlotWraps ==
    ASSUME NEW c \in Int, NEW i \in Int
    PROVE  Slot(c % UINT, i) = Slot(c, i) /\ Slot(c, i) \in 0 .. PIPESIZE - 1
<1> DEFINE d == c \div UINT
           k == UINT \div PIPESIZE
           e == (c % UINT) + i - 1
<1>0. UINT \in Nat \ {0} /\ PIPESIZE \in Nat \ {0} /\ UINT % PIPESIZE = 0
  BY PipeAssumption
<1>1. c = UINT * d + (c % UINT) /\ d \in Int /\ c % UINT \in Int
  BY <1>0, DivMod
<1>2. UINT = PIPESIZE * k /\ k \in Int
  BY <1>0, DivMod
<1>3. k * d \in Int
  BY <1>1, <1>2
<1>4. c + i - 1 = PIPESIZE * (k * d) + e
  <2>1. UINT * d = PIPESIZE * (k * d)
    <3> HIDE DEF d, k
    <3> QED BY <1>0, <1>1, <1>2
  <2>2. c = PIPESIZE * (k * d) + (c % UINT)
    BY <2>1, <1>1
  <2>3. PIPESIZE * (k * d) \in Int
    BY <1>0, <1>3
  <2> QED BY <2>2, <2>3, <1>1
<1>5. (PIPESIZE * (k * d) + e) % PIPESIZE = e % PIPESIZE
  <2>1. e \in Int
    BY <1>1
  <2> HIDE DEF d, k, e
  <2> QED BY <1>0, <2>1, <1>3, ModShift, Zenon
<1>6. (c + i - 1) % PIPESIZE \in 0 .. PIPESIZE - 1
  BY <1>0, DivMod
<1> QED BY <1>4, <1>5, <1>6 DEF Slot

(* The first PIPESIZE slots after a counter are different. *)
LEMMA SlotsDiffer ==
    ASSUME NEW c \in Int, NEW i \in 1 .. PIPESIZE, NEW j \in 1 .. PIPESIZE,
           Slot(c, i) = Slot(c, j)
    PROVE  i = j
<1>0. PIPESIZE \in Nat \ {0}
  BY PipeAssumption
<1> DEFINE a == (c + i - 1) \div PIPESIZE
           b == (c + j - 1) \div PIPESIZE
           r == (c + i - 1) % PIPESIZE
<1>1. c + i - 1 = PIPESIZE * a + r /\ a \in Int /\ r \in Int
  BY <1>0, DivMod
<1>2. c + j - 1 = PIPESIZE * b + r /\ b \in Int
  <2>1. (c + j - 1) % PIPESIZE = r
    BY DEF Slot
  <2> QED BY <1>0, <2>1, DivMod
<1> HIDE DEF a, b, r
<1>3. i - j = PIPESIZE * (a - b)
  BY <1>0, <1>1, <1>2
<1>4. a - b = 0
  BY <1>0, <1>1, <1>2, <1>3
<1> QED BY <1>0, <1>1, <1>2, <1>3, <1>4

----------------------------------------------------------------------------
(* The number of bytes in the pipe *)

Difference(w, r) == (w - r) % UINT

(* n bytes more, as long as they are fewer than the counters can tell.     *)
LEMMA CountGrows ==
    ASSUME NEW w \in Int, NEW r \in Int, NEW n \in Nat, Difference(w, r) + n < UINT
    PROVE  Difference((w + n) % UINT, r) = Difference(w, r) + n
<1> DEFINE x == w - r
           y == -r
           z == w + n
<1>0. UINT \in Nat \ {0} /\ x \in Int /\ y \in Int /\ z \in Int
  BY PipeAssumption
<1>1. ((z % UINT) + y) % UINT = (z + y) % UINT
  <2> HIDE DEF y, z
  <2> QED BY <1>0, ModPlus, Zenon
<1>2. ((x % UINT) + n) % UINT = (x + n) % UINT
  <2> HIDE DEF x
  <2>1. n \in Int
    OBVIOUS
  <2> QED BY <2>1, <1>0, ModPlus, Zenon
<1>3. z + y = x + n /\ (z % UINT) + y = (z % UINT) - r
  BY <1>0, DivMod
<1>4. x % UINT \in Nat
  BY <1>0, DivMod
<1>5. ((x % UINT) + n) % UINT = (x % UINT) + n
  BY <1>0, <1>4 DEF Difference
<1> QED BY <1>1, <1>2, <1>3, <1>5 DEF Difference

(* n bytes fewer. *)
LEMMA CountShrinks ==
    ASSUME NEW w \in Int, NEW r \in Int, NEW n \in Nat, n <= Difference(w, r)
    PROVE  Difference(w, (r + n) % UINT) = Difference(w, r) - n
<1> DEFINE x == w - r
           m == -n
           z == r + n
<1>0. UINT \in Nat \ {0} /\ x \in Int /\ m \in Int /\ z \in Int
  BY PipeAssumption
<1>1. (w - (z % UINT)) % UINT = (w - z) % UINT
  <2> HIDE DEF z
  <2> QED BY <1>0, ModMinus, Zenon
<1>2. ((x % UINT) + m) % UINT = (x + m) % UINT
  <2> HIDE DEF x, m
  <2> QED BY <1>0, ModPlus, Zenon
<1>3. w - z = x + m
  OBVIOUS
<1>4. x % UINT \in 0 .. UINT - 1
  BY <1>0, DivMod
<1>5. ((x % UINT) + m) % UINT = (x % UINT) - n
  BY <1>0, <1>4 DEF Difference
<1> QED BY <1>1, <1>2, <1>3, <1>5 DEF Difference

(* Equal counters are an empty pipe. *)
LEMMA CountZero ==
    ASSUME NEW w \in 0 .. UINT - 1, NEW r \in 0 .. UINT - 1
    PROVE  /\ Difference(w, r) = 0 <=> w = r
           /\ Difference(w, r) \in 0 .. UINT - 1
BY PipeAssumption DEF Difference

----------------------------------------------------------------------------
(* Sleepers *)

(* A process in a call has its end open: it closes between two calls. *)
CallersOpen == \A p \in Procs : pc[p] # "idle" => p \in open

(* The inductive invariant. *)
PipeInv == TypeOK /\ Count \in 0 .. PIPESIZE /\ CallersOpen /\ SleepersHaveCause

(* What a step does to the number of bytes, by the step that does it. *)
LEMMA PipeWriteCount ==
    ASSUME TypeOK, Count \in 0 .. PIPESIZE, NEW p \in Procs,
           NEW n \in 0 .. PIPESIZE, NEW bs \in [1 .. n -> Bytes], PipeWrite(p, bs)
    PROVE  /\ Len(bs) = n /\ n <= Space /\ n <= left[p] /\ (n = left[p] \/ n = Space)
           /\ nwrite' \in 0 .. UINT - 1 /\ nread' = nread
           /\ Count' = Count + n
           /\ data' \in [0 .. PIPESIZE - 1 -> Bytes]
<1>1. Len(bs) = n /\ n \in Nat /\ UINT \in Nat \ {0} /\ PIPESIZE < UINT
  BY PipeAssumption
<1>2. n = Lesser(left[p], Space) /\ nwrite' = (nwrite + n) % UINT /\ nread' = nread
  BY <1>1 DEF PipeWrite, Chunk
<1>3. left[p] \in Nat /\ Space \in 0 .. PIPESIZE /\ nread \in Int /\ nwrite \in Int
  BY PipeAssumption DEF TypeOK, Space
<1>4. n <= Space /\ n <= left[p] /\ (n = left[p] \/ n = Space)
  BY <1>2, <1>3 DEF Lesser
<1>5. Difference(nwrite, nread) + n < UINT /\ Count = Difference(nwrite, nread)
  <2>1. Count = Difference(nwrite, nread)
    BY DEF Difference, Count
  <2>2. Count + n < UINT
    BY <1>1, <1>4, PipeAssumption DEF Space
  <2> QED BY <2>1, <2>2
<1>6. Difference((nwrite + n) % UINT, nread) = Count + n
  BY <1>1, <1>3, <1>5, CountGrows
<1>7. nwrite' \in 0 .. UINT - 1
  <2>1. nwrite + n \in Int
    BY <1>1, <1>3
  <2>2. (nwrite + n) % UINT \in 0 .. UINT - 1
    BY <1>1, <2>1, DivMod, Zenon
  <2> QED BY <1>2, <2>2
<1>8. data' \in [0 .. PIPESIZE - 1 -> Bytes]
  <2>1. \A s \in 0 .. PIPESIZE - 1 :
            (\E i \in 1 .. Len(bs) : Slot(nwrite, i) = s)
            => bs[CHOOSE i \in 1 .. Len(bs) : Slot(nwrite, i) = s] \in Bytes
    BY <1>1
  <2>2. data' = Stored(bs)
    BY DEF PipeWrite
  <2> QED BY <2>1, <2>2 DEF Stored, TypeOK
<1> QED BY <1>1, <1>2, <1>4, <1>6, <1>7, <1>8 DEF Count, Difference

(* piperead copies what there is, up to what was asked for. *)
LEMMA PipeReadCount ==
    ASSUME TypeOK, Count \in 0 .. PIPESIZE, NEW p \in Procs, PipeRead(p)
    PROVE  \E n \in 0 .. Count :
               /\ n = Lesser(left[p], Count)
               /\ out' = Copied(n)
               /\ nread' = (nread + n) % UINT /\ nread' \in 0 .. UINT - 1
               /\ nwrite' = nwrite /\ data' = data
               /\ Count' = Count - n
<1> DEFINE n == Lesser(left[p], Count)
<1>1. left[p] \in Nat /\ Count \in Nat /\ UINT \in Nat \ {0} /\ nread \in Int /\ nwrite \in Int
  BY PipeAssumption DEF TypeOK
<1>2. n \in 0 .. Count
  BY <1>1 DEF Lesser
<1>3. out' = Copied(n) /\ nread' = (nread + n) % UINT /\ nwrite' = nwrite /\ data' = data
  BY DEF PipeRead
<1> HIDE DEF n
<1>4. nread' \in 0 .. UINT - 1
  BY <1>1, <1>2, <1>3, DivMod
<1>5. n \in Nat /\ n <= Difference(nwrite, nread)
  BY <1>1, <1>2 DEF Count, Difference
<1>6. Difference(nwrite, (nread + n) % UINT) = Difference(nwrite, nread) - n
  BY <1>1, <1>5, CountShrinks
<1>7. Count' = Count - n
  BY <1>3, <1>6 DEF Count, Difference
<1> QED BY <1>2, <1>3, <1>4, <1>7 DEF n

(* The invariant holds after pipealloc. *)
LEMMA PipeInit == Init => PipeInv
<1> SUFFICES ASSUME Init PROVE PipeInv
  OBVIOUS
<1>1. TypeOK
  <2>1. out \in Seq(Bytes) /\ nread \in 0 .. UINT - 1 /\ nwrite \in 0 .. UINT - 1
    BY PipeAssumption, EmptySeq DEF Init
  <2>2. left \in [Procs -> 0 .. MaxCount]
    BY PipeAssumption DEF Init
  <2> QED BY <2>1, <2>2 DEF Init, TypeOK
<1>2. Count = 0
  BY PipeAssumption DEF Init, Count
<1>3. Count \in 0 .. PIPESIZE
  BY <1>2, PipeAssumption
<1>4. SleepersHaveCause /\ CallersOpen
  BY DEF Init, SleepersHaveCause, CallersOpen, Procs
<1> QED BY <1>1, <1>3, <1>4 DEF PipeInv

(* Every step keeps the invariant. *)
LEMMA PipeStep == PipeInv /\ [Next \/ Done]_vars => PipeInv'
<1> SUFFICES ASSUME PipeInv, [Next \/ Done]_vars PROVE PipeInv'
  OBVIOUS
<1> USE PipeAssumption
<1>a. TypeOK /\ Count \in 0 .. PIPESIZE /\ CallersOpen /\ SleepersHaveCause
  BY DEF PipeInv
<1>b. Readers \subseteq Procs /\ Writers \subseteq Procs
  BY DEF Procs
<1>1. ASSUME NEW p \in Procs, NEW n \in 1 .. MaxCount, Call(p, n) PROVE PipeInv'
  <2>1. TypeOK'
    BY <1>1, <1>a DEF Call, TypeOK
  <2>2. Count' = Count /\ Space' = Space
    BY <1>1 DEF Call, Count, Space
  <2>3. CallersOpen' /\ SleepersHaveCause'
    BY <1>1, <1>a, <1>b, <2>2
    DEF Call, CallersOpen, SleepersHaveCause, TypeOK, readopen, writeopen
  <2> QED BY <1>a, <2>1, <2>2, <2>3 DEF PipeInv
<1>2. ASSUME NEW p \in Procs, NEW n \in 0 .. PIPESIZE, NEW bs \in [1 .. n -> Bytes],
             PipeWrite(p, bs)
      PROVE  PipeInv'
  <2>1. /\ Len(bs) = n /\ n <= Space /\ n <= left[p] /\ (n = left[p] \/ n = Space)
        /\ nwrite' \in 0 .. UINT - 1 /\ nread' = nread /\ Count' = Count + n
        /\ data' \in [0 .. PIPESIZE - 1 -> Bytes]
    BY <1>2, <1>a, PipeWriteCount
  <2>2. Count' \in 0 .. PIPESIZE /\ Space' = Space - n /\ Space \in Nat
    BY <2>1, <1>a DEF Space
  <2>3. TypeOK'
    <3>1. pc' \in [Procs -> {"idle", "run", "asleep"}]
      BY <1>2, <1>a DEF PipeWrite, TypeOK, Wake
    <3>2. left' \in [Procs -> 0 .. MaxCount]
      <4>1. left[p] - n \in 0 .. MaxCount /\ 0 \in 0 .. MaxCount
        BY <1>a, <2>1 DEF TypeOK
      <4>2. left' \in {[left EXCEPT ![p] = 0], [left EXCEPT ![p] = @ - n]}
        BY <1>2, <2>1 DEF PipeWrite
      <4> QED BY <1>a, <4>1, <4>2 DEF TypeOK
    <3>3. aborted' \in BOOLEAN
      BY <1>2, <1>a DEF PipeWrite, TypeOK
    <3>4. UNCHANGED <<open, freed, killed, out>>
      BY <1>2 DEF PipeWrite
    <3> QED BY <1>a, <2>1, <3>1, <3>2, <3>3, <3>4 DEF TypeOK
  <2>4. CallersOpen'
    BY <1>2, <1>a DEF PipeWrite, CallersOpen, TypeOK, Wake
  <2>5. SleepersHaveCause'
    <3>1. p \in Writers /\ p \notin Readers /\ pc[p] = "run"
      BY <1>2 DEF PipeWrite
    <3>2. UNCHANGED <<open, killed>> /\ (readopen' <=> readopen) /\ (writeopen' <=> writeopen)
      BY <1>2 DEF PipeWrite, readopen, writeopen
    <3>3. \A w \in Writers : w # p /\ pc'[w] = "asleep" => pc[w] = "asleep"
      BY <1>2, <1>a, <1>b DEF PipeWrite, TypeOK, Wake
    <3>4. pc'[p] = "asleep" => Space' = 0 /\ readopen /\ ~killed[p]
      BY <1>2, <1>a, <2>1, <2>2 DEF PipeWrite, TypeOK, Wake
    <3>5. Space = 0 => Space' = 0
      BY <2>1, <2>2
    <3>6. \A r \in Readers : pc'[r] = "asleep" => pc[r] = "asleep"
      BY <1>2, <1>a, <1>b, <3>1 DEF PipeWrite, TypeOK, Wake
    <3>7. \A r \in Readers : pc'[r] = "asleep" => Count' = 0 \/ aborted'
      <4> SUFFICES ASSUME NEW r \in Readers, pc'[r] = "asleep" PROVE aborted'
        OBVIOUS
      <4>1. r \in open /\ readopen
        BY <3>6, <1>a, <1>b DEF CallersOpen, readopen
      <4> QED BY <1>2, <1>a, <1>b, <3>1, <4>1 DEF PipeWrite, TypeOK, Wake
    <3>8. pc'[p] = "asleep" => \A r \in Readers : pc'[r] # "asleep"
      BY <1>2, <1>a, <1>b, <3>1 DEF PipeWrite, TypeOK, Wake
    <3> QED BY <1>a, <3>2, <3>3, <3>4, <3>5, <3>6, <3>7, <3>8 DEF SleepersHaveCause
  <2> QED BY <2>2, <2>3, <2>4, <2>5 DEF PipeInv
<1>3. ASSUME NEW p \in Procs, ReadSleep(p) PROVE PipeInv'
  <2>1. TypeOK'
    BY <1>3, <1>a DEF ReadSleep, TypeOK
  <2>2. Count' = Count /\ Space' = Space /\ Count = 0 /\ Space # 0
    <3>1. Difference(nwrite, nread) = 0
      BY <1>3, <1>a, CountZero DEF ReadSleep, MustWait, TypeOK
    <3> QED BY <1>3, <3>1 DEF ReadSleep, Count, Space, Difference
  <2>3. CallersOpen'
    BY <1>3, <1>a DEF ReadSleep, CallersOpen, TypeOK
  <2>4. SleepersHaveCause'
    BY <1>3, <1>a, <1>b, <2>2
    DEF ReadSleep, MustWait, SleepersHaveCause, TypeOK, readopen, writeopen
  <2> QED BY <1>a, <2>1, <2>2, <2>3, <2>4 DEF PipeInv
<1>4. ASSUME NEW p \in Procs, PipeRead(p) PROVE PipeInv'
  <2>1. PICK n \in 0 .. Count : /\ n = Lesser(left[p], Count) /\ out' = Copied(n)
                               /\ nread' = (nread + n) % UINT /\ nread' \in 0 .. UINT - 1
                               /\ nwrite' = nwrite /\ data' = data /\ Count' = Count - n
    BY <1>4, <1>a, PipeReadCount
  <2>2. Count' \in 0 .. PIPESIZE
    BY <1>a, <2>1
  <2>3. out' \in Seq(Bytes)
    <3>1. \A i \in 1 .. n : data[Slot(nread, i)] \in Bytes
      <4>1. \A i \in 1 .. n : i \in Int /\ nread \in Int
        BY <1>a DEF TypeOK
      <4>2. \A i \in 1 .. n : Slot(nread, i) \in 0 .. PIPESIZE - 1
        BY <4>1, SlotWraps
      <4> QED BY <1>a, <4>2 DEF TypeOK
    <3>2. n \in Nat
      BY <1>a, <2>1
    <3> QED BY <2>1, <3>1, <3>2 DEF Copied
  <2>4. TypeOK'
    <3>1. pc' \in [Procs -> {"idle", "run", "asleep"}] /\ left' \in [Procs -> 0 .. MaxCount]
      BY <1>4, <1>a DEF PipeRead, TypeOK, Wake
    <3>2. UNCHANGED <<open, freed, killed, aborted>>
      BY <1>4 DEF PipeRead
    <3> QED BY <1>a, <2>1, <2>3, <3>1, <3>2 DEF TypeOK
  <2>5. CallersOpen'
    BY <1>4, <1>a DEF PipeRead, CallersOpen, TypeOK, Wake
  <2>6. SleepersHaveCause'
    <3>1. \A w \in Writers : pc'[w] # "asleep"
      BY <1>4, <1>a, <1>b DEF PipeRead, TypeOK, Wake
    <3>2. \A r \in Readers : pc'[r] = "asleep" => pc[r] = "asleep"
      BY <1>4, <1>a, <1>b DEF PipeRead, TypeOK, Wake
    <3>3. Count = 0 => Count' = 0
      BY <2>1, <1>a
    <3>4. UNCHANGED <<open, killed, aborted>>
      BY <1>4 DEF PipeRead
    <3> QED BY <1>a, <3>1, <3>2, <3>3, <3>4 DEF SleepersHaveCause, readopen, writeopen
  <2> QED BY <2>2, <2>4, <2>5, <2>6 DEF PipeInv
<1>5. ASSUME NEW p \in Procs, Close(p) PROVE PipeInv'
  <2>1. TypeOK'
    BY <1>5, <1>a DEF Close, Closed, Wake, TypeOK
  <2>2. Count' = Count /\ Space' = Space
    BY <1>5 DEF Close, Count, Space
  <2>3. CallersOpen'
    BY <1>5, <1>a DEF Close, MayClose, Closed, Wake, CallersOpen, TypeOK
  <2>4. SleepersHaveCause'
    <3>1. \A q \in Procs : pc'[q] = "asleep" => pc[q] = "asleep"
      BY <1>5, <1>a DEF Close, Closed, Wake, TypeOK
    <3>2. \A w \in Writers : pc'[w] = "asleep" => readopen'
      BY <1>5, <1>a, <1>b, <3>1 DEF Close, Closed, Wake, TypeOK, readopen, SleepersHaveCause
    <3>3. \A r \in Readers : pc'[r] = "asleep" => writeopen'
      BY <1>5, <1>a, <1>b, <3>1 DEF Close, Closed, Wake, TypeOK, writeopen, SleepersHaveCause
    <3>4. UNCHANGED <<killed, aborted>>
      BY <1>5 DEF Close
    <3> QED BY <1>a, <1>b, <2>2, <3>1, <3>2, <3>3, <3>4 DEF SleepersHaveCause
  <2> QED BY <1>a, <2>1, <2>2, <2>3, <2>4 DEF PipeInv
<1>6. ASSUME NEW p \in Procs, Kill(p) PROVE PipeInv'
  <2>1. TypeOK'
    BY <1>6, <1>a DEF Kill, TypeOK
  <2>2. Count' = Count /\ Space' = Space
    BY <1>6 DEF Kill, Count, Space
  <2>3. CallersOpen'
    BY <1>6, <1>a DEF Kill, CallersOpen, TypeOK
  <2>4. SleepersHaveCause'
    BY <1>6, <1>a, <1>b, <2>2 DEF Kill, SleepersHaveCause, TypeOK, readopen, writeopen
  <2> QED BY <1>a, <2>1, <2>2, <2>3, <2>4 DEF PipeInv
<1>7. CASE UNCHANGED vars
  BY <1>7 DEF vars, PipeInv, TypeOK, CallersOpen, SleepersHaveCause, Count, Space,
              readopen, writeopen
<1> QED BY <1>1, <1>2, <1>3, <1>4, <1>5, <1>6, <1>7 DEF Next, Done

(* Types, at most PIPESIZE bytes in the pipe, and the sleepers, together:   *)
(* none of them is kept by every step without the others.                   *)
THEOREM PipeSafe == Spec => []PipeInv
BY PipeInit, PipeStep, PTL DEF Spec

(* A process sleeps on a pipe only while the other side has yet to act, and *)
(* a reader and a writer never sleep at once (pipewrite, piperead,          *)
(* pipeclose, kill).                                                        *)
THEOREM PipeSleepersSafe == Spec => []SleepersHaveCause
BY PipeSafe, PTL DEF PipeInv

----------------------------------------------------------------------------
(* The stream *)

(* A sequence is the function of its elements. *)
LEMMA SeqIs == ASSUME NEW S, NEW t \in Seq(S) PROVE t = [i \in 1 .. Len(t) |-> t[i]]
OBVIOUS

(* What is in the pipe is a sequence of Count bytes. *)
LEMMA UnreadSeq ==
    ASSUME TypeOK, Count \in 0 .. PIPESIZE
    PROVE  /\ Unread \in Seq(Bytes) /\ Len(Unread) = Count
           /\ \A i \in 1 .. Count : Unread[i] = data[Slot(nread, i)]
<1>1. \A i \in 1 .. Count : i \in Int /\ nread \in Int
  BY DEF TypeOK
<1>2. \A i \in 1 .. Count : Slot(nread, i) \in 0 .. PIPESIZE - 1
  BY <1>1, SlotWraps
<1>3. \A i \in 1 .. Count : data[Slot(nread, i)] \in Bytes
  BY <1>2 DEF TypeOK
<1>4. Count \in Nat
  BY PipeAssumption
<1> HIDE DEF Count
<1> QED BY <1>3, <1>4 DEF Unread

(* The slots after nwrite are the ones that follow the bytes in the pipe. *)
LEMMA SlotsFollow ==
    ASSUME TypeOK, NEW j \in Int
    PROVE  Slot(nwrite, j) = Slot(nread, Count + j)
<1> DEFINE x == nwrite - nread
<1>0. UINT \in Nat \ {0} /\ x \in Int /\ nread \in Int /\ nwrite \in 0 .. UINT - 1
  BY PipeAssumption DEF TypeOK
<1>1. ((x % UINT) + nread) % UINT = (x + nread) % UINT
  <2> HIDE DEF x
  <2> QED BY <1>0, ModPlus, Zenon
<1>2. (x + nread) % UINT = nwrite
  BY <1>0
<1>3. Count = x % UINT /\ Count \in Int
  BY <1>0, DivMod DEF Count
<1>4. nwrite = (Count + nread) % UINT /\ Count + nread \in Int
  BY <1>0, <1>1, <1>2, <1>3
<1>5. Slot(nwrite, j) = Slot(Count + nread, j)
  BY <1>4, SlotWraps
<1> QED BY <1>0, <1>3, <1>5 DEF Slot

(* A write appends its bytes, and overwrites none that is unread. *)
LEMMA WriteAppends ==
    ASSUME TypeOK, Count \in 0 .. PIPESIZE, NEW p \in Procs,
           NEW n \in 0 .. PIPESIZE, NEW bs \in [1 .. n -> Bytes], PipeWrite(p, bs)
    PROVE  Unread' = Unread \o bs
<1>1. /\ Len(bs) = n /\ n <= Space /\ nread' = nread /\ Count' = Count + n
  BY PipeWriteCount
<1>2. bs \in Seq(Bytes) /\ Unread \in Seq(Bytes) /\ Len(Unread) = Count
      /\ \A i \in 1 .. Count : Unread[i] = data[Slot(nread, i)]
  BY UnreadSeq
<1>3. /\ Unread \o bs \in Seq(Bytes) /\ Len(Unread \o bs) = Count + n
      /\ \A i \in 1 .. Count + n : (Unread \o bs)[i] = IF i <= Count THEN Unread[i] ELSE bs[i - Count]
  BY <1>1, <1>2, ConcatProperties
<1>4. Count \in Nat /\ n \in Nat /\ Count + n <= PIPESIZE /\ nread \in Int
  BY <1>1, PipeAssumption DEF Space, TypeOK
<1>5. data' = Stored(bs)
  BY DEF PipeWrite
<1>6. ASSUME NEW i \in 1 .. Count + n PROVE data'[Slot(nread, i)] = (Unread \o bs)[i]
  <2> DEFINE s == Slot(nread, i)
             Fits(j) == Slot(nwrite, j) = s
  <2>1. s \in 0 .. PIPESIZE - 1 /\ i \in 1 .. PIPESIZE
    <3>1. i \in 1 .. PIPESIZE /\ i \in Int
      BY <1>4, PipeAssumption
    <3> QED BY <1>4, <3>1, SlotWraps
  <2>2. data'[s] = IF \E j \in 1 .. n : Fits(j) THEN bs[CHOOSE j \in 1 .. n : Fits(j)] ELSE data[s]
    BY <1>1, <1>5, <2>1 DEF Stored
  <2>3. \A j \in 1 .. n : Fits(j) => i = Count + j
    <3> SUFFICES ASSUME NEW j \in 1 .. n, Fits(j) PROVE i = Count + j
      OBVIOUS
    <3>1. j \in Int /\ Count + j \in 1 .. PIPESIZE
      BY <1>4, PipeAssumption
    <3>2. Slot(nread, Count + j) = Slot(nread, i)
      BY <3>1, SlotsFollow
    <3> QED BY <1>4, <2>1, <3>1, <3>2, SlotsDiffer
  <2>4. CASE i <= Count
    <3>1. ~ \E j \in 1 .. n : Fits(j)
      BY <1>4, <2>3, <2>4
    <3>2. i \in 1 .. Count
      BY <1>4, <2>4
    <3> QED BY <1>2, <1>3, <2>2, <2>4, <3>1, <3>2
  <2>5. CASE i > Count
    <3>1. i - Count \in 1 .. n /\ i - Count \in Int /\ Count + (i - Count) = i
      BY <1>4, <2>5
    <3>2. Fits(i - Count)
      BY <3>1, SlotsFollow
    <3>3. \A j \in 1 .. n : Fits(j) => j = i - Count
      BY <1>4, <2>3
    <3> HIDE DEF Fits
    <3>4. (CHOOSE j \in 1 .. n : Fits(j)) = i - Count
      BY <3>1, <3>2, <3>3
    <3>5. data'[s] = bs[i - Count]
      BY <2>2, <3>1, <3>2, <3>4
    <3> QED BY <1>3, <1>4, <2>5, <3>5
  <2>6. i <= Count \/ i > Count
    BY <1>4
  <2> QED BY <2>4, <2>5, <2>6
<1>7. Unread' = [i \in 1 .. Count + n |-> data'[Slot(nread, i)]]
  BY <1>1 DEF Unread, Slot
<1>8. Unread \o bs = [i \in 1 .. Count + n |-> (Unread \o bs)[i]]
  BY <1>3, SeqIs, Zenon
<1> QED BY <1>6, <1>7, <1>8

(* A read returns the first bytes and leaves the others. *)
LEMMA ReadTakes ==
    ASSUME TypeOK, Count \in 0 .. PIPESIZE, NEW p \in Procs, PipeRead(p)
    PROVE  \E n \in 0 .. Count : /\ out' = SubSeq(Unread, 1, n)
                                /\ Unread' = SubSeq(Unread, n + 1, Count)
<1>1. PICK n \in 0 .. Count : /\ out' = Copied(n) /\ nread' = (nread + n) % UINT
                             /\ data' = data /\ Count' = Count - n
  BY PipeReadCount
<1>2. Count \in Nat /\ n \in Nat /\ n <= Count /\ nread \in Int
  BY PipeAssumption DEF TypeOK
<1>3. /\ Unread \in Seq(Bytes) /\ Len(Unread) = Count
      /\ \A i \in 1 .. Count : Unread[i] = data[Slot(nread, i)]
  BY UnreadSeq
<1>4. out' = SubSeq(Unread, 1, n)
  <2>1. SubSeq(Unread, 1, n) = [i \in 1 .. n |-> Unread[i]]
    BY <1>2, <1>3
  <2>2. \A i \in 1 .. n : Unread[i] = data[Slot(nread, i)]
    BY <1>2, <1>3
  <2> QED BY <1>1, <2>1, <2>2 DEF Copied
<1>5. Unread' = SubSeq(Unread, n + 1, Count)
  <2>1. SubSeq(Unread, n + 1, Count) = [i \in 1 .. Count - n |-> Unread[n + i]]
    BY <1>2, <1>3
  <2>2. Unread' = [i \in 1 .. Count - n |-> data[Slot((nread + n) % UINT, i)]]
    BY <1>1 DEF Unread, Slot
  <2>3. \A i \in 1 .. Count - n : Unread[n + i] = data[Slot((nread + n) % UINT, i)]
    <3> SUFFICES ASSUME NEW i \in 1 .. Count - n
                 PROVE  Unread[n + i] = data[Slot((nread + n) % UINT, i)]
      OBVIOUS
    <3>1. i \in Int /\ n + i \in 1 .. Count /\ nread + n \in Int
      BY <1>2
    <3>2. Slot((nread + n) % UINT, i) = Slot(nread + n, i)
      BY <3>1, SlotWraps
    <3>3. Slot(nread + n, i) = Slot(nread, n + i)
      BY <1>2, <3>1 DEF Slot
    <3> QED BY <1>3, <3>1, <3>2, <3>3
  <2> QED BY <2>1, <2>2, <2>3
<1> QED BY <1>4, <1>5

(* A pipe implements the bounded stream of PipeAbs: bytes come out in the  *)
(* order in which they went in, none lost, repeated or overwritten.        *)
THEOREM PipeRefinement == Spec => Stream
<1>1. Init => PA!Init
  <2> SUFFICES ASSUME Init PROVE PA!Init
    OBVIOUS
  <2>1. Count = 0
    BY PipeAssumption DEF Init, Count
  <2> QED BY <2>1 DEF Init, Unread, PA!Init
<1>2. PipeInv /\ [Next \/ Done]_vars => [PA!Next]_<<Unread, out>>
  <2> SUFFICES ASSUME PipeInv, [Next \/ Done]_vars PROVE [PA!Next]_<<Unread, out>>
    OBVIOUS
  <2>a. TypeOK /\ Count \in 0 .. PIPESIZE /\ Unread \in Seq(Bytes) /\ Len(Unread) = Count
    BY UnreadSeq DEF PipeInv
  <2>1. ASSUME NEW p \in Procs, NEW n \in 0 .. PIPESIZE, NEW bs \in [1 .. n -> Bytes],
               PipeWrite(p, bs)
        PROVE  [PA!Next]_<<Unread, out>>
    <3>1. Unread' = Unread \o bs /\ out' = out
      BY <2>1, <2>a, WriteAppends DEF PipeWrite
    <3>2. n <= PIPESIZE - Len(Unread)
      BY <2>1, <2>a, PipeWriteCount DEF Space
    <3>3. CASE n = 0
      <4>1. bs = <<>>
        BY <3>3
      <4> QED BY <2>a, <3>1, <4>1
    <3>4. CASE n # 0
      <4>1. n \in 1 .. PIPESIZE - Len(Unread)
        BY <2>a, <3>2, <3>4, PipeAssumption
      <4> QED BY <3>1, <4>1 DEF PA!Next, PA!Put
    <3> QED BY <3>3, <3>4
  <2>2. ASSUME NEW p \in Procs, PipeRead(p) PROVE PA!Next
    BY <2>2, <2>a, ReadTakes DEF PA!Next, PA!Get
  <2>3. ASSUME UNCHANGED <<data, nread, nwrite, out>> PROVE UNCHANGED <<Unread, out>>
    BY <2>3 DEF Unread, Count, Slot
  <2>4. ASSUME NEW p \in Procs,
               \/ \E n \in 1 .. MaxCount : Call(p, n)
               \/ ReadSleep(p) \/ Close(p) \/ Kill(p)
        PROVE  UNCHANGED <<Unread, out>>
    BY <2>4, <2>3 DEF Call, ReadSleep, Close, Kill
  <2>5. CASE UNCHANGED vars
    BY <2>5, <2>3 DEF vars
  <2> QED BY <2>1, <2>2, <2>4, <2>5 DEF Next, Done
<1> QED BY <1>1, <1>2, PipeSafe, PTL DEF Spec, Stream, PA!Spec
=============================================================================
