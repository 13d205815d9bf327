------------------------------ MODULE LogProofs ------------------------------
(***************************************************************************)
(* The log makes system calls atomic, pins what is not installed and keeps *)
(* places for the calls it admits, for every number of processes, blocks   *)
(* and crashes and every size of the log on disk (up to the step where     *)
(* write_log would leave a log that is too small), as long as a call       *)
(* writes no more blocks than begin_op reserves for it ("max # of blocks   *)
(* any FS op writes", param.h:10).                                         *)
(***************************************************************************)
EXTENDS Log, SequenceTheorems, FiniteSetTheorems, TLAPS

----------------------------------------------------------------------------
(* The inductive invariant *)

(* The processes between begin_op and end_op. *)
Admitted == {o \in Ops : pc[o] \in {"op", "write"}}

(* The blocks that admitted calls may still write: one pair for each.      *)
Rooms == {r \in Admitted \X (1 .. MAXOPBLOCKS) : r[2] > Cardinality(wrote[r[1]])}

Distinct(s) == \A i, j \in 1 .. Len(s) : s[i] = s[j] => i = j

(* begin_op's reservation: there is room for all of them. *)
Reserved ==
    /\ outstanding = Cardinality(Admitted)
    /\ Len(lh) + Cardinality(Rooms) <= LOGSIZE
    /\ \A o \in Ops : IsFiniteSet(wrote[o]) /\ Cardinality(wrote[o]) <= OpBlocks
    /\ \A o \in Admitted : wrote[o] \subseteq Members(lh)

(* One process commits, while nobody is in a call, and nobody runs before  *)
(* recovery is over.                                                       *)
OneCommit ==
    /\ committing => Admitted = {} /\ Up
    /\ phase \in {"write_log", "install"} => committing
    /\ \A o \in Ops : pc[o] = "end" => committing
    /\ \A o, p \in Ops : pc[o] = "end" /\ pc[p] = "end" => o = p
    /\ ~Up => \A o \in Ops : pc[o] = "idle"

(* What is on disk in each phase of commit and recovery. *)
LogOnDisk ==
    /\ Distinct(lh) /\ Distinct(dhead)
    /\ dhead = IF phase \in {"install", "recover"} THEN lh ELSE <<>>
    /\ phase \in {"write_log", "install", "recover"} => tail <= Len(lh)
    /\ phase = "write_log" => \A i \in 1 .. tail : dlog[i] = cache[lh[i]]
    /\ phase = "install" => \A i \in 1 .. Len(lh) : dlog[i] = cache[lh[i]]
    /\ phase \in {"install", "recover"} => \A i \in 1 .. tail : disk[lh[i]] = dlog[i]
    /\ ~Up => cache = disk

(* What is not on disk yet is dirty, and logged. *)
PinnedLogged ==
    /\ CleanMatchesDisk
    /\ phase \in {"none", "write_log"} => dirty \subseteq Members(lh)
    /\ phase = "install" => \A b \in dirty : \E i \in tail + 1 .. Len(lh) : lh[i] = b
    /\ phase = "recover" => dirty = {}

LogInv == TypeOK /\ Reserved /\ OneCommit /\ LogOnDisk /\ PinnedLogged

----------------------------------------------------------------------------
(* Lemmas about the log header *)

(* log_write's record: the blocks in the header stay different. *)
LEMMA LoggedBlocks ==
    ASSUME lh \in Seq(Blocks), Distinct(lh), NEW b \in Blocks
    PROVE  /\ Logged(b) \in Seq(Blocks) /\ Distinct(Logged(b))
           /\ Members(Logged(b)) = Members(lh) \cup {b}
           /\ Len(Logged(b)) = IF b \in Members(lh) THEN Len(lh) ELSE Len(lh) + 1
<1>1. CASE b \in Members(lh)
  BY <1>1 DEF Logged
<1>2. CASE b \notin Members(lh)
  <2> DEFINE l == Append(lh, b)
             n == Len(lh)
  <2>1. /\ l \in Seq(Blocks) /\ Len(l) = n + 1 /\ n \in Nat
        /\ \A i \in 1 .. n : l[i] = lh[i]
        /\ l[n + 1] = b
    BY AppendProperties
  <2>2. Logged(b) = l
    BY <1>2 DEF Logged
  <2> HIDE DEF l
  <2>3. \A i \in 1 .. n : l[i] # b
    BY <1>2, <2>1 DEF Members
  <2>4. Distinct(l)
    <3> SUFFICES ASSUME NEW i \in 1 .. n + 1, NEW j \in 1 .. n + 1, l[i] = l[j] PROVE i = j
      BY <2>1 DEF Distinct
    <3>1. i \in 1 .. n \/ i = n + 1
      BY <2>1
    <3>2. j \in 1 .. n \/ j = n + 1
      BY <2>1
    <3> QED BY <2>1, <2>3, <3>1, <3>2 DEF Distinct
  <2>5. Members(l) = Members(lh) \cup {b}
    <3>1. \A i \in 1 .. n + 1 : i \in 1 .. n \/ i = n + 1
      BY <2>1
    <3>2. \A i \in 1 .. n : i \in 1 .. n + 1
      BY <2>1
    <3>3. n + 1 \in 1 .. n + 1
      BY <2>1
    <3> QED BY <2>1, <3>1, <3>2, <3>3 DEF Members
  <2> QED BY <1>2, <2>1, <2>2, <2>4, <2>5
<1> QED BY <1>1, <1>2

(* The disk after recovery, block by block. *)
LEMMA RecoveredBlocks ==
    ASSUME TypeOK, Distinct(dhead)
    PROVE  /\ \A i \in 1 .. Len(dhead) : Recovered[dhead[i]] = dlog[i]
           /\ \A b \in Blocks \ Members(dhead) : Recovered[b] = disk[b]
           /\ Recovered \in [Blocks -> Values]
<1>1. ASSUME NEW i \in 1 .. Len(dhead)
      PROVE  /\ dhead[i] \in Members(dhead) /\ dhead[i] \in Blocks
             /\ (CHOOSE j \in 1 .. Len(dhead) : dhead[j] = dhead[i]) = i
  BY DEF Distinct, Members, TypeOK
<1>2. \A i \in 1 .. Len(dhead) : Recovered[dhead[i]] = dlog[i]
  BY <1>1 DEF Recovered
<1>3. \A b \in Blocks \ Members(dhead) : Recovered[b] = disk[b]
  BY DEF Recovered
<1>4. \A i \in 1 .. Len(dhead) : dlog[i] \in Values
  BY LogAssumption DEF TypeOK
<1>5. \A b \in Blocks : Recovered[b] \in Values
  <2> SUFFICES ASSUME NEW b \in Blocks PROVE Recovered[b] \in Values
    OBVIOUS
  <2>1. CASE b \in Members(dhead)
    <3>1. PICK i \in 1 .. Len(dhead) : b = dhead[i]
      BY <2>1 DEF Members
    <3> QED BY <1>2, <1>4, <3>1
  <2>2. CASE b \notin Members(dhead)
    BY <1>3, <2>2 DEF TypeOK
  <2> QED BY <2>1, <2>2
<1>6. Recovered = [b \in Blocks |-> Recovered[b]]
  BY DEF Recovered
<1> HIDE DEF Recovered
<1> QED BY <1>2, <1>3, <1>5, <1>6

----------------------------------------------------------------------------
(* Lemmas about the reservation *)

(* There are at most MAXOPBLOCKS pairs for each process. *)
LEMMA PairsFinite ==
    ASSUME NEW A \in SUBSET Ops, NEW R \in SUBSET (A \X (1 .. MAXOPBLOCKS))
    PROVE  /\ IsFiniteSet(A) /\ IsFiniteSet(R)
           /\ Cardinality(A) \in Nat /\ Cardinality(R) \in Nat
           /\ Cardinality(R) <= Cardinality(A) * MAXOPBLOCKS
<1> DEFINE T == 1 .. MAXOPBLOCKS
<1>1. IsFiniteSet(A) /\ Cardinality(A) \in Nat
  BY LogAssumption, FS_Subset, FS_CardinalityType
<1>2. IsFiniteSet(T) /\ Cardinality(T) = MAXOPBLOCKS
  BY LogAssumption, FS_Interval
<1>3. R \in SUBSET (A \X T)
  OBVIOUS
<1> HIDE DEF T
<1>4. IsFiniteSet(A \X T) /\ Cardinality(A \X T) = Cardinality(A) * MAXOPBLOCKS
  BY <1>1, <1>2, FS_Product
<1>5. IsFiniteSet(R) /\ Cardinality(R) <= Cardinality(A \X T)
  BY <1>3, <1>4, FS_Subset
<1> QED BY <1>1, <1>4, <1>5, FS_CardinalityType

(* Each admitted operation has MAXOPBLOCKS places at most. *)
LEMMA RoomsFinite ==
    /\ IsFiniteSet(Admitted) /\ IsFiniteSet(Rooms)
    /\ Cardinality(Admitted) \in Nat /\ Cardinality(Rooms) \in Nat
    /\ Cardinality(Rooms) <= Cardinality(Admitted) * MAXOPBLOCKS
<1>1. Admitted \in SUBSET Ops /\ Rooms \in SUBSET (Admitted \X (1 .. MAXOPBLOCKS))
  BY DEF Admitted, Rooms
<1> QED BY <1>1, PairsFinite

(* The same of the next state. *)
LEMMA RoomsFiniteNext ==
    /\ IsFiniteSet(Admitted') /\ IsFiniteSet(Rooms')
    /\ Cardinality(Admitted') \in Nat /\ Cardinality(Rooms') \in Nat
    /\ Cardinality(Rooms') <= Cardinality(Admitted') * MAXOPBLOCKS
<1>1. Admitted' \in SUBSET Ops /\ Rooms' \in SUBSET (Admitted' \X (1 .. MAXOPBLOCKS))
  BY DEF Admitted, Rooms
<1> QED BY <1>1, PairsFinite

(* A step that admits nobody and leaves the header alone keeps it. *)
LEMMA KeepsReserved ==
    ASSUME Reserved, Admitted' = Admitted, UNCHANGED <<wrote, outstanding, lh>>
    PROVE  Reserved'
<1>1. Rooms' = Rooms
  BY DEF Rooms
<1> QED BY <1>1 DEF Reserved, Members

(* begin_op admits a call if all that admitted calls may write fits. *)
LEMMA BeginReserves ==
    ASSUME TypeOK, Reserved, NEW o \in Ops, BeginOp(o)
    PROVE  Reserved'
<1>1. /\ outstanding' = outstanding + 1 /\ wrote' = [wrote EXCEPT ![o] = {}]
      /\ lh' = lh /\ pc' = [pc EXCEPT ![o] = "op"] /\ pc[o] = "begin"
      /\ ~(Len(lh) + (outstanding + 1) * MAXOPBLOCKS > LOGSIZE)
  BY DEF BeginOp, MustWait, MightExhaust, Exec
<1>2. Admitted' = Admitted \cup {o} /\ o \notin Admitted
  BY <1>1 DEF Admitted, TypeOK
<1>3. Cardinality(Admitted') = Cardinality(Admitted) + 1
  BY <1>2, RoomsFinite, FS_AddElement
<1>4. outstanding' = Cardinality(Admitted')
  BY <1>1, <1>3 DEF Reserved
<1>5. Len(lh) \in Nat /\ outstanding \in Nat
  BY DEF TypeOK
<1>6. Cardinality(Rooms') <= (outstanding + 1) * MAXOPBLOCKS
  BY <1>1, <1>4, RoomsFiniteNext
<1>7. (outstanding + 1) * MAXOPBLOCKS \in Nat /\ Cardinality(Rooms') \in Nat
  BY <1>5, LogAssumption, RoomsFiniteNext
<1>8. Len(lh') + Cardinality(Rooms') <= LOGSIZE
  <2> DEFINE R == (outstanding + 1) * MAXOPBLOCKS
  <2>1. ~(Len(lh) + R > LOGSIZE)
    BY <1>1
  <2> HIDE DEF R
  <2> QED BY <1>1, <1>5, <1>6, <1>7, <2>1, LogAssumption DEF R
<1>9. \A q \in Ops : IsFiniteSet(wrote'[q]) /\ Cardinality(wrote'[q]) <= OpBlocks
  BY <1>1, FS_EmptySet, LogAssumption DEF Reserved, TypeOK
<1>10. \A q \in Admitted' : wrote'[q] \subseteq Members(lh)'
  BY <1>1, <1>2 DEF Reserved, TypeOK, Members, Admitted
<1> QED BY <1>4, <1>8, <1>9, <1>10 DEF Reserved

(* A block new to the header is one of the caller's reservation: either    *)
(* the header or what the caller may write stays as large as it was.       *)
LEMMA WriteReserved ==
    ASSUME OpBlocks <= MAXOPBLOCKS, TypeOK, Reserved, Distinct(lh),
           NEW o \in Ops, NEW b \in Blocks, NEW v \in Values, LogWrite(o, b, v)
    PROVE  Reserved'
<1> DEFINE W == wrote[o]
           n == Cardinality(W)
<1>1. /\ pc[o] = "write" /\ Cardinality(W \cup {b}) <= OpBlocks
      /\ lh' = Logged(b) /\ wrote' = [wrote EXCEPT ![o] = W \cup {b}]
      /\ pc' = [pc EXCEPT ![o] = "op"] /\ outstanding' = outstanding
  BY DEF LogWrite, Exec
<1>2. Admitted' = Admitted /\ o \in Admitted
  BY <1>1 DEF Admitted, TypeOK
<1>3. W \subseteq Members(lh) /\ IsFiniteSet(W)
  BY <1>2 DEF Reserved
<1>4. n \in Nat
  BY <1>3, FS_CardinalityType
<1>5. /\ IsFiniteSet(W \cup {b})
      /\ Cardinality(W \cup {b}) = IF b \in W THEN n ELSE n + 1
  BY <1>3, FS_AddElement
<1>6. /\ Len(Logged(b)) = IF b \in Members(lh) THEN Len(lh) ELSE Len(lh) + 1
      /\ Members(Logged(b)) = Members(lh) \cup {b}
  BY LoggedBlocks DEF TypeOK
<1>7. /\ \A q \in Ops : IsFiniteSet(wrote'[q]) /\ Cardinality(wrote'[q]) <= OpBlocks
      /\ \A q \in Admitted' : wrote'[q] \subseteq Members(lh)'
  <2>1. \A q \in Ops : wrote'[q] = IF q = o THEN W \cup {b} ELSE wrote[q]
    BY <1>1 DEF TypeOK
  <2>2. Members(lh)' = Members(lh) \cup {b}
    BY <1>1, <1>6 DEF Members
  <2>3. Admitted' \subseteq Ops
    BY <1>2 DEF Admitted
  <2> HIDE DEF W
  <2> QED BY <1>1, <1>2, <1>3, <1>5, <2>1, <2>2, <2>3 DEF Reserved, W
<1>8. Rooms' \in SUBSET Rooms
  <2> SUFFICES ASSUME NEW q \in Admitted, NEW i \in 1 .. MAXOPBLOCKS, i > Cardinality(wrote'[q])
               PROVE  i > Cardinality(wrote[q])
    BY <1>2 DEF Rooms
  <2>1. CASE q # o
    BY <1>1, <2>1 DEF TypeOK, Admitted
  <2>2. CASE q = o
    <3>1. wrote'[o] = W \cup {b}
      BY <1>1 DEF TypeOK
    <3>2. i > Cardinality(W \cup {b})
      BY <2>2, <3>1
    <3>3. i > n
      <4> HIDE DEF n, W
      <4> QED BY <1>4, <1>5, <3>2
    <3> QED BY <2>2, <3>3
  <2> QED BY <2>1, <2>2
<1>9. Cardinality(Rooms') <= Cardinality(Rooms)
  BY <1>8, RoomsFinite, FS_Subset
<1>10. CASE b \in Members(lh)
  <2>1. Len(lh) \in Nat /\ Len(lh') = Len(lh)
    BY <1>1, <1>6, <1>10 DEF TypeOK
  <2>2. Len(lh') + Cardinality(Rooms') <= LOGSIZE
    BY <1>9, <2>1, RoomsFinite, RoomsFiniteNext, LogAssumption DEF Reserved
  <2> QED BY <1>1, <1>2, <1>7, <2>2 DEF Reserved
<1>11. CASE b \notin Members(lh)
  <2>1. b \notin W /\ n + 1 <= OpBlocks /\ n + 1 \in 1 .. MAXOPBLOCKS
    <3>1. b \notin W
      BY <1>3, <1>11
    <3> HIDE DEF n, W
    <3> QED BY <1>1, <1>4, <1>5, <3>1, LogAssumption
  <2>2. <<o, n + 1>> \in Rooms
    BY <1>2, <1>4, <2>1 DEF Rooms
  <2>3. <<o, n + 1>> \notin Rooms'
    <3>1. Cardinality(wrote'[o]) = n + 1
      BY <1>1, <1>5, <2>1 DEF TypeOK
    <3> HIDE DEF n
    <3> QED BY <1>4, <3>1 DEF Rooms
  <2>4. Cardinality(Rooms') # Cardinality(Rooms)
    BY <1>8, <2>2, <2>3, RoomsFinite, FS_Subset
  <2>5. Len(lh) \in Nat /\ Len(lh') = Len(lh) + 1
    BY <1>1, <1>6, <1>11 DEF TypeOK
  <2>6. Len(lh') + Cardinality(Rooms') <= LOGSIZE
    BY <1>9, <2>4, <2>5, RoomsFinite, RoomsFiniteNext, LogAssumption DEF Reserved
  <2> QED BY <1>1, <1>2, <1>7, <2>6 DEF Reserved
<1> QED BY <1>10, <1>11

(* end_op gives the caller's rooms back. *)
LEMMA EndReserved ==
    ASSUME TypeOK, Reserved, NEW o \in Ops, o \in Admitted, Admitted' = Admitted \ {o},
           outstanding' = Ended, UNCHANGED <<wrote, lh>>
    PROVE  Reserved'
<1>1. Cardinality(Admitted') = Cardinality(Admitted) - 1
  BY RoomsFinite, FS_RemoveElement
<1>2. outstanding' = Cardinality(Admitted')
  BY <1>1 DEF Reserved, Ended
<1>3. Rooms' \in SUBSET Rooms
  BY DEF Rooms
<1>4. Cardinality(Rooms') <= Cardinality(Rooms)
  BY <1>3, RoomsFinite, FS_Subset
<1>5. Len(lh) \in Nat
  BY DEF TypeOK
<1>6. Len(lh') + Cardinality(Rooms') <= LOGSIZE
  BY <1>4, <1>5, RoomsFinite, RoomsFiniteNext, LogAssumption DEF Reserved
<1> QED BY <1>2, <1>6 DEF Reserved, Members

(* Nobody is admitted: any header that fits is in order. *)
LEMMA NobodyReserved ==
    ASSUME Admitted' = {}, outstanding' = 0, Len(lh') \in Nat, Len(lh') <= LOGSIZE,
           \A o \in Ops : IsFiniteSet(wrote'[o]) /\ Cardinality(wrote'[o]) <= OpBlocks
    PROVE  Reserved'
<1>1. Rooms' = {}
  BY DEF Rooms
<1>2. Cardinality({}) = 0
  BY FS_EmptySet
<1> QED BY <1>1, <1>2, LogAssumption DEF Reserved

----------------------------------------------------------------------------
(* Steps *)

(* A step that touches neither blocks nor the header. *)
LEMMA KeepsBlocks ==
    ASSUME LogOnDisk, PinnedLogged,
           UNCHANGED <<disk, dlog, dhead, cache, dirty, lh, phase, tail>>
    PROVE  LogOnDisk' /\ PinnedLogged'
BY DEF LogOnDisk, PinnedLogged, CleanMatchesDisk, Distinct, Members, Up

(* While a call is admitted nothing is being committed or recovered. *)
LEMMA QuietWhileAdmitted ==
    ASSUME TypeOK, OneCommit, NEW o \in Ops, pc[o] \in {"op", "write"}, ~Stopped
    PROVE  phase = "none" /\ ~committing /\ o \in Admitted
<1>1. o \in Admitted
  BY DEF Admitted
<1>2. ~committing /\ Up
  BY <1>1 DEF OneCommit
<1> QED BY <1>1, <1>2 DEF OneCommit, TypeOK, Phases, Up, Stopped

(* The invariant holds on a disk with an empty log. *)
LEMMA LogInit == Init => LogInv
<1> SUFFICES ASSUME Init PROVE LogInv
  OBVIOUS
<1>1. TypeOK
  <2>1. <<>> \in Seq(Blocks) /\ Len(<<>>) = 0
    BY EmptySeq
  <2>2. 0 \in 0 .. LOGSIZE /\ 0 <= LOGSIZE
    BY LogAssumption
  <2>3. pc \in [Ops -> {"idle", "begin", "asleep", "op", "write", "end"}]
        /\ wrote \in [Ops -> SUBSET Blocks]
    BY DEF Init
  <2> QED BY <2>1, <2>2, <2>3 DEF Init, TypeOK, Phases
<1>2. Admitted = {} /\ Rooms = {}
  BY DEF Init, Admitted, Rooms
<1>3. Reserved
  <2>1. Cardinality({}) = 0 /\ IsFiniteSet({})
    BY FS_EmptySet
  <2>2. Len(<<>>) = 0
    OBVIOUS
  <2>3. \A o \in Ops : wrote[o] = {}
    BY DEF Init
  <2> QED BY <1>2, <2>1, <2>2, <2>3, LogAssumption DEF Init, Reserved
<1>4. OneCommit
  BY <1>2 DEF Init, OneCommit, Up
<1>5. LogOnDisk
  BY DEF Init, LogOnDisk, Distinct, Up
<1>6. PinnedLogged
  BY DEF Init, PinnedLogged, CleanMatchesDisk
<1> QED BY <1>1, <1>3, <1>4, <1>5, <1>6 DEF LogInv

(* Every step keeps the invariant, a crash included. *)
LEMMA LogStep ==
    ASSUME OpBlocks <= MAXOPBLOCKS
    PROVE  LogInv /\ [Next]_vars => LogInv'
<1> SUFFICES ASSUME LogInv, [Next]_vars PROVE LogInv'
  OBVIOUS
<1>a. TypeOK /\ Reserved /\ OneCommit /\ LogOnDisk /\ PinnedLogged
  BY DEF LogInv
<1>b. lh \in Seq(Blocks) /\ Len(lh) \in Nat /\ Len(lh) <= LOGSIZE /\ LOGSIZE \in Nat
  BY <1>a, LogAssumption DEF TypeOK
<1>1. ASSUME NEW o \in Ops, Call(o) \/ BeginSleep(o) \/ LogCheck(o) PROVE LogInv'
  <2>1. /\ UNCHANGED <<disk, dlog, dhead, cache, dirty, lh, outstanding, committing,
                       wrote, phase, tail>>
        /\ \/ pc[o] = "idle" /\ pc' = [pc EXCEPT ![o] = "begin"] /\ Up
           \/ pc[o] = "begin" /\ pc' = [pc EXCEPT ![o] = "asleep"]
           \/ pc[o] = "op" /\ pc' = [pc EXCEPT ![o] = "write"]
    BY <1>1 DEF Call, BeginSleep, LogCheck, Exec
  <2>2. TypeOK'
    BY <1>a, <2>1 DEF TypeOK
  <2>3. Admitted' = Admitted
    BY <1>a, <2>1 DEF TypeOK, Admitted
  <2>4. Reserved'
    BY <1>a, <2>1, <2>3, KeepsReserved
  <2>5. OneCommit'
    BY <1>a, <2>1, <2>3 DEF OneCommit, TypeOK, Up
  <2> QED BY <1>a, <2>1, <2>2, <2>4, <2>5, KeepsBlocks DEF LogInv
<1>2. ASSUME NEW o \in Ops, BeginOp(o) PROVE LogInv'
  <2>1. /\ UNCHANGED <<disk, dlog, dhead, cache, dirty, lh, committing, phase, tail>>
        /\ outstanding' = outstanding + 1 /\ wrote' = [wrote EXCEPT ![o] = {}]
        /\ pc[o] = "begin" /\ pc' = [pc EXCEPT ![o] = "op"] /\ ~committing
    BY <1>2 DEF BeginOp, MustWait, Exec
  <2>2. TypeOK'
    BY <1>a, <2>1 DEF TypeOK
  <2>3. Reserved'
    BY <1>2, <1>a, BeginReserves
  <2>4. OneCommit'
    BY <1>a, <2>1 DEF OneCommit, TypeOK, Up
  <2> QED BY <1>a, <2>1, <2>2, <2>3, <2>4, KeepsBlocks DEF LogInv
<1>3. ASSUME NEW o \in Ops, NEW b \in Blocks, NEW v \in Values, LogWrite(o, b, v) PROVE LogInv'
  <2>1. /\ pc[o] = "write" /\ ~Stopped /\ pc' = [pc EXCEPT ![o] = "op"]
        /\ cache' = [cache EXCEPT ![b] = v] /\ lh' = Logged(b) /\ dirty' = dirty \cup {b}
        /\ wrote' = [wrote EXCEPT ![o] = @ \cup {b}]
        /\ UNCHANGED <<disk, dlog, dhead, outstanding, committing, phase, tail>>
    BY <1>3 DEF LogWrite, Pinned, Exec
  <2>2. /\ lh' \in Seq(Blocks) /\ Distinct(lh')
        /\ Members(lh') = Members(lh) \cup {b}
    BY <1>a, <1>b, <2>1, LoggedBlocks DEF LogOnDisk
  <2>3. phase = "none" /\ ~committing /\ o \in Admitted
    BY <1>a, <2>1, QuietWhileAdmitted
  <2>4. Reserved'
    BY <1>3, <1>a, WriteReserved DEF LogOnDisk
  <2>5. Len(lh') <= LOGSIZE
    BY <2>2, <2>4, RoomsFiniteNext, LogAssumption DEF Reserved
  <2>6. TypeOK'
    BY <1>a, <2>1, <2>2, <2>5 DEF TypeOK
  <2>7. OneCommit'
    <3>1. Admitted' = Admitted
      BY <1>a, <2>1 DEF TypeOK, Admitted
    <3> QED BY <1>a, <2>1, <3>1 DEF OneCommit, TypeOK, Up
  <2>8. LogOnDisk'
    BY <1>a, <2>1, <2>2, <2>3 DEF LogOnDisk, Distinct, Up
  <2>9. PinnedLogged'
    <3>1. CleanMatchesDisk'
      BY <1>a, <2>1 DEF PinnedLogged, CleanMatchesDisk, TypeOK
    <3>2. dirty' \subseteq Members(lh')
      BY <1>a, <2>1, <2>2, <2>3 DEF PinnedLogged
    <3> QED BY <2>1, <2>3, <3>1, <3>2 DEF PinnedLogged, Members
  <2> QED BY <2>4, <2>6, <2>7, <2>8, <2>9 DEF LogInv
<1>4. ASSUME NEW o \in Ops, EndOp(o) PROVE LogInv'
  <2>1. /\ pc[o] = "op" /\ ~Stopped /\ outstanding' = Ended /\ tail' = 0
        /\ UNCHANGED <<disk, dlog, dhead, cache, dirty, lh, wrote>>
        /\ \/ /\ StartsCommit /\ committing' = TRUE /\ pc' = [pc EXCEPT ![o] = "end"]
              /\ phase' = IF lh # <<>> THEN "write_log" ELSE "none"
           \/ /\ ~StartsCommit /\ pc' = [Woken EXCEPT ![o] = "idle"]
              /\ UNCHANGED <<committing, phase>>
    BY <1>4 DEF EndOp, Exec
  <2>2. phase = "none" /\ ~committing /\ o \in Admitted
    BY <1>a, <2>1, QuietWhileAdmitted
  <2>3. pc' \in [Ops -> {"idle", "begin", "asleep", "op", "write", "end"}]
    BY <1>a, <2>1 DEF TypeOK, Woken
  <2>4. \A q \in Ops \ {o} :
            /\ pc'[q] \in {"op", "write"} <=> pc[q] \in {"op", "write"}
            /\ pc'[q] = "end" <=> pc[q] = "end"
    BY <1>a, <2>1 DEF TypeOK, Woken
  <2>5. pc'[o] \in {"end", "idle"} /\ (pc'[o] = "end" => StartsCommit)
    BY <1>a, <2>1 DEF TypeOK, Woken
  <2>6. Admitted' = Admitted \ {o}
    BY <2>4, <2>5 DEF Admitted
  <2>7. Reserved'
    BY <1>a, <2>1, <2>2, <2>6, EndReserved
  <2>8. StartsCommit => Admitted' = {}
    <3>1. outstanding' = Cardinality(Admitted') /\ (Cardinality(Admitted') = 0 => Admitted' = {})
      BY <2>7, RoomsFiniteNext, FS_EmptySet DEF Reserved
    <3> QED BY <2>1, <3>1 DEF StartsCommit
  <2>9. outstanding' \in Nat
    BY <2>7, RoomsFiniteNext DEF Reserved
  <2>10. TypeOK'
    <3>1. tail' \in 0 .. LOGSIZE
      BY <1>b, <2>1
    <3>2. phase' \in Phases /\ committing' \in BOOLEAN
      BY <1>a, <2>1, <2>2 DEF TypeOK, Phases
    <3> QED BY <1>a, <2>1, <2>3, <2>9, <3>1, <3>2 DEF TypeOK
  <2>11. OneCommit'
    <3>1. \A q \in Ops : pc[q] # "end"
      BY <1>a, <2>2 DEF OneCommit
    <3>2. \A q \in Ops : pc'[q] = "end" => q = o /\ StartsCommit
      BY <2>4, <2>5, <3>1
    <3> QED BY <2>1, <2>2, <2>8, <3>2 DEF OneCommit, Up
  <2>12. LogOnDisk'
    BY <1>a, <1>b, <2>1, <2>2 DEF LogOnDisk, Distinct, Up
  <2>13. PinnedLogged'
    BY <1>a, <2>1, <2>2 DEF PinnedLogged, CleanMatchesDisk, Members
  <2> QED BY <2>7, <2>10, <2>11, <2>12, <2>13 DEF LogInv
<1>5. ASSUME NEW o \in Ops, EndCommit(o) PROVE LogInv'
  <2>1. /\ pc[o] = "end" /\ phase = "none" /\ committing' = FALSE
        /\ pc' = [Woken EXCEPT ![o] = "idle"]
        /\ UNCHANGED <<disk, dlog, dhead, cache, dirty, lh, outstanding, wrote, phase, tail>>
    BY <1>5 DEF EndCommit
  <2>2. TypeOK'
    BY <1>a, <2>1 DEF TypeOK, Woken
  <2>3. /\ \A q \in Ops : pc'[q] \in {"op", "write"} <=> pc[q] \in {"op", "write"}
        /\ \A q \in Ops : pc'[q] = "end" <=> pc[q] = "end" /\ q # o
    BY <1>a, <2>1 DEF TypeOK, Woken
  <2>4. Reserved'
    <3>1. Admitted' = Admitted
      BY <2>3 DEF Admitted
    <3> QED BY <1>a, <2>1, <3>1, KeepsReserved
  <2>5. OneCommit'
    BY <1>a, <2>1, <2>3 DEF OneCommit, Up
  <2> QED BY <1>a, <2>1, <2>2, <2>4, <2>5, KeepsBlocks DEF LogInv
<1>6. ASSUME WriteLog PROVE LogInv'
  <2>1. /\ phase = "write_log" /\ tail < Len(lh)
        /\ dlog' = [dlog EXCEPT ![tail + 1] = cache[lh[tail + 1]]] /\ tail' = tail + 1
        /\ UNCHANGED <<disk, dhead, cache, dirty, lh, phase, outstanding, committing,
                       pc, wrote>>
    BY <1>6 DEF WriteLog, mem
  <2>2. tail \in Nat /\ tail + 1 \in 1 .. Len(lh) /\ tail + 1 \in 1 .. LOGSIZE
    BY <1>a, <1>b, <2>1 DEF TypeOK
  <2>3. lh[tail + 1] \in Blocks
    BY <1>b, <2>2
  <2>4. TypeOK'
    BY <1>a, <2>1, <2>2, <2>3 DEF TypeOK
  <2>5. Reserved' /\ OneCommit'
    <3>1. Admitted' = Admitted
      BY <2>1 DEF Admitted
    <3>2. Reserved'
      BY <1>a, <2>1, <3>1, KeepsReserved
    <3> QED BY <1>a, <2>1, <3>1, <3>2 DEF OneCommit, Up
  <2>6. LogOnDisk'
    <3>1. \A i \in 1 .. tail + 1 : dlog'[i] = cache[lh[i]]
      <4> SUFFICES ASSUME NEW i \in 1 .. tail + 1 PROVE dlog'[i] = cache[lh[i]]
        OBVIOUS
      <4>1. i \in 1 .. LOGSIZE /\ (i \in 1 .. tail \/ i = tail + 1)
        BY <1>b, <2>2
      <4>2. CASE i = tail + 1
        BY <1>a, <2>1, <2>2, <4>2 DEF TypeOK
      <4>3. CASE i # tail + 1
        BY <1>a, <2>1, <4>1, <4>3 DEF TypeOK, LogOnDisk
      <4> QED BY <4>2, <4>3
    <3> QED BY <1>a, <1>b, <2>1, <2>2, <3>1 DEF LogOnDisk, Distinct, Up
  <2>7. PinnedLogged'
    BY <1>a, <2>1 DEF PinnedLogged, CleanMatchesDisk, Members
  <2> QED BY <2>4, <2>5, <2>6, <2>7 DEF LogInv
<1>7. ASSUME CommitHead PROVE LogInv'
  <2>1. /\ phase = "write_log" /\ tail = Len(lh) /\ dhead' = lh /\ phase' = "install" /\ tail' = 0
        /\ UNCHANGED <<disk, dlog, cache, dirty, lh, outstanding, committing, pc, wrote>>
    BY <1>7 DEF CommitHead, HeadReady, mem
  <2>2. TypeOK'
    BY <1>a, <1>b, <2>1 DEF TypeOK, Phases
  <2>3. Reserved' /\ OneCommit'
    <3>1. Admitted' = Admitted
      BY <2>1 DEF Admitted
    <3>2. Reserved'
      BY <1>a, <2>1, <3>1, KeepsReserved
    <3> QED BY <1>a, <2>1, <3>1, <3>2 DEF OneCommit, Up
  <2>4. LogOnDisk'
    BY <1>a, <1>b, <2>1 DEF LogOnDisk, Distinct, Up
  <2>5. PinnedLogged'
    BY <1>a, <1>b, <2>1 DEF PinnedLogged, CleanMatchesDisk, Members
  <2> QED BY <2>2, <2>3, <2>4, <2>5 DEF LogInv
<1>8. ASSUME Install PROVE LogInv'
  <2> DEFINE b == lh[tail + 1]
  <2>1. /\ phase \in {"install", "recover"} /\ tail < Len(lh) /\ tail' = tail + 1
        /\ cache' = [cache EXCEPT ![b] = dlog[tail + 1]]
        /\ disk' = [disk EXCEPT ![b] = dlog[tail + 1]]
        /\ dirty' = dirty \ {b}
        /\ UNCHANGED <<dlog, dhead, lh, phase, outstanding, committing, pc, wrote>>
    BY <1>8 DEF Install, mem
  <2>2. tail \in Nat /\ tail + 1 \in 1 .. Len(lh) /\ tail + 1 \in 1 .. LOGSIZE
    BY <1>a, <1>b, <2>1 DEF TypeOK
  <2>3. b \in Blocks /\ dlog[tail + 1] \in Values
    BY <1>a, <1>b, <2>2 DEF TypeOK
  <2>4. \A i \in 1 .. Len(lh) : lh[i] \in Blocks /\ (lh[i] = b => i = tail + 1)
    BY <1>a, <1>b, <2>2 DEF LogOnDisk, Distinct
  <2>5. TypeOK'
    BY <1>a, <2>1, <2>2, <2>3 DEF TypeOK
  <2>6. Reserved' /\ OneCommit'
    <3>1. Admitted' = Admitted
      BY <2>1 DEF Admitted
    <3>2. Reserved'
      BY <1>a, <2>1, <3>1, KeepsReserved
    <3> QED BY <1>a, <2>1, <3>1, <3>2 DEF OneCommit, Up
  <2>7. LogOnDisk'
    <3>1. \A i \in 1 .. tail + 1 : disk'[lh[i]] = dlog[i]
      <4> SUFFICES ASSUME NEW i \in 1 .. tail + 1 PROVE disk'[lh[i]] = dlog[i]
        OBVIOUS
      <4>1. i \in 1 .. Len(lh) /\ (i \in 1 .. tail \/ i = tail + 1)
        BY <1>b, <2>2
      <4>2. CASE i = tail + 1
        BY <1>a, <2>1, <2>3, <4>2 DEF TypeOK
      <4>3. CASE i # tail + 1
        BY <1>a, <2>1, <2>3, <2>4, <4>1, <4>3 DEF TypeOK, LogOnDisk
      <4> QED BY <4>2, <4>3
    <3>2. phase = "install" => cache' = cache
      BY <1>a, <2>1, <2>2, <2>3 DEF LogOnDisk, TypeOK
    <3>3. phase = "recover" => cache' = disk'
      BY <1>a, <2>1 DEF LogOnDisk, Up
    <3> HIDE DEF b
    <3> QED BY <1>a, <1>b, <2>1, <2>2, <3>1, <3>2, <3>3 DEF LogOnDisk, Distinct, Up
  <2>8. PinnedLogged'
    <3>1. CleanMatchesDisk'
      BY <1>a, <2>1, <2>3 DEF PinnedLogged, CleanMatchesDisk, TypeOK
    <3>2. phase = "install" => \A d \in dirty' : \E i \in tail + 2 .. Len(lh) : lh[i] = d
      <4> SUFFICES ASSUME phase = "install", NEW d \in dirty'
                   PROVE  \E i \in tail + 2 .. Len(lh) : lh[i] = d
        OBVIOUS
      <4>1. PICK i \in tail + 1 .. Len(lh) : lh[i] = d
        BY <1>a, <2>1 DEF PinnedLogged
      <4>2. i # tail + 1
        BY <2>1, <4>1
      <4> QED BY <1>b, <2>2, <4>1, <4>2
    <3>3. phase = "recover" => dirty' = {}
      BY <1>a, <2>1 DEF PinnedLogged
    <3>4. tail' + 1 = tail + 2
      BY <2>1, <2>2
    <3> HIDE DEF b
    <3> QED BY <2>1, <3>1, <3>2, <3>3, <3>4 DEF PinnedLogged
  <2> QED BY <2>5, <2>6, <2>7, <2>8 DEF LogInv
<1>9. ASSUME ClearHead PROVE LogInv'
  <2>1. /\ phase \in {"install", "recover"} /\ tail = Len(lh)
        /\ lh' = <<>> /\ dhead' = <<>> /\ phase' = "none" /\ tail' = 0
        /\ UNCHANGED <<disk, dlog, cache, dirty, outstanding, committing, pc, wrote>>
    BY <1>9 DEF ClearHead, Installed, mem
  <2>2. <<>> \in Seq(Blocks) /\ Len(<<>>) = 0
    BY EmptySeq
  <2>3. TypeOK'
    BY <1>a, <1>b, <2>1, <2>2 DEF TypeOK, Phases
  <2>4. Admitted = {} /\ Admitted' = Admitted
    BY <1>a, <2>1 DEF OneCommit, Admitted, Up
  <2>5. Reserved'
    <3>1. outstanding' = 0
      BY <1>a, <2>1, <2>4, FS_EmptySet DEF Reserved
    <3> QED BY <1>a, <1>b, <2>1, <2>2, <2>4, <3>1, NobodyReserved DEF Reserved
  <2>6. OneCommit'
    BY <1>a, <2>1, <2>4 DEF OneCommit, Up
  <2>7. LogOnDisk'
    BY <2>1, <2>2 DEF LogOnDisk, Distinct, Up
  <2>8. PinnedLogged'
    <3>1. dirty = {}
      <4>1. \A i \in tail + 1 .. Len(lh) : FALSE
        BY <1>b, <2>1
      <4> QED BY <1>a, <2>1, <4>1 DEF PinnedLogged
    <3> QED BY <1>a, <2>1, <3>1 DEF PinnedLogged, CleanMatchesDisk
  <2> QED BY <2>3, <2>5, <2>6, <2>7, <2>8 DEF LogInv
<1>10. ASSUME Reboot PROVE LogInv'
  <2>1. /\ cache' = disk /\ dirty' = {}
        /\ lh' = dhead /\ outstanding' = 0 /\ committing' = FALSE
        /\ pc' = [o \in Ops |-> "idle"] /\ wrote' = [o \in Ops |-> {}]
        /\ phase' = "recover" /\ tail' = 0 /\ UNCHANGED <<disk, dlog, dhead>>
    BY <1>10 DEF Reboot
  <2>2. TypeOK'
    <3>1. tail' \in 0 .. LOGSIZE
      BY <1>a, <1>b, <2>1, LogAssumption DEF TypeOK
    <3>2. pc' \in [Ops -> {"idle", "begin", "asleep", "op", "write", "end"}]
          /\ wrote' \in [Ops -> SUBSET Blocks]
      BY <2>1
    <3>3. phase' \in Phases
      BY <2>1 DEF Phases
    <3> QED BY <1>a, <2>1, <3>1, <3>2, <3>3 DEF TypeOK
  <2>3. Admitted' = {}
    BY <2>1 DEF Admitted
  <2>4. Reserved'
    <3>1. IsFiniteSet({}) /\ Cardinality({}) = 0
      BY FS_EmptySet
    <3>2. \A o \in Ops : IsFiniteSet(wrote'[o]) /\ Cardinality(wrote'[o]) <= OpBlocks
      BY <2>1, <3>1, LogAssumption
    <3>3. Len(lh') \in Nat /\ Len(lh') <= LOGSIZE
      BY <2>2 DEF TypeOK
    <3> QED BY <2>1, <2>3, <3>2, <3>3, NobodyReserved
  <2>5. OneCommit'
    BY <2>1, <2>3 DEF OneCommit, Up
  <2>6. LogOnDisk'
    BY <1>a, <2>1, <2>2 DEF LogOnDisk, Distinct, Up, TypeOK
  <2>7. PinnedLogged'
    BY <2>1 DEF PinnedLogged, CleanMatchesDisk
  <2> QED BY <2>2, <2>4, <2>5, <2>6, <2>7 DEF LogInv
<1>11. CASE Halted \/ UNCHANGED vars
  <2>1. Admitted' = Admitted
    BY <1>11 DEF Halted, vars, Admitted
  <2> QED BY <1>a, <1>11, <2>1, KeepsReserved, KeepsBlocks DEF Halted, vars, LogInv, TypeOK, OneCommit, Up
<1>12. ASSUME UNCHANGED <<disk, dlog, dhead, cache, dirty, lh, outstanding, committing, pc, wrote, tail>>,
              phase' \in {"panic", "overrun"}, phase \in {"none", "write_log"}
       PROVE LogInv'
  <2>2. TypeOK'
    BY <1>a, <1>12 DEF TypeOK, Phases
  <2>3. Admitted' = Admitted
    BY <1>12 DEF Admitted
  <2>4. Reserved'
    BY <1>a, <1>12, <2>3, KeepsReserved
  <2>5. OneCommit'
    BY <1>a, <1>12, <2>3 DEF OneCommit, Up
  <2>6. LogOnDisk'
    BY <1>a, <1>12 DEF LogOnDisk, Distinct, Up
  <2>7. PinnedLogged'
    BY <1>a, <1>12 DEF PinnedLogged, CleanMatchesDisk
  <2> QED BY <2>2, <2>4, <2>5, <2>6, <2>7 DEF LogInv
<1>13. ASSUME NEW o \in Ops, LogPanic(o) PROVE LogInv'
  BY <1>a, <1>12, <1>13, QuietWhileAdmitted DEF LogPanic, Exec
<1>14. ASSUME WritePast PROVE LogInv'
  BY <1>12, <1>14 DEF WritePast, mem
<1> QED BY <1>1, <1>2, <1>3, <1>4, <1>5, <1>6, <1>7, <1>8, <1>9, <1>10, <1>11, <1>13, <1>14 DEF Next

----------------------------------------------------------------------------
(* The invariant holds throughout: with it the header stays within LOGSIZE *)
(* although log_write looks at its size before it takes the lock, and one  *)
(* process commits at a time.                                              *)
THEOREM LogSafe == ASSUME OpBlocks <= MAXOPBLOCKS PROVE Spec => []LogInv
BY LogInit, LogStep, PTL DEF Spec

(* Every variable keeps its type. *)
THEOREM LogTypeCorrect == ASSUME OpBlocks <= MAXOPBLOCKS PROVE Spec => []TypeOK
BY LogSafe, PTL DEF LogInv

(* A block the cache may drop is the same on disk (log_write's pin,        *)
(* install_trans).                                                         *)
THEOREM CleanSafe == ASSUME OpBlocks <= MAXOPBLOCKS PROVE Spec => []CleanMatchesDisk
<1>1. LogInv => CleanMatchesDisk
  BY DEF LogInv, PinnedLogged
<1> QED BY <1>1, LogSafe, PTL

(* A call that begin_op admitted has a place in log.lh.block for each of   *)
(* the blocks reserved for it, however the others' checks and writes       *)
(* interleave (log.c:131, 216-225) and whatever the size of the log on     *)
(* disk.  (On disk it may have none: AdmittedFits.)                        *)
THEOREM ReservationSafe == ASSUME OpBlocks <= MAXOPBLOCKS PROVE Spec => []ReservationKept
<1>1. LogInv => ReservationKept
  <2> SUFFICES ASSUME LogInv, NEW o \in Ops, pc[o] \in {"op", "write"}, Cardinality(wrote[o]) < MAXOPBLOCKS
               PROVE  Len(lh) < LOGSIZE
    BY DEF ReservationKept
  <2> DEFINE n == Cardinality(wrote[o])
  <2>1. n \in Nat /\ n + 1 \in 1 .. MAXOPBLOCKS
    <3>1. IsFiniteSet(wrote[o])
      BY DEF LogInv, Reserved
    <3>2. n \in Nat
      BY <3>1, FS_CardinalityType
    <3> QED BY <3>2, LogAssumption
  <2>2. <<o, n + 1>> \in Rooms
    BY <2>1 DEF Rooms, Admitted
  <2>3. Cardinality(Rooms) # 0
    BY <2>2, RoomsFinite, FS_EmptySet
  <2>4. Len(lh) \in Nat /\ Len(lh) + Cardinality(Rooms) <= LOGSIZE
    BY DEF LogInv, TypeOK, Reserved
  <2> QED BY <2>3, <2>4, RoomsFinite, LogAssumption
<1> QED BY <1>1, LogSafe, PTL

----------------------------------------------------------------------------
(* Atomicity *)

(* Once everything is copied, the home blocks are what recovery would find. *)
LEMMA InstalledIsDurable ==
    ASSUME LogInv, ClearHead
    PROVE  Recovered = disk /\ Recovered' = disk
<1>1. TypeOK /\ LogOnDisk /\ phase \in {"install", "recover"} /\ tail = Len(lh)
  BY DEF LogInv, ClearHead, Installed
<1>2. dhead = lh /\ \A i \in 1 .. Len(dhead) : disk[dhead[i]] = dlog[i]
  BY <1>1 DEF LogOnDisk
<1>3. \A b \in Blocks : Recovered[b] = disk[b]
  <2> SUFFICES ASSUME NEW b \in Members(dhead) PROVE Recovered[b] = disk[b]
    BY <1>1, RecoveredBlocks DEF LogOnDisk
  <2>1. PICK i \in 1 .. Len(dhead) : b = dhead[i]
    BY DEF Members
  <2> QED BY <1>1, <1>2, <2>1, RecoveredBlocks DEF LogOnDisk
<1>4. Recovered \in [Blocks -> Values] /\ disk \in [Blocks -> Values]
  BY <1>1, RecoveredBlocks DEF LogOnDisk, TypeOK
<1>5. Recovered = disk
  <2> HIDE DEF Recovered
  <2> QED BY <1>3, <1>4
<1>6. Recovered' = disk
  <2>1. dhead' = <<>> /\ disk' = disk
    BY DEF ClearHead
  <2>2. Members(dhead)' = {}
    BY <2>1 DEF Members
  <2>3. Recovered' = [b \in Blocks |-> disk[b]]
    BY <2>1, <2>2 DEF Recovered
  <2> QED BY <2>3, <1>4
<1> QED BY <1>5, <1>6

(* The header makes the blocks as the calls see them durable, all at once. *)
LEMMA HeadCommitsAll ==
    ASSUME LogInv, CommitHead
    PROVE  Recovered' = cache
<1>1. /\ TypeOK /\ LogOnDisk /\ PinnedLogged /\ phase = "write_log" /\ tail = Len(lh)
      /\ dhead' = lh /\ UNCHANGED <<disk, dlog, cache>>
  BY DEF LogInv, CommitHead, HeadReady
<1>2. \A i \in 1 .. Len(lh) : dlog[i] = cache[lh[i]]
  BY <1>1 DEF LogOnDisk
<1>3. \A b \in Blocks \ Members(lh) : cache[b] = disk[b]
  BY <1>1 DEF PinnedLogged, CleanMatchesDisk
<1>4. Recovered' = [b \in Blocks |->
          IF b \in Members(lh) THEN dlog[CHOOSE i \in 1 .. Len(lh) : lh[i] = b] ELSE disk[b]]
  BY <1>1 DEF Recovered, Members
<1>5. ASSUME NEW b \in Members(lh)
      PROVE  dlog[CHOOSE i \in 1 .. Len(lh) : lh[i] = b] = cache[b]
  <2> DEFINE k == CHOOSE i \in 1 .. Len(lh) : lh[i] = b
  <2>1. k \in 1 .. Len(lh) /\ lh[k] = b
    BY DEF Members
  <2> HIDE DEF k
  <2>2. dlog[k] = cache[b]
    BY <1>2, <2>1
  <2> QED BY <2>2 DEF k
<1>6. Recovered' = [b \in Blocks |-> cache[b]]
  <2> DEFINE At(b) == dlog[CHOOSE i \in 1 .. Len(lh) : lh[i] = b]
  <2>1. Recovered' = [b \in Blocks |-> IF b \in Members(lh) THEN At(b) ELSE disk[b]]
    BY <1>4
  <2>2. \A b \in Members(lh) : At(b) = cache[b]
    BY <1>5
  <2> HIDE DEF At, Members
  <2>3. \A b \in Blocks : (IF b \in Members(lh) THEN At(b) ELSE disk[b]) = cache[b]
    BY <1>3, <2>2
  <2> QED BY <2>1, <2>3
<1> QED BY <1>1, <1>6 DEF TypeOK

(* The copies of commit and of recovery change nothing that a crash would  *)
(* leave.                                                                  *)
LEMMA InstallKeepsDurable ==
    ASSUME LogInv, Install
    PROVE  Recovered' = Recovered
<1> DEFINE b == lh[tail + 1]
<1>1. /\ phase \in {"install", "recover"} /\ tail < Len(lh)
      /\ disk' = [disk EXCEPT ![b] = dlog[tail + 1]] /\ UNCHANGED <<dlog, dhead>>
  BY DEF Install
<1>2. TypeOK /\ dhead = lh
  BY <1>1 DEF LogInv, LogOnDisk
<1>3. tail + 1 \in 1 .. Len(dhead)
  BY <1>1, <1>2 DEF TypeOK
<1>4. b \in Members(dhead)
  BY <1>2, <1>3 DEF Members
<1>5. \A c \in Blocks : c \notin Members(dhead) => disk'[c] = disk[c]
  BY <1>1, <1>2, <1>4 DEF TypeOK
<1>6. Members(dhead)' = Members(dhead)
  BY <1>1 DEF Members
<1> HIDE DEF b
<1> QED BY <1>1, <1>5, <1>6 DEF Recovered

(* FS system calls are atomic across crashes: the log implements LogAbs.   *)
THEOREM LogAtomic == ASSUME OpBlocks <= MAXOPBLOCKS PROVE Spec => Atomic
<1> DEFINE Current == IF Up THEN cache ELSE Recovered
<1>1. Init => LA!Init
  <2> SUFFICES ASSUME Init PROVE LA!Init
    OBVIOUS
  <2>1. LogInv
    BY LogInit
  <2>2. ~Up /\ outstanding = 0 /\ Recovered \in [Blocks -> Values]
    BY <2>1, RecoveredBlocks DEF Init, Up, LogInv, LogOnDisk
  <2> HIDE DEF Recovered
  <2> QED BY <2>2 DEF LA!Init
<1>2. LogInv /\ [Next]_vars => [LA!Next]_<<Current, Recovered, outstanding>>
  <2> SUFFICES ASSUME LogInv, [Next]_vars
               PROVE  [LA!Next]_<<Current, Recovered, outstanding>>
    OBVIOUS
  <2>a. TypeOK /\ Reserved /\ OneCommit /\ LogOnDisk
    BY DEF LogInv
  <2>b. ASSUME UNCHANGED <<disk, dhead>>,
               \A i \in 1 .. Len(dhead) : dlog'[i] = dlog[i]
        PROVE  Recovered' = Recovered
    <3>1. Recovered' = [b \in Blocks |->
            IF b \in Members(dhead) THEN dlog'[CHOOSE i \in 1 .. Len(dhead) : dhead[i] = b] ELSE disk[b]]
      BY <2>b DEF Recovered, Members
    <3>2. ASSUME NEW b \in Members(dhead)
          PROVE  dlog'[CHOOSE i \in 1 .. Len(dhead) : dhead[i] = b]
                   = dlog[CHOOSE i \in 1 .. Len(dhead) : dhead[i] = b]
      <4>1. (CHOOSE i \in 1 .. Len(dhead) : dhead[i] = b) \in 1 .. Len(dhead)
        BY DEF Members
      <4> QED BY <2>b, <4>1
    <3> DEFINE Old(b) == dlog[CHOOSE i \in 1 .. Len(dhead) : dhead[i] = b]
               New(b) == dlog'[CHOOSE i \in 1 .. Len(dhead) : dhead[i] = b]
    <3>3. /\ Recovered' = [b \in Blocks |-> IF b \in Members(dhead) THEN New(b) ELSE disk[b]]
          /\ Recovered  = [b \in Blocks |-> IF b \in Members(dhead) THEN Old(b) ELSE disk[b]]
      BY <3>1 DEF Recovered
    <3>4. \A b \in Members(dhead) : New(b) = Old(b)
      BY <3>2
    <3> HIDE DEF Old, New, Members, Recovered
    <3>5. \A b \in Blocks : (IF b \in Members(dhead) THEN New(b) ELSE disk[b])
                              = (IF b \in Members(dhead) THEN Old(b) ELSE disk[b])
      BY <3>4
    <3> QED BY <3>3, <3>5
  <2>c. ASSUME NEW o \in Admitted PROVE outstanding > 0
    BY <2>a, RoomsFinite, FS_EmptySet DEF Reserved
  <2>1. ASSUME NEW o \in Ops, Call(o) \/ BeginSleep(o) \/ LogCheck(o) \/ EndCommit(o)
        PROVE  UNCHANGED <<Current, Recovered, outstanding>>
    <3>1. UNCHANGED <<disk, dlog, dhead, cache, outstanding, phase>>
      BY <2>1 DEF Call, BeginSleep, LogCheck, EndCommit
    <3> QED BY <3>1, <2>b DEF Up
  <2>2. ASSUME NEW o \in Ops, BeginOp(o) PROVE LA!Begin
    <3>1. UNCHANGED <<disk, dlog, dhead, cache, phase>> /\ outstanding' = outstanding + 1
      BY <2>2 DEF BeginOp
    <3>2. Recovered' = Recovered
      BY <3>1, <2>b
    <3> HIDE DEF Recovered
    <3> QED BY <3>1, <3>2 DEF LA!Begin, Up
  <2>3. ASSUME NEW o \in Ops, NEW b \in Blocks, NEW v \in Values, LogWrite(o, b, v) PROVE LA!Write
    <3>1. /\ UNCHANGED <<disk, dlog, dhead, outstanding, phase>> /\ pc[o] = "write" /\ ~Stopped
          /\ cache' = [cache EXCEPT ![b] = v]
      BY <2>3 DEF LogWrite, Exec
    <3>2. Recovered' = Recovered
      BY <3>1, <2>b
    <3>3. phase = "none" /\ o \in Admitted
      BY <2>a, <3>1, QuietWhileAdmitted
    <3>4. Up /\ Up' /\ outstanding > 0
      BY <3>1, <3>3, <2>c DEF Up
    <3> HIDE DEF Recovered
    <3> QED BY <3>1, <3>2, <3>4 DEF LA!Write
  <2>4. ASSUME NEW o \in Ops, EndOp(o) PROVE LA!End
    <3>1. /\ UNCHANGED <<disk, dlog, dhead, cache>> /\ pc[o] = "op" /\ ~Stopped /\ outstanding' = outstanding - 1
          /\ phase' \in {"write_log", "none", phase}
      BY <2>4 DEF EndOp, Ended, Exec
    <3>2. Recovered' = Recovered
      BY <3>1, <2>b
    <3>3. phase = "none" /\ o \in Admitted
      BY <2>a, <3>1, QuietWhileAdmitted
    <3>4. Up /\ Up' /\ outstanding > 0
      BY <3>1, <3>3, <2>c DEF Up
    <3> HIDE DEF Recovered
    <3> QED BY <3>1, <3>2, <3>4 DEF LA!End
  <2>5. ASSUME WriteLog PROVE UNCHANGED <<Current, Recovered, outstanding>>
    <3>1. UNCHANGED <<disk, dhead, cache, outstanding, phase>> /\ phase = "write_log"
      BY <2>5 DEF WriteLog, mem
    <3>2. dhead = <<>>
      BY <2>a, <3>1 DEF LogOnDisk
    <3>3. \A i \in 1 .. Len(dhead) : dlog'[i] = dlog[i]
      BY <3>2
    <3> QED BY <3>1, <3>3, <2>b DEF Up
  <2>6. ASSUME CommitHead PROVE LA!Commit
    <3>1. Recovered' = cache
      BY <2>6, HeadCommitsAll
    <3>2. /\ phase = "write_log" /\ phase' = "install" /\ UNCHANGED <<cache, outstanding>>
      BY <2>6 DEF CommitHead, HeadReady, mem
    <3>3. outstanding = 0
      BY <2>a, <3>2, FS_EmptySet DEF OneCommit, Reserved
    <3> HIDE DEF Recovered
    <3> QED BY <3>1, <3>2, <3>3 DEF LA!Commit, Up
  <2>7. ASSUME Install PROVE UNCHANGED <<Current, Recovered, outstanding>>
    <3>1. Recovered' = Recovered
      BY <2>7, InstallKeepsDurable
    <3>2. UNCHANGED <<outstanding, phase>> /\ phase \in {"install", "recover"}
      BY <2>7 DEF Install, mem
    <3>3. phase = "install" => cache' = cache
      <4> SUFFICES ASSUME phase = "install" PROVE cache' = cache
        OBVIOUS
      <4>1. tail + 1 \in 1 .. Len(lh) /\ cache' = [cache EXCEPT ![lh[tail + 1]] = dlog[tail + 1]]
        BY <2>7, <2>a DEF Install, TypeOK
      <4>2. dlog[tail + 1] = cache[lh[tail + 1]] /\ lh[tail + 1] \in Blocks
        BY <2>a, <4>1 DEF LogOnDisk, TypeOK
      <4> QED BY <2>a, <4>1, <4>2 DEF TypeOK
    <3> HIDE DEF Recovered
    <3> QED BY <3>1, <3>2, <3>3 DEF Up
  <2>8. ASSUME ClearHead PROVE UNCHANGED <<Current, Recovered, outstanding>>
    <3>1. Recovered = disk /\ Recovered' = disk
      BY <2>8, InstalledIsDurable
    <3>2. /\ UNCHANGED <<cache, outstanding>> /\ phase \in {"install", "recover"} /\ phase' = "none"
      BY <2>8 DEF ClearHead, Installed, mem
    <3>3. phase = "recover" => cache = disk
      BY <2>a DEF LogOnDisk, Up
    <3> HIDE DEF Recovered
    <3> QED BY <3>1, <3>2, <3>3 DEF Up
  <2>9. ASSUME Reboot PROVE LA!Crash
    <3>1. UNCHANGED <<disk, dlog, dhead>> /\ outstanding' = 0 /\ phase' = "recover"
      BY <2>9 DEF Reboot
    <3>2. Recovered' = Recovered
      BY <3>1, <2>b
    <3> HIDE DEF Recovered
    <3> QED BY <3>1, <3>2 DEF LA!Crash, Up
  <2>10. CASE Halted \/ UNCHANGED vars
    BY <2>10, <2>b DEF Halted, vars, Up
  <2>11. ASSUME NEW o \in Ops, LogPanic(o) PROVE UNCHANGED <<Current, Recovered, outstanding>>
    <3>1. UNCHANGED <<disk, dlog, dhead, cache, outstanding>> /\ pc[o] = "op" /\ ~Stopped /\ phase' = "panic"
      BY <2>11 DEF LogPanic, Exec
    <3>2. phase = "none"
      BY <2>a, <3>1, QuietWhileAdmitted
    <3> QED BY <3>1, <3>2, <2>b DEF Up
  <2>12. ASSUME WritePast PROVE UNCHANGED <<Current, Recovered, outstanding>>
    <3>1. UNCHANGED <<disk, dlog, dhead, cache, outstanding>> /\ phase = "write_log" /\ phase' = "overrun"
      BY <2>12 DEF WritePast, mem
    <3> QED BY <3>1, <2>b DEF Up
  <2> QED BY <2>1, <2>2, <2>3, <2>4, <2>5, <2>6, <2>7, <2>8, <2>9, <2>10, <2>11, <2>12 DEF Next, LA!Next
<1> QED BY <1>1, <1>2, LogSafe, PTL DEF Spec, Atomic, LA!Spec, LA!avars
=============================================================================
