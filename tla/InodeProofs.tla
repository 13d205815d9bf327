---------------------------- MODULE InodeProofs ----------------------------
(***************************************************************************)
(* Invariants of Inode for every number of processes, inodes, cache        *)
(* entries, blocks, files and descriptors.  First the counts of references *)
(* (RefInv), for every set of requests; then the names, the blocks and the *)
(* inodes that are alive (LiveInv), nested directories and .. included, as *)
(* long as nobody looks up the .. of a removed directory whose parent has  *)
(* no name either (Careful): without that the code fails (IlockFindsType). *)
(***************************************************************************)
EXTENDS Inode, FiniteSetTheorems, TLAPS

----------------------------------------------------------------------------
(* The invariant *)

(* Types that every step keeps, whatever the counts of links do. *)
AnyDinode == [type : {"none", "file", "dir", "dev"}, nlink : Int, addr : Blocks \cup {0}]
Cached == [inum : Inums \cup {0}, ref : Nat, lock : Procs \cup {Nobody},
           valid : BOOLEAN, copy : AnyDinode]
Frame == [pc : Labels, call : Calls, path : Seq(DirNames), new : Path,
          dp : Entries \cup {0}, ip : Entries \cup {0}, tgt : Entries \cup {0},
          num : Inums \cup {0}, then : Labels]

DiskShapes ==
    /\ dinode \in [Inums -> AnyDinode]
    /\ entry \in [Inums -> [DirNames -> Inums \cup {0}]]
    /\ bitmap \subseteq Blocks

FileShapes ==
    /\ fref \in [Files -> Nat] /\ fip \in [Files -> Entries \cup {0}]
    /\ ofile \in [Procs -> [Fds -> Files \cup {0}]]
    /\ cwd \in [Procs -> Entries]

Shapes ==
    /\ DiskShapes /\ FileShapes
    /\ icache \in [Entries -> Cached]
    /\ loc \in [Procs -> Frame]

(* Where a process is, or goes on after the iput it is in. *)
Iput == {"put", "trunc", "free", "invalidate", "drop"}
Goal(r) == IF r.pc \in Iput THEN r.then ELSE r.pc

(* What the variables of a system call hold at each of its labels. *)
Holds(r) ==
    /\ r.tgt # 0 <=> r.pc \in Iput
    /\ r.pc \in Iput => r.then \in {"idle", "walk", "found", "exists", "file",
                                    "unlinked", "linkbad", "putip", "putdp"}
    /\ r.dp # 0 <=> Goal(r) \in {"walk", "found", "parent", "ialloc", "iget",
                                 "enter", "unlink", "putdp"}
    /\ Goal(r) \in {"exists", "enter", "file", "unlink", "unlinked", "linkbad",
                    "putip"} => r.ip # 0
    /\ Goal(r) \in {"idle", "found", "ialloc", "iget"} => r.ip = 0
    /\ Goal(r) \in {"walk", "parent", "putdp"} /\ r.ip # 0 => r.call = "link"
    /\ Goal(r) = "linkbad" => r.call = "link"
    /\ Goal(r) = "parent" => Parent(r)
    /\ Goal(r) \in {"walk", "parent", "ialloc", "iget", "enter", "unlink"} => r.path # <<>>
    /\ Goal(r) = "iget" <=> r.num # 0

Used ==
    /\ \A e \in Entries : icache[e].ref > 0 => icache[e].inum # 0
    /\ \A f \in Files : fref[f] > 0 => fip[f] # 0

RefInv == Shapes /\ (\A p \in Procs : Holds(loc[p])) /\ Used /\ RefsCounted
----------------------------------------------------------------------------
(* Counting *)

One(b) == IF b THEN 1 ELSE 0

Fields == {"dp", "ip", "tgt"}
FramePtrs(l, e) == {x \in Procs \X Fields : l[x[1]][x[2]] = e}
OtherPtrs(l, p, e) == {x \in (Procs \ {p}) \X Fields : l[x[1]][x[2]] = e}
Elsewhere(k, l, p) == \A q \in Procs \ {p} : k[q] = l[q]
Own(r, e) == One(r.dp = e) + One(r.ip = e) + One(r.tgt = e)
Gains(r, l, x) == \A e \in Entries : Own(r, e) = Own(l, e) + One(e = x)

(* The tables are finite. *)
LEMMA FinitePools ==
    /\ IsFiniteSet(Procs) /\ IsFiniteSet(Inums) /\ IsFiniteSet(Names)
    /\ IsFiniteSet(Files) /\ IsFiniteSet(Fds) /\ IsFiniteSet(Entries)
BY FS_Interval, InodeAssumption DEF Files, Fds, Entries

(* A set and at most one new element. *)
LEMMA AddIf ==
    ASSUME NEW S, IsFiniteSet(S), NEW x, x \notin S, NEW b \in BOOLEAN
    PROVE  LET T == S \cup (IF b THEN {x} ELSE {})
           IN  IsFiniteSet(T) /\ Cardinality(T) = Cardinality(S) + One(b)
<1>1. CASE b
  <2>1. IsFiniteSet(S \cup {x}) /\ Cardinality(S \cup {x}) = Cardinality(S) + 1
    BY FS_AddElement
  <2> QED BY <2>1, <1>1 DEF One
<1>2. CASE ~b
  <2>1. S \cup (IF b THEN {x} ELSE {}) = S
    BY <1>2
  <2>2. Cardinality(S) \in Nat
    BY FS_CardinalityType
  <2> QED BY <2>1, <2>2, <1>2 DEF One
<1> QED BY <1>1, <1>2

(* The pointers in the frames of system calls: those of the other          *)
(* processes and those of p.                                               *)
LEMMA FramesSplit ==
    ASSUME NEW l, NEW p \in Procs, NEW e
    PROVE  /\ Cardinality(OtherPtrs(l, p, e)) \in Nat
           /\ Cardinality(FramePtrs(l, e)) = Cardinality(OtherPtrs(l, p, e)) + Own(l[p], e)
<1> DEFINE rest == {x \in (Procs \ {p}) \X Fields : l[x[1]][x[2]] = e}
           A(b, f) == IF b THEN {<<p, f>>} ELSE {}
<1>1. IsFiniteSet(Fields)
  <2>1. Fields = {"dp"} \cup {"ip"} \cup {"tgt"}
    BY DEF Fields
  <2> QED BY <2>1, FS_Singleton, FS_Union
<1>2. IsFiniteSet(Procs \X Fields)
  BY <1>1, FS_Product, InodeAssumption
<1>3. IsFiniteSet(rest) /\ Cardinality(rest) \in Nat
  <2>1. rest \in SUBSET (Procs \X Fields)
    OBVIOUS
  <2> QED BY <2>1, <1>2, FS_Subset, FS_CardinalityType
<1> DEFINE b1 == l[p].dp = e
           b2 == l[p].ip = e
           b3 == l[p].tgt = e
           S1 == rest \cup A(b1, "dp")
           S2 == S1 \cup A(b2, "ip")
           S3 == S2 \cup A(b3, "tgt")
<1>4. /\ <<p, "dp">> \notin rest
      /\ <<p, "ip">> \notin S1
      /\ <<p, "tgt">> \notin S2
  OBVIOUS
<1>5. IsFiniteSet(S1) /\ Cardinality(S1) = Cardinality(rest) + One(b1)
  BY <1>3, <1>4, AddIf
<1>6. IsFiniteSet(S2) /\ Cardinality(S2) = Cardinality(S1) + One(b2)
  BY <1>5, <1>4, AddIf
<1>7. IsFiniteSet(S3) /\ Cardinality(S3) = Cardinality(S2) + One(b3)
  BY <1>6, <1>4, AddIf
<1>8. FramePtrs(l, e) = S3
  BY DEF FramePtrs, Fields
<1> QED BY <1>3, <1>5, <1>6, <1>7, <1>8 DEF Own, One, OtherPtrs

(* A step that replaces the frame of one process. *)
LEMMA FramesStep ==
    ASSUME NEW l, NEW k, NEW p \in Procs, NEW e, Elsewhere(k, l, p)
    PROVE  /\ Cardinality(FramePtrs(l, e)) \in Nat
           /\ Cardinality(FramePtrs(k, e))
                = Cardinality(FramePtrs(l, e)) + Own(k[p], e) - Own(l[p], e)
<1>1. OtherPtrs(k, p, e) = OtherPtrs(l, p, e)
  BY DEF OtherPtrs, Elsewhere
<1>2. /\ Cardinality(OtherPtrs(l, p, e)) \in Nat
      /\ Cardinality(FramePtrs(l, e)) = Cardinality(OtherPtrs(l, p, e)) + Own(l[p], e)
  BY FramesSplit
<1>3. Cardinality(FramePtrs(k, e)) = Cardinality(OtherPtrs(k, p, e)) + Own(k[p], e)
  BY FramesSplit
<1>4. Own(k[p], e) \in Nat /\ Own(l[p], e) \in Nat
  BY DEF Own, One
<1> QED BY <1>1, <1>2, <1>3, <1>4
----------------------------------------------------------------------------
(* Steps of the cache: entry x gets one more reference, or none does (0).  *)

Grown(ic, jc, x) ==
    /\ ic \in [Entries -> Cached] /\ jc \in [Entries -> Cached]
    /\ \A e \in Entries : /\ jc[e].ref = ic[e].ref + One(e = x)
                          /\ ic[e].ref > 0 => jc[e].inum = ic[e].inum
                          /\ e = x => jc[e].inum # 0

Same(ic, jc) ==
    /\ ic \in [Entries -> Cached] /\ jc \in [Entries -> Cached]
    /\ \A e \in Entries : jc[e].ref = ic[e].ref /\ jc[e].inum = ic[e].inum

(* Locking, unlocking and changing the copy leave references alone. *)
LEMMA SameSteps ==
    ASSUME NEW ic \in [Entries -> Cached], NEW e \in Entries
    PROVE  /\ \A p \in Procs : Same(ic, Hold(ic, e, p)) /\ Same(ic, Iunlock(ic, e, p))
           /\ \A d \in AnyDinode : Same(ic, Change(ic, e, d))
           /\ Same(ic, Invalid(ic, e))
           /\ ic[e].inum # 0 /\ dinode \in [Inums -> AnyDinode] => Same(ic, Ilock(ic, e))
<1>1. ASSUME NEW p \in Procs PROVE Same(ic, Hold(ic, e, p)) /\ Same(ic, Iunlock(ic, e, p))
  BY DEF Same, Hold, Iunlock, Cached
<1>2. ASSUME NEW d \in AnyDinode PROVE Same(ic, Change(ic, e, d))
  BY DEF Same, Change, Cached
<1>3. Same(ic, Invalid(ic, e))
  BY DEF Same, Invalid, Cached
<1>4. ASSUME ic[e].inum # 0, dinode \in [Inums -> AnyDinode]
      PROVE  Same(ic, Ilock(ic, e))
  <2>1. dinode[ic[e].inum] \in AnyDinode
    BY <1>4 DEF Cached
  <2> QED BY <2>1 DEF Same, Ilock, Cached
<1> QED BY <1>1, <1>2, <1>3, <1>4

(* Same is transitive, and an unchanged cache before or after a growth leaves the growth. *)
LEMMA SameTransitive ==
    ASSUME NEW ic, NEW jc, NEW kc, NEW x
    PROVE  /\ Same(ic, jc) /\ Same(jc, kc) => Same(ic, kc)
           /\ Same(ic, jc) /\ Grown(jc, kc, x) => Grown(ic, kc, x)
           /\ Grown(ic, jc, x) /\ Same(jc, kc) => Grown(ic, kc, x)
BY DEF Same, Grown, Cached, One

(* A cache with the same references has grown by no entry. *)
LEMMA SameIsGrown ==
    ASSUME NEW ic, NEW jc, Same(ic, jc)
    PROVE  Grown(ic, jc, 0)
BY DEF Same, Grown, Cached, One, Entries

(* iget, on a cache with the references of icache. *)
LEMMA IgetGrows ==
    ASSUME NEW ic, Same(icache, ic), NEW i \in Inums, NEW x \in Slot(i)
    PROVE  x \in Entries /\ Grown(ic, Iget(ic, x, i), x) /\ Iget(ic, x, i)[x].inum = i
<1>1. x \in Entries
  BY DEF Slot, Lowest
<1>2. ic[x].ref > 0 => ic[x].inum = i
  BY <1>1 DEF Slot, Lowest, Same, Cached
<1>3. CASE ic[x].ref > 0
  BY <1>1, <1>2, <1>3, InodeAssumption DEF Same, Grown, Iget, Cached, One
<1>4. CASE ~(ic[x].ref > 0)
  <2>1. ic[x].ref = 0
    BY <1>1, <1>4 DEF Same, Cached
  <2>2. PICK c \in Cached : c = [inum |-> i, ref |-> 1, lock |-> ic[x].lock,
                                valid |-> FALSE, copy |-> ic[x].copy]
    BY <1>1 DEF Same, Cached
  <2>3. Iget(ic, x, i) = [ic EXCEPT ![x] = c]
    <3>1. PICK j1 \in [Entries -> Cached] : j1 = [ic EXCEPT ![x].inum = i]
      BY <1>1 DEF Same, Cached
    <3>2. PICK j2 \in [Entries -> Cached] : j2 = [j1 EXCEPT ![x].ref = 1]
      <4>1. [j1[x] EXCEPT !.ref = 1] \in Cached
        BY <1>1 DEF Cached
      <4> QED BY <4>1, <1>1
    <3>3. PICK j3 \in [Entries -> Cached] : j3 = [j2 EXCEPT ![x].valid = FALSE]
      <4>1. [j2[x] EXCEPT !.valid = FALSE] \in Cached
        BY <1>1 DEF Cached
      <4> QED BY <4>1, <1>1
    <3>4. j3 = Iget(ic, x, i)
      BY <1>4, <3>1, <3>2, <3>3 DEF Iget
    <3>5. j3[x] = c
      BY <1>1, <2>2, <3>1, <3>2, <3>3 DEF Cached, Same
    <3>6. \A e \in Entries \ {x} : j3[e] = ic[e]
      BY <1>1, <3>1, <3>2, <3>3 DEF Same
    <3> QED BY <1>1, <3>3, <3>4, <3>5, <3>6 DEF Same
  <2>4. ic \in [Entries -> Cached]
    BY DEF Same
  <2>5. c.ref = 1 /\ c.inum = i /\ i # 0
    BY <2>2, InodeAssumption
  <2>6. [ic EXCEPT ![x] = c] \in [Entries -> Cached]
    BY <2>4
  <2>7. \A e \in Entries : [ic EXCEPT ![x] = c][e] = IF e = x THEN c ELSE ic[e]
    BY <2>4
  <2>8. \A e \in Entries : ic[e].ref \in Nat
    BY <2>4 DEF Cached
  <2> QED BY <1>1, <2>1, <2>3, <2>4, <2>5, <2>6, <2>7, <2>8 DEF Grown, One
<1> QED BY <1>3, <1>4
----------------------------------------------------------------------------
(* Frames *)

(* A step of p that only changes its frame, the cache and the disk keeps   *)
(* the invariant if the references follow the pointers of the frame.       *)
LEMMA FrameStep ==
    ASSUME RefInv, NEW p \in Procs, NEW r \in Frame, Holds(r),
           loc' = [loc EXCEPT ![p] = r],
           DiskShapes', icache' \in [Entries -> Cached], UNCHANGED files,
           \A e \in Entries :
              /\ icache'[e].ref = icache[e].ref + Own(r, e) - Own(loc[p], e)
              /\ icache'[e].ref > 0 => icache'[e].inum # 0
    PROVE  RefInv'
<1>1. loc \in [Procs -> Frame] /\ DOMAIN loc = Procs
  BY DEF RefInv, Shapes
<1>2. Shapes'
  BY <1>1 DEF RefInv, Shapes, FileShapes, files
<1>3. \A q \in Procs : Holds(loc'[q])
  BY <1>1 DEF RefInv
<1>4. Used'
  BY DEF RefInv, Used, files
<1>5. ASSUME NEW e \in Entries PROVE icache'[e].ref = Pointers(e)'
  <2> DEFINE A == {f \in Files : fref[f] > 0 /\ fip[f] = e}
             B == {q \in Procs : cwd[q] = e}
  <2>1. icache[e].ref = Cardinality(A) + Cardinality(B) + Cardinality(FramePtrs(loc, e))
    BY DEF RefInv, RefsCounted, Pointers, FramePtrs, Fields
  <2>2. Pointers(e)' = Cardinality(A) + Cardinality(B) + Cardinality(FramePtrs(loc', e))
    BY DEF Pointers, FramePtrs, Fields, files
  <2>3. /\ Cardinality(FramePtrs(loc, e)) \in Nat
        /\ Cardinality(FramePtrs(loc', e))
             = Cardinality(FramePtrs(loc, e)) + Own(r, e) - Own(loc[p], e)
    <3>1. Elsewhere(loc', loc, p) /\ loc'[p] = r
      BY <1>1 DEF Elsewhere
    <3>2. PICK l, k : l = loc /\ k = loc'
      OBVIOUS
    <3>3. Elsewhere(k, l, p)
      BY <3>1, <3>2
    <3>4. /\ Cardinality(FramePtrs(l, e)) \in Nat
          /\ Cardinality(FramePtrs(k, e))
               = Cardinality(FramePtrs(l, e)) + Own(k[p], e) - Own(l[p], e)
      BY ONLY <3>3, FramesStep
    <3> QED BY <3>1, <3>2, <3>4
  <2>4. Cardinality(A) \in Nat /\ Cardinality(B) \in Nat
    <3>2. IsFiniteSet(A) /\ IsFiniteSet(B)
      BY FinitePools, FS_Subset
    <3> QED BY <3>2, FS_CardinalityType
  <2>5. Own(r, e) \in Nat /\ Own(loc[p], e) \in Nat
    BY DEF Own, One
  <2> HIDE DEF A, B
  <2> QED BY <2>1, <2>2, <2>3, <2>4, <2>5
<1>6. \A f \in Files : fref'[f] = Cardinality({x \in Procs \X Fds : ofile'[x[1]][x[2]] = f})
  BY DEF RefInv, RefsCounted, files
<1>7. (\A q \in Procs : Holds(loc[q]))' /\ RefsCounted'
  BY <1>3, <1>5, <1>6 DEF RefsCounted
<1> QED BY <1>2, <1>4, <1>7 DEF RefInv

(* The frame gets one pointer more, to the entry that gets a reference. *)
LEMMA GrowStep ==
    ASSUME RefInv, NEW p \in Procs, NEW r \in Frame, Holds(r), NEW x,
           loc' = [loc EXCEPT ![p] = r],
           DiskShapes', Grown(icache, icache', x), UNCHANGED files,
           Gains(r, loc[p], x)
    PROVE  RefInv'
<1>1. icache' \in [Entries -> Cached]
  BY DEF Grown
<1>2. ASSUME NEW e \in Entries
      PROVE  /\ icache'[e].ref = icache[e].ref + Own(r, e) - Own(loc[p], e)
             /\ icache'[e].ref > 0 => icache'[e].inum # 0
  <2>1. icache[e].ref \in Nat /\ (icache[e].ref > 0 => icache[e].inum # 0)
    BY DEF RefInv, Shapes, Cached, Used
  <2>2. Own(r, e) \in Nat /\ Own(loc[p], e) \in Nat
    BY DEF Own, One
  <2> QED BY <2>1, <2>2 DEF Grown, Gains, One
<1> QED BY <1>1, <1>2, FrameStep

(* Who points to an entry has a reference to it. *)
LEMMA Pointed ==
    ASSUME RefInv, NEW p \in Procs, NEW e \in Entries,
           e \in {loc[p].dp, loc[p].ip, loc[p].tgt, cwd[p]}
    PROVE  icache[e].ref > 0 /\ icache[e].inum \in Inums
<1> DEFINE A == {f \in Files : fref[f] > 0 /\ fip[f] = e}
           B == {q \in Procs : cwd[q] = e}
<1>1. icache[e].ref = Cardinality(A) + Cardinality(B) + Cardinality(FramePtrs(loc, e))
  BY DEF RefInv, RefsCounted, Pointers, FramePtrs, Fields
<1>2. IsFiniteSet(A) /\ IsFiniteSet(B) /\ Cardinality(A) \in Nat /\ Cardinality(B) \in Nat
  <2>2. IsFiniteSet(A) /\ IsFiniteSet(B)
    BY FinitePools, FS_Subset
  <2> QED BY <2>2, FS_CardinalityType
<1>3. /\ Cardinality(FramePtrs(loc, e)) = Cardinality(OtherPtrs(loc, p, e)) + Own(loc[p], e)
      /\ Cardinality(OtherPtrs(loc, p, e)) \in Nat
  BY FramesSplit
<1>4. cwd[p] = e => Cardinality(B) # 0
  <2> SUFFICES ASSUME cwd[p] = e PROVE Cardinality(B) # 0
    OBVIOUS
  <2>1. p \in B
    OBVIOUS
  <2> HIDE DEF B
  <2> QED BY <1>2, <2>1, FS_EmptySet
<1>5. Own(loc[p], e) \in Nat /\ (cwd[p] # e => Own(loc[p], e) > 0)
  BY DEF Own, One
<1>6. icache[e].ref > 0
  <2> HIDE DEF A, B
  <2> QED BY <1>1, <1>2, <1>3, <1>4, <1>5
<1> QED BY <1>6 DEF RefInv, Used, Shapes, Cached

(* What iput of a field does to the frame. *)
LEMMA PutFrame ==
    ASSUME NEW r \in Frame, NEW t \in Labels
    PROVE  /\ Put(r, "dp", t) \in Frame
           /\ Put(r, "dp", t).pc = "put" /\ Put(r, "dp", t).then = t
           /\ Put(r, "dp", t).dp = 0 /\ Put(r, "dp", t).tgt = r.dp
           /\ t = "idle" => Put(r, "dp", t).ip = 0 /\ Put(r, "dp", t).num = 0
           /\ t # "idle" => /\ Put(r, "dp", t).ip = r.ip /\ Put(r, "dp", t).num = r.num
                            /\ Put(r, "dp", t).call = r.call /\ Put(r, "dp", t).path = r.path
           /\ Put(r, "ip", t) \in Frame
           /\ Put(r, "ip", t).pc = "put" /\ Put(r, "ip", t).then = t
           /\ Put(r, "ip", t).ip = 0 /\ Put(r, "ip", t).tgt = r.ip
           /\ t = "idle" => Put(r, "ip", t).dp = 0 /\ Put(r, "ip", t).num = 0
           /\ t # "idle" => /\ Put(r, "ip", t).dp = r.dp /\ Put(r, "ip", t).num = r.num
                            /\ Put(r, "ip", t).call = r.call /\ Put(r, "ip", t).path = r.path
<1>1. "put" \in Labels /\ "idle" \in Labels /\ "open" \in Calls /\ NoPath \in Path
  BY DEF Labels, Calls, NoPath, Path
<1>2. Idle \in Frame /\ Idle.dp = 0 /\ Idle.ip = 0 /\ Idle.num = 0 /\ Idle.then = "idle"
  BY <1>1 DEF Idle, Frame
<1>3. CASE t = "idle"
  <2>1. PICK a \in Frame : a = [Idle EXCEPT !.pc = "put"]
    BY <1>1, <1>2 DEF Frame
  <2>2. PICK b \in Frame : b = [a EXCEPT !.tgt = r.dp]
    BY <2>1 DEF Frame
  <2>3. PICK c \in Frame : c = [a EXCEPT !.tgt = r.ip]
    BY <2>1 DEF Frame
  <2>4. b = Put(r, "dp", t) /\ c = Put(r, "ip", t)
    BY <1>3, <2>1, <2>2, <2>3 DEF Put
  <2>5. /\ b.pc = "put" /\ b.dp = 0 /\ b.ip = 0 /\ b.num = 0 /\ b.then = "idle" /\ b.tgt = r.dp
        /\ c.pc = "put" /\ c.dp = 0 /\ c.ip = 0 /\ c.num = 0 /\ c.then = "idle" /\ c.tgt = r.ip
    BY <1>2, <2>1, <2>2, <2>3 DEF Frame
  <2> QED BY <1>3, <2>4, <2>5
<1>4. CASE t # "idle"
  <2>1. PICK a \in Frame : a = [r EXCEPT !.pc = "put"]
    BY <1>1 DEF Frame
  <2>2. PICK b1 \in Frame : b1 = [a EXCEPT !.tgt = r.dp]
    BY <2>1 DEF Frame
  <2>3. PICK b2 \in Frame : b2 = [b1 EXCEPT !.dp = 0]
    BY <2>2 DEF Frame
  <2>4. PICK b \in Frame : b = [b2 EXCEPT !.then = t]
    BY <2>3 DEF Frame
  <2>5. PICK c1 \in Frame : c1 = [a EXCEPT !.tgt = r.ip]
    BY <2>1 DEF Frame
  <2>6. PICK c2 \in Frame : c2 = [c1 EXCEPT !.ip = 0]
    BY <2>5 DEF Frame
  <2>7. PICK c \in Frame : c = [c2 EXCEPT !.then = t]
    BY <2>6 DEF Frame
  <2>8. b = Put(r, "dp", t) /\ c = Put(r, "ip", t)
    BY <1>4, <2>1, <2>2, <2>3, <2>4, <2>5, <2>6, <2>7 DEF Put
  <2>9. /\ b.pc = "put" /\ b.dp = 0 /\ b.then = t /\ b.tgt = r.dp
        /\ b.ip = r.ip /\ b.num = r.num /\ b.call = r.call /\ b.path = r.path
    BY <2>1, <2>2, <2>3, <2>4 DEF Frame
  <2>10. /\ c.pc = "put" /\ c.ip = 0 /\ c.then = t /\ c.tgt = r.ip
         /\ c.dp = r.dp /\ c.num = r.num /\ c.call = r.call /\ c.path = r.path
    BY <2>1, <2>5, <2>6, <2>7 DEF Frame
  <2> QED BY <1>4, <2>8, <2>9, <2>10
<1> QED BY <1>3, <1>4

(* namex at inode e leaves a frame that points to e as well. *)
LEMMA NamexFrame ==
    ASSUME NEW r \in Frame, NEW e \in Entries, NEW elems \in Seq(DirNames),
           r.dp = 0, r.tgt = 0, r.num = 0, r.ip # 0 => r.call = "link"
    PROVE  /\ Namex(r, e, elems) \in Frame
           /\ Holds(Namex(r, e, elems))
           /\ Gains(Namex(r, e, elems), r, e)
<1>0. e # 0 /\ 0 \notin Entries
  BY DEF Entries
<1>1. PICK a \in Frame : a = [r EXCEPT !.dp = e]
  BY DEF Frame
<1>2. PICK at \in Frame : at = [a EXCEPT !.path = elems]
  BY <1>1 DEF Frame
<1>3. /\ at.dp = e /\ at.path = elems /\ at.ip = r.ip /\ at.tgt = 0 /\ at.num = 0
      /\ at.call = r.call
  BY <1>1, <1>2 DEF Frame
<1>4. at = [r EXCEPT !.dp = e, !.path = elems]
  BY <1>1, <1>2
<1>5. CASE elems # <<>>
  <2>1. PICK b \in Frame : b = [at EXCEPT !.pc = "walk"]
    BY DEF Frame, Labels
  <2>2. b = Namex(r, e, elems)
    BY <1>4, <1>5, <2>1 DEF Namex
  <2>3. /\ b.pc = "walk" /\ b.dp = e /\ b.path = elems /\ b.ip = r.ip /\ b.tgt = 0
        /\ b.num = 0 /\ b.call = r.call
    BY <1>3, <2>1 DEF Frame
  <2>4. Holds(b)
    BY <1>0, <1>5, <2>3 DEF Holds, Goal, Iput
  <2>5. Gains(b, r, e)
    BY <1>0, <2>3 DEF Own, One, Gains
  <2> QED BY <2>2, <2>4, <2>5
<1>6. CASE elems = <<>> /\ Parent(r)
  <2>1. Failed(r) \in {"linkbad", "idle"} /\ Failed(r) \in Labels
    BY DEF Failed, Labels
  <2>2. PICK b \in Frame : b = Put(at, "dp", Failed(r))
    BY <2>1, PutFrame
  <2>3. b = Namex(r, e, elems)
    BY <1>4, <1>6, <2>2 DEF Namex
  <2>4. /\ b.pc = "put" /\ b.then = Failed(r) /\ b.dp = 0 /\ b.tgt = e
        /\ Failed(r) = "idle" => b.ip = 0 /\ b.num = 0
        /\ Failed(r) # "idle" => b.ip = r.ip /\ b.num = 0 /\ b.call = r.call
    BY <1>3, <2>1, <2>2, PutFrame
  <2>5. /\ Failed(r) = "idle" => r.ip = 0
        /\ Failed(r) = "linkbad" => r.call = "link" /\ r.ip # 0
    BY DEF Failed, Counted
  <2>6. Holds(b)
    BY <1>0, <2>1, <2>4, <2>5 DEF Holds, Goal, Iput
  <2>7. Gains(b, r, e)
    BY <1>0, <2>1, <2>4, <2>5 DEF Own, One, Gains
  <2> QED BY <2>3, <2>6, <2>7
<1>7. CASE elems = <<>> /\ ~Parent(r)
  <2>1. PICK b \in Frame : b = [at EXCEPT !.pc = "found"]
    BY DEF Frame, Labels
  <2>2. b = Namex(r, e, elems)
    BY <1>4, <1>7, <2>1 DEF Namex
  <2>3. /\ b.pc = "found" /\ b.dp = e /\ b.path = elems /\ b.ip = r.ip /\ b.tgt = 0
        /\ b.num = 0 /\ b.call = r.call
    BY <1>3, <2>1 DEF Frame
  <2>4. r.ip = 0
    BY <1>7 DEF Parent, Counted
  <2>5. Holds(b)
    BY <1>0, <2>3, <2>4 DEF Holds, Goal, Iput
  <2>6. Gains(b, r, e)
    BY <1>0, <2>3 DEF Own, One, Gains
  <2> QED BY <2>2, <2>5, <2>6
<1> QED BY <1>5, <1>6, <1>7

(* namex starts with a reference to the root or to the current directory. *)
LEMMA StartGrows ==
    ASSUME RefInv, NEW p \in Procs, NEW ic, Same(icache, ic), NEW path \in Path,
           NEW s \in Start(p, ic, path)
    PROVE  s[2] \in Entries /\ Grown(icache, s[1], s[2])
<1>1. CASE path.abs
  <2>1. PICK e \in Slot(ROOTINO) : s = <<Iget(ic, e, ROOTINO), e>>
    BY <1>1 DEF Start
  <2>2. e \in Entries /\ Grown(ic, Iget(ic, e, ROOTINO), e)
    BY <2>1, IgetGrows, InodeAssumption
  <2>3. Grown(icache, Iget(ic, e, ROOTINO), e)
    BY <2>2, SameTransitive
  <2> QED BY <2>1, <2>2, <2>3
<1>2. CASE ~path.abs
  <2>1. s = <<[ic EXCEPT ![cwd[p]].ref = @ + 1], cwd[p]>>
    BY <1>2 DEF Start
  <2>2. PICK c \in Entries : c = cwd[p]
    BY DEF RefInv, Shapes, FileShapes
  <2>3. icache[c].inum \in Inums /\ icache[c].inum # 0
    BY <2>2, Pointed, InodeAssumption
  <2>4. PICK jc \in [Entries -> Cached] : jc = [ic EXCEPT ![c].ref = @ + 1]
    <3>1. ic[c] \in Cached /\ ic \in [Entries -> Cached]
      BY DEF Same
    <3>2. [ic[c] EXCEPT !.ref = @ + 1] \in Cached
      BY <3>1 DEF Cached
    <3> QED BY <3>1, <3>2
  <2>5. Grown(icache, jc, c)
    BY <2>3, <2>4 DEF Grown, Same, Cached, One
  <2> QED BY <2>1, <2>2, <2>4, <2>5
<1> QED BY <1>1, <1>2

(* What is known of a process and its frame. *)
LEMMA FrameOf ==
    ASSUME RefInv, NEW p \in Procs
    PROVE  /\ loc[p] \in Frame /\ Holds(loc[p]) /\ DOMAIN loc = Procs
           /\ DiskShapes /\ icache \in [Entries -> Cached]
           /\ Same(icache, icache)
           /\ \A e \in Entries : e \in {loc[p].dp, loc[p].ip, loc[p].tgt}
                 => icache[e].inum \in Inums /\ icache[e].inum # 0 /\ Same(icache, Ilock(icache, e))
<1>1. /\ loc[p] \in Frame /\ Holds(loc[p]) /\ DOMAIN loc = Procs
      /\ DiskShapes /\ icache \in [Entries -> Cached]
  BY DEF RefInv, Shapes
<1>2. Same(icache, icache)
  BY <1>1 DEF Same
<1>3. ASSUME NEW e \in Entries, e \in {loc[p].dp, loc[p].ip, loc[p].tgt}
      PROVE  icache[e].inum \in Inums /\ icache[e].inum # 0 /\ Same(icache, Ilock(icache, e))
  <2>1. icache[e].inum \in Inums /\ icache[e].inum # 0
    BY <1>3, Pointed, InodeAssumption
  <2>2. Same(icache, Ilock(icache, e))
    BY <1>1, <2>1, SameSteps DEF DiskShapes
  <2> QED BY <2>1, <2>2
<1> QED BY <1>1, <1>2, <1>3

(* Begin: a system call starts from the working directory or the root, counted by idup. *)
LEMMA BeginRefs ==
    ASSUME RefInv, NEW p \in Procs, NEW q \in Requests, Begin(p, q)
    PROVE  RefInv'
<1>1. /\ loc[p] \in Frame /\ Holds(loc[p]) /\ DiskShapes /\ Same(icache, icache)
  BY FrameOf
<1>2. q.call \in Calls /\ q.path \in Path /\ q.new \in Path /\ q.path.elems \in Seq(DirNames)
  BY InodeAssumption DEF Path
<1>3. PICK s \in Start(p, icache, q.path) :
          /\ icache' = s[1]
          /\ loc' = [loc EXCEPT ![p] = Namex([@ EXCEPT !.call = q.call, !.new = q.new],
                                             s[2], q.path.elems)]
  BY DEF Begin
<1>4. s[2] \in Entries /\ Grown(icache, icache', s[2])
  BY <1>1, <1>2, <1>3, StartGrows
<1>5. PICK r1 \in Frame : r1 = [loc[p] EXCEPT !.call = q.call]
  BY <1>1, <1>2 DEF Frame
<1>6. PICK r \in Frame : r = [r1 EXCEPT !.new = q.new]
  BY <1>2, <1>5 DEF Frame
<1>7. r = [loc[p] EXCEPT !.call = q.call, !.new = q.new]
  BY <1>5, <1>6
<1>8. /\ r.dp = loc[p].dp /\ r.ip = loc[p].ip /\ r.tgt = loc[p].tgt /\ r.num = loc[p].num
  BY <1>1, <1>5, <1>6 DEF Frame
<1>9. loc[p].pc = "idle"
  BY DEF Begin, At
<1>10. loc[p].dp = 0 /\ loc[p].ip = 0 /\ loc[p].tgt = 0 /\ loc[p].num = 0
  BY <1>1, <1>9 DEF Holds, Goal, Iput
<1>11. PICK n \in Frame : n = Namex(r, s[2], q.path.elems)
  BY <1>2, <1>4, <1>8, <1>10, NamexFrame
<1>12. Holds(n) /\ Gains(n, r, s[2])
  BY <1>2, <1>4, <1>8, <1>10, <1>11, NamexFrame
<1>13. Gains(n, loc[p], s[2])
  BY <1>8, <1>12 DEF Own, Gains
<1>14. loc' = [loc EXCEPT ![p] = n]
  BY <1>3, <1>7, <1>11
<1>15. DiskShapes' /\ UNCHANGED files
  BY <1>1 DEF Begin, disk, DiskShapes
<1> QED BY <1>4, <1>12, <1>13, <1>14, <1>15, GrowStep

(* iput of dp, or of ip, when nothing else is forgotten with it. *)
LEMMA PutDp ==
    ASSUME NEW r \in Frame, r.tgt = 0, r.num = 0, r.dp # 0,
           NEW t \in {"idle", "exists", "file", "unlinked", "linkbad", "putip"},
           t = "idle" <=> r.ip = 0, t = "linkbad" => r.call = "link"
    PROVE  Put(r, "dp", t) \in Frame /\ Holds(Put(r, "dp", t)) /\ Gains(Put(r, "dp", t), r, 0)
<1>1. t \in Labels
  BY DEF Labels
<1>2. PICK b \in Frame : b = Put(r, "dp", t)
  BY <1>1, PutFrame
<1>3. /\ b.pc = "put" /\ b.then = t /\ b.dp = 0 /\ b.tgt = r.dp
      /\ t = "idle" => b.ip = 0 /\ b.num = 0
      /\ t # "idle" => b.ip = r.ip /\ b.num = 0 /\ b.call = r.call
  BY <1>1, <1>2, PutFrame
<1>4. Holds(b)
  BY <1>3 DEF Holds, Goal, Iput
<1>5. Gains(b, r, 0)
  BY <1>3 DEF Gains, Own, One, Entries
<1> QED BY <1>2, <1>4, <1>5

(* iput of ip: the reference moves from ip to the target of iput. *)
LEMMA PutIp ==
    ASSUME NEW r \in Frame, r.tgt = 0, r.num = 0, r.ip # 0, NEW t \in {"idle", "putdp"},
           t = "idle" <=> r.dp = 0
    PROVE  Put(r, "ip", t) \in Frame /\ Holds(Put(r, "ip", t)) /\ Gains(Put(r, "ip", t), r, 0)
<1>1. t \in Labels
  BY DEF Labels
<1>2. PICK b \in Frame : b = Put(r, "ip", t)
  BY <1>1, PutFrame
<1>3. /\ b.pc = "put" /\ b.then = t /\ b.ip = 0 /\ b.tgt = r.ip
      /\ t = "idle" => b.dp = 0 /\ b.num = 0
      /\ t # "idle" => b.dp = r.dp /\ b.num = 0 /\ b.call = r.call
  BY <1>1, <1>2, PutFrame
<1>4. Holds(b)
  BY <1>3 DEF Holds, Goal, Iput
<1>5. Gains(b, r, 0)
  BY <1>3 DEF Gains, Own, One, Entries
<1> QED BY <1>2, <1>4, <1>5

(* Going on at another label. *)
LEMMA GotoFrame ==
    ASSUME NEW r \in Frame, NEW l \in Labels
    PROVE  \E g \in Frame :
              /\ g = [r EXCEPT !.pc = l] /\ g.pc = l /\ Gains(g, r, 0)
              /\ g.dp = r.dp /\ g.ip = r.ip /\ g.tgt = r.tgt /\ g.num = r.num
              /\ g.call = r.call /\ g.path = r.path /\ g.then = r.then
<1>1. PICK g \in Frame : g = [r EXCEPT !.pc = l]
  BY DEF Frame
<1>2. /\ g.pc = l /\ g.dp = r.dp /\ g.ip = r.ip /\ g.tgt = r.tgt /\ g.num = r.num
      /\ g.call = r.call /\ g.path = r.path /\ g.then = r.then
  BY <1>1 DEF Frame
<1>3. Gains(g, r, 0)
  BY <1>2 DEF Gains, Own, One, Entries
<1> QED BY <1>1, <1>2, <1>3

(* Going on at another label, with the references as they are. *)
MayGo(r, l) ==
    \A g \in Frame :
        /\ g.pc = l
        /\ g.dp = r.dp /\ g.ip = r.ip /\ g.tgt = r.tgt /\ g.num = r.num
        /\ g.call = r.call /\ g.path = r.path /\ g.then = r.then
        => Holds(g)

(* A step that only moves to a label its frame already fits keeps the invariant. *)
LEMMA GotoStep ==
    ASSUME RefInv, NEW p \in Procs, NEW l \in Labels, Goto(p, l),
           DiskShapes', Same(icache, icache'), UNCHANGED files,
           MayGo(loc[p], l)
    PROVE  RefInv'
<1>1. loc[p] \in Frame
  BY FrameOf
<1>2. PICK g \in Frame :
              /\ g = [loc[p] EXCEPT !.pc = l] /\ g.pc = l /\ Gains(g, loc[p], 0)
              /\ g.dp = loc[p].dp /\ g.ip = loc[p].ip /\ g.tgt = loc[p].tgt
              /\ g.num = loc[p].num /\ g.call = loc[p].call
              /\ g.path = loc[p].path /\ g.then = loc[p].then
  BY <1>1, GotoFrame
<1>3. loc' = [loc EXCEPT ![p] = g]
  BY <1>2 DEF Goto
<1>4. Grown(icache, icache', 0) /\ Holds(g)
  BY <1>2, SameIsGrown DEF MayGo
<1> QED BY <1>2, <1>3, <1>4, GrowStep

(* The steps *)

(* Walk, the loop of namex(): the next directory's entry is counted before the last one is put. *)
LEMMA WalkRefs ==
    ASSUME RefInv, NEW p \in Procs, Walk(p)
    PROVE  RefInv'
<1> DEFINE e == loc[p].dp
           ic == Ilock(icache, e)
           i == Lookup(e, Name(p))
           rest == Tail(loc[p].path)
<1>1. /\ loc[p] \in Frame /\ Holds(loc[p]) /\ DiskShapes /\ DOMAIN loc = Procs
  BY FrameOf
<1>2. loc[p].pc = "walk"
  BY DEF Walk, At
<1>3. /\ e # 0 /\ loc[p].tgt = 0 /\ loc[p].num = 0 /\ loc[p].path # <<>>
      /\ loc[p].ip # 0 => loc[p].call = "link"
  BY <1>1, <1>2 DEF Holds, Goal, Iput
<1>4. e \in Entries
  BY <1>1, <1>3 DEF Frame
<1>5. Same(icache, ic) /\ icache[e].inum \in Inums
  BY <1>4, FrameOf
<1>6. Name(p) \in DirNames /\ rest \in Seq(DirNames)
  BY <1>1, <1>3 DEF Frame, Name
<1>7. i \in Inums \cup {0}
  BY <1>1, <1>5, <1>6 DEF DiskShapes, Lookup, Dir
<1>8. DiskShapes' /\ UNCHANGED files
  BY <1>1 DEF Walk, disk, DiskShapes
<1>9. CASE icache' = ic /\ loc' = [loc EXCEPT ![p] = Put(@, "dp", Failed(@))]
  <2>1. /\ Failed(loc[p]) \in {"idle", "linkbad"}
        /\ Failed(loc[p]) = "idle" <=> loc[p].ip = 0
        /\ Failed(loc[p]) = "linkbad" => loc[p].call = "link"
    BY <1>3 DEF Failed, Counted
  <2>2. PICK r \in Frame : r = Put(loc[p], "dp", Failed(loc[p])) /\ Holds(r) /\ Gains(r, loc[p], 0)
    BY <1>1, <1>3, <2>1, PutDp
  <2>3. loc' = [loc EXCEPT ![p] = r]
    BY <1>9, <2>2
  <2>4. Grown(icache, icache', 0)
    BY <1>5, <1>9, SameIsGrown
  <2> QED BY <1>8, <2>2, <2>3, <2>4, GrowStep
<1>10. CASE Parent(loc[p]) /\ rest = <<>> /\ icache' = ic /\ Goto(p, "parent")
  <2>1. MayGo(loc[p], "parent")
    BY <1>3, <1>10 DEF Holds, Goal, Iput, Parent, Counted, MayGo
  <2> QED BY <1>5, <1>8, <1>10, <2>1, GotoStep DEF Labels
<1>11. CASE /\ ~(Parent(loc[p]) /\ rest = <<>>) /\ i # 0
            /\ \E x \in Slot(i) :
                  /\ icache' = Iget(ic, x, i)
                  /\ loc' = [loc EXCEPT
                        ![p] = [Put(@, "dp", IF rest = <<>> THEN "found" ELSE "walk")
                                  EXCEPT !.dp = x, !.path = rest]]
  <2>1. PICK x \in Slot(i) :
            /\ icache' = Iget(ic, x, i)
            /\ loc' = [loc EXCEPT
                  ![p] = [Put(@, "dp", IF rest = <<>> THEN "found" ELSE "walk")
                            EXCEPT !.dp = x, !.path = rest]]
    BY <1>11
  <2>2. x \in Entries /\ Grown(icache, icache', x) /\ x # 0
    BY <1>5, <1>7, <1>11, <2>1, IgetGrows, SameTransitive DEF Entries
  <2>3. PICK t \in Labels : t = IF rest = <<>> THEN "found" ELSE "walk"
    BY DEF Labels
  <2>4. t # "idle"
    BY <2>3
  <2>5. PICK b \in Frame : b = Put(loc[p], "dp", t)
    BY <1>1, PutFrame
  <2>6. /\ b.pc = "put" /\ b.then = t /\ b.dp = 0 /\ b.tgt = e /\ b.ip = loc[p].ip
        /\ b.num = 0 /\ b.call = loc[p].call
    BY <1>1, <1>3, <2>4, <2>5, PutFrame
  <2>7. PICK b1 \in Frame : b1 = [b EXCEPT !.dp = x]
    BY <2>2 DEF Frame
  <2>8. PICK r \in Frame : r = [b1 EXCEPT !.path = rest]
    BY <1>6, <2>7 DEF Frame
  <2>9. /\ r.pc = "put" /\ r.then = t /\ r.dp = x /\ r.tgt = e /\ r.ip = loc[p].ip
        /\ r.num = 0 /\ r.call = loc[p].call /\ r.path = rest
    BY <2>6, <2>7, <2>8 DEF Frame
  <2>10. loc' = [loc EXCEPT ![p] = r]
    BY <2>1, <2>3, <2>5, <2>7, <2>8
  <2>11. rest = <<>> => loc[p].ip = 0
    BY <1>3, <1>11 DEF Parent, Counted
  <2>12. Holds(r)
    BY <1>3, <2>2, <2>3, <2>9, <2>11 DEF Holds, Goal, Iput
  <2>13. Gains(r, loc[p], x)
    BY <1>3, <1>4, <2>2, <2>9 DEF Gains, Own, One, Entries
  <2> QED BY <1>8, <2>2, <2>10, <2>12, <2>13, GrowStep
<1> QED BY <1>9, <1>10, <1>11 DEF Walk

(* PutTest: the test of iput() counts nothing. *)
LEMMA PutTestRefs ==
    ASSUME RefInv, NEW p \in Procs, PutTest(p)
    PROVE  RefInv'
<1>1. /\ loc[p] \in Frame /\ Holds(loc[p]) /\ DiskShapes
      /\ icache \in [Entries -> Cached] /\ Same(icache, icache)
  BY FrameOf
<1>2. loc[p].pc = "put"
  BY DEF PutTest, At
<1>3. loc[p].tgt \in Entries
  BY <1>1, <1>2 DEF Holds, Iput, Frame
<1>4. \A l \in {"trunc", "drop"} : l \in Labels /\ MayGo(loc[p], l)
  BY <1>1, <1>2 DEF MayGo, Holds, Goal, Iput, Labels, Parent, Counted
<1>5. DiskShapes' /\ UNCHANGED files
  BY <1>1 DEF PutTest, disk, DiskShapes
<1>6. Same(icache, Hold(icache, loc[p].tgt, p))
  BY <1>1, <1>3, SameSteps
<1>7. Same(icache, icache')
  BY <1>1, <1>6 DEF PutTest
<1>8. \E l \in {"trunc", "drop"} : Goto(p, l)
  BY DEF PutTest
<1> QED BY <1>4, <1>5, <1>7, <1>8, GotoStep

(* Trunc: itrunc() under iput() frees a block and no reference. *)
LEMMA TruncRefs ==
    ASSUME RefInv, NEW p \in Procs, Trunc(p)
    PROVE  RefInv'
<1>1. loc[p] \in Frame /\ Holds(loc[p]) /\ DiskShapes /\ Same(icache, icache)
  BY FrameOf
<1>2. loc[p].pc = "trunc" /\ Goto(p, "free")
  BY DEF Trunc, At
<1>3. "free" \in Labels /\ MayGo(loc[p], "free")
  BY <1>1, <1>2 DEF MayGo, Holds, Goal, Iput, Labels, Parent, Counted
<1>4. DiskShapes' /\ UNCHANGED files
  BY <1>1 DEF Trunc, DiskShapes, Bfree
<1>5. Same(icache, icache')
  BY <1>1 DEF Trunc
<1> QED BY <1>2, <1>3, <1>4, <1>5, GotoStep

(* Changes of an inode keep the types. *)
LEMMA DinodeOps ==
    ASSUME NEW d \in AnyDinode
    PROVE  /\ \A k \in Int : Links(d, k) \in AnyDinode
           /\ \A b \in Blocks \cup {0} : Bmap(d, b) \in AnyDinode
           /\ [d EXCEPT !.nlink = 1] \in AnyDinode
           /\ [d EXCEPT !.type = "none", !.addr = 0] \in AnyDinode
<1>1. \A k \in Int : Links(d, k) \in AnyDinode
  BY DEF Links, AnyDinode
<1>2. \A b \in Blocks \cup {0} : Bmap(d, b) \in AnyDinode
  BY DEF Bmap, AnyDinode
<1>3. [d EXCEPT !.nlink = 1] \in AnyDinode
  BY DEF AnyDinode
<1>4. [d EXCEPT !.type = "none", !.addr = 0] \in AnyDinode
  <2>1. PICK c \in AnyDinode : c = [d EXCEPT !.type = "none"]
    BY DEF AnyDinode
  <2>2. [c EXCEPT !.addr = 0] \in AnyDinode
    BY DEF AnyDinode
  <2> QED BY <2>1, <2>2
<1> QED BY <1>1, <1>2, <1>3, <1>4

(* iupdate, dirlink and a fresh directory keep the shape of the disk. *)
LEMMA DiskOps ==
    ASSUME DiskShapes, NEW e \in Entries, icache \in [Entries -> Cached]
    PROVE  /\ \A di \in [Inums -> AnyDinode], d \in AnyDinode :
                Iupdate(di, e, d) \in [Inums -> AnyDinode]
           /\ \A n \in DirNames, i \in Inums \cup {0} :
                Dirlink(e, n, i) \in [Inums -> [DirNames -> Inums \cup {0}]]
           /\ NoNames \in [DirNames -> Inums \cup {0}]
           /\ icache[e].copy \in AnyDinode
BY DEF DiskShapes, Iupdate, Dirlink, NoNames, Cached

(* Free: iput() writes the inode as free; the reference is still held. *)
LEMMA FreeRefs ==
    ASSUME RefInv, NEW p \in Procs, Free(p)
    PROVE  RefInv'
<1> DEFINE e == loc[p].tgt
           d == [icache[e].copy EXCEPT !.type = "none", !.addr = 0]
<1>1. loc[p] \in Frame /\ Holds(loc[p]) /\ DiskShapes /\ icache \in [Entries -> Cached]
  BY FrameOf
<1>2. loc[p].pc = "free" /\ Goto(p, "invalidate")
  BY DEF Free, At
<1>3. "invalidate" \in Labels /\ MayGo(loc[p], "invalidate")
  BY <1>1, <1>2 DEF MayGo, Holds, Goal, Iput, Labels, Parent, Counted
<1>4. e \in Entries
  BY <1>1, <1>2 DEF Holds, Iput, Frame
<1>5. d \in AnyDinode
  BY <1>1, <1>4, DinodeOps, DiskOps
<1>6. dinode' = Iupdate(dinode, e, d) /\ icache' = Change(icache, e, d)
  BY DEF Free
<1>7. dinode' \in [Inums -> AnyDinode] /\ Same(icache, icache')
  BY <1>1, <1>4, <1>5, <1>6, DiskOps, SameSteps DEF DiskShapes
<1>8. entry' \in [Inums -> [DirNames -> Inums \cup {0}]]
  <2>1. entry' = [entry EXCEPT ![Dir(e)] = NoNames]
    BY DEF Free
  <2>2. NoNames \in [DirNames -> Inums \cup {0}]
    BY <1>1, <1>4, DiskOps
  <2> QED BY <1>1, <2>1, <2>2 DEF DiskShapes
<1>9. DiskShapes' /\ UNCHANGED files
  BY <1>1, <1>7, <1>8 DEF Free, DiskShapes
<1> QED BY <1>2, <1>3, <1>7, <1>9, GotoStep

(* Invalidate: iput() forgets the copy; the reference is still held. *)
LEMMA InvalidateRefs ==
    ASSUME RefInv, NEW p \in Procs, Invalidate(p)
    PROVE  RefInv'
<1> DEFINE e == loc[p].tgt
<1>1. loc[p] \in Frame /\ Holds(loc[p]) /\ DiskShapes /\ icache \in [Entries -> Cached]
  BY FrameOf
<1>2. loc[p].pc = "invalidate" /\ Goto(p, "drop")
  BY DEF Invalidate, At
<1>3. "drop" \in Labels /\ MayGo(loc[p], "drop")
  BY <1>1, <1>2 DEF MayGo, Holds, Goal, Iput, Labels, Parent, Counted
<1>4. e \in Entries
  BY <1>1, <1>2 DEF Holds, Iput, Frame
<1>5. Same(icache, Invalid(icache, e))
  BY <1>1, <1>4, SameSteps
<1>6. Same(Invalid(icache, e), Iunlock(Invalid(icache, e), e, p))
  BY <1>4, <1>5, SameSteps DEF Same
<1>7. Same(icache, icache')
  BY <1>5, <1>6, SameTransitive DEF Invalidate
<1>8. DiskShapes' /\ UNCHANGED files
  BY <1>1 DEF Invalidate, DiskShapes, disk
<1> QED BY <1>2, <1>3, <1>7, <1>8, GotoStep

(* ref-- of the entry that is put, which leaves the frame. *)
LEMMA LoseStep ==
    ASSUME RefInv, NEW p \in Procs, NEW r \in Frame, Holds(r), NEW ic,
           loc' = [loc EXCEPT ![p] = r], UNCHANGED <<disk, files>>,
           loc[p].tgt \in Entries, ic = [icache EXCEPT ![loc[p].tgt].ref = @ - 1],
           ic \in [Entries -> Cached] => Same(ic, icache'),
           Gains(loc[p], r, loc[p].tgt)
    PROVE  RefInv'
<1>1. PICK x \in Entries : x = loc[p].tgt
  OBVIOUS
<1>2. /\ DiskShapes /\ icache \in [Entries -> Cached]
      /\ \A e \in Entries : icache[e].ref \in Nat /\ (icache[e].ref > 0 => icache[e].inum # 0)
  BY DEF RefInv, Shapes, Cached, Used
<1>3. icache[x].ref > 0
  BY <1>1, Pointed
<1>4. [icache[x] EXCEPT !.ref = @ - 1] \in Cached
  BY <1>2, <1>3 DEF Cached
<1>5. ic \in [Entries -> Cached]
  BY <1>1, <1>2, <1>4
<1>6. \A e \in Entries : ic[e].ref = icache[e].ref - One(e = x) /\ ic[e].inum = icache[e].inum
  <2>1. ic[x].ref = icache[x].ref - 1 /\ ic[x].inum = icache[x].inum
    BY <1>1, <1>2 DEF Cached
  <2>2. \A e \in Entries \ {x} : ic[e] = icache[e]
    BY <1>1, <1>2
  <2> QED BY <1>2, <2>1, <2>2 DEF One
<1>7. Same(ic, icache')
  BY <1>5
<1>8. icache' \in [Entries -> Cached]
  BY <1>7 DEF Same
<1>9. ASSUME NEW e \in Entries
      PROVE  /\ icache'[e].ref = icache[e].ref + Own(r, e) - Own(loc[p], e)
             /\ icache'[e].ref > 0 => icache'[e].inum # 0
  <2>1. Own(r, e) \in Nat /\ Own(loc[p], e) \in Nat /\ One(e = x) \in Nat
    BY DEF Own, One
  <2>2. Own(loc[p], e) = Own(r, e) + One(e = x)
    BY <1>1 DEF Gains
  <2>3. icache'[e].ref = icache[e].ref - One(e = x) /\ icache'[e].inum = icache[e].inum
    BY <1>6, <1>7 DEF Same
  <2>4. icache[e].ref \in Nat /\ (icache[e].ref > 0 => icache[e].inum # 0)
    BY <1>2
  <2>5. icache'[e].ref = icache[e].ref + Own(r, e) - Own(loc[p], e)
    BY <2>1, <2>2, <2>3, <2>4
  <2>6. icache'[e].ref > 0 => icache[e].ref > 0
    BY <2>1, <2>3, <2>4
  <2> QED BY <2>3, <2>4, <2>5, <2>6
<1>10. DiskShapes' /\ UNCHANGED files
  BY <1>2 DEF DiskShapes, disk
<1> QED BY <1>8, <1>9, <1>10, FrameStep

(* Drop: the end of iput(), which gives up the one reference of the target. *)
LEMMA DropRefs ==
    ASSUME RefInv, NEW p \in Procs, Drop(p)
    PROVE  RefInv'
<1>1. PICK l \in Frame : l = loc[p] /\ Holds(l)
  BY FrameOf
<1>2. PICK ic : ic = [icache EXCEPT ![l.tgt].ref = @ - 1]
  OBVIOUS
<1>3. l.pc = "drop" /\ UNCHANGED <<disk, files>>
  BY <1>1 DEF Drop, At
<1>4. l.tgt \in Entries /\ l.tgt # 0 /\ l.num = 0
  BY <1>1, <1>3 DEF Holds, Goal, Iput, Frame
<1>5. ic \in [Entries -> Cached] => Same(ic, ic)
  BY DEF Same
<1>6. CASE /\ l.then \notin {"idle", "putip", "putdp"} /\ icache' = ic
           /\ loc' = [loc EXCEPT ![p].pc = l.then, ![p].tgt = 0]
  <2>1. PICK r1 \in Frame : r1 = [l EXCEPT !.pc = l.then]
    BY DEF Frame
  <2>2. PICK r \in Frame : r = [r1 EXCEPT !.tgt = 0]
    BY <2>1 DEF Frame
  <2>3. /\ r.pc = l.then /\ r.tgt = 0 /\ r.dp = l.dp /\ r.ip = l.ip /\ r.num = 0
        /\ r.call = l.call /\ r.path = l.path
    BY <1>4, <2>1, <2>2 DEF Frame
  <2>4. loc' = [loc EXCEPT ![p] = r]
    <3>1. PICK m : m = [loc EXCEPT ![p].pc = l.then]
      OBVIOUS
    <3>2. DOMAIN loc = Procs
      BY FrameOf
    <3>3. m[p] = r1 /\ loc' = [m EXCEPT ![p].tgt = 0]
      BY <1>1, <1>6, <2>1, <3>1, <3>2
    <3>4. loc' = [m EXCEPT ![p] = r]
      BY <2>2, <3>3
    <3> QED BY <3>1, <3>2, <3>4
  <2>5. Holds(r)
    BY <1>1, <1>3, <1>4, <1>6, <2>3 DEF Holds, Goal, Iput, Parent, Counted
  <2>6. Gains(l, r, l.tgt)
    BY <2>3 DEF Gains, Own, One, Entries
  <2> QED BY <1>1, <1>2, <1>3, <1>4, <1>5, <1>6, <2>4, <2>5, <2>6, LoseStep
<1>7. CASE l.then = "idle" /\ icache' = ic /\ loc' = [loc EXCEPT ![p] = Idle]
  <2>1. Idle \in Frame
    BY DEF Idle, Frame, Labels, Calls, NoPath, Path
  <2>2. /\ Idle.pc = "idle" /\ Idle.tgt = 0 /\ Idle.dp = 0 /\ Idle.ip = 0 /\ Idle.num = 0
    BY DEF Idle
  <2>3. l.dp = 0 /\ l.ip = 0
    BY <1>1, <1>3, <1>7 DEF Holds, Goal, Iput
  <2>4. Holds(Idle)
    BY <2>2 DEF Holds, Goal, Iput
  <2>5. Gains(l, Idle, l.tgt)
    BY <2>2, <2>3 DEF Gains, Own, One, Entries
  <2> QED BY <1>1, <1>2, <1>3, <1>4, <1>5, <1>7, <2>1, <2>4, <2>5, LoseStep
<1>8. CASE /\ l.then = "putip" /\ icache' = Iunlock(ic, l.ip, p)
           /\ loc' = [loc EXCEPT ![p] = Put(@, "ip", "idle")]
  <2>1. l.dp = 0 /\ l.ip # 0 /\ l.ip \in Entries
    BY <1>1, <1>3, <1>8 DEF Holds, Goal, Iput, Frame
  <2>2. PICK r \in Frame : r = Put(l, "ip", "idle")
    BY PutFrame DEF Labels
  <2>3. /\ r.pc = "put" /\ r.then = "idle" /\ r.tgt = l.ip /\ r.ip = 0 /\ r.dp = 0 /\ r.num = 0
    BY <2>2, PutFrame DEF Labels
  <2>4. Holds(r)
    BY <2>1, <2>3 DEF Holds, Goal, Iput
  <2>5. Gains(l, r, l.tgt)
    BY <2>1, <2>3 DEF Gains, Own, One, Entries
  <2>6. ic \in [Entries -> Cached] => Same(ic, icache')
    BY <1>8, <2>1, SameSteps
  <2>7. loc' = [loc EXCEPT ![p] = r]
    BY <1>1, <1>8, <2>2
  <2> QED BY <1>1, <1>2, <1>3, <1>4, <2>4, <2>5, <2>6, <2>7, LoseStep
<1>9. CASE /\ l.then = "putdp" /\ icache' = Iunlock(ic, l.dp, p)
           /\ loc' = [loc EXCEPT ![p] = Put(@, "dp", Failed(@))]
  <2>1. l.dp # 0 /\ l.dp \in Entries /\ (l.ip # 0 => l.call = "link")
    BY <1>1, <1>3, <1>9 DEF Holds, Goal, Iput, Frame
  <2>2. /\ Failed(l) \in {"idle", "linkbad"} /\ Failed(l) \in Labels
        /\ Failed(l) = "idle" <=> l.ip = 0
        /\ Failed(l) = "linkbad" => l.call = "link"
    BY <2>1 DEF Failed, Counted, Labels
  <2>3. PICK r \in Frame : r = Put(l, "dp", Failed(l))
    BY <2>2, PutFrame
  <2>4. /\ r.pc = "put" /\ r.then = Failed(l) /\ r.tgt = l.dp /\ r.dp = 0
        /\ r.ip = l.ip /\ r.num = 0 /\ (Failed(l) # "idle" => r.call = l.call)
    BY <1>4, <2>2, <2>3, PutFrame
  <2>5. Holds(r)
    BY <2>1, <2>2, <2>4 DEF Holds, Goal, Iput
  <2>6. Gains(l, r, l.tgt)
    BY <2>1, <2>4 DEF Gains, Own, One, Entries
  <2>7. ic \in [Entries -> Cached] => Same(ic, icache')
    BY <1>9, <2>1, SameSteps
  <2>8. loc' = [loc EXCEPT ![p] = r]
    BY <1>1, <1>9, <2>3
  <2> QED BY <1>1, <1>2, <1>3, <1>4, <2>5, <2>6, <2>7, <2>8, LoseStep
<1> QED BY <1>1, <1>2, <1>6, <1>7, <1>8, <1>9 DEF Drop

(* The frame's pointers and the references stay the same. *)
LEMMA SameStep ==
    ASSUME RefInv, NEW p \in Procs, NEW r \in Frame, Holds(r), Gains(r, loc[p], 0),
           loc' = [loc EXCEPT ![p] = r],
           DiskShapes', Same(icache, icache'), UNCHANGED files
    PROVE  RefInv'
<1>1. Grown(icache, icache', 0)
  BY SameIsGrown
<1> QED BY <1>1, GrowStep

(* CreateLook: dirlookup in create() counts the inode it found. *)
LEMMA CreateLookRefs ==
    ASSUME RefInv, NEW p \in Procs, CreateLook(p)
    PROVE  RefInv'
<1> DEFINE e == loc[p].dp
           ic == Ilock(icache, e)
           i == Lookup(e, Name(p))
<1>1. loc[p] \in Frame /\ Holds(loc[p]) /\ DiskShapes
  BY FrameOf
<1>2. loc[p].pc = "parent" /\ loc[p].call # "link"
  BY DEF CreateLook, At
<1>3. /\ e # 0 /\ loc[p].tgt = 0 /\ loc[p].num = 0 /\ loc[p].path # <<>> /\ loc[p].ip = 0
  BY <1>1, <1>2 DEF Holds, Goal, Iput
<1>4. e \in Entries
  BY <1>1, <1>3 DEF Frame
<1>5. Same(icache, ic) /\ icache[e].inum \in Inums
  BY <1>4, FrameOf
<1>6. i \in Inums \cup {0}
  <2>1. Name(p) \in DirNames
    BY <1>1, <1>3 DEF Frame, Name
  <2> QED BY <1>1, <1>5, <2>1 DEF DiskShapes, Lookup, Dir
<1>7. DiskShapes' /\ UNCHANGED files
  BY <1>1 DEF CreateLook, disk, DiskShapes
<1>8. CASE i # 0 /\ \E x \in Slot(i) :
                /\ icache' = Iget(ic, x, i)
                /\ loc' = [loc EXCEPT ![p] = [Put(@, "dp", "exists") EXCEPT !.ip = x]]
  <2>1. PICK x \in Slot(i) :
                /\ icache' = Iget(ic, x, i)
                /\ loc' = [loc EXCEPT ![p] = [Put(@, "dp", "exists") EXCEPT !.ip = x]]
    BY <1>8
  <2>2. x \in Entries /\ Grown(icache, icache', x) /\ x # 0
    BY <1>5, <1>6, <1>8, <2>1, IgetGrows, SameTransitive DEF Entries
  <2>3. PICK b \in Frame : b = Put(loc[p], "dp", "exists")
    BY <1>1, PutFrame DEF Labels
  <2>4. /\ b.pc = "put" /\ b.then = "exists" /\ b.dp = 0 /\ b.tgt = e /\ b.num = 0
    BY <1>1, <1>3, <2>3, PutFrame DEF Labels
  <2>5. PICK r \in Frame : r = [b EXCEPT !.ip = x]
    BY <2>2 DEF Frame
  <2>6. /\ r.pc = "put" /\ r.then = "exists" /\ r.dp = 0 /\ r.tgt = e /\ r.num = 0 /\ r.ip = x
    BY <2>4, <2>5 DEF Frame
  <2>7. Holds(r)
    BY <1>3, <2>2, <2>6 DEF Holds, Goal, Iput
  <2>8. Gains(r, loc[p], x)
    BY <1>3, <2>6 DEF Gains, Own, One, Entries
  <2>9. loc' = [loc EXCEPT ![p] = r]
    BY <2>1, <2>3, <2>5
  <2> QED BY <1>7, <2>2, <2>7, <2>8, <2>9, GrowStep
<1>9. CASE icache' = Hold(ic, e, p) /\ Goto(p, "ialloc")
  <2>1. "ialloc" \in Labels /\ MayGo(loc[p], "ialloc")
    BY <1>3 DEF MayGo, Holds, Goal, Iput, Labels
  <2>2. Same(icache, icache')
    BY <1>4, <1>5, <1>9, SameSteps, SameTransitive DEF Same
  <2> QED BY <1>7, <1>9, <2>1, <2>2, GotoStep
<1> QED BY <1>8, <1>9 DEF CreateLook

(* Exists: create() met an existing name and keeps or puts its reference. *)
LEMMA ExistsRefs ==
    ASSUME RefInv, NEW p \in Procs, Exists(p)
    PROVE  RefInv'
<1> DEFINE e == loc[p].ip
           ic == Ilock(icache, e)
<1>1. loc[p] \in Frame /\ Holds(loc[p]) /\ DiskShapes
  BY FrameOf
<1>2. loc[p].pc = "exists"
  BY DEF Exists, At
<1>3. e # 0 /\ loc[p].tgt = 0 /\ loc[p].num = 0 /\ loc[p].dp = 0
  BY <1>1, <1>2 DEF Holds, Goal, Iput
<1>4. e \in Entries
  BY <1>1, <1>3 DEF Frame
<1>5. Same(icache, ic)
  BY <1>4, FrameOf
<1>6. DiskShapes' /\ UNCHANGED files
  BY <1>1 DEF Exists, disk, DiskShapes
<1>7. CASE icache' = Hold(ic, e, p) /\ Goto(p, "file")
  <2>1. "file" \in Labels /\ MayGo(loc[p], "file")
    BY <1>3 DEF MayGo, Holds, Goal, Iput, Labels
  <2>2. Same(icache, icache')
    BY <1>4, <1>5, <1>7, SameSteps, SameTransitive DEF Same
  <2> QED BY <1>6, <1>7, <2>1, <2>2, GotoStep
<1>8. CASE icache' = ic /\ loc' = [loc EXCEPT ![p] = Put(@, "ip", "idle")]
  <2>1. PICK r \in Frame : r = Put(loc[p], "ip", "idle") /\ Holds(r) /\ Gains(r, loc[p], 0)
    BY <1>1, <1>3, PutIp
  <2> QED BY <1>5, <1>6, <1>8, <2>1, SameStep
<1> QED BY <1>7, <1>8 DEF Exists

(* Ialloc: the inode is claimed on disk and no entry of the cache is counted yet. *)
LEMMA IallocRefs ==
    ASSUME RefInv, NEW p \in Procs, Ialloc(p)
    PROVE  RefInv'
<1>1. loc[p] \in Frame /\ Holds(loc[p]) /\ DiskShapes /\ DOMAIN loc = Procs /\ Same(icache, icache)
  BY FrameOf
<1>2. loc[p].pc = "ialloc"
  BY DEF Ialloc, At
<1>3. /\ loc[p].dp # 0 /\ loc[p].tgt = 0 /\ loc[p].num = 0 /\ loc[p].ip = 0
      /\ loc[p].path # <<>>
  BY <1>1, <1>2 DEF Holds, Goal, Iput
<1>4. PICK i \in Inums :
          /\ dinode' = [dinode EXCEPT ![i] = [NoInode EXCEPT !.type = NewType(loc[p].call)]]
          /\ loc' = [loc EXCEPT ![p].pc = "iget", ![p].num = i]
  BY DEF Ialloc
<1>5. [NoInode EXCEPT !.type = NewType(loc[p].call)] \in AnyDinode
  BY DEF NoInode, AnyDinode, NewType
<1>6. DiskShapes' /\ UNCHANGED files /\ Same(icache, icache')
  BY <1>1, <1>4, <1>5 DEF Ialloc, DiskShapes
<1>7. PICK r1 \in Frame : r1 = [loc[p] EXCEPT !.pc = "iget"]
  BY <1>1 DEF Frame, Labels
<1>8. PICK r \in Frame : r = [r1 EXCEPT !.num = i]
  BY <1>7 DEF Frame
<1>9. /\ r.pc = "iget" /\ r.num = i /\ r.dp = loc[p].dp /\ r.ip = 0 /\ r.tgt = 0
      /\ r.path = loc[p].path
  BY <1>1, <1>3, <1>7, <1>8 DEF Frame
<1>10. loc' = [loc EXCEPT ![p] = r]
  <2>1. PICK m : m = [loc EXCEPT ![p].pc = "iget"]
    OBVIOUS
  <2>2. m[p] = r1 /\ loc' = [m EXCEPT ![p].num = i]
    BY <1>1, <1>4, <1>7, <2>1
  <2>3. loc' = [m EXCEPT ![p] = r]
    BY <1>8, <2>2
  <2> QED BY <1>1, <2>1, <2>3
<1>11. Holds(r)
  BY <1>3, <1>9, InodeAssumption DEF Holds, Goal, Iput
<1>12. Gains(r, loc[p], 0)
  BY <1>3, <1>9 DEF Gains, Own, One, Entries
<1> QED BY <1>6, <1>10, <1>11, <1>12, SameStep

(* IallocGet: iget of the claimed inode counts its entry. *)
LEMMA IallocGetRefs ==
    ASSUME RefInv, NEW p \in Procs, IallocGet(p)
    PROVE  RefInv'
<1>1. loc[p] \in Frame /\ Holds(loc[p]) /\ DiskShapes /\ DOMAIN loc = Procs /\ Same(icache, icache)
  BY FrameOf
<1>2. loc[p].pc = "iget"
  BY DEF IallocGet, At
<1>3. /\ loc[p].dp # 0 /\ loc[p].tgt = 0 /\ loc[p].num \in Inums /\ loc[p].ip = 0
      /\ loc[p].path # <<>>
  BY <1>1, <1>2 DEF Holds, Goal, Iput, Frame
<1>4. PICK x \in Slot(loc[p].num) :
          /\ icache' = Iget(icache, x, loc[p].num)
          /\ loc' = [loc EXCEPT ![p].pc = "enter", ![p].ip = x, ![p].num = 0]
  BY DEF IallocGet
<1>5. x \in Entries /\ x # 0 /\ Grown(icache, icache', x)
  BY <1>1, <1>3, <1>4, IgetGrows DEF Entries
<1>6. DiskShapes' /\ UNCHANGED files
  BY <1>1 DEF IallocGet, DiskShapes, disk
<1>7. PICK r1 \in Frame : r1 = [loc[p] EXCEPT !.pc = "enter"]
  BY <1>1 DEF Frame, Labels
<1>8. PICK r2 \in Frame : r2 = [r1 EXCEPT !.ip = x]
  BY <1>5, <1>7 DEF Frame
<1>9. PICK r \in Frame : r = [r2 EXCEPT !.num = 0]
  BY <1>8 DEF Frame
<1>10. /\ r.pc = "enter" /\ r.num = 0 /\ r.dp = loc[p].dp /\ r.ip = x /\ r.tgt = 0
       /\ r.path = loc[p].path
  BY <1>1, <1>3, <1>7, <1>8, <1>9 DEF Frame
<1>11. loc' = [loc EXCEPT ![p] = r]
  <2>1. PICK m1 : m1 = [loc EXCEPT ![p].pc = "enter"]
    OBVIOUS
  <2>2. PICK m2 : m2 = [m1 EXCEPT ![p].ip = x]
    OBVIOUS
  <2>3. m1[p] = r1 /\ m1 = [loc EXCEPT ![p] = r1]
    BY <1>1, <1>7, <2>1
  <2>4. m2[p] = r2 /\ m2 = [loc EXCEPT ![p] = r2]
    BY <1>1, <1>8, <2>2, <2>3
  <2>5. loc' = [m2 EXCEPT ![p].num = 0]
    BY <1>4, <2>1, <2>2
  <2>6. loc' = [m2 EXCEPT ![p] = r]
    BY <1>9, <2>4, <2>5
  <2> QED BY <1>1, <2>4, <2>6
<1>12. Holds(r)
  BY <1>3, <1>5, <1>10 DEF Holds, Goal, Iput
<1>13. Gains(r, loc[p], x)
  BY <1>3, <1>10 DEF Gains, Own, One, Entries
<1> QED BY <1>5, <1>6, <1>11, <1>12, <1>13, GrowStep

(* Unlocking one entry and keeping another locked. *)
LEMMA KeptSame ==
    ASSUME NEW ic, NEW jc, Same(ic, jc), NEW d \in Entries, NEW e \in Entries, NEW p \in Procs
    PROVE  Same(ic, Hold(Iunlock(jc, d, p), e, p)) /\ Same(ic, Iunlock(jc, d, p))
           /\ Same(ic, Hold(jc, e, p))
<1>1. jc \in [Entries -> Cached]
  BY DEF Same
<1>2. Same(jc, Iunlock(jc, d, p)) /\ Same(jc, Hold(jc, e, p))
  BY <1>1, SameSteps
<1>3. Iunlock(jc, d, p) \in [Entries -> Cached]
  BY <1>2 DEF Same
<1>4. Same(Iunlock(jc, d, p), Hold(Iunlock(jc, d, p), e, p))
  BY <1>3, SameSteps
<1> QED BY <1>2, <1>4, SameTransitive

(* A change of a cached copy leaves every reference alone. *)
LEMMA ChangeSame ==
    ASSUME NEW ic, NEW jc, Same(ic, jc), NEW e \in Entries, NEW d \in AnyDinode
    PROVE  Same(ic, Change(jc, e, d)) /\ jc[e].copy \in AnyDinode
<1>1. jc \in [Entries -> Cached]
  BY DEF Same
<1> QED BY <1>1, SameSteps, SameTransitive DEF Cached

(* Enter: create() writes the new names; its references go to the result or to iput. *)
LEMMA EnterRefs ==
    ASSUME RefInv, NEW p \in Procs, Enter(p)
    PROVE  RefInv'
<1>1. PICK l \in Frame : l = loc[p]
  BY FrameOf
<1>2. Holds(l) /\ DiskShapes /\ l.pc = "enter" /\ icache \in [Entries -> Cached]
  BY <1>1, FrameOf DEF Enter, At
<1>3. /\ l.dp # 0 /\ l.ip # 0 /\ l.tgt = 0 /\ l.num = 0 /\ l.path # <<>>
      /\ l.dp \in Entries /\ l.ip \in Entries
  BY <1>2 DEF Holds, Goal, Iput, Frame
<1>4. PICK ic : ic = Ilock(icache, l.ip)
  OBVIOUS
<1>5. Same(icache, ic) /\ Dir(l.ip) \in Inums /\ Dir(l.dp) \in Inums
  BY <1>1, <1>3, <1>4, FrameOf DEF Dir
<1> DEFINE i == Dir(l.ip)
           parent == Links(icache[l.dp].copy, 1)
           new(b) == Bmap([ic[l.ip].copy EXCEPT !.nlink = 1], b)
           dots == [NoNames EXCEPT !["."] = i, ![".."] = Dir(l.dp)]
           named == Dirlink(l.dp, Name(p), i)
           kept(ch) == Hold(Iunlock(ch, l.dp, p), l.ip, p)
<1>6. parent \in AnyDinode /\ \A b \in Blocks \cup {0} : new(b) \in AnyDinode
  <2>1. ic[l.ip].copy \in AnyDinode /\ icache[l.dp].copy \in AnyDinode
    BY <1>2, <1>3, <1>5 DEF Same, Cached
  <2>2. parent \in AnyDinode
    <3>1. \A d \in AnyDinode : Links(d, 1) \in AnyDinode
      BY DEF Links, AnyDinode
    <3> QED BY <2>1, <3>1
  <2>3. PICK c \in AnyDinode : c = [ic[l.ip].copy EXCEPT !.nlink = 1]
    BY <2>1, DinodeOps
  <2>4. \A b \in Blocks \cup {0} : Bmap(c, b) \in AnyDinode
    BY DinodeOps
  <2> QED BY <2>2, <2>3, <2>4
<1>7. Name(p) \in DirNames
  BY <1>1, <1>3 DEF Name, Frame
<1>8. named \in [Inums -> [DirNames -> Inums \cup {0}]]
  BY <1>2, <1>3, <1>5, <1>7, DiskOps
<1>9. dots \in [DirNames -> Inums \cup {0}]
  <2>1. PICK d1 \in [DirNames -> Inums \cup {0}] : d1 = [NoNames EXCEPT !["."] = i]
    BY <1>5 DEF NoNames
  <2>2. [d1 EXCEPT ![".."] = Dir(l.dp)] \in [DirNames -> Inums \cup {0}]
    BY <1>5
  <2> QED BY <2>1, <2>2
<1>10. ASSUME NEW b \in Blocks \cup {0}
       PROVE  /\ Iupdate(dinode, l.ip, new(b)) \in [Inums -> AnyDinode]
              /\ Iupdate(Iupdate(dinode, l.ip, new(b)), l.dp, parent) \in [Inums -> AnyDinode]
              /\ Same(icache, kept(Change(ic, l.ip, new(b))))
              /\ Same(icache, kept(Change(Change(ic, l.ip, new(b)), l.dp, parent)))
  <2>1. new(b) \in AnyDinode
    BY <1>6
  <2> HIDE DEF new, parent
  <2>2. Iupdate(dinode, l.ip, new(b)) \in [Inums -> AnyDinode]
    BY <1>2, <1>3, <2>1, DiskOps DEF DiskShapes
  <2>3. Iupdate(Iupdate(dinode, l.ip, new(b)), l.dp, parent) \in [Inums -> AnyDinode]
    BY <1>2, <1>3, <1>6, <2>2, DiskOps
  <2>4. Same(icache, Change(ic, l.ip, new(b)))
    BY <1>3, <1>5, <2>1, ChangeSame
  <2>5. Same(icache, Change(Change(ic, l.ip, new(b)), l.dp, parent))
    BY <1>3, <1>6, <2>4, ChangeSame
  <2> QED BY <1>3, <2>2, <2>3, <2>4, <2>5, KeptSame
<1>11. DiskShapes' /\ Same(icache, icache') /\ UNCHANGED files
  <2>1. UNCHANGED files
    BY DEF Enter
  <2>2. CASE /\ \E b \in Blocks :
                    /\ bitmap' = bitmap \cup {b}
                    /\ dinode' = Iupdate(Iupdate(dinode, l.ip, new(b)), l.dp, parent)
                    /\ icache' = kept(Change(Change(ic, l.ip, new(b)), l.dp, parent))
             /\ entry' = [named EXCEPT ![i] = dots]
    <3>1. PICK b \in Blocks :
                    /\ bitmap' = bitmap \cup {b}
                    /\ dinode' = Iupdate(Iupdate(dinode, l.ip, new(b)), l.dp, parent)
                    /\ icache' = kept(Change(Change(ic, l.ip, new(b)), l.dp, parent))
      BY <2>2
    <3> HIDE DEF new, parent, kept, dots, named
    <3>2. [named EXCEPT ![i] = dots] \in [Inums -> [DirNames -> Inums \cup {0}]]
      BY <1>8, <1>9
    <3>3. dinode' \in [Inums -> AnyDinode] /\ Same(icache, icache')
      BY <1>10, <3>1
    <3> QED BY <1>2, <2>1, <2>2, <3>1, <3>2, <3>3 DEF DiskShapes
  <2>3. CASE /\ dinode' = Iupdate(dinode, l.ip, new(0))
             /\ icache' = kept(Change(ic, l.ip, new(0)))
             /\ entry' = named
             /\ UNCHANGED bitmap
    <3> HIDE DEF new, parent, kept, dots, named
    <3>1. dinode' \in [Inums -> AnyDinode] /\ Same(icache, icache')
      BY <1>10, <2>3
    <3> QED BY <1>2, <1>8, <2>1, <2>3, <3>1 DEF DiskShapes
  <2> QED BY <1>1, <1>4, <2>2, <2>3 DEF Enter
<1>12. PICK t \in {"file", "putip"} : loc' = [loc EXCEPT ![p] = Put(@, "dp", t)]
  BY DEF Enter
<1>13. PICK r \in Frame : r = Put(loc[p], "dp", t) /\ Holds(r) /\ Gains(r, loc[p], 0)
  BY <1>1, <1>3, PutDp
<1> QED BY <1>11, <1>12, <1>13, SameStep

(* OpenLock: open() of an existing path keeps the walk's reference as its own. *)
LEMMA OpenLockRefs ==
    ASSUME RefInv, NEW p \in Procs, OpenLock(p)
    PROVE  RefInv'
<1> DEFINE e == loc[p].dp
           ic == Ilock(icache, e)
<1>1. loc[p] \in Frame /\ Holds(loc[p]) /\ DiskShapes /\ DOMAIN loc = Procs
  BY FrameOf
<1>2. loc[p].pc = "found"
  BY DEF OpenLock, InCall
<1>3. e # 0 /\ loc[p].tgt = 0 /\ loc[p].num = 0 /\ loc[p].ip = 0
  BY <1>1, <1>2 DEF Holds, Goal, Iput
<1>4. e \in Entries
  BY <1>1, <1>3 DEF Frame
<1>5. Same(icache, ic) /\ Same(icache, Hold(ic, e, p))
  BY <1>4, FrameOf, KeptSame
<1>6. DiskShapes' /\ UNCHANGED files
  BY <1>1 DEF OpenLock, disk, DiskShapes
<1>7. CASE /\ icache' = Hold(ic, e, p)
           /\ loc' = [loc EXCEPT ![p].pc = "file", ![p].ip = e, ![p].dp = 0]
  <2>1. PICK r1 \in Frame : r1 = [loc[p] EXCEPT !.pc = "file"]
    BY <1>1 DEF Frame, Labels
  <2>2. PICK r2 \in Frame : r2 = [r1 EXCEPT !.ip = e]
    BY <1>4, <2>1 DEF Frame
  <2>3. PICK r \in Frame : r = [r2 EXCEPT !.dp = 0]
    BY <2>2 DEF Frame
  <2>4. r.pc = "file" /\ r.num = 0 /\ r.dp = 0 /\ r.ip = e /\ r.tgt = 0
    BY <1>1, <1>3, <2>1, <2>2, <2>3 DEF Frame
  <2>5. loc' = [loc EXCEPT ![p] = r]
    <3>1. PICK m1 : m1 = [loc EXCEPT ![p].pc = "file"]
      OBVIOUS
    <3>2. PICK m2 : m2 = [m1 EXCEPT ![p].ip = e]
      OBVIOUS
    <3>3. m1[p] = r1 /\ m1 = [loc EXCEPT ![p] = r1]
      BY <1>1, <2>1, <3>1
    <3>4. m2[p] = r2 /\ m2 = [loc EXCEPT ![p] = r2]
      BY <1>1, <2>2, <3>2, <3>3
    <3>5. loc' = [m2 EXCEPT ![p].dp = 0]
      BY <1>7, <3>1, <3>2
    <3>6. loc' = [m2 EXCEPT ![p] = r]
      BY <2>3, <3>4, <3>5
    <3> QED BY <1>1, <3>4, <3>6
  <2>6. Holds(r)
    BY <1>3, <2>4 DEF Holds, Goal, Iput
  <2>7. Gains(r, loc[p], 0)
    BY <1>3, <2>4 DEF Gains, Own, One, Entries
  <2> QED BY <1>5, <1>6, <1>7, <2>5, <2>6, <2>7, SameStep
<1>8. CASE icache' = ic /\ loc' = [loc EXCEPT ![p] = Put(@, "dp", "idle")]
  <2>1. PICK r \in Frame : r = Put(loc[p], "dp", "idle") /\ Holds(r) /\ Gains(r, loc[p], 0)
    BY <1>1, <1>3, PutDp
  <2> QED BY <1>5, <1>6, <1>8, <2>1, SameStep
<1> QED BY <1>7, <1>8 DEF OpenLock

(* OpenFails: without a file or a descriptor, open() puts the inode. *)
LEMMA OpenFailsRefs ==
    ASSUME RefInv, NEW p \in Procs, OpenFails(p)
    PROVE  RefInv'
<1>1. loc[p] \in Frame /\ Holds(loc[p]) /\ DiskShapes /\ Same(icache, icache)
  BY FrameOf
<1>2. loc[p].pc = "file"
  BY DEF OpenFails, At
<1>3. loc[p].ip # 0 /\ loc[p].tgt = 0 /\ loc[p].num = 0 /\ loc[p].dp = 0 /\ loc[p].ip \in Entries
  BY <1>1, <1>2 DEF Holds, Goal, Iput, Frame
<1>4. DiskShapes' /\ UNCHANGED files
  BY <1>1 DEF OpenFails, disk, DiskShapes
<1>5. Same(icache, icache')
  BY <1>1, <1>3, KeptSame DEF OpenFails
<1>6. PICK r \in Frame : r = Put(loc[p], "ip", "idle") /\ Holds(r) /\ Gains(r, loc[p], 0)
  BY <1>1, <1>3, PutIp
<1>7. loc' = [loc EXCEPT ![p] = r]
  BY <1>6 DEF OpenFails, GiveUp
<1> QED BY <1>4, <1>5, <1>6, <1>7, SameStep

(* UnlinkLook: unlink() counts the inode it found, or puts the directory. *)
LEMMA UnlinkLookRefs ==
    ASSUME RefInv, NEW p \in Procs, UnlinkLook(p)
    PROVE  RefInv'
<1> DEFINE e == loc[p].dp
           ic == Ilock(icache, e)
           i == Lookup(e, Name(p))
<1>1. loc[p] \in Frame /\ Holds(loc[p]) /\ DiskShapes /\ DOMAIN loc = Procs
  BY FrameOf
<1>2. loc[p].pc = "parent" /\ loc[p].call = "unlink"
  BY DEF UnlinkLook, InCall
<1>3. /\ e # 0 /\ loc[p].tgt = 0 /\ loc[p].num = 0 /\ loc[p].path # <<>> /\ loc[p].ip = 0
  BY <1>1, <1>2 DEF Holds, Goal, Iput
<1>4. e \in Entries
  BY <1>1, <1>3 DEF Frame
<1>5. Same(icache, ic) /\ icache[e].inum \in Inums
  BY <1>4, FrameOf
<1>6. i \in Inums \cup {0}
  <2>1. Name(p) \in DirNames
    BY <1>1, <1>3 DEF Frame, Name
  <2> QED BY <1>1, <1>5, <2>1 DEF DiskShapes, Lookup, Dir
<1>7. DiskShapes' /\ UNCHANGED files
  BY <1>1 DEF UnlinkLook, disk, DiskShapes
<1>8. CASE icache' = ic /\ loc' = [loc EXCEPT ![p] = Put(@, "dp", "idle")]
  <2>1. PICK r \in Frame : r = Put(loc[p], "dp", "idle") /\ Holds(r) /\ Gains(r, loc[p], 0)
    BY <1>1, <1>3, PutDp
  <2> QED BY <1>5, <1>7, <1>8, <2>1, SameStep
<1>9. CASE i # 0 /\ \E x \in Slot(i) :
                    /\ icache' = Hold(Iget(ic, x, i), e, p)
                    /\ loc' = [loc EXCEPT ![p].pc = "unlink", ![p].ip = x]
  <2>1. PICK x \in Slot(i) :
                    /\ icache' = Hold(Iget(ic, x, i), e, p)
                    /\ loc' = [loc EXCEPT ![p].pc = "unlink", ![p].ip = x]
    BY <1>9
  <2>2. x \in Entries /\ Grown(icache, Iget(ic, x, i), x) /\ x # 0
    BY <1>5, <1>6, <1>9, <2>1, IgetGrows, SameTransitive DEF Entries
  <2>3. Grown(icache, icache', x)
    <3>1. Iget(ic, x, i) \in [Entries -> Cached]
      BY <2>2 DEF Grown
    <3>2. Same(Iget(ic, x, i), Hold(Iget(ic, x, i), e, p))
      BY <1>4, <3>1, SameSteps
    <3> QED BY <2>1, <2>2, <3>2, SameTransitive
  <2>4. PICK r1 \in Frame : r1 = [loc[p] EXCEPT !.pc = "unlink"]
    BY <1>1 DEF Frame, Labels
  <2>5. PICK r \in Frame : r = [r1 EXCEPT !.ip = x]
    BY <2>2, <2>4 DEF Frame
  <2>6. r.pc = "unlink" /\ r.num = 0 /\ r.dp = e /\ r.ip = x /\ r.tgt = 0 /\ r.path = loc[p].path
    BY <1>1, <1>3, <2>4, <2>5 DEF Frame
  <2>7. loc' = [loc EXCEPT ![p] = r]
    <3>1. PICK m : m = [loc EXCEPT ![p].pc = "unlink"]
      OBVIOUS
    <3>2. m[p] = r1 /\ loc' = [m EXCEPT ![p].ip = x]
      BY <1>1, <2>1, <2>4, <3>1
    <3>3. loc' = [m EXCEPT ![p] = r]
      BY <2>5, <3>2
    <3> QED BY <1>1, <3>1, <3>3
  <2>8. Holds(r)
    BY <1>3, <2>2, <2>6 DEF Holds, Goal, Iput
  <2>9. Gains(r, loc[p], x)
    BY <1>3, <2>6 DEF Gains, Own, One, Entries
  <2> QED BY <1>7, <2>2, <2>3, <2>7, <2>8, <2>9, GrowStep
<1> QED BY <1>8, <1>9 DEF UnlinkLook

(* Unlink: the name is erased and both references are still held. *)
LEMMA UnlinkRefs ==
    ASSUME RefInv, NEW p \in Procs, Unlink(p)
    PROVE  RefInv'
<1>1. PICK l \in Frame : l = loc[p]
  BY FrameOf
<1>2. Holds(l) /\ DiskShapes /\ l.pc = "unlink" /\ icache \in [Entries -> Cached]
  BY <1>1, FrameOf DEF Unlink, At
<1>3. /\ l.dp # 0 /\ l.ip # 0 /\ l.tgt = 0 /\ l.num = 0 /\ l.path # <<>>
      /\ l.dp \in Entries /\ l.ip \in Entries
  BY <1>2 DEF Holds, Goal, Iput, Frame
<1>4. PICK ic : ic = Ilock(icache, l.ip)
  OBVIOUS
<1>5. Same(icache, ic) /\ Dir(l.ip) \in Inums /\ Dir(l.dp) \in Inums
  BY <1>1, <1>3, <1>4, FrameOf DEF Dir
<1>6. Name(p) \in DirNames
  BY <1>1, <1>3 DEF Name, Frame
<1>7. UNCHANGED files
  BY DEF Unlink
<1>8. CASE /\ icache' = ic /\ loc' = [loc EXCEPT ![p] = Put(@, "ip", "putdp")]
           /\ UNCHANGED disk
  <2>1. PICK r \in Frame : r = Put(loc[p], "ip", "putdp") /\ Holds(r) /\ Gains(r, loc[p], 0)
    BY <1>1, <1>3, PutIp
  <2>2. DiskShapes'
    BY <1>2, <1>8 DEF DiskShapes, disk
  <2> QED BY <1>5, <1>7, <1>8, <2>1, <2>2, SameStep
<1>9. CASE \E parent \in AnyDinode :
              /\ entry' = Dirlink(l.dp, Name(p), 0)
              /\ dinode' = Iupdate(dinode, l.dp, parent)
              /\ icache' = Hold(Iunlock(Change(ic, l.dp, parent), l.dp, p), l.ip, p)
              /\ loc' = [loc EXCEPT ![p] = Put(@, "dp", "unlinked")]
              /\ UNCHANGED bitmap
  <2>1. PICK parent \in AnyDinode :
              /\ entry' = Dirlink(l.dp, Name(p), 0)
              /\ dinode' = Iupdate(dinode, l.dp, parent)
              /\ icache' = Hold(Iunlock(Change(ic, l.dp, parent), l.dp, p), l.ip, p)
    BY <1>9
  <2>2. Same(icache, Change(ic, l.dp, parent))
    BY <1>3, <1>5, ChangeSame
  <2>3. Same(icache, icache')
    BY <1>3, <2>1, <2>2, KeptSame
  <2>4. DiskShapes'
    BY <1>2, <1>3, <1>6, <1>9, <2>1, DiskOps DEF DiskShapes
  <2>5. PICK r \in Frame : r = Put(loc[p], "dp", "unlinked") /\ Holds(r) /\ Gains(r, loc[p], 0)
    BY <1>1, <1>3, PutDp
  <2> QED BY <1>7, <1>9, <2>3, <2>4, <2>5, SameStep
<1>10. \A k \in {0, -1} : Links(icache[l.dp].copy, k) \in AnyDinode
  <2>1. PICK c \in AnyDinode : c = icache[l.dp].copy
    BY <1>2, <1>3 DEF Cached
  <2>2. Links(c, 0) \in AnyDinode
    BY DEF Links, AnyDinode
  <2>3. Links(c, -1) \in AnyDinode
    BY DEF Links, AnyDinode
  <2> QED BY <2>1, <2>2, <2>3
<1>11. \A b \in BOOLEAN : Links(icache[l.dp].copy, IF b THEN -1 ELSE 0) \in AnyDinode
  BY <1>10
<1> QED BY <1>1, <1>4, <1>8, <1>9, <1>11 DEF Unlink

(* Unlinked: nlink is lowered and ip's reference goes to iput. *)
LEMMA UnlinkedRefs ==
    ASSUME RefInv, NEW p \in Procs, Unlinked(p)
    PROVE  RefInv'
<1> DEFINE e == loc[p].ip
           d == Links(icache[e].copy, -1)
<1>1. /\ loc[p] \in Frame /\ Holds(loc[p]) /\ DiskShapes /\ Same(icache, icache)
      /\ icache \in [Entries -> Cached]
  BY FrameOf
<1>2. loc[p].pc = "unlinked"
  BY DEF Unlinked, At
<1>3. e # 0 /\ e \in Entries /\ loc[p].tgt = 0 /\ loc[p].num = 0 /\ loc[p].dp = 0
  BY <1>1, <1>2 DEF Holds, Goal, Iput, Frame
<1>4. d \in AnyDinode
  BY <1>1, <1>3 DEF Cached, Links, AnyDinode
<1>5. /\ dinode' = Iupdate(dinode, e, d) /\ icache' = Iunlock(Change(icache, e, d), e, p)
      /\ loc' = [loc EXCEPT ![p] = Put(@, "ip", "idle")] /\ UNCHANGED <<entry, bitmap, files>>
  BY DEF Unlinked
<1> HIDE DEF d
<1>6. Same(icache, Change(icache, e, d))
  BY <1>1, <1>3, <1>4, ChangeSame
<1>7. Same(icache, icache')
  BY <1>3, <1>5, <1>6, KeptSame
<1>8. DiskShapes'
  BY <1>1, <1>3, <1>4, <1>5, DiskOps DEF DiskShapes
<1>9. PICK r \in Frame : r = Put(loc[p], "ip", "idle") /\ Holds(r) /\ Gains(r, loc[p], 0)
  BY <1>1, <1>3, PutIp
<1> QED BY <1>5, <1>7, <1>8, <1>9, SameStep

(* LinkBad: link() takes its nlink back and puts ip. *)
LEMMA LinkBadRefs ==
    ASSUME RefInv, NEW p \in Procs, LinkBad(p)
    PROVE  RefInv'
<1> DEFINE e == loc[p].ip
           ic == Ilock(icache, e)
           d == Links(ic[e].copy, -1)
<1>1. /\ loc[p] \in Frame /\ Holds(loc[p]) /\ DiskShapes /\ Same(icache, icache)
      /\ icache \in [Entries -> Cached]
  BY FrameOf
<1>2. loc[p].pc = "linkbad"
  BY DEF LinkBad, At
<1>3. e # 0 /\ e \in Entries /\ loc[p].tgt = 0 /\ loc[p].num = 0 /\ loc[p].dp = 0
  BY <1>1, <1>2 DEF Holds, Goal, Iput, Frame
<1>4. Same(icache, ic)
  BY <1>3, FrameOf
<1>5. ic[e].copy \in AnyDinode
  BY <1>3, <1>4 DEF Same, Cached
<1>6. d \in AnyDinode
  BY <1>5 DEF Links, AnyDinode
<1>7. /\ dinode' = Iupdate(dinode, e, d) /\ icache' = Change(ic, e, d)
      /\ loc' = [loc EXCEPT ![p] = Put(@, "ip", "idle")] /\ UNCHANGED <<entry, bitmap, files>>
  BY DEF LinkBad
<1> HIDE DEF d, ic
<1>8. Same(icache, icache')
  BY <1>3, <1>4, <1>6, <1>7, ChangeSame
<1>9. DiskShapes'
  BY <1>1, <1>3, <1>6, <1>7, DiskOps DEF DiskShapes
<1>10. PICK r \in Frame : r = Put(loc[p], "ip", "idle") /\ Holds(r) /\ Gains(r, loc[p], 0)
  BY <1>1, <1>3, PutIp
<1> QED BY <1>7, <1>8, <1>9, <1>10, SameStep

(* LinkCount: link() raises nlink, or puts ip when it is a directory. *)
LEMMA LinkCountRefs ==
    ASSUME RefInv, NEW p \in Procs, LinkCount(p)
    PROVE  RefInv'
<1>1. PICK l \in Frame : l = loc[p]
  BY FrameOf
<1>2. Holds(l) /\ DiskShapes /\ icache \in [Entries -> Cached]
  BY <1>1, FrameOf
<1>3. l.pc = "found" /\ l.call = "link" /\ UNCHANGED files
  BY <1>1 DEF LinkCount, InCall
<1>4. l.dp # 0 /\ l.dp \in Entries /\ l.tgt = 0 /\ l.num = 0 /\ l.ip = 0
  BY <1>2, <1>3 DEF Holds, Goal, Iput, Frame
<1>5. PICK e \in Entries : e = l.dp
  BY <1>4
<1>6. PICK ic : ic = Ilock(icache, e) /\ Same(icache, ic)
  BY <1>1, <1>5, FrameOf
<1>7. PICK d \in AnyDinode : d = OneMore(ic[e].copy)
  <2>1. ic[e].copy \in AnyDinode
    BY <1>6 DEF Same, Cached
  <2>2. \A c \in AnyDinode : [c EXCEPT !.nlink = @ + 1] \in AnyDinode
    BY DEF AnyDinode
  <2> QED BY <2>1, <2>2 DEF OneMore, Links
<1>8. CASE icache' = ic /\ loc' = [loc EXCEPT ![p] = Put(@, "dp", "idle")] /\ UNCHANGED disk
  <2>1. PICK r \in Frame : r = Put(loc[p], "dp", "idle") /\ Holds(r) /\ Gains(r, loc[p], 0)
    BY <1>1, <1>4, PutDp
  <2>2. DiskShapes'
    BY <1>2, <1>8 DEF DiskShapes, disk
  <2> QED BY <1>3, <1>6, <1>8, <2>1, <2>2, SameStep
<1>9. CASE /\ dinode' = Iupdate(dinode, e, d)
           /\ \E s \in Start(p, Change(ic, e, d), l.new) :
                 /\ icache' = s[1]
                 /\ loc' = [loc EXCEPT ![p] =
                               Namex([l EXCEPT !.ip = e, !.new = NoPath], s[2], l.new.elems)]
           /\ UNCHANGED <<entry, bitmap>>
  <2>1. Same(icache, Change(ic, e, d))
    BY <1>6, ChangeSame
  <2>2. l.new \in Path /\ l.new.elems \in Seq(DirNames)
    BY DEF Frame, Path
  <2>3. PICK s \in Start(p, Change(ic, e, d), l.new) :
                 /\ icache' = s[1]
                 /\ loc' = [loc EXCEPT ![p] =
                               Namex([l EXCEPT !.ip = e, !.new = NoPath], s[2], l.new.elems)]
    BY <1>9
  <2>4. s[2] \in Entries /\ Grown(icache, icache', s[2])
    BY <2>1, <2>2, <2>3, StartGrows
  <2>5. PICK a1 \in Frame : a1 = [l EXCEPT !.ip = e]
    BY DEF Frame
  <2>6. PICK a \in Frame : a = [a1 EXCEPT !.new = NoPath]
    <3>1. NoPath \in Path
      BY DEF NoPath, Path
    <3> QED BY <3>1 DEF Frame
  <2>7. PICK b \in Frame : b = [a EXCEPT !.dp = 0]
    BY <2>6 DEF Frame
  <2>8. /\ a = [l EXCEPT !.ip = e, !.new = NoPath]
        /\ b.dp = 0 /\ b.ip = e /\ b.tgt = 0 /\ b.num = 0 /\ b.call = "link"
        /\ a.ip = e /\ a.call = "link"
    BY <1>3, <1>4, <2>5, <2>6, <2>7 DEF Frame
  <2>9. Namex(b, s[2], l.new.elems) = Namex(a, s[2], l.new.elems)
    <3>1. [b EXCEPT !.dp = s[2]] = [a EXCEPT !.dp = s[2]]
      BY <2>7 DEF Frame
    <3>2. [b EXCEPT !.dp = s[2], !.path = l.new.elems] = [a EXCEPT !.dp = s[2], !.path = l.new.elems]
      BY <3>1
    <3>3. (Parent(b) <=> Parent(a)) /\ Failed(b) = Failed(a)
      BY <2>8 DEF Parent, Counted, Failed
    <3> QED BY <3>2, <3>3 DEF Namex
  <2>10. PICK n \in Frame : /\ n = Namex(b, s[2], l.new.elems)
                            /\ Holds(n) /\ Gains(n, b, s[2])
    BY <2>2, <2>4, <2>8, NamexFrame
  <2>11. Gains(n, loc[p], s[2])
    BY <1>1, <1>4, <1>5, <2>8, <2>10 DEF Gains, Own, One, Entries
  <2>12. loc' = [loc EXCEPT ![p] = n]
    BY <2>3, <2>8, <2>9, <2>10
  <2>13. DiskShapes'
    BY <1>2, <1>9, DiskOps DEF DiskShapes
  <2> QED BY <1>3, <2>4, <2>10, <2>11, <2>12, <2>13, GrowStep
<1> QED BY <1>1, <1>5, <1>6, <1>7, <1>8, <1>9 DEF LinkCount

(* LinkEnter: link() writes the name; both references go to iput, one after the other. *)
LEMMA LinkEnterRefs ==
    ASSUME RefInv, NEW p \in Procs, LinkEnter(p)
    PROVE  RefInv'
<1>1. PICK l \in Frame : l = loc[p]
  BY FrameOf
<1>2. Holds(l) /\ DiskShapes /\ icache \in [Entries -> Cached] /\ DOMAIN loc = Procs
  BY <1>1, FrameOf
<1>3. l.pc = "parent" /\ l.call = "link" /\ UNCHANGED <<dinode, bitmap, files>>
  BY <1>1 DEF LinkEnter, InCall
<1>4. /\ l.dp # 0 /\ l.dp \in Entries /\ l.tgt = 0 /\ l.num = 0 /\ l.path # <<>>
      /\ l.ip # 0 /\ l.ip \in Entries
  BY <1>2, <1>3 DEF Holds, Goal, Iput, Frame, Parent, Counted
<1>5. PICK e \in Entries : e = l.dp
  BY <1>4
<1>6. PICK ic : ic = Ilock(icache, e) /\ Same(icache, ic)
  BY <1>1, <1>5, FrameOf
<1>7. Name(p) \in DirNames /\ icache[e].inum \in Inums /\ Dir(l.ip) \in Inums
  BY <1>1, <1>4, <1>5, FrameOf DEF Name, Frame, Dir
<1>8. PICK i \in Inums \cup {0} : i = Lookup(e, Name(p))
  BY <1>2, <1>7 DEF DiskShapes, Lookup, Dir
<1>9. CASE /\ i # 0
           /\ \E x \in Slot(i) :
                 /\ icache' = Hold(Iget(ic, x, i), e, p)
                 /\ loc' = [loc EXCEPT ![p].pc = "put", ![p].tgt = x, ![p].then = "putdp"]
           /\ UNCHANGED entry
  <2>1. PICK x \in Slot(i) :
                 /\ icache' = Hold(Iget(ic, x, i), e, p)
                 /\ loc' = [loc EXCEPT ![p].pc = "put", ![p].tgt = x, ![p].then = "putdp"]
    BY <1>9
  <2>2. x \in Entries /\ Grown(icache, Iget(ic, x, i), x) /\ x # 0
    BY <1>6, <1>8, <1>9, <2>1, IgetGrows, SameTransitive DEF Entries
  <2>3. Grown(icache, icache', x)
    <3>1. Iget(ic, x, i) \in [Entries -> Cached]
      BY <2>2 DEF Grown
    <3>2. Same(Iget(ic, x, i), Hold(Iget(ic, x, i), e, p))
      BY <3>1, SameSteps
    <3> QED BY <2>1, <2>2, <3>2, SameTransitive
  <2>4. PICK r1 \in Frame : r1 = [l EXCEPT !.pc = "put"]
    BY DEF Frame, Labels
  <2>5. PICK r2 \in Frame : r2 = [r1 EXCEPT !.tgt = x]
    BY <2>2 DEF Frame
  <2>6. PICK r \in Frame : r = [r2 EXCEPT !.then = "putdp"]
    <3>1. "putdp" \in Labels
      BY DEF Labels
    <3> QED BY <3>1 DEF Frame
  <2>7. /\ r.pc = "put" /\ r.num = 0 /\ r.dp = l.dp /\ r.ip = l.ip /\ r.tgt = x
        /\ r.then = "putdp" /\ r.call = "link"
    BY <1>3, <1>4, <2>4, <2>5, <2>6 DEF Frame
  <2>8. loc' = [loc EXCEPT ![p] = r]
    <3>1. PICK m1 : m1 = [loc EXCEPT ![p].pc = "put"]
      OBVIOUS
    <3>2. PICK m2 : m2 = [m1 EXCEPT ![p].tgt = x]
      OBVIOUS
    <3>3. m1[p] = r1 /\ m1 = [loc EXCEPT ![p] = r1]
      BY <1>1, <1>2, <2>4, <3>1
    <3>4. m2[p] = r2 /\ m2 = [loc EXCEPT ![p] = r2]
      BY <1>2, <2>5, <3>2, <3>3
    <3>5. loc' = [m2 EXCEPT ![p].then = "putdp"]
      BY <2>1, <3>1, <3>2
    <3>6. loc' = [m2 EXCEPT ![p] = r]
      BY <2>6, <3>4, <3>5
    <3> QED BY <1>2, <3>4, <3>6
  <2>9. Holds(r)
    BY <1>4, <2>2, <2>7 DEF Holds, Goal, Iput
  <2>10. Gains(r, loc[p], x)
    BY <1>1, <1>4, <2>7 DEF Gains, Own, One, Entries
  <2>11. DiskShapes' /\ UNCHANGED files
    BY <1>2, <1>3, <1>9 DEF DiskShapes
  <2> QED BY <2>2, <2>3, <2>8, <2>9, <2>10, <2>11, GrowStep
<1>10. CASE /\ icache' = ic
            /\ entry' = Dirlink(e, Name(p), Dir(l.ip))
            /\ loc' = [loc EXCEPT ![p] = Put(@, "dp", "putip")]
  <2>1. PICK r \in Frame : r = Put(loc[p], "dp", "putip") /\ Holds(r) /\ Gains(r, loc[p], 0)
    BY <1>1, <1>4, PutDp
  <2>2. DiskShapes'
    BY <1>2, <1>3, <1>7, <1>10, DiskOps DEF DiskShapes
  <2> QED BY <1>3, <1>6, <1>10, <2>1, <2>2, SameStep
<1> QED BY <1>1, <1>5, <1>6, <1>8, <1>9, <1>10 DEF LinkEnter

----------------------------------------------------------------------------
(* Steps that move pointers between frames, files and current directories. *)

(* Two sets that differ in one element at most. *)
LEMMA OneDiffers ==
    ASSUME NEW X, IsFiniteSet(X), NEW Y, NEW a, X \ {a} = Y \ {a}
    PROVE  /\ IsFiniteSet(Y) /\ Cardinality(X) \in Nat /\ Cardinality(Y) \in Nat
           /\ Cardinality(Y) = Cardinality(X) + One(a \in Y) - One(a \in X)
<1> DEFINE Z == X \ {a}
<1>1. IsFiniteSet(Z) /\ a \notin Z
  BY FS_Subset
<1>2. X = Z \cup (IF a \in X THEN {a} ELSE {}) /\ Y = Z \cup (IF a \in Y THEN {a} ELSE {})
  OBVIOUS
<1>3. (a \in X) \in BOOLEAN /\ (a \in Y) \in BOOLEAN
  OBVIOUS
<1>4. Cardinality(X) = Cardinality(Z) + One(a \in X)
  <2>1. PICK b \in BOOLEAN : b = (a \in X)
    BY <1>3
  <2>2. Cardinality(Z \cup (IF b THEN {a} ELSE {})) = Cardinality(Z) + One(b)
    BY <1>1, AddIf
  <2> QED BY <1>2, <2>1, <2>2
<1>5. IsFiniteSet(Y) /\ Cardinality(Y) = Cardinality(Z) + One(a \in Y)
  <2>1. PICK b \in BOOLEAN : b = (a \in Y)
    BY <1>3
  <2>2. /\ IsFiniteSet(Z \cup (IF b THEN {a} ELSE {}))
        /\ Cardinality(Z \cup (IF b THEN {a} ELSE {})) = Cardinality(Z) + One(b)
    BY <1>1, AddIf
  <2> QED BY <1>2, <2>1, <2>2
<1>6. Cardinality(Z) \in Nat /\ Cardinality(X) \in Nat /\ Cardinality(Y) \in Nat
  BY <1>1, <1>5, FS_CardinalityType
<1> HIDE DEF Z
<1> QED BY <1>4, <1>5, <1>6 DEF One

FilePtrs(e) == {f \in Files : fref[f] > 0 /\ fip[f] = e}
CwdPtrs(e) == {q \in Procs : cwd[q] = e}
FdPtrs(f) == {x \in Procs \X Fds : ofile[x[1]][x[2]] = f}

(* The sets that RefsCounted counts are finite. *)
LEMMA PtrsFinite ==
    ASSUME NEW e
    PROVE  /\ IsFiniteSet(FilePtrs(e)) /\ IsFiniteSet(CwdPtrs(e)) /\ IsFiniteSet(FdPtrs(e))
           /\ Cardinality(FilePtrs(e)) \in Nat /\ Cardinality(CwdPtrs(e)) \in Nat
           /\ Cardinality(FdPtrs(e)) \in Nat
<1>1. IsFiniteSet(FilePtrs(e)) /\ IsFiniteSet(CwdPtrs(e))
  BY FinitePools, FS_Subset DEF FilePtrs, CwdPtrs
<1>2. IsFiniteSet(Procs \X Fds)
  BY FinitePools, FS_Product
<1>3. IsFiniteSet(FdPtrs(e))
  BY <1>2, FS_Subset DEF FdPtrs
<1> QED BY <1>1, <1>3, FS_CardinalityType

(* An open file has a reference to its inode. *)
LEMMA OpenPointed ==
    ASSUME RefInv, NEW p \in Procs, NEW d \in Fds, ofile[p][d] # 0
    PROVE  /\ ofile[p][d] \in Files /\ fref[ofile[p][d]] > 0
           /\ fip[ofile[p][d]] \in Entries
           /\ icache[fip[ofile[p][d]]].ref > 0 /\ icache[fip[ofile[p][d]]].inum \in Inums
<1>1. PICK f \in Files : f = ofile[p][d]
  BY DEF RefInv, Shapes, FileShapes
<1>2. fref[f] = Cardinality(FdPtrs(f)) /\ fref[f] \in Nat
  BY DEF RefInv, RefsCounted, FdPtrs, Shapes, FileShapes
<1>3. <<p, d>> \in FdPtrs(f)
  BY <1>1 DEF FdPtrs
<1>4. fref[f] > 0
  BY <1>2, <1>3, PtrsFinite, FS_EmptySet
<1>5. PICK e \in Entries : e = fip[f]
  BY <1>4 DEF RefInv, Used, Shapes, FileShapes
<1>6. f \in FilePtrs(e) /\ Cardinality(FilePtrs(e)) # 0
  BY <1>4, <1>5, PtrsFinite, FS_EmptySet DEF FilePtrs
<1>7. icache[e].ref = Cardinality(FilePtrs(e)) + Cardinality(CwdPtrs(e))
                       + Cardinality(FramePtrs(loc, e))
  BY DEF RefInv, RefsCounted, Pointers, FramePtrs, Fields, FilePtrs, CwdPtrs
<1>8. Cardinality(FramePtrs(loc, e)) \in Nat
  <2>1. /\ Cardinality(FramePtrs(loc, e)) = Cardinality(OtherPtrs(loc, p, e)) + Own(loc[p], e)
        /\ Cardinality(OtherPtrs(loc, p, e)) \in Nat
    BY FramesSplit
  <2>2. Own(loc[p], e) \in Nat
    BY DEF Own, One
  <2> QED BY <2>1, <2>2
<1>9. icache[e].ref > 0
  BY <1>6, <1>7, <1>8, PtrsFinite
<1> QED BY <1>1, <1>4, <1>5, <1>9 DEF RefInv, Used, Shapes, Cached

(* Steps that leave the pointers alone. *)
LEMMA StillRefs ==
    ASSUME RefInv, DiskShapes', Same(icache, icache'), UNCHANGED <<files, loc>>
    PROVE  RefInv'
<1>1. Shapes'
  BY DEF RefInv, Shapes, FileShapes, files, Same
<1>2. (\A q \in Procs : Holds(loc[q]))'
  BY DEF RefInv
<1>3. Used'
  BY DEF RefInv, Used, files, Same
<1>4. RefsCounted'
  BY DEF RefInv, RefsCounted, Pointers, files, Same
<1> QED BY <1>1, <1>2, <1>3, <1>4 DEF RefInv

(* Read: ilock of an open file counts nothing. *)
LEMMA ReadRefs ==
    ASSUME RefInv, NEW p \in Procs, NEW d \in Fds, Read(p, d)
    PROVE  RefInv'
<1> DEFINE e == fip[ofile[p][d]]
<1>1. e \in Entries /\ icache[e].inum \in Inums
  BY OpenPointed DEF Read
<1>2. DiskShapes /\ icache \in [Entries -> Cached]
  BY FrameOf
<1>3. Same(icache, Ilock(icache, e))
  BY <1>1, <1>2, SameSteps, InodeAssumption DEF DiskShapes
<1>4. Same(icache, icache') /\ UNCHANGED <<files, loc>> /\ DiskShapes'
  BY <1>2, <1>3 DEF Read, DiskShapes, disk
<1> QED BY <1>4, StillRefs

(* Write: writei may allocate the block and counts nothing. *)
LEMMA WriteRefs ==
    ASSUME RefInv, NEW p \in Procs, NEW d \in Fds, Write(p, d)
    PROVE  RefInv'
<1>1. PICK e \in Entries : e = fip[ofile[p][d]] /\ icache[e].inum \in Inums
  BY OpenPointed DEF Write
<1>2. DiskShapes /\ icache \in [Entries -> Cached]
  BY FrameOf
<1>3. PICK ic : ic = Ilock(icache, e) /\ Same(icache, ic)
  BY <1>1, <1>2, SameSteps, InodeAssumption DEF DiskShapes
<1>4. PICK b \in Blocks :
          /\ bitmap' = bitmap \cup {b}
          /\ dinode' = Iupdate(dinode, e, Bmap(ic[e].copy, b))
          /\ icache' = Change(ic, e, Bmap(ic[e].copy, b))
  BY <1>1, <1>3 DEF Write
<1>5. PICK c \in AnyDinode : c = Bmap(ic[e].copy, b)
  <2>1. ic[e].copy \in AnyDinode
    BY <1>3 DEF Same, Cached
  <2> QED BY <2>1, DinodeOps
<1>6. Same(icache, icache')
  BY <1>3, <1>4, <1>5, ChangeSame
<1>7. DiskShapes' /\ UNCHANGED <<files, loc>>
  BY <1>2, <1>4, <1>5, DiskOps DEF DiskShapes, Write
<1> QED BY <1>6, <1>7, StillRefs

(* The pointers after a step of p. *)
LEMMA Recount ==
    ASSUME RefInv, NEW p \in Procs, Elsewhere(loc', loc, p), NEW e \in Entries
    PROVE  /\ icache[e].ref = Cardinality(FilePtrs(e)) + Cardinality(CwdPtrs(e))
                               + Cardinality(FramePtrs(loc, e))
           /\ Pointers(e)' = Cardinality(FilePtrs(e)') + Cardinality(CwdPtrs(e)')
                              + Cardinality(FramePtrs(loc, e))
                              + Own(loc'[p], e) - Own(loc[p], e)
           /\ Cardinality(FramePtrs(loc, e)) \in Nat
           /\ Own(loc'[p], e) \in Nat /\ Own(loc[p], e) \in Nat
           /\ Cardinality(FilePtrs(e)') \in Nat /\ Cardinality(CwdPtrs(e)') \in Nat
<1>1. icache[e].ref = Cardinality(FilePtrs(e)) + Cardinality(CwdPtrs(e))
                       + Cardinality(FramePtrs(loc, e))
  BY DEF RefInv, RefsCounted, Pointers, FramePtrs, Fields, FilePtrs, CwdPtrs
<1>2. Pointers(e)' = Cardinality(FilePtrs(e)') + Cardinality(CwdPtrs(e)')
                      + Cardinality(FramePtrs(loc', e))
  BY DEF Pointers, FramePtrs, Fields, FilePtrs, CwdPtrs
<1>3. /\ Cardinality(FramePtrs(loc, e)) \in Nat
      /\ Cardinality(FramePtrs(loc', e))
           = Cardinality(FramePtrs(loc, e)) + Own(loc'[p], e) - Own(loc[p], e)
  <2>1. PICK l, k : l = loc /\ k = loc'
    OBVIOUS
  <2>2. Elsewhere(k, l, p)
    BY <2>1
  <2>3. /\ Cardinality(FramePtrs(l, e)) \in Nat
        /\ Cardinality(FramePtrs(k, e))
             = Cardinality(FramePtrs(l, e)) + Own(k[p], e) - Own(l[p], e)
    BY ONLY <2>2, FramesStep
  <2> QED BY <2>1, <2>3
<1>4. Own(loc'[p], e) \in Nat /\ Own(loc[p], e) \in Nat
  BY DEF Own, One
<1>5. IsFiniteSet(FilePtrs(e)') /\ IsFiniteSet(CwdPtrs(e)')
  BY FinitePools, FS_Subset DEF FilePtrs, CwdPtrs
<1>6. Cardinality(FilePtrs(e)') \in Nat /\ Cardinality(CwdPtrs(e)') \in Nat
  BY <1>5, FS_CardinalityType
<1>7. Cardinality(FilePtrs(e)) \in Nat /\ Cardinality(CwdPtrs(e)) \in Nat
  BY PtrsFinite
<1> QED BY <1>1, <1>2, <1>3, <1>4, <1>6, <1>7

(* The descriptors after one of them has changed. *)
SetsFd(p, d, v) == ofile' = [ofile EXCEPT ![p][d] = v]

(* A store to one descriptor moves the count of the file it named to the file it names. *)
LEMMA FdStep ==
    ASSUME RefInv, NEW p \in Procs, NEW d \in Fds, NEW v \in Files \cup {0},
           SetsFd(p, d, v), NEW g \in Files
    PROVE  /\ fref[g] \in Nat
           /\ Cardinality(FdPtrs(g)') = fref[g] + One(v = g) - One(ofile[p][d] = g)
<1>1. ofile \in [Procs -> [Fds -> Files \cup {0}]]
  BY DEF RefInv, Shapes, FileShapes
<1>2. fref[g] = Cardinality(FdPtrs(g)) /\ fref[g] \in Nat
  BY DEF RefInv, RefsCounted, FdPtrs, Shapes, FileShapes
<1>3. FdPtrs(g) \ {<<p, d>>} = FdPtrs(g)' \ {<<p, d>>}
  BY <1>1 DEF FdPtrs, SetsFd
<1>4. (<<p, d>> \in FdPtrs(g) <=> ofile[p][d] = g) /\ (<<p, d>> \in FdPtrs(g)' <=> v = g)
  BY <1>1 DEF FdPtrs, SetsFd
<1>5. PICK X, Y : X = FdPtrs(g) /\ Y = FdPtrs(g)'
  OBVIOUS
<1>6. IsFiniteSet(X) /\ X \ {<<p, d>>} = Y \ {<<p, d>>}
  BY <1>3, <1>5, PtrsFinite
<1>7. Cardinality(Y) = Cardinality(X) + One(<<p, d>> \in Y) - One(<<p, d>> \in X)
  BY <1>6, OneDiffers
<1> QED BY <1>2, <1>4, <1>5, <1>7 DEF One

(* Dup: filedup counts the descriptor that fdalloc filled. *)
LEMMA DupRefs ==
    ASSUME RefInv, NEW p \in Procs, NEW d \in Fds, Dup(p, d)
    PROVE  RefInv'
<1>1. PICK f \in Files : f = ofile[p][d] /\ fref[f] > 0
  BY OpenPointed DEF Dup
<1>2. PICK x \in Fds : ofile[p][x] = 0 /\ ofile' = [ofile EXCEPT ![p][x] = f]
  BY <1>1 DEF Dup, FreeFds, Lowest
<1>3. fref' = [fref EXCEPT ![f] = @ + 1] /\ UNCHANGED <<disk, icache, fip, cwd, loc>>
  BY <1>1 DEF Dup, Filedup
<1>4. /\ fref \in [Files -> Nat] /\ fip \in [Files -> Entries \cup {0}]
      /\ ofile \in [Procs -> [Fds -> Files \cup {0}]] /\ cwd \in [Procs -> Entries]
      /\ DiskShapes /\ icache \in [Entries -> Cached] /\ loc \in [Procs -> Frame]
  BY DEF RefInv, Shapes, FileShapes
<1>5. /\ fref' \in [Files -> Nat]
      /\ \A g \in Files : fref'[g] = fref[g] + One(f = g)
  BY <1>3, <1>4 DEF One
<1>6. Shapes'
  BY <1>2, <1>3, <1>4, <1>5 DEF Shapes, FileShapes, DiskShapes, disk
<1>7. (\A q \in Procs : Holds(loc[q]))'
  BY <1>3 DEF RefInv
<1>8. \A g \in Files : fref'[g] > 0 <=> fref[g] > 0
  BY <1>1, <1>4, <1>5 DEF One
<1>9. Used'
  BY <1>3, <1>8 DEF RefInv, Used
<1>10. \A e \in Entries : FilePtrs(e)' = FilePtrs(e) /\ CwdPtrs(e)' = CwdPtrs(e)
  BY <1>3, <1>8 DEF FilePtrs, CwdPtrs
<1>11. Elsewhere(loc', loc, p)
  BY <1>3 DEF Elsewhere
<1>12. ASSUME NEW e \in Entries PROVE icache'[e].ref = Pointers(e)'
  <2>1. /\ icache[e].ref = Cardinality(FilePtrs(e)) + Cardinality(CwdPtrs(e))
                            + Cardinality(FramePtrs(loc, e))
        /\ Pointers(e)' = Cardinality(FilePtrs(e)') + Cardinality(CwdPtrs(e)')
                           + Cardinality(FramePtrs(loc, e))
                           + Own(loc'[p], e) - Own(loc[p], e)
        /\ Cardinality(FramePtrs(loc, e)) \in Nat /\ Own(loc[p], e) \in Nat
        /\ Cardinality(FilePtrs(e)') \in Nat /\ Cardinality(CwdPtrs(e)') \in Nat
    BY <1>11, Recount
  <2> QED BY <1>3, <1>10, <2>1
<1>13. ASSUME NEW g \in Files PROVE fref'[g] = Cardinality(FdPtrs(g)')
  <2>1. /\ fref[g] \in Nat
        /\ Cardinality(FdPtrs(g)') = fref[g] + One(f = g) - One(ofile[p][x] = g)
    <3>1. SetsFd(p, x, f) /\ f \in Files \cup {0}
      BY <1>2 DEF SetsFd
    <3> QED BY <3>1, FdStep
  <2>2. One(ofile[p][x] = g) = 0
    BY <1>2 DEF One, Files
  <2> QED BY <1>5, <2>1, <2>2 DEF One
<1>14. RefsCounted'
  BY <1>12, <1>13 DEF RefsCounted, FdPtrs
<1> QED BY <1>6, <1>7, <1>9, <1>14 DEF RefInv

(* A file that comes into use, or goes out of it. *)
LEMMA FileStep ==
    ASSUME NEW e, NEW f, FilePtrs(e) \ {f} = FilePtrs(e)' \ {f}
    PROVE  /\ Cardinality(FilePtrs(e)) \in Nat
           /\ Cardinality(FilePtrs(e)')
                = Cardinality(FilePtrs(e)) + One(f \in FilePtrs(e)') - One(f \in FilePtrs(e))
<1>1. PICK X, Y : X = FilePtrs(e) /\ Y = FilePtrs(e)'
  OBVIOUS
<1>2. IsFiniteSet(X) /\ X \ {f} = Y \ {f}
  BY <1>1, PtrsFinite
<1>3. Cardinality(X) \in Nat /\ Cardinality(Y) = Cardinality(X) + One(f \in Y) - One(f \in X)
  BY <1>2, OneDiffers
<1> QED BY <1>1, <1>3

(* OpenFile: filealloc and fdalloc move the frame's reference to the open file. *)
LEMMA OpenFileRefs ==
    ASSUME RefInv, NEW p \in Procs, OpenFile(p)
    PROVE  RefInv'
<1>1. /\ loc[p] \in Frame /\ Holds(loc[p]) /\ DiskShapes /\ Same(icache, icache)
  BY FrameOf
<1>2. loc[p].pc = "file"
  BY DEF OpenFile, At
<1>3. loc[p].ip # 0 /\ loc[p].tgt = 0 /\ loc[p].dp = 0 /\ loc[p].ip \in Entries
  BY <1>1, <1>2 DEF Holds, Goal, Iput, Frame
<1>4. PICK f \in Files, d \in Fds :
          /\ fref[f] = 0 /\ ofile[p][d] = 0
          /\ fref' = [fref EXCEPT ![f] = 1]
          /\ fip' = [fip EXCEPT ![f] = loc[p].ip]
          /\ SetsFd(p, d, f)
  BY DEF OpenFile, FreeFiles, FreeFds, Lowest, SetsFd
<1>5. /\ icache' = Iunlock(icache, loc[p].ip, p) /\ loc' = [loc EXCEPT ![p] = Idle]
      /\ UNCHANGED <<disk, cwd>>
  BY DEF OpenFile
<1>6. Same(icache, icache')
  BY <1>1, <1>3, <1>5, KeptSame
<1>7. /\ fref \in [Files -> Nat] /\ fip \in [Files -> Entries \cup {0}]
      /\ ofile \in [Procs -> [Fds -> Files \cup {0}]] /\ cwd \in [Procs -> Entries]
      /\ loc \in [Procs -> Frame]
  BY DEF RefInv, Shapes, FileShapes
<1>8. Idle \in Frame /\ Holds(Idle) /\ \A e \in Entries : Own(Idle, e) = 0
  <2>1. Idle \in Frame
    BY DEF Idle, Frame, Labels, Calls, NoPath, Path
  <2>2. Idle.pc = "idle" /\ Idle.tgt = 0 /\ Idle.dp = 0 /\ Idle.ip = 0 /\ Idle.num = 0
    BY DEF Idle
  <2> QED BY <2>1, <2>2 DEF Holds, Goal, Iput, Own, One, Entries
<1>9. loc' \in [Procs -> Frame] /\ loc'[p] = Idle /\ Elsewhere(loc', loc, p)
  BY <1>5, <1>7, <1>8 DEF Elsewhere
<1>10. (\A q \in Procs : Holds(loc[q]))'
  BY <1>8, <1>9 DEF RefInv, Elsewhere
<1>11. /\ fref' \in [Files -> Nat] /\ fip' \in [Files -> Entries \cup {0}]
       /\ ofile' \in [Procs -> [Fds -> Files \cup {0}]]
       /\ \A g \in Files : fref'[g] = IF g = f THEN 1 ELSE fref[g]
       /\ \A g \in Files : fip'[g] = IF g = f THEN loc[p].ip ELSE fip[g]
  BY <1>3, <1>4, <1>7 DEF SetsFd
<1>12. Shapes'
  BY <1>1, <1>5, <1>6, <1>7, <1>9, <1>11 DEF Shapes, FileShapes, DiskShapes, disk, Same
<1>13. Used'
  BY <1>3, <1>6, <1>11 DEF RefInv, Used, Same
<1>14. ASSUME NEW e \in Entries PROVE icache'[e].ref = Pointers(e)'
  <2>1. /\ icache[e].ref = Cardinality(FilePtrs(e)) + Cardinality(CwdPtrs(e))
                            + Cardinality(FramePtrs(loc, e))
        /\ Pointers(e)' = Cardinality(FilePtrs(e)') + Cardinality(CwdPtrs(e)')
                           + Cardinality(FramePtrs(loc, e))
                           + Own(loc'[p], e) - Own(loc[p], e)
        /\ Cardinality(FramePtrs(loc, e)) \in Nat
        /\ Cardinality(FilePtrs(e)') \in Nat /\ Cardinality(CwdPtrs(e)') \in Nat
    BY <1>9, Recount
  <2>2. CwdPtrs(e)' = CwdPtrs(e)
    BY <1>5 DEF CwdPtrs
  <2>3. FilePtrs(e) \ {f} = FilePtrs(e)' \ {f}
    BY <1>11 DEF FilePtrs
  <2>4. f \notin FilePtrs(e) /\ (f \in FilePtrs(e)' <=> loc[p].ip = e)
    BY <1>4, <1>11 DEF FilePtrs
  <2>5. /\ Cardinality(FilePtrs(e)) \in Nat
        /\ Cardinality(FilePtrs(e)') = Cardinality(FilePtrs(e)) + One(loc[p].ip = e)
    BY <2>3, <2>4, FileStep DEF One
  <2>6. Own(loc[p], e) = One(loc[p].ip = e) /\ Own(loc'[p], e) = 0
    BY <1>3, <1>8, <1>9 DEF Own, One, Entries
  <2>7. icache'[e].ref = icache[e].ref /\ One(loc[p].ip = e) \in Nat
    BY <1>6 DEF Same, One
  <2> QED BY <2>1, <2>2, <2>5, <2>6, <2>7
<1>15. ASSUME NEW g \in Files PROVE fref'[g] = Cardinality(FdPtrs(g)')
  <2>1. /\ fref[g] \in Nat
        /\ Cardinality(FdPtrs(g)') = fref[g] + One(f = g) - One(ofile[p][d] = g)
    BY <1>4, FdStep
  <2>2. One(ofile[p][d] = g) = 0
    BY <1>4 DEF One, Files
  <2> QED BY <1>4, <1>11, <2>1, <2>2 DEF One
<1>16. RefsCounted'
  BY <1>14, <1>15 DEF RefsCounted, FdPtrs
<1> QED BY <1>10, <1>12, <1>13, <1>16 DEF RefInv

(* Close: the last close hands the file's reference to iput. *)
LEMMA CloseRefs ==
    ASSUME RefInv, NEW p \in Procs, NEW d \in Fds, Close(p, d)
    PROVE  RefInv'
<1>1. loc[p] \in Frame /\ Holds(loc[p]) /\ DiskShapes /\ Same(icache, icache)
  BY FrameOf
<1>2. loc[p].pc = "idle"
  BY DEF Close, At
<1>3. loc[p].ip = 0 /\ loc[p].tgt = 0 /\ loc[p].dp = 0 /\ loc[p].num = 0
  BY <1>1, <1>2 DEF Holds, Goal, Iput
<1>4. PICK f \in Files : f = ofile[p][d] /\ fref[f] > 0 /\ fip[f] \in Entries
  BY OpenPointed DEF Close
<1>5. /\ SetsFd(p, d, 0) /\ fref' = [fref EXCEPT ![f] = @ - 1]
      /\ UNCHANGED <<disk, icache, fip, cwd>>
  BY <1>4 DEF Close, SetsFd
<1>6. /\ fref \in [Files -> Nat] /\ fip \in [Files -> Entries \cup {0}]
      /\ ofile \in [Procs -> [Fds -> Files \cup {0}]] /\ cwd \in [Procs -> Entries]
      /\ loc \in [Procs -> Frame]
  BY DEF RefInv, Shapes, FileShapes
<1>7. /\ fref' \in [Files -> Nat] /\ ofile' \in [Procs -> [Fds -> Files \cup {0}]]
      /\ \A g \in Files : fref'[g] = fref[g] - One(f = g)
  <2>1. fref[f] - 1 \in Nat
    BY <1>4, <1>6
  <2> QED BY <1>5, <1>6, <2>1 DEF SetsFd, One
<1>8. PICK r \in Frame : /\ loc' = [loc EXCEPT ![p] = r] /\ Holds(r)
                         /\ \A e \in Entries :
                              Own(r, e) = IF fref[f] = 1 THEN One(fip[f] = e) ELSE 0
  <2>1. CASE fref[f] > 1 /\ UNCHANGED loc
    <3>1. loc' = [loc EXCEPT ![p] = loc[p]]
      BY <1>6, <2>1
    <3>2. \A e \in Entries : Own(loc[p], e) = 0
      BY <1>3 DEF Own, One, Entries
    <3>3. fref[f] # 1
      BY <1>6, <2>1
    <3> QED BY <1>1, <3>1, <3>2, <3>3
  <2>2. CASE /\ fref[f] = 1
             /\ loc' = [loc EXCEPT ![p] = Put([@ EXCEPT !.ip = fip[f]], "ip", "idle")]
    <3>1. PICK a \in Frame : a = [loc[p] EXCEPT !.ip = fip[f]]
      BY <1>1, <1>4 DEF Frame
    <3>2. a.ip = fip[f] /\ a.tgt = 0 /\ a.dp = 0 /\ a.num = 0 /\ a.ip # 0
      BY <1>1, <1>3, <1>4, <3>1 DEF Frame, Entries
    <3>3. PICK r \in Frame : r = Put(a, "ip", "idle") /\ Holds(r) /\ Gains(r, a, 0)
      BY <3>2, PutIp
    <3>4. \A e \in Entries : Own(r, e) = One(fip[f] = e)
      BY <3>2, <3>3 DEF Gains, Own, One, Entries
    <3> QED BY <2>2, <3>1, <3>3, <3>4
  <2> QED BY <1>4, <2>1, <2>2 DEF Close
<1>9. loc' \in [Procs -> Frame] /\ loc'[p] = r /\ Elsewhere(loc', loc, p)
  BY <1>6, <1>8 DEF Elsewhere
<1>10. (\A q \in Procs : Holds(loc[q]))'
  BY <1>8, <1>9 DEF RefInv, Elsewhere
<1>11. Shapes'
  BY <1>1, <1>5, <1>6, <1>7, <1>9 DEF Shapes, FileShapes, DiskShapes, disk, Same
<1>12. \A g \in Files : fref'[g] > 0 => fref[g] > 0
  BY <1>6, <1>7 DEF One
<1>13. Used'
  BY <1>5, <1>12 DEF RefInv, Used
<1>14. ASSUME NEW e \in Entries PROVE icache'[e].ref = Pointers(e)'
  <2>1. /\ icache[e].ref = Cardinality(FilePtrs(e)) + Cardinality(CwdPtrs(e))
                            + Cardinality(FramePtrs(loc, e))
        /\ Pointers(e)' = Cardinality(FilePtrs(e)') + Cardinality(CwdPtrs(e)')
                           + Cardinality(FramePtrs(loc, e))
                           + Own(loc'[p], e) - Own(loc[p], e)
        /\ Cardinality(FramePtrs(loc, e)) \in Nat
        /\ Cardinality(FilePtrs(e)') \in Nat /\ Cardinality(CwdPtrs(e)') \in Nat
    BY <1>9, Recount
  <2>2. CwdPtrs(e)' = CwdPtrs(e)
    BY <1>5 DEF CwdPtrs
  <2>3. FilePtrs(e) \ {f} = FilePtrs(e)' \ {f}
    <3>1. \A g \in Files \ {f} : fref'[g] = fref[g]
      BY <1>6, <1>7 DEF One
    <3> QED BY <1>5, <3>1 DEF FilePtrs
  <2>4. /\ f \in FilePtrs(e) <=> fip[f] = e
        /\ f \in FilePtrs(e)' <=> fref[f] # 1 /\ fip[f] = e
    <3>1. fref'[f] = fref[f] - 1 /\ fref[f] \in Nat
      BY <1>6, <1>7 DEF One
    <3>2. fref'[f] > 0 <=> fref[f] # 1
      BY <1>4, <3>1
    <3> QED BY <1>4, <1>5, <3>2 DEF FilePtrs
  <2>5. /\ Cardinality(FilePtrs(e)) \in Nat
        /\ Cardinality(FilePtrs(e)')
             = Cardinality(FilePtrs(e)) + One(f \in FilePtrs(e)') - One(f \in FilePtrs(e))
    BY <2>3, FileStep
  <2>6. One(f \in FilePtrs(e)) = One(f \in FilePtrs(e)') + Own(r, e)
    BY <1>8, <2>4 DEF One
  <2>7. Own(loc[p], e) = 0 /\ loc'[p] = r /\ Own(r, e) \in Nat
    BY <1>3, <1>9 DEF Own, One, Entries
  <2>8. One(f \in FilePtrs(e)) \in Nat /\ One(f \in FilePtrs(e)') \in Nat
    BY DEF One
  <2> QED BY <1>5, <2>1, <2>2, <2>5, <2>6, <2>7, <2>8
<1>15. ASSUME NEW g \in Files PROVE fref'[g] = Cardinality(FdPtrs(g)')
  <2>1. /\ fref[g] \in Nat
        /\ Cardinality(FdPtrs(g)') = fref[g] + One(0 = g) - One(ofile[p][d] = g)
    BY <1>5, FdStep
  <2>2. One(0 = g) = 0 /\ One(ofile[p][d] = g) = One(f = g) /\ One(f = g) \in Nat
    BY <1>4 DEF One, Files
  <2> QED BY <1>7, <2>1, <2>2
<1>16. RefsCounted'
  BY <1>14, <1>15 DEF RefsCounted, FdPtrs
<1> QED BY <1>10, <1>11, <1>13, <1>16 DEF RefInv

(* Chdir: the walk's reference becomes the working directory's, the old one goes to iput. *)
LEMMA ChdirRefs ==
    ASSUME RefInv, NEW p \in Procs, Chdir(p)
    PROVE  RefInv'
<1>1. PICK l \in Frame : l = loc[p]
  BY FrameOf
<1>2. Holds(l) /\ DiskShapes /\ icache \in [Entries -> Cached]
  BY <1>1, FrameOf
<1>3. l.pc = "found"
  BY <1>1 DEF Chdir, InCall
<1>4. l.dp # 0 /\ l.dp \in Entries /\ l.tgt = 0 /\ l.num = 0 /\ l.ip = 0
  BY <1>2, <1>3 DEF Holds, Goal, Iput, Frame
<1>5. PICK e \in Entries : e = l.dp /\ e # 0
  BY <1>4
<1>6. Same(icache, icache') /\ UNCHANGED <<disk, fref, fip, ofile>>
  BY <1>1, <1>5, FrameOf DEF Chdir
<1>7. DiskShapes'
  BY <1>2, <1>6 DEF DiskShapes, disk
<1>8. CASE UNCHANGED cwd /\ loc' = [loc EXCEPT ![p] = Put(@, "dp", "idle")]
  <2>1. PICK r \in Frame : r = Put(loc[p], "dp", "idle") /\ Holds(r) /\ Gains(r, loc[p], 0)
    BY <1>1, <1>4, PutDp
  <2>2. UNCHANGED files
    BY <1>6, <1>8 DEF files
  <2> QED BY <1>6, <1>7, <1>8, <2>1, <2>2, SameStep
<1>9. CASE /\ cwd' = [cwd EXCEPT ![p] = e]
           /\ loc' = [loc EXCEPT ![p] = Put([@ EXCEPT !.dp = cwd[p]], "dp", "idle")]
  <2>1. /\ fref \in [Files -> Nat] /\ fip \in [Files -> Entries \cup {0}]
        /\ ofile \in [Procs -> [Fds -> Files \cup {0}]] /\ cwd \in [Procs -> Entries]
        /\ loc \in [Procs -> Frame]
    BY DEF RefInv, Shapes, FileShapes
  <2>2. PICK c \in Entries : c = cwd[p] /\ c # 0
    BY <2>1 DEF Entries
  <2>3. PICK a \in Frame : a = [l EXCEPT !.dp = c]
    BY DEF Frame
  <2>4. a.dp = c /\ a.ip = 0 /\ a.tgt = 0 /\ a.num = 0
    BY <1>4, <2>3 DEF Frame
  <2>5. PICK r \in Frame : r = Put(a, "dp", "idle") /\ Holds(r) /\ Gains(r, a, 0)
    BY <2>2, <2>4, PutDp
  <2>6. loc' = [loc EXCEPT ![p] = r]
    BY <1>1, <1>9, <2>2, <2>3, <2>5
  <2>7. loc' \in [Procs -> Frame] /\ loc'[p] = r /\ Elsewhere(loc', loc, p)
    BY <2>1, <2>6 DEF Elsewhere
  <2>8. (\A q \in Procs : Holds(loc[q]))'
    BY <2>5, <2>7 DEF RefInv, Elsewhere
  <2>9. Shapes'
    BY <1>6, <1>7, <1>9, <2>1, <2>7 DEF Shapes, FileShapes, Same
  <2>10. Used'
    BY <1>6 DEF RefInv, Used, Same
  <2>11. ASSUME NEW x \in Entries PROVE icache'[x].ref = Pointers(x)'
    <3>1. /\ icache[x].ref = Cardinality(FilePtrs(x)) + Cardinality(CwdPtrs(x))
                              + Cardinality(FramePtrs(loc, x))
          /\ Pointers(x)' = Cardinality(FilePtrs(x)') + Cardinality(CwdPtrs(x)')
                             + Cardinality(FramePtrs(loc, x))
                             + Own(loc'[p], x) - Own(loc[p], x)
          /\ Cardinality(FramePtrs(loc, x)) \in Nat
          /\ Cardinality(FilePtrs(x)') \in Nat /\ Cardinality(CwdPtrs(x)') \in Nat
      BY <2>7, Recount
    <3>2. FilePtrs(x)' = FilePtrs(x)
      BY <1>6 DEF FilePtrs
    <3>3. CwdPtrs(x) \ {p} = CwdPtrs(x)' \ {p}
      BY <1>9, <2>1 DEF CwdPtrs
    <3>4. (p \in CwdPtrs(x) <=> c = x) /\ (p \in CwdPtrs(x)' <=> e = x)
      BY <1>9, <2>1, <2>2 DEF CwdPtrs
    <3>5. /\ Cardinality(CwdPtrs(x)) \in Nat
          /\ Cardinality(CwdPtrs(x)') = Cardinality(CwdPtrs(x)) + One(e = x) - One(c = x)
      <4>1. PICK X, Y : X = CwdPtrs(x) /\ Y = CwdPtrs(x)'
        OBVIOUS
      <4>2. IsFiniteSet(X) /\ X \ {p} = Y \ {p}
        BY <3>3, <4>1, PtrsFinite
      <4>3. Cardinality(X) \in Nat /\ Cardinality(Y) = Cardinality(X) + One(p \in Y) - One(p \in X)
        BY <4>2, OneDiffers
      <4> QED BY <3>4, <4>1, <4>3 DEF One
    <3>6. Own(loc[p], x) = One(e = x) /\ Own(loc'[p], x) = One(c = x)
      BY <1>1, <1>4, <1>5, <2>4, <2>5, <2>7 DEF Gains, Own, One, Entries
    <3>7. One(e = x) \in Nat /\ One(c = x) \in Nat /\ icache'[x].ref = icache[x].ref
      BY <1>6 DEF One, Same
    <3> QED BY <3>1, <3>2, <3>5, <3>6, <3>7
  <2>12. RefsCounted'
    BY <1>6, <2>11 DEF RefInv, RefsCounted
  <2> QED BY <2>8, <2>9, <2>10, <2>12 DEF RefInv
<1> QED BY <1>1, <1>5, <1>8, <1>9 DEF Chdir

(* The first state: every process stands in the root, counted once each. *)
LEMMA InitRefs ==
    ASSUME Init
    PROVE  RefInv
<1>1. /\ Idle \in Frame /\ Idle.pc = "idle" /\ Idle.tgt = 0 /\ Idle.dp = 0 /\ Idle.ip = 0
      /\ Idle.num = 0
  <2>1. Idle \in Frame
    BY DEF Idle, Frame, Labels, Calls, NoPath, Path
  <2> QED BY <2>1 DEF Idle
<1>2. Holds(Idle)
  BY <1>1 DEF Holds, Goal, Iput
<1>3. Cardinality(Procs) \in Nat /\ Cardinality({}) = 0
  BY FinitePools, FS_CardinalityType, FS_EmptySet
<1>4. NoInode \in AnyDinode
  BY DEF NoInode, AnyDinode
<1>5. icache \in [Entries -> Cached]
  <2>1. ASSUME NEW e \in Entries
        PROVE  [inum |-> IF e = 1 THEN ROOTINO ELSE 0,
                ref |-> IF e = 1 THEN Cardinality(Procs) ELSE 0,
                lock |-> Nobody, valid |-> FALSE, copy |-> NoInode] \in Cached
    BY <1>3, <1>4, InodeAssumption DEF Cached
  <2> QED BY <2>1 DEF Init
<1>6. DiskShapes
  <2>1. [type |-> "dir", nlink |-> 1, addr |-> RootBlock] \in AnyDinode
    BY InodeAssumption DEF AnyDinode
  <2>2. dinode \in [Inums -> AnyDinode]
    BY <1>4, <2>1 DEF Init
  <2>3. entry \in [Inums -> [DirNames -> Inums \cup {0}]]
    BY InodeAssumption DEF Init, NoNames
  <2> QED BY <2>2, <2>3, InodeAssumption DEF DiskShapes, Init
<1>7. FileShapes /\ loc \in [Procs -> Frame] /\ \A p \in Procs : Holds(loc[p])
  BY <1>1, <1>2, InodeAssumption DEF FileShapes, Init, Entries
<1>8. Used
  BY <1>3, InodeAssumption DEF Used, Init
<1>9. ASSUME NEW e \in Entries PROVE icache[e].ref = Pointers(e)
  <2>1. FilePtrs(e) = {} /\ FramePtrs(loc, e) = {}
    BY <1>1 DEF Init, Entries, FilePtrs, FramePtrs, Fields
  <2>2. CwdPtrs(e) = IF e = 1 THEN Procs ELSE {}
    BY DEF Init, CwdPtrs
  <2>3. icache[e].ref = IF e = 1 THEN Cardinality(Procs) ELSE 0
    BY DEF Init
  <2>4. Pointers(e) = Cardinality(FilePtrs(e)) + Cardinality(CwdPtrs(e))
                       + Cardinality(FramePtrs(loc, e))
    BY DEF Pointers, FilePtrs, CwdPtrs, FramePtrs, Fields
  <2> QED BY <1>3, <2>1, <2>2, <2>3, <2>4
<1>10. ASSUME NEW f \in Files
       PROVE  fref[f] = Cardinality({x \in Procs \X Fds : ofile[x[1]][x[2]] = f})
  <2>1. {x \in Procs \X Fds : ofile[x[1]][x[2]] = f} = {}
    BY DEF Init, Files
  <2> QED BY <1>3, <2>1 DEF Init
<1> QED BY <1>5, <1>6, <1>7, <1>8, <1>9, <1>10 DEF RefInv, Shapes, RefsCounted

(* Every step keeps the invariant. *)
LEMMA NextRefs ==
    ASSUME RefInv, [Next]_vars
    PROVE  RefInv'
<1>1. CASE UNCHANGED vars
  <2>1. UNCHANGED <<dinode, entry, bitmap, icache, fref, fip, ofile, cwd, loc>>
    BY <1>1 DEF vars, disk, files
  <2> QED BY <2>1 DEF RefInv, Shapes, DiskShapes, FileShapes, Used, RefsCounted, Pointers
<1>2. CASE Next
  <2>1. PICK p \in Procs :
        \/ \E r \in Requests : Begin(p, r)
        \/ Walk(p)
        \/ PutTest(p) \/ Trunc(p) \/ Free(p) \/ Invalidate(p) \/ Drop(p)
        \/ CreateLook(p) \/ Exists(p) \/ Ialloc(p) \/ IallocGet(p) \/ Enter(p)
        \/ OpenLock(p) \/ OpenFile(p) \/ OpenFails(p)
        \/ UnlinkLook(p) \/ Unlink(p) \/ Unlinked(p)
        \/ LinkCount(p) \/ LinkEnter(p) \/ LinkBad(p)
        \/ Chdir(p)
        \/ \E d \in Fds : Close(p, d) \/ Dup(p, d) \/ Read(p, d) \/ Write(p, d)
    BY <1>2 DEF Next
  <2> QED BY <2>1, BeginRefs, WalkRefs, PutTestRefs, TruncRefs, FreeRefs, InvalidateRefs,
             DropRefs, CreateLookRefs, ExistsRefs, IallocRefs, IallocGetRefs, EnterRefs,
             OpenLockRefs, OpenFileRefs, OpenFailsRefs, UnlinkLookRefs, UnlinkRefs,
             UnlinkedRefs, LinkCountRefs, LinkEnterRefs, LinkBadRefs, ChdirRefs,
             CloseRefs, DupRefs, ReadRefs, WriteRefs
<1> QED BY <1>1, <1>2

(* No reference is lost or dropped twice: the ref of every cache entry is  *)
(* the number of pointers to it in files, current directories and system   *)
(* calls under way, the ref of a file the number of its descriptors,       *)
(* however many processes call what at once and whichever way calls end.   *)
THEOREM InodeRefsCounted == Spec => []RefsCounted
<1>1. Init => RefInv
  BY InitRefs
<1>2. RefInv /\ [Next]_vars => RefInv'
  BY NextRefs
<1>3. RefInv => RefsCounted
  BY DEF RefInv
<1> QED BY <1>1, <1>2, <1>3, PTL DEF Spec
----------------------------------------------------------------------------
(* Which inodes are alive.  A link count covers the names of an inode and  *)
(* the .. of the subdirectories that have a name (Up), not the .. of one   *)
(* that was removed: sys_unlink takes that link back at once.              *)

(* An inode is born with its first name: p has allocated it until then. *)
Inum(e) == icache[e].inum
Bears(r, i) ==
    \/ r.pc = "iget" /\ r.num = i
    \/ r.pc = "enter" /\ Inum(r.ip) = i
Born(i) == dinode[i].type # "none" /\ \A p \in Procs : ~Bears(loc[p], i)

(* The locks that a system call keeps. *)
Keeps(r, e) ==
    \/ r.dp = e /\ Goal(r) \in {"ialloc", "iget", "enter", "unlink", "putdp"}
    \/ r.ip = e /\ Goal(r) \in {"file", "unlinked", "putip"}
    \/ r.tgt = e /\ r.pc \in {"trunc", "free", "invalidate"}

(* The names of i that are counted and not there: link counts before it    *)
(* enters the name, unlink after it has erased it.                         *)
Linking(r) == r.call = "link" /\ Goal(r) \in {"walk", "parent", "linkbad", "putdp"}
Owes(r, i) == r.ip # 0 /\ Inum(r.ip) = i /\ (Goal(r) = "unlinked" \/ Linking(r))
Pending(i) == Cardinality({p \in Procs : Owes(loc[p], i)})

(* What a process in a system call relies on. *)
FitPaths(r) ==
    /\ r.path \in Seq(DirNames) /\ r.new.elems \in Seq(DirNames)
    /\ Goal(r) \in {"ialloc", "iget", "enter", "unlink"} => Head(r.path) \in Names
FitLocks(r, p) ==
    /\ Goal(r) \in {"ialloc", "iget", "enter", "unlink"} => icache[r.dp].lock = p
    /\ Goal(r) = "unlinked" => icache[r.ip].lock = p
    /\ r.pc \in {"trunc", "free", "invalidate"} => icache[r.tgt].lock = p
    /\ r.pc = "invalidate" => r.ip # r.tgt
FitPointers(r) ==
    /\ r.dp # 0 => Born(Inum(r.dp))
    /\ r.ip # 0 /\ r.pc # "enter" => Born(Inum(r.ip))
    /\ r.tgt # 0 /\ r.pc \notin {"invalidate", "drop"} => Born(Inum(r.tgt))
FitInodes(r) ==
    /\ \A i \in Inums : Bears(r, i) => dinode[i] = [NoInode EXCEPT !.type = NewType(r.call)]
    /\ r.pc = "parent" => dinode[Inum(r.dp)].type = "dir"
    /\ r.pc = "unlink" => entry[Inum(r.dp)][Head(r.path)] = Inum(r.ip)
    /\ r.ip # 0 /\ Linking(r) => dinode[Inum(r.ip)].type # "dir"
    /\ r.pc \in {"trunc", "free"} => dinode[Inum(r.tgt)].nlink = 0 /\ icache[r.tgt].ref = 1
Fit(r, p) == FitPaths(r) /\ FitLocks(r, p) /\ FitPointers(r) /\ FitInodes(r)

(* The cache: one entry for an inode, locked by who keeps it, and valid    *)
(* only with what is on disk.                                              *)
OneEntry ==
    \A e, f \in Entries :
        icache[e].ref > 0 /\ icache[f].ref > 0 /\ Inum(e) = Inum(f) => e = f
LockKept(e) ==
    icache[e].lock # Nobody => icache[e].valid /\ Keeps(loc[icache[e].lock], e)
Coherent(e) ==
    icache[e].ref > 0 /\ icache[e].valid =>
        \/ icache[e].copy = dinode[Inum(e)] /\ dinode[Inum(e)].type # "none"
        \/ \E p \in Procs : loc[p].pc = "invalidate" /\ loc[p].tgt = e
CacheInv == OneEntry /\ \A e \in Entries : LockKept(e) /\ Coherent(e)

(* The disk *)
OneBirth ==
    \A p, q \in Procs, i \in Inums : Bears(loc[p], i) /\ Bears(loc[q], i) => p = q
RootAlive == Born(ROOTINO) /\ dinode[ROOTINO].type = "dir"
Blank(i) == ~Born(i) => entry[i] = NoNames /\ dinode[i].nlink = 0 /\ dinode[i].addr = 0
NamesBorn(i) == \A n \in Names : entry[i][n] # 0 => Born(entry[i][n])
Dots(i) ==
    /\ entry[i]["."] \in {0, i}
    /\ entry[i][".."] # 0 => dinode[i].type = "dir"
    /\ Born(i) /\ dinode[i].type = "dir" => entry[i]["."] # 0 /\ entry[i][".."] # 0
Up(i) ==
    /\ i = ROOTINO => entry[i][".."] = ROOTINO
    /\ \A n \in Names : entry[i][n] # 0 /\ dinode[entry[i][n]].type = "dir"
                          => entry[entry[i][n]][".."] = i
CountOK(i) == Born(i) => NamesOf(i) + Pending(i) <= dinode[i].nlink
DiskInv ==
    /\ OneBirth /\ RootAlive
    /\ \A i \in Inums : Blank(i) /\ NamesBorn(i) /\ Dots(i) /\ Up(i) /\ CountOK(i)

(* The pointers that processes keep between system calls. *)
KeptAlive ==
    /\ \A p \in Procs : Born(Inum(cwd[p]))
    /\ \A f \in Files : fref[f] > 0 => Born(Inum(fip[f]))

(* The blocks *)
Gone(i) == \E p \in Procs : loc[p].pc = "free" /\ Inum(loc[p].tgt) = i
Owns(i, b) == dinode[i].addr = b /\ ~Gone(i)
BlockInv ==
    \A b \in Blocks : /\ b \in bitmap <=> \E i \in Inums : Owns(i, b)
                      /\ \A i, j \in Inums : Owns(i, b) /\ Owns(j, b) => i = j

LiveInv == CacheInv /\ DiskInv /\ KeptAlive /\ BlockInv /\ \A p \in Procs : Fit(loc[p], p)

----------------------------------------------------------------------------
(* Pointers and entries *)

(* Whom the variables, the open files and the directories point to. *)
LEMMA Targets ==
    ASSUME RefInv, NEW p \in Procs
    PROVE  /\ loc[p] \in Frame /\ Holds(loc[p])
           /\ cwd[p] \in Entries /\ icache[cwd[p]].ref > 0 /\ Inum(cwd[p]) \in Inums
           /\ loc[p].dp # 0 => /\ loc[p].dp \in Entries /\ icache[loc[p].dp].ref > 0
                               /\ Inum(loc[p].dp) \in Inums
           /\ loc[p].ip # 0 => /\ loc[p].ip \in Entries /\ icache[loc[p].ip].ref > 0
                               /\ Inum(loc[p].ip) \in Inums
           /\ loc[p].tgt # 0 => /\ loc[p].tgt \in Entries /\ icache[loc[p].tgt].ref > 0
                                /\ Inum(loc[p].tgt) \in Inums
<1>1. loc[p] \in Frame /\ Holds(loc[p]) /\ cwd[p] \in Entries
  BY DEF RefInv, Shapes, FileShapes
<1>2. /\ loc[p].dp \in Entries \cup {0} /\ loc[p].ip \in Entries \cup {0}
      /\ loc[p].tgt \in Entries \cup {0}
  BY <1>1 DEF Frame
<1>3. \A e \in Entries : e \in {loc[p].dp, loc[p].ip, loc[p].tgt, cwd[p]}
                         => icache[e].ref > 0 /\ icache[e].inum \in Inums
  BY Pointed
<1> QED BY <1>1, <1>2, <1>3 DEF Inum

(* An open file points to an entry. *)
LEMMA FileTarget ==
    ASSUME RefInv, NEW f \in Files, fref[f] > 0
    PROVE  fip[f] \in Entries /\ icache[fip[f]].ref > 0 /\ Inum(fip[f]) \in Inums
<1> DEFINE e == fip[f]
           A == {g \in Files : fref[g] > 0 /\ fip[g] = e}
           B == {q \in Procs : cwd[q] = e}
<1>1. e \in Entries
  BY DEF RefInv, Shapes, FileShapes, Used
<1>2. icache[e].ref = Cardinality(A) + Cardinality(B) + Cardinality(FramePtrs(loc, e))
  BY <1>1 DEF RefInv, RefsCounted, Pointers, FramePtrs, Fields
<1>3. IsFiniteSet(A) /\ IsFiniteSet(B) /\ Cardinality(A) \in Nat /\ Cardinality(B) \in Nat
  <2>1. IsFiniteSet(A) /\ IsFiniteSet(B)
    BY FinitePools, FS_Subset
  <2> QED BY <2>1, FS_CardinalityType
<1>4. Cardinality(FramePtrs(loc, e)) \in Nat
  <2>1. IsFiniteSet(Fields)
    <3>1. Fields = {"dp"} \cup {"ip"} \cup {"tgt"}
      BY DEF Fields
    <3> QED BY <3>1, FS_Singleton, FS_Union
  <2>2. IsFiniteSet(Procs \X Fields)
    BY <2>1, FS_Product, InodeAssumption
  <2>3. FramePtrs(loc, e) \in SUBSET (Procs \X Fields)
    BY DEF FramePtrs
  <2> QED BY <2>2, <2>3, FS_Subset, FS_CardinalityType
<1>5. Cardinality(A) # 0
  <2>1. f \in A
    OBVIOUS
  <2> HIDE DEF A
  <2> QED BY <2>1, <1>3, FS_EmptySet
<1>6. icache[e].ref > 0
  <2> HIDE DEF A, B, e
  <2> QED BY <1>2, <1>3, <1>4, <1>5
<1> QED BY <1>1, <1>6 DEF Inum, RefInv, Used, Shapes, Cached

(* The target of iput, when it is the last reference, has no other pointer. *)
Alone(p, e) ==
    /\ \A q \in Procs : cwd[q] # e /\ loc[q].dp # e /\ loc[q].ip # e
    /\ \A q \in Procs \ {p} : loc[q].tgt # e
    /\ \A f \in Files : fref[f] > 0 => fip[f] # e

(* It is alone. *)
LEMMA Sole ==
    ASSUME RefInv, NEW p \in Procs, NEW e \in Entries, loc[p].tgt = e, icache[e].ref = 1
    PROVE  Alone(p, e)
<1> DEFINE A == {f \in Files : fref[f] > 0 /\ fip[f] = e}
           B == {q \in Procs : cwd[q] = e}
<1>1. icache[e].ref = Cardinality(A) + Cardinality(B) + Cardinality(FramePtrs(loc, e))
  BY DEF RefInv, RefsCounted, Pointers, FramePtrs, Fields
<1>2. IsFiniteSet(A) /\ IsFiniteSet(B) /\ Cardinality(A) \in Nat /\ Cardinality(B) \in Nat
  <2>1. IsFiniteSet(A) /\ IsFiniteSet(B)
    BY FinitePools, FS_Subset
  <2> QED BY <2>1, FS_CardinalityType
<1>3. /\ Cardinality(FramePtrs(loc, e)) = Cardinality(OtherPtrs(loc, p, e)) + Own(loc[p], e)
      /\ Cardinality(OtherPtrs(loc, p, e)) \in Nat
  BY FramesSplit
<1>4. /\ Own(loc[p], e) \in Nat /\ Own(loc[p], e) >= 1
      /\ Own(loc[p], e) = 1 => loc[p].dp # e /\ loc[p].ip # e
  BY DEF Own, One
<1>5. /\ Cardinality(A) = 0 /\ Cardinality(B) = 0 /\ Cardinality(OtherPtrs(loc, p, e)) = 0
      /\ Own(loc[p], e) = 1
  <2> HIDE DEF A, B
  <2> QED BY <1>1, <1>2, <1>3, <1>4
<1>6. IsFiniteSet(OtherPtrs(loc, p, e))
  <2>1. IsFiniteSet(Fields)
    <3>1. Fields = {"dp"} \cup {"ip"} \cup {"tgt"}
      BY DEF Fields
    <3> QED BY <3>1, FS_Singleton, FS_Union
  <2>2. IsFiniteSet(Procs \X Fields)
    BY <2>1, FS_Product, InodeAssumption
  <2>3. OtherPtrs(loc, p, e) \in SUBSET (Procs \X Fields)
    BY DEF OtherPtrs
  <2> QED BY <2>2, <2>3, FS_Subset
<1>7. A = {} /\ B = {} /\ OtherPtrs(loc, p, e) = {}
  <2> HIDE DEF A, B
  <2> QED BY <1>2, <1>5, <1>6, FS_EmptySet
<1>8. ASSUME NEW q \in Procs \ {p} PROVE loc[q].dp # e /\ loc[q].ip # e /\ loc[q].tgt # e
  <2>1. \A f \in Fields : <<q, f>> \notin OtherPtrs(loc, p, e)
    BY <1>7
  <2>2. \A f \in Fields : loc[q][f] # e
    BY <2>1 DEF OtherPtrs
  <2> QED BY <2>2 DEF Fields
<1> QED BY <1>4, <1>5, <1>7, <1>8 DEF Alone

----------------------------------------------------------------------------
(* Names *)

NameSet(i) == {x \in Inums \X Names : entry[x[1]][x[2]] = i}
SubDirs(i) == {n \in Names : entry[i][n] # 0 /\ dinode[entry[i][n]].type = "dir"}
Owing(i) == {p \in Procs : Owes(loc[p], i)}

(* The counts are of finite sets. *)
LEMMA NameSets ==
    ASSUME NEW i
    PROVE  /\ IsFiniteSet(NameSet(i)) /\ IsFiniteSet(SubDirs(i)) /\ IsFiniteSet(Owing(i))
           /\ Cardinality(NameSet(i)) \in Nat /\ Cardinality(SubDirs(i)) \in Nat
           /\ Cardinality(Owing(i)) \in Nat
           /\ NamesOf(i) = Cardinality(NameSet(i)) + Cardinality(SubDirs(i)) + One(i = ROOTINO)
           /\ Pending(i) = Cardinality(Owing(i))
<1>1. IsFiniteSet(Inums \X Names)
  BY FinitePools, FS_Product
<1>2. NameSet(i) \in SUBSET (Inums \X Names) /\ SubDirs(i) \in SUBSET Names
      /\ Owing(i) \in SUBSET Procs
  BY DEF NameSet, SubDirs, Owing
<1>3. IsFiniteSet(NameSet(i)) /\ IsFiniteSet(SubDirs(i)) /\ IsFiniteSet(Owing(i))
  BY <1>1, <1>2, FinitePools, FS_Subset
<1>4. /\ Cardinality(NameSet(i)) \in Nat /\ Cardinality(SubDirs(i)) \in Nat
      /\ Cardinality(Owing(i)) \in Nat
  BY <1>3, FS_CardinalityType
<1>5. NamesOf(i) = Cardinality(NameSet(i)) + Cardinality(SubDirs(i)) + One(i = ROOTINO)
  BY DEF NamesOf, NameSet, SubDirs, One
<1>6. Pending(i) = Cardinality(Owing(i))
  BY DEF Pending, Owing
<1> QED BY <1>3, <1>4, <1>5, <1>6

(* An inode without links has no name and no subdirectory, and is not the  *)
(* root.                                                                   *)
Nameless(i) ==
    /\ i # ROOTINO
    /\ \A j \in Inums, n \in Names : entry[j][n] # i
    /\ \A n \in Names : entry[i][n] # 0 => dinode[entry[i][n]].type # "dir"
    /\ \A p \in Procs : ~Owes(loc[p], i)

(* An inode that is alive and has no links is nameless. *)
LEMMA NoLinks ==
    ASSUME LiveInv, NEW i \in Inums, Born(i), dinode[i].nlink = 0
    PROVE  Nameless(i)
<1>1. NamesOf(i) + Pending(i) <= 0
  BY DEF LiveInv, DiskInv, CountOK
<1>2. /\ Cardinality(NameSet(i)) = 0 /\ Cardinality(SubDirs(i)) = 0
      /\ Cardinality(Owing(i)) = 0 /\ One(i = ROOTINO) = 0
  BY <1>1, NameSets DEF One
<1>3. NameSet(i) = {} /\ SubDirs(i) = {} /\ Owing(i) = {}
  BY <1>2, NameSets, FS_EmptySet
<1>4. i # ROOTINO
  BY <1>2 DEF One
<1>5. ASSUME NEW j \in Inums, NEW n \in Names PROVE entry[j][n] # i
  <2>1. <<j, n>> \notin NameSet(i)
    BY <1>3
  <2> QED BY <2>1 DEF NameSet
<1>6. ASSUME NEW p \in Procs PROVE ~Owes(loc[p], i)
  BY <1>3 DEF Owing
<1>7. ASSUME NEW n \in Names, entry[i][n] # 0 PROVE dinode[entry[i][n]].type # "dir"
  BY <1>3, <1>7 DEF SubDirs
<1> QED BY <1>4, <1>5, <1>6, <1>7 DEF Nameless

(* A process that frees an inode has the only pointer to it, and it has no name. *)
LEMMA Dying ==
    ASSUME RefInv, LiveInv, NEW q \in Procs, loc[q].pc \in {"trunc", "free"}
    PROVE  /\ loc[q].tgt \in Entries /\ Inum(loc[q].tgt) \in Inums
           /\ icache[loc[q].tgt].ref = 1 /\ dinode[Inum(loc[q].tgt)].nlink = 0
           /\ Born(Inum(loc[q].tgt)) /\ Nameless(Inum(loc[q].tgt)) /\ Alone(q, loc[q].tgt)
           /\ \A e \in Entries : icache[e].ref > 0 /\ Inum(e) = Inum(loc[q].tgt)
                                 => e = loc[q].tgt
<1>1. loc[q].tgt # 0
  BY DEF RefInv, Holds, Iput
<1>2. loc[q].tgt \in Entries /\ Inum(loc[q].tgt) \in Inums /\ icache[loc[q].tgt].ref > 0
  BY <1>1, Targets
<1>3. icache[loc[q].tgt].ref = 1 /\ dinode[Inum(loc[q].tgt)].nlink = 0
  BY DEF LiveInv, Fit, FitInodes
<1>4. Born(Inum(loc[q].tgt))
  BY <1>1 DEF LiveInv, Fit, FitPointers
<1>5. Nameless(Inum(loc[q].tgt)) /\ Alone(q, loc[q].tgt)
  BY <1>2, <1>3, <1>4, NoLinks, Sole
<1> QED BY <1>2, <1>3, <1>4, <1>5 DEF LiveInv, CacheInv, OneEntry

(* What process p can get a reference to: what it points to, the root, and *)
(* what has a name or a subdirectory.                                      *)
Reached(p, i) ==
    \/ i = ROOTINO
    \/ \E j \in Inums, n \in Names : entry[j][n] = i
    \/ \E n \in Names : entry[i][n] # 0 /\ dinode[entry[i][n]].type = "dir"
    \/ i = Inum(cwd[p])
    \/ loc[p].dp # 0 /\ i = Inum(loc[p].dp)
    \/ loc[p].pc = "iget" /\ i = loc[p].num

(* No other process is freeing what a process reaches. *)
LEMMA ReachedLives ==
    ASSUME RefInv, LiveInv, NEW p \in Procs, NEW i, Reached(p, i),
           NEW q \in Procs \ {p}, loc[q].pc \in {"trunc", "free"}
    PROVE  Inum(loc[q].tgt) # i
<1> SUFFICES ASSUME Inum(loc[q].tgt) = i PROVE FALSE
  OBVIOUS
<1>1. /\ Born(i) /\ Nameless(i) /\ Alone(q, loc[q].tgt) /\ i \in Inums
      /\ \A e \in Entries : icache[e].ref > 0 /\ Inum(e) = i => e = loc[q].tgt
  BY Dying
<1>2. cwd[p] # loc[q].tgt /\ loc[p].dp # loc[q].tgt
  BY <1>1 DEF Alone
<1>3. /\ i # ROOTINO /\ ~\E j \in Inums, n \in Names : entry[j][n] = i
      /\ ~\E n \in Names : entry[i][n] # 0 /\ dinode[entry[i][n]].type = "dir"
  BY <1>1 DEF Nameless
<1>4. ~(loc[p].pc = "iget" /\ i = loc[p].num)
  BY <1>1 DEF Born, Bears
<1> QED BY <1>1, <1>2, <1>3, <1>4, Targets DEF Reached

(* Looking n up in directory e is not a look at the .. of a removed        *)
(* directory whose parent is removed too.                                  *)
Upward(e, n) ==
    n = ".." => /\ dinode[Inum(e)].type = "dir"
                /\ (HasName(Dir(e)) \/ HasName(Lookup(e, "..")))

(* An inode that has a name is alive. *)
LEMMA NamedBorn ==
    ASSUME RefInv, LiveInv, NEW p \in Procs, NEW i, HasName(i), i # 0
    PROVE  i \in Inums /\ Born(i) /\ Reached(p, i)
<1>1. CASE i = ROOTINO
  BY <1>1, InodeAssumption DEF LiveInv, DiskInv, RootAlive, Reached
<1>2. ASSUME NEW j \in Inums, NEW n \in Names, entry[j][n] = i
      PROVE  i \in Inums /\ Born(i) /\ Reached(p, i)
  <2>1. entry[j] \in [DirNames -> Inums \cup {0}] /\ n \in DirNames
    BY DEF RefInv, Shapes, DiskShapes, DirNames
  <2>2. NamesBorn(j)
    BY DEF LiveInv, DiskInv
  <2> QED BY <1>2, <2>1, <2>2 DEF NamesBorn, Reached
<1> QED BY <1>1, <1>2 DEF HasName

(* The .. of a directory that has a name is alive. *)
LEMMA ParentBorn ==
    ASSUME RefInv, LiveInv, NEW p \in Procs, NEW i \in Inums, HasName(i),
           dinode[i].type = "dir"
    PROVE  /\ entry[i][".."] \in Inums /\ Born(entry[i][".."])
           /\ Reached(p, entry[i][".."])
<1>1. CASE i = ROOTINO
  <2>1. entry[i][".."] = ROOTINO
    BY <1>1 DEF LiveInv, DiskInv, Up
  <2> QED BY <2>1, InodeAssumption DEF LiveInv, DiskInv, RootAlive, Reached
<1>2. ASSUME NEW j \in Inums, NEW n \in Names, entry[j][n] = i
      PROVE  /\ entry[i][".."] \in Inums /\ Born(entry[i][".."])
             /\ Reached(p, entry[i][".."])
  <2>1. entry[j][n] # 0
    BY <1>2, InodeAssumption
  <2>2. entry[i][".."] = j
    BY <1>2, <2>1 DEF LiveInv, DiskInv, Up
  <2>3. Born(j)
    <3>1. entry[j] # NoNames
      BY <2>1 DEF NoNames, DirNames
    <3> QED BY <3>1 DEF LiveInv, DiskInv, Blank
  <2> QED BY <1>2, <2>1, <2>2, <2>3 DEF Reached
<1> QED BY <1>1, <1>2 DEF HasName

(* dirlookup in a directory that is alive finds what is alive. *)
LEMMA LookupBorn ==
    ASSUME RefInv, LiveInv, NEW p \in Procs, loc[p].dp # 0, NEW n \in DirNames,
           Lookup(loc[p].dp, n) # 0, Upward(loc[p].dp, n)
    PROVE  /\ Lookup(loc[p].dp, n) \in Inums /\ Born(Lookup(loc[p].dp, n))
           /\ Reached(p, Lookup(loc[p].dp, n))
<1>1. PICK j \in Inums : j = Inum(loc[p].dp)
  BY Targets
<1>2. Lookup(loc[p].dp, n) = entry[j][n]
  BY <1>1 DEF Lookup, Dir, Inum
<1>3. Born(j)
  BY <1>1 DEF LiveInv, Fit, FitPointers
<1>4. /\ entry[j]["."] \in {0, j}
      /\ \A m \in Names : entry[j][m] # 0 => Born(entry[j][m])
  BY DEF LiveInv, DiskInv, Dots, NamesBorn
<1>5. entry[j] \in [DirNames -> Inums \cup {0}]
  BY DEF RefInv, Shapes, DiskShapes
<1>6. n \in Names \/ n = "." \/ n = ".."
  BY DEF DirNames
<1>7. CASE n \in Names
  BY <1>1, <1>2, <1>4, <1>5, <1>6, <1>7 DEF Reached
<1>8. CASE n = "."
  BY <1>1, <1>2, <1>3, <1>4, <1>5, <1>8 DEF Reached
<1>9. CASE n = ".."
  <2>1. dinode[j].type = "dir" /\ (HasName(j) \/ HasName(entry[j][".."]))
    BY <1>1, <1>2, <1>9 DEF Upward, Dir, Inum
  <2>2. entry[j][".."] # 0
    BY <1>2, <1>9
  <2> QED BY <1>2, <1>9, <2>1, <2>2, NamedBorn, ParentBorn
<1> QED BY <1>6, <1>7, <1>8, <1>9
----------------------------------------------------------------------------
(* Steps of the cache that leave the disk alone.  Process p may acquire    *)
(* entry a.                                                                *)

Reads(ic, jc, p, a) ==
    \A e \in Entries :
        /\ ic[e].ref > 0 => jc[e].inum = ic[e].inum
        /\ \A q \in Procs \ {p} : jc[e].lock = q <=> ic[e].lock = q
        /\ jc[e].lock = p => ic[e].lock = p \/ e = a
        /\ ic[e].ref > 0 /\ ic[e].valid => jc[e].valid
        /\ jc[e].ref > 0 /\ jc[e].valid =>
              \/ ic[e].ref > 0 /\ ic[e].valid /\ jc[e].copy = ic[e].copy
              \/ jc[e].copy = dinode[jc[e].inum] /\ dinode[jc[e].inum].type # "none"

NoDrop(ic, jc) == \A e \in Entries : ic[e].ref > 0 => jc[e].ref > 0

(* Two cache operations in a row. *)
LEMMA ReadsThen ==
    ASSUME NEW ic, NEW jc, NEW kc, NEW p \in Procs, NEW a,
           Reads(ic, jc, p, 0), NoDrop(ic, jc), Reads(jc, kc, p, a)
    PROVE  Reads(ic, kc, p, a)
<1> SUFFICES ASSUME NEW e \in Entries
    PROVE  /\ ic[e].ref > 0 => kc[e].inum = ic[e].inum
           /\ \A q \in Procs \ {p} : kc[e].lock = q <=> ic[e].lock = q
           /\ kc[e].lock = p => ic[e].lock = p \/ e = a
           /\ ic[e].ref > 0 /\ ic[e].valid => kc[e].valid
           /\ kc[e].ref > 0 /\ kc[e].valid =>
                 \/ ic[e].ref > 0 /\ ic[e].valid /\ kc[e].copy = ic[e].copy
                 \/ kc[e].copy = dinode[kc[e].inum] /\ dinode[kc[e].inum].type # "none"
  BY DEF Reads
<1>1. e # 0 /\ (ic[e].ref > 0 => jc[e].ref > 0)
  BY DEF NoDrop, Entries
<1>2. /\ ic[e].ref > 0 => jc[e].inum = ic[e].inum
      /\ \A q \in Procs \ {p} : jc[e].lock = q <=> ic[e].lock = q
      /\ jc[e].lock = p => ic[e].lock = p \/ e = 0
      /\ ic[e].ref > 0 /\ ic[e].valid => jc[e].valid
      /\ jc[e].ref > 0 /\ jc[e].valid =>
            \/ ic[e].ref > 0 /\ ic[e].valid /\ jc[e].copy = ic[e].copy
            \/ jc[e].copy = dinode[jc[e].inum] /\ dinode[jc[e].inum].type # "none"
  BY DEF Reads
<1>3. /\ jc[e].ref > 0 => kc[e].inum = jc[e].inum
      /\ \A q \in Procs \ {p} : kc[e].lock = q <=> jc[e].lock = q
      /\ kc[e].lock = p => jc[e].lock = p \/ e = a
      /\ jc[e].ref > 0 /\ jc[e].valid => kc[e].valid
      /\ kc[e].ref > 0 /\ kc[e].valid =>
            \/ jc[e].ref > 0 /\ jc[e].valid /\ kc[e].copy = jc[e].copy
            \/ kc[e].copy = dinode[kc[e].inum] /\ dinode[kc[e].inum].type # "none"
  BY DEF Reads
<1> QED BY <1>1, <1>2, <1>3

(* Every operation of the cache is such a step. *)
LEMMA ReadsOps ==
    ASSUME NEW ic \in [Entries -> Cached], NEW e \in Entries, NEW p \in Procs
    PROVE  /\ Reads(ic, ic, p, 0)
           /\ ic[e].lock = Nobody => Reads(ic, Hold(ic, e, p), p, e)
           /\ Reads(ic, Iunlock(ic, e, p), p, 0) /\ Iunlock(ic, e, p)[e].lock # p
           /\ dinode[ic[e].inum].type # "none" => Reads(ic, Ilock(ic, e), p, 0)
           /\ Ilock(ic, e)[e].valid
           /\ \A i : Reads(ic, Iget(ic, e, i), p, 0)
<1>0. Nobody \notin Procs
  BY InodeAssumption
<1>1. Reads(ic, ic, p, 0)
  BY DEF Reads
<1>2. ASSUME ic[e].lock = Nobody PROVE Reads(ic, Hold(ic, e, p), p, e)
  BY <1>0, <1>2 DEF Reads, Hold, Cached
<1>3. Reads(ic, Iunlock(ic, e, p), p, 0) /\ Iunlock(ic, e, p)[e].lock # p
  BY <1>0 DEF Reads, Iunlock, Cached, Entries
<1>4. ASSUME dinode[ic[e].inum].type # "none" PROVE Reads(ic, Ilock(ic, e), p, 0)
  BY <1>4 DEF Reads, Ilock, Cached
<1>5. Ilock(ic, e)[e].valid
  BY DEF Ilock, Cached
<1>6. ASSUME NEW i PROVE Reads(ic, Iget(ic, e, i), p, 0)
  <2>1. CASE ic[e].ref > 0
    BY <2>1 DEF Reads, Iget, Cached
  <2>2. CASE ~(ic[e].ref > 0)
    <3>1. PICK jc : jc = Iget(ic, e, i)
      OBVIOUS
    <3>2. jc[e].valid = FALSE /\ jc[e].lock = ic[e].lock /\ \A f \in Entries \ {e} : jc[f] = ic[f]
      BY <2>2, <3>1 DEF Iget, Cached
    <3> QED BY <2>2, <3>1, <3>2 DEF Reads
  <2> QED BY <2>1, <2>2
<1> QED BY <1>1, <1>2, <1>3, <1>4, <1>5, <1>6

----------------------------------------------------------------------------
(* The cache after a step of p: one entry for an inode, and no reference   *)
(* to an inode that another process is freeing.                            *)

OneIn(jc) ==
    \A e, f \in Entries :
        jc[e].ref > 0 /\ jc[f].ref > 0 /\ jc[e].inum = jc[f].inum => e = f
Spares(jc, p) ==
    \A q \in Procs \ {p} : loc[q].pc \in {"trunc", "free"} => jc[loc[q].tgt].ref = 1
CacheStep(jc, p, a) ==
    /\ jc \in [Entries -> Cached]
    /\ Reads(icache, jc, p, a) /\ OneIn(jc) /\ Spares(jc, p)

(* ilock, iunlock and acquiresleep change no entry that others use. *)
LEMMA SameCache ==
    ASSUME RefInv, LiveInv, NEW p \in Procs, NEW jc, NEW a,
           Same(icache, jc), Reads(icache, jc, p, a)
    PROVE  CacheStep(jc, p, a)
<1>1. jc \in [Entries -> Cached] /\ \A e \in Entries : jc[e].ref = icache[e].ref /\ jc[e].inum = icache[e].inum
  BY DEF Same
<1>2. OneIn(jc)
  BY <1>1 DEF OneIn, LiveInv, CacheInv, OneEntry, Inum
<1>3. Spares(jc, p)
  BY <1>1, Dying DEF Spares
<1>4. NoDrop(icache, jc)
  BY <1>1 DEF NoDrop
<1> QED BY <1>1, <1>2, <1>3, <1>4 DEF CacheStep

(* One more reference to an inode that p can reach. *)
LEMMA GrownSpares ==
    ASSUME RefInv, LiveInv, NEW p \in Procs, NEW jc, NEW x \in Entries, Grown(icache, jc, x),
           Reached(p, jc[x].inum)
    PROVE  Spares(jc, p)
<1> SUFFICES ASSUME NEW q \in Procs \ {p}, loc[q].pc \in {"trunc", "free"}
             PROVE  jc[loc[q].tgt].ref = 1
  BY DEF Spares
<1>1. PICK e \in Entries : e = loc[q].tgt /\ icache[e].ref = 1
  BY Dying
<1>2. Inum(e) # jc[x].inum
  BY <1>1, ReachedLives
<1>3. jc[e].inum = Inum(e)
  BY <1>1 DEF Grown, Inum
<1>4. e # x
  BY <1>2, <1>3
<1> QED BY <1>1, <1>4 DEF Grown, One

(* iget finds or takes an entry, and no other process loses its own. *)
LEMMA GrownCache ==
    ASSUME RefInv, LiveInv, NEW p \in Procs, NEW ic, Same(icache, ic), Reads(icache, ic, p, 0),
           NEW i \in Inums, Reached(p, i), NEW x \in Slot(i)
    PROVE  /\ CacheStep(Iget(ic, x, i), p, 0) /\ NoDrop(icache, Iget(ic, x, i))
           /\ x \in Entries /\ Iget(ic, x, i)[x].inum = i
           /\ \A e \in Entries : Iget(ic, x, i)[e].lock = ic[e].lock
           /\ \A e \in Entries : ic[e].ref > 0 => Iget(ic, x, i)[e].valid = ic[e].valid
<1>1. PICK jc : jc = Iget(ic, x, i)
  OBVIOUS
<1>2. x \in Entries /\ Grown(ic, jc, x) /\ jc[x].inum = i
  BY <1>1, IgetGrows
<1>3. Grown(icache, jc, x) /\ jc \in [Entries -> Cached] /\ ic \in [Entries -> Cached]
  BY <1>2, SameTransitive DEF Grown, Same
<1>4. NoDrop(icache, ic) /\ NoDrop(icache, jc)
  BY <1>3 DEF NoDrop, Same, Grown, One, Cached
<1>5. Reads(icache, jc, p, 0)
  <2>1. Reads(ic, jc, p, 0)
    BY <1>1, <1>2, <1>3, ReadsOps
  <2> QED BY <1>4, <2>1, ReadsThen
<1>6. OneIn(jc)
  <2> SUFFICES ASSUME NEW e \in Entries, NEW f \in Entries, jc[e].ref > 0, jc[f].ref > 0,
                      jc[e].inum = jc[f].inum, e # f
               PROVE  FALSE
    BY DEF OneIn
  <2>1. \A g \in Entries : /\ jc[g].ref = icache[g].ref + One(g = x) /\ icache[g].ref \in Nat
                           /\ icache[g].ref > 0 => jc[g].inum = icache[g].inum
    BY <1>3 DEF Grown, Cached
  <2>2. \A g, h \in Entries : icache[g].ref > 0 /\ icache[h].ref > 0
                              /\ icache[g].inum = icache[h].inum => g = h
    BY DEF LiveInv, CacheInv, OneEntry, Inum
  <2>3. \A g \in Entries : g # x /\ jc[g].ref > 0 => icache[g].ref > 0 /\ icache[g].inum = jc[g].inum
    BY <2>1 DEF One
  <2>4. \A g \in Entries : icache[g].ref > 0 /\ icache[g].inum = i => icache[x].ref > 0 /\ icache[x].inum = i
    BY DEF Slot
  <2>5. \A g \in Entries : g # x /\ jc[g].ref > 0 => jc[g].inum # i
    BY <1>2, <2>2, <2>3, <2>4
  <2> QED BY <1>2, <2>2, <2>3, <2>5
<1>7. Spares(jc, p)
  BY <1>2, <1>3, GrownSpares
<1>8. /\ \A e \in Entries : jc[e].lock = ic[e].lock
      /\ \A e \in Entries : ic[e].ref > 0 => jc[e].valid = ic[e].valid
  BY <1>1, <1>2, <1>3 DEF Iget, Cached
<1> QED BY <1>1, <1>2, <1>3, <1>4, <1>5, <1>6, <1>7, <1>8 DEF CacheStep

(* idup *)
LEMMA IdupCache ==
    ASSUME RefInv, LiveInv, NEW p \in Procs, NEW ic, Same(icache, ic), Reads(icache, ic, p, 0),
           NEW x \in Entries, icache[x].ref > 0, Reached(p, Inum(x))
    PROVE  /\ CacheStep([ic EXCEPT ![x].ref = @ + 1], p, 0)
           /\ [ic EXCEPT ![x].ref = @ + 1][x].inum = Inum(x)
           /\ \A e \in Entries : [ic EXCEPT ![x].ref = @ + 1][e].lock = ic[e].lock
<1>1. PICK jc : jc = [ic EXCEPT ![x].ref = @ + 1]
  OBVIOUS
<1>2. ic \in [Entries -> Cached] /\ icache \in [Entries -> Cached]
  BY DEF Same
<1>3. jc \in [Entries -> Cached] /\ \A e \in Entries :
        /\ jc[e].ref = ic[e].ref + One(e = x) /\ jc[e].inum = ic[e].inum /\ ic[e].ref \in Nat
        /\ jc[e].lock = ic[e].lock /\ jc[e].valid = ic[e].valid /\ jc[e].copy = ic[e].copy
  BY <1>1, <1>2 DEF Cached, One
<1>4. \A e \in Entries : ic[e].ref = icache[e].ref /\ ic[e].inum = icache[e].inum
  BY DEF Same
<1>5. jc[x].inum = Inum(x) /\ Inum(x) # 0
  BY <1>3, <1>4 DEF Inum, RefInv, Used
<1>6. Grown(icache, jc, x)
  BY <1>2, <1>3, <1>4, <1>5 DEF Grown, Inum
<1>7. NoDrop(icache, ic) /\ NoDrop(icache, jc) /\ \A e \in Entries : jc[e].ref > 0 => icache[e].ref > 0
  BY <1>3, <1>4 DEF NoDrop, One
<1>8. Reads(ic, jc, p, 0)
  BY <1>3, <1>4, <1>7 DEF Reads
<1>9. Reads(icache, jc, p, 0)
  BY <1>7, <1>8, ReadsThen
<1>10. OneIn(jc)
  BY <1>3, <1>4, <1>7 DEF OneIn, LiveInv, CacheInv, OneEntry, Inum
<1>11. Spares(jc, p)
  BY <1>5, <1>6, GrownSpares
<1> QED BY <1>1, <1>3, <1>5, <1>7, <1>9, <1>10, <1>11 DEF CacheStep

(* Locking and unlocking afterwards *)
LEMMA ThenHold ==
    ASSUME RefInv, NEW p \in Procs, NEW jc, CacheStep(jc, p, 0), NoDrop(icache, jc),
           NEW e \in Entries
    PROVE  /\ jc[e].lock = Nobody => CacheStep(Hold(jc, e, p), p, e)
           /\ CacheStep(Iunlock(jc, e, p), p, 0)
<1>1. jc \in [Entries -> Cached] /\ Reads(icache, jc, p, 0) /\ OneIn(jc) /\ Spares(jc, p)
      /\ NoDrop(icache, jc)
  BY DEF CacheStep
<1>2. ASSUME NEW kc, Same(jc, kc), NEW a, Reads(jc, kc, p, a) PROVE CacheStep(kc, p, a)
  <2>1. \A f \in Entries : kc[f].ref = jc[f].ref /\ kc[f].inum = jc[f].inum
    BY <1>2 DEF Same
  <2>2. kc \in [Entries -> Cached] /\ NoDrop(icache, kc)
    BY <1>1, <1>2, <2>1 DEF Same, NoDrop
  <2>3. Reads(icache, kc, p, a)
    BY <1>1, <1>2, ReadsThen
  <2>4. OneIn(kc)
    BY <1>1, <2>1 DEF OneIn
  <2>5. \A q \in Procs : loc[q].pc \in {"trunc", "free"} => loc[q].tgt \in Entries
    <3> SUFFICES ASSUME NEW q \in Procs, loc[q].pc \in {"trunc", "free"}
                 PROVE  loc[q].tgt \in Entries
      OBVIOUS
    <3>1. loc[q].tgt # 0
      BY DEF RefInv, Holds, Iput
    <3> QED BY <3>1, Targets
  <2>6. Spares(kc, p)
    BY <1>1, <2>1, <2>5 DEF Spares
  <2> QED BY <2>2, <2>3, <2>4, <2>6 DEF CacheStep
<1>3. Same(jc, Hold(jc, e, p)) /\ Same(jc, Iunlock(jc, e, p))
  BY <1>1, SameSteps
<1>4. jc[e].lock = Nobody => Reads(jc, Hold(jc, e, p), p, e)
  BY <1>1, ReadsOps
<1>5. Reads(jc, Iunlock(jc, e, p), p, 0)
  BY <1>1, ReadsOps
<1> QED BY <1>2, <1>3, <1>4, <1>5

----------------------------------------------------------------------------
(* What a step of p means for the others *)

(* The frame of p is replaced; entries in use keep their inode, the locks  *)
(* of the others are theirs.                                               *)
Step(p, r) ==
    /\ loc' = [loc EXCEPT ![p] = r]
    /\ \A e \in Entries : /\ icache[e].ref > 0 => icache'[e].inum = icache[e].inum
                          /\ \A q \in Procs \ {p} : icache'[e].lock = q <=> icache[e].lock = q

(* Every inode but d stays alive, what it is. *)
Survive(d) ==
    \A i \in Inums \ {d} : Born(i) => Born(i)' /\ dinode'[i].type = dinode[i].type
Untouched(p, d) ==
    \A q \in Procs \ {p} : /\ loc[q].dp # 0 => Inum(loc[q].dp) # d
                           /\ loc[q].ip # 0 => Inum(loc[q].ip) # d
                           /\ loc[q].tgt # 0 => Inum(loc[q].tgt) # d
BirthsKept(p) ==
    \A q \in Procs \ {p}, i \in Inums : Bears(loc[q], i) => dinode'[i] = dinode[i]
UnlinksKept(p) ==
    \A q \in Procs \ {p} :
        loc[q].pc = "unlink" => entry'[Inum(loc[q].dp)] = entry[Inum(loc[q].dp)]
DeathsKept(p) ==
    \A q \in Procs \ {p} :
        loc[q].pc \in {"trunc", "free"} => /\ icache'[loc[q].tgt].ref = 1
                                           /\ dinode'[Inum(loc[q].tgt)].nlink = 0

(* The pointers of the others. *)
LEMMA OthersStay ==
    ASSUME RefInv, NEW p \in Procs, NEW r, Step(p, r), NEW q \in Procs \ {p}
    PROVE  /\ loc'[q] = loc[q] /\ loc'[p] = r
           /\ loc[q].dp # 0 => Inum(loc[q].dp)' = Inum(loc[q].dp)
           /\ loc[q].ip # 0 => Inum(loc[q].ip)' = Inum(loc[q].ip)
           /\ loc[q].tgt # 0 => Inum(loc[q].tgt)' = Inum(loc[q].tgt)
           /\ \A i : Bears(loc[q], i)' <=> Bears(loc[q], i)
           /\ \A i : Owes(loc[q], i)' <=> Owes(loc[q], i)
<1>1. loc'[q] = loc[q] /\ loc'[p] = r
  BY DEF Step, RefInv, Shapes
<1>2. /\ loc[q].dp # 0 => icache'[loc[q].dp].inum = icache[loc[q].dp].inum
      /\ loc[q].ip # 0 => icache'[loc[q].ip].inum = icache[loc[q].ip].inum
      /\ loc[q].tgt # 0 => icache'[loc[q].tgt].inum = icache[loc[q].tgt].inum
  BY Targets DEF Step
<1>3. loc[q].pc = "enter" => loc[q].ip # 0
  BY DEF RefInv, Holds, Goal, Iput
<1>4. \A i : Bears(loc[q], i)' <=> Bears(loc[q], i)
  BY <1>1, <1>2, <1>3 DEF Bears, Inum
<1>5. \A i : Owes(loc[q], i)' <=> Owes(loc[q], i)
  BY <1>1, <1>2 DEF Owes, Inum, Linking, Goal
<1> QED BY <1>1, <1>2, <1>4, <1>5 DEF Inum

(* What the other processes rely on stays true. *)
LEMMA OthersFit ==
    ASSUME RefInv, LiveInv, NEW p \in Procs, NEW r, Step(p, r), NEW d,
           Survive(d), Untouched(p, d), BirthsKept(p), UnlinksKept(p), DeathsKept(p)
    PROVE  \A q \in Procs \ {p} : Fit(loc[q], q)'
<1> SUFFICES ASSUME NEW q \in Procs \ {p} PROVE Fit(loc[q], q)'
  OBVIOUS
<1>1. PICK l \in Frame : l = loc[q] /\ Holds(l)
  BY Targets
<1>2. /\ loc'[q] = l
      /\ l.dp # 0 => Inum(l.dp)' = Inum(l.dp)
      /\ l.ip # 0 => Inum(l.ip)' = Inum(l.ip)
      /\ l.tgt # 0 => Inum(l.tgt)' = Inum(l.tgt)
      /\ \A i : Bears(l, i)' <=> Bears(l, i)
  <2>1. PICK k : k = l
    OBVIOUS
  <2>2. loc'[q] = k /\ loc[q] = k
    BY <1>1, <2>1, OthersStay
  <2>3. /\ loc[q].dp # 0 => Inum(loc[q].dp)' = Inum(loc[q].dp)
        /\ loc[q].ip # 0 => Inum(loc[q].ip)' = Inum(loc[q].ip)
        /\ loc[q].tgt # 0 => Inum(loc[q].tgt)' = Inum(loc[q].tgt)
        /\ \A i : Bears(loc[q], i)' <=> Bears(loc[q], i)
    BY OthersStay
  <2>4. /\ k.dp # 0 => Inum(k.dp)' = Inum(k.dp)
        /\ k.ip # 0 => Inum(k.ip)' = Inum(k.ip)
        /\ k.tgt # 0 => Inum(k.tgt)' = Inum(k.tgt)
    BY <2>2, <2>3 DEF Inum
  <2>5. \A i : Bears(k, i)' <=> Bears(k, i)
    BY <2>2, <2>3 DEF Bears, Inum
  <2> QED BY <2>1, <2>2, <2>4, <2>5
<1>3. /\ l.dp # 0 => l.dp \in Entries /\ Inum(l.dp) \in Inums
      /\ l.ip # 0 => l.ip \in Entries /\ Inum(l.ip) \in Inums
      /\ l.tgt # 0 => l.tgt \in Entries /\ Inum(l.tgt) \in Inums
  BY <1>1, Targets
<1>4. Fit(l, q)
  BY <1>1 DEF LiveInv
<1>5. /\ l.dp # 0 <=> Goal(l) \in {"walk", "found", "parent", "ialloc", "iget",
                                   "enter", "unlink", "putdp"}
      /\ Goal(l) \in {"exists", "enter", "file", "unlink", "unlinked", "linkbad",
                      "putip"} => l.ip # 0
      /\ l.tgt # 0 <=> l.pc \in Iput
  BY <1>1 DEF Holds
<1>6. FitPaths(l)'
  BY <1>2, <1>4, <1>5 DEF Fit, FitPaths
<1>7. FitLocks(l, q)'
  <2>1. \A e \in Entries : icache[e].lock = q => icache'[e].lock = q
    BY DEF Step
  <2>2. FitLocks(l, q)
    BY <1>4 DEF Fit
  <2> QED BY <1>3, <1>5, <2>1, <2>2 DEF FitLocks, Iput
<1>8. /\ l.dp # 0 => Inum(l.dp) # d
      /\ l.ip # 0 => Inum(l.ip) # d
      /\ l.tgt # 0 => Inum(l.tgt) # d
  BY <1>1 DEF Untouched
<1>9. ASSUME NEW i \in Inums, i # d, Born(i)
      PROVE  Born(i)' /\ dinode'[i].type = dinode[i].type
  BY <1>9 DEF Survive
<1>10. FitPointers(l)'
  <2>1. FitPointers(l)
    BY <1>4 DEF Fit
  <2>2. /\ l.dp # 0 => Born(Inum(l.dp))'
        /\ l.ip # 0 /\ l.pc # "enter" => Born(Inum(l.ip))'
        /\ l.tgt # 0 /\ l.pc \notin {"invalidate", "drop"} => Born(Inum(l.tgt))'
    <3>1. PICK a, b, c : a = Inum(l.dp) /\ b = Inum(l.ip) /\ c = Inum(l.tgt)
      OBVIOUS
    <3>2. /\ l.dp # 0 => Born(a)'
          /\ l.ip # 0 /\ l.pc # "enter" => Born(b)'
          /\ l.tgt # 0 /\ l.pc \notin {"invalidate", "drop"} => Born(c)'
      BY <1>3, <1>8, <1>9, <2>1, <3>1 DEF FitPointers
    <3> QED BY <1>2, <3>1, <3>2 DEF Born, Bears
  <2> QED BY <2>2 DEF FitPointers
<1>11. FitInodes(l)'
  <2>1. FitInodes(l) /\ FitPointers(l)
    BY <1>4 DEF Fit
  <2>2. ASSUME NEW i \in Inums, Bears(l, i)'
        PROVE  dinode'[i] = [NoInode EXCEPT !.type = NewType(l.call)]
    BY <1>1, <1>2, <2>1, <2>2 DEF FitInodes, BirthsKept
  <2>3. ASSUME l.pc = "parent" PROVE dinode'[Inum(l.dp)'].type = "dir"
    <3>1. l.dp # 0 /\ Born(Inum(l.dp)) /\ dinode[Inum(l.dp)].type = "dir"
      BY <1>5, <2>1, <2>3 DEF FitInodes, FitPointers, Goal, Iput
    <3> QED BY <1>2, <1>3, <1>8, <1>9, <3>1
  <2>4. ASSUME l.pc = "unlink" PROVE entry'[Inum(l.dp)'][Head(l.path)] = Inum(l.ip)'
    <3>1. l.dp # 0 /\ l.ip # 0
      BY <1>5, <2>4 DEF Goal, Iput
    <3> QED BY <1>1, <1>2, <2>1, <2>4, <3>1 DEF FitInodes, UnlinksKept
  <2>5. ASSUME l.ip # 0, Linking(l) PROVE dinode'[Inum(l.ip)'].type # "dir"
    <3>1. l.pc # "enter" /\ dinode[Inum(l.ip)].type # "dir"
      BY <2>1, <2>5 DEF Linking, Goal, Iput, FitInodes
    <3>2. Born(Inum(l.ip))
      BY <2>1, <2>5, <3>1 DEF FitPointers
    <3> QED BY <1>2, <1>3, <1>8, <1>9, <2>5, <3>1, <3>2
  <2>6. ASSUME l.pc \in {"trunc", "free"}
        PROVE  dinode'[Inum(l.tgt)'].nlink = 0 /\ icache'[l.tgt].ref = 1
    <3>1. l.tgt # 0
      BY <1>5, <2>6 DEF Iput
    <3> QED BY <1>1, <1>2, <2>6, <3>1 DEF DeathsKept
  <2> QED BY <2>2, <2>3, <2>4, <2>5, <2>6 DEF FitInodes, Linking, Goal
<1>12. Fit(l, q)'
  BY <1>6, <1>7, <1>10, <1>11 DEF Fit
<1> QED BY <1>2, <1>12 DEF Fit, FitPaths, FitLocks, FitPointers, FitInodes, Linking, Bears, Goal

----------------------------------------------------------------------------
(* What a step of p means for the cache *)

OwnLocks(p, r) ==
    \A e \in Entries : icache'[e].lock = p => icache'[e].valid /\ Keeps(r, e)
ValidKept(p) ==
    \A e \in Entries : icache[e].lock \in Procs \ {p} => icache'[e].valid
Coheres(p, r) ==
    \A e \in Entries :
        icache'[e].ref > 0 /\ icache'[e].valid =>
          \/ /\ icache'[e].copy = dinode'[icache'[e].inum]
             /\ dinode'[icache'[e].inum].type # "none"
          \/ /\ icache[e].ref > 0 /\ icache[e].valid
             /\ icache'[e].copy = icache[e].copy
             /\ dinode'[icache[e].inum] = dinode[icache[e].inum]
             /\ ~(loc[p].pc = "invalidate" /\ loc[p].tgt = e)
          \/ r.pc = "invalidate" /\ r.tgt = e

(* The cache stays in order. *)
LEMMA CacheInvStep ==
    ASSUME RefInv, RefInv', LiveInv, NEW p \in Procs, NEW r, Step(p, r), OneIn(icache'),
           OwnLocks(p, r), ValidKept(p), Coheres(p, r)
    PROVE  CacheInv'
<1>0. /\ \A q \in Procs \ {p} : loc'[q] = loc[q]
      /\ loc'[p] = r
  BY DEF Step, RefInv, Shapes
<1>1. OneEntry'
  BY DEF OneIn, OneEntry, Inum
<1>2. ASSUME NEW e \in Entries PROVE LockKept(e)'
  <2>1. icache'[e].lock \in Procs \cup {Nobody}
    BY DEF RefInv, Shapes, Cached
  <2>2. CASE icache'[e].lock = p
    <3>1. icache'[e].valid /\ Keeps(r, e)
      BY <2>2 DEF OwnLocks
    <3> QED BY <1>0, <2>2, <3>1 DEF LockKept, Keeps, Goal
  <2>3. ASSUME NEW q \in Procs \ {p}, icache'[e].lock = q PROVE LockKept(e)'
    <3>1. icache[e].lock = q /\ loc'[q] = loc[q]
      BY <1>0, <2>3 DEF Step
    <3>2. icache'[e].valid
      BY <3>1 DEF ValidKept
    <3>3. Keeps(loc[q], e)
      BY <3>1, InodeAssumption DEF LiveInv, CacheInv, LockKept
    <3> QED BY <2>3, <3>1, <3>2, <3>3 DEF LockKept, Keeps, Goal
  <2>4. CASE icache'[e].lock = Nobody
    BY <2>4 DEF LockKept
  <2> QED BY <2>1, <2>2, <2>3, <2>4
<1>3. ASSUME NEW e \in Entries PROVE Coherent(e)'
  <2> SUFFICES ASSUME icache'[e].ref > 0, icache'[e].valid
      PROVE  \/ /\ icache'[e].copy = dinode'[icache'[e].inum]
                /\ dinode'[icache'[e].inum].type # "none"
             \/ \E q \in Procs : loc'[q].pc = "invalidate" /\ loc'[q].tgt = e
    BY DEF Coherent, Inum
  <2>1. CASE /\ icache'[e].copy = dinode'[icache'[e].inum]
             /\ dinode'[icache'[e].inum].type # "none"
    BY <2>1
  <2>2. CASE r.pc = "invalidate" /\ r.tgt = e
    BY <1>0, <2>2
  <2>3. CASE /\ icache[e].ref > 0 /\ icache[e].valid
             /\ icache'[e].copy = icache[e].copy
             /\ dinode'[icache[e].inum] = dinode[icache[e].inum]
             /\ ~(loc[p].pc = "invalidate" /\ loc[p].tgt = e)
    <3>1. icache'[e].inum = icache[e].inum
      BY <2>3 DEF Step
    <3>2. \/ icache[e].copy = dinode[icache[e].inum] /\ dinode[icache[e].inum].type # "none"
          \/ \E q \in Procs : loc[q].pc = "invalidate" /\ loc[q].tgt = e
      BY <2>3 DEF LiveInv, CacheInv, Coherent, Inum
    <3>3. CASE icache[e].copy = dinode[icache[e].inum] /\ dinode[icache[e].inum].type # "none"
      BY <2>3, <3>1, <3>3
    <3>4. ASSUME NEW q \in Procs, loc[q].pc = "invalidate", loc[q].tgt = e
          PROVE  \E s \in Procs : loc'[s].pc = "invalidate" /\ loc'[s].tgt = e
      BY <1>0, <2>3, <3>4
    <3> QED BY <3>2, <3>3, <3>4
  <2> QED BY <2>1, <2>2, <2>3 DEF Coheres
<1> QED BY <1>1, <1>2, <1>3 DEF CacheInv
----------------------------------------------------------------------------
(* Steps that leave the disk alone, and neither begin nor end the life of  *)
(* an inode                                                                *)

Calm(l, r) == l.pc \notin {"iget", "enter", "free", "invalidate"} /\ r.pc \notin {"iget", "enter", "free"}

(* Types stay and nobody bears an inode: the same inodes are alive. *)
LEMMA CalmBorn ==
    ASSUME RefInv, NEW p \in Procs, NEW r, Step(p, r),
           \A i \in Inums : dinode'[i].type = dinode[i].type,
           loc[p].pc \notin {"iget", "enter"}, r.pc \notin {"iget", "enter"}
    PROVE  /\ \A i \in Inums : Born(i)' <=> Born(i)
           /\ \A q \in Procs : \A i : Bears(loc[q], i)' <=> Bears(loc[q], i)
<1>1. loc'[p] = r
  BY DEF Step, RefInv, Shapes
<1>2. \A i : ~Bears(loc[p], i) /\ ~Bears(loc[p], i)'
  BY <1>1 DEF Bears
<1>3. ASSUME NEW q \in Procs, NEW i PROVE Bears(loc[q], i)' <=> Bears(loc[q], i)
  <2>1. CASE q = p
    BY <1>2, <2>1
  <2>2. CASE q # p
    BY <2>2, OthersStay
  <2> QED BY <2>1, <2>2
<1> QED BY <1>3 DEF Born

(* Fewer names are owed. *)
OwesLess(p, r) == \A i \in Inums : Owes(r, i)' => Owes(loc[p], i)

(* A process that owes no more leaves no more pending. *)
LEMMA PendingLess ==
    ASSUME RefInv, NEW p \in Procs, NEW r, Step(p, r), OwesLess(p, r), NEW i \in Inums
    PROVE  Pending(i)' <= Pending(i) /\ Pending(i) \in Nat /\ Pending(i)' \in Nat
<1>1. loc'[p] = r
  BY DEF Step, RefInv, Shapes
<1>2. ASSUME NEW q \in Procs, Owes(loc[q], i)' PROVE Owes(loc[q], i)
  <2>1. CASE q = p
    <3>1. Owes(r, i)'
      BY <1>1, <1>2, <2>1 DEF Owes, Linking, Goal
    <3> QED BY <2>1, <3>1 DEF OwesLess
  <2>2. CASE q # p
    BY <1>2, <2>2, OthersStay
  <2> QED BY <2>1, <2>2
<1>3. PICK S, T : S = Owing(i) /\ T = Owing(i)'
  OBVIOUS
<1>4. T \subseteq S
  BY <1>2, <1>3 DEF Owing
<1>5. IsFiniteSet(S) /\ Pending(i) = Cardinality(S)
  BY <1>3, NameSets
<1>6. Pending(i)' = Cardinality(T)
  BY <1>3 DEF Pending, Owing
<1>7. IsFiniteSet(T) /\ Cardinality(T) <= Cardinality(S)
  BY <1>4, <1>5, FS_Subset
<1> QED BY <1>5, <1>6, <1>7, FS_CardinalityType

(* A step that leaves the disk alone keeps the invariant. *)
LEMMA QuietStep ==
    ASSUME RefInv, RefInv', LiveInv, NEW p \in Procs, NEW r, NEW a,
           loc' = [loc EXCEPT ![p] = r], UNCHANGED disk,
           CacheStep(icache', p, a), Calm(loc[p], r),
           OwnLocks(p, r), OwesLess(p, r), KeptAlive', Fit(r, p)'
    PROVE  LiveInv'
<1>0. UNCHANGED <<dinode, entry, bitmap>>
  BY DEF disk
<1>1. Step(p, r) /\ OneIn(icache') /\ loc'[p] = r
  BY DEF Step, CacheStep, Reads, RefInv, Shapes
<1>2. /\ \A i \in Inums : Born(i)' <=> Born(i)
      /\ \A q \in Procs : \A i : Bears(loc[q], i)' <=> Bears(loc[q], i)
  BY <1>0, <1>1, CalmBorn DEF Calm
<1>3. CacheInv'
  <2>1. ValidKept(p)
    <3> SUFFICES ASSUME NEW e \in Entries, icache[e].lock \in Procs \ {p} PROVE icache'[e].valid
      BY DEF ValidKept
    <3>1. icache[e].valid /\ Keeps(loc[icache[e].lock], e)
      BY InodeAssumption DEF LiveInv, CacheInv, LockKept
    <3>2. icache[e].ref > 0
      <4>1. PICK q \in Procs : q = icache[e].lock
        OBVIOUS
      <4>2. e \in {loc[q].dp, loc[q].ip, loc[q].tgt}
        BY <3>1, <4>1 DEF Keeps
      <4> QED BY <4>2, Pointed
    <3> QED BY <3>1, <3>2 DEF CacheStep, Reads
  <2>2. Coheres(p, r)
    <3> SUFFICES ASSUME NEW e \in Entries, icache'[e].ref > 0, icache'[e].valid
        PROVE  \/ /\ icache'[e].copy = dinode'[icache'[e].inum]
                  /\ dinode'[icache'[e].inum].type # "none"
               \/ /\ icache[e].ref > 0 /\ icache[e].valid
                  /\ icache'[e].copy = icache[e].copy
                  /\ dinode'[icache[e].inum] = dinode[icache[e].inum]
                  /\ ~(loc[p].pc = "invalidate" /\ loc[p].tgt = e)
      BY DEF Coheres
    <3> QED BY <1>0 DEF CacheStep, Reads, Calm
  <2> QED BY <1>1, <2>1, <2>2, CacheInvStep
<1>4. DiskInv'
  <2>1. OneBirth'
    BY <1>2 DEF LiveInv, DiskInv, OneBirth
  <2>2. RootAlive'
    BY <1>0, <1>2, InodeAssumption DEF LiveInv, DiskInv, RootAlive
  <2>3. ASSUME NEW i \in Inums
        PROVE  Blank(i)' /\ NamesBorn(i)' /\ Dots(i)' /\ Up(i)' /\ CountOK(i)'
    <3>1. Blank(i) /\ NamesBorn(i) /\ Dots(i) /\ Up(i) /\ CountOK(i)
      BY DEF LiveInv, DiskInv
    <3>2. Blank(i)'
      BY <1>0, <1>2, <3>1 DEF Blank
    <3>3. NamesBorn(i)'
      <4>1. \A n \in Names : entry[i][n] # 0 => entry[i][n] \in Inums
        BY DEF RefInv, Shapes, DiskShapes, DirNames
      <4>2. ASSUME NEW n \in Names, entry'[i][n] # 0 PROVE Born(entry[i][n])'
        <5>1. PICK j \in Inums : j = entry[i][n] /\ j = entry'[i][n]
          BY <1>0, <4>1, <4>2
        <5>2. Born(j)'
          BY <1>2, <3>1, <4>2, <5>1, <1>0 DEF NamesBorn
        <5> QED BY <5>1, <5>2 DEF Born, Bears
      <4> QED BY <4>2 DEF NamesBorn
    <3>4. Dots(i)'
      BY <1>0, <1>2, <3>1 DEF Dots
    <3>7. Up(i)'
      BY <1>0, <3>1 DEF Up
    <3>5. NamesOf(i)' = NamesOf(i)
      BY <1>0 DEF NamesOf
    <3>6. CountOK(i)'
      <4> SUFFICES ASSUME Born(i) PROVE NamesOf(i)' + Pending(i)' <= dinode'[i].nlink
        BY <1>2 DEF CountOK
      <4>1. NamesOf(i) + Pending(i) <= dinode[i].nlink
        BY <3>1 DEF CountOK
      <4>2. Pending(i)' <= Pending(i) /\ Pending(i) \in Nat /\ Pending(i)' \in Nat
        BY <1>1, PendingLess
      <4>3. NamesOf(i) \in Nat /\ dinode[i].nlink \in Int
        <5>1. dinode[i].nlink \in Int
          BY DEF RefInv, Shapes, DiskShapes, AnyDinode
        <5> QED BY <5>1, NameSets DEF One
      <4> QED BY <1>0, <3>5, <4>1, <4>2, <4>3
    <3> QED BY <3>2, <3>3, <3>4, <3>7, <3>6
  <2> QED BY <2>1, <2>2, <2>3 DEF DiskInv
<1>5. BlockInv'
  <2>1. ASSUME NEW i PROVE Gone(i)' <=> Gone(i)
    <3>1. ASSUME NEW q \in Procs
          PROVE  loc'[q].pc = "free" /\ icache'[loc'[q].tgt].inum = i
                 <=> loc[q].pc = "free" /\ icache[loc[q].tgt].inum = i
      <4>1. CASE q = p
        BY <1>1, <4>1 DEF Calm
      <4>2. CASE q # p
        <5>1. loc'[q] = loc[q] /\ (loc[q].tgt # 0 => Inum(loc[q].tgt)' = Inum(loc[q].tgt))
          BY <1>1, <4>2, OthersStay
        <5>2. loc[q].pc = "free" => loc[q].tgt # 0
          BY DEF RefInv, Holds, Iput
        <5> QED BY <5>1, <5>2 DEF Inum
      <4> QED BY <4>1, <4>2
    <3> QED BY <3>1 DEF Gone, Inum
  <2> QED BY <1>0, <2>1 DEF LiveInv, BlockInv, Owns
<1>6. \A q \in Procs : Fit(loc[q], q)'
  <2>1. Survive(0)
    BY <1>0, <1>2 DEF Survive
  <2>2. Untouched(p, 0)
    BY Targets, InodeAssumption DEF Untouched
  <2>3. BirthsKept(p) /\ UnlinksKept(p)
    BY <1>0 DEF BirthsKept, UnlinksKept
  <2>4. DeathsKept(p)
    BY <1>0, Dying DEF DeathsKept, CacheStep, Spares
  <2>5. \A q \in Procs \ {p} : Fit(loc[q], q)'
    BY <1>1, <2>1, <2>2, <2>3, <2>4, OthersFit
  <2>6. Fit(loc[p], p)'
    BY <1>1 DEF Fit, FitPaths, FitLocks, FitPointers, FitInodes, Linking, Bears, Goal
  <2> QED BY <2>5, <2>6
<1> QED BY <1>3, <1>4, <1>5, <1>6 DEF LiveInv

----------------------------------------------------------------------------
(* A calm step, in terms of the inodes that are alive before it *)

(* Frame r fits the cache jc. *)
SuitsPaths(r, jc) ==
    /\ r.path \in Seq(DirNames) /\ r.new.elems \in Seq(DirNames)
    /\ Goal(r) \in {"ialloc", "unlink"} => Head(r.path) \in Names
SuitsLocks(r, p, jc) ==
    /\ Goal(r) \in {"ialloc", "unlink"} => jc[r.dp].lock = p
    /\ Goal(r) = "unlinked" => jc[r.ip].lock = p
    /\ r.pc \in {"trunc", "invalidate"} => jc[r.tgt].lock = p
    /\ r.pc = "invalidate" => r.ip # r.tgt
SuitsPointers(r, jc) ==
    /\ r.dp # 0 => Born(jc[r.dp].inum)
    /\ r.ip # 0 => Born(jc[r.ip].inum)
    /\ r.tgt # 0 /\ r.pc \notin {"invalidate", "drop"} => Born(jc[r.tgt].inum)
SuitsInodes(r, jc) ==
    /\ r.pc = "parent" => dinode[jc[r.dp].inum].type = "dir"
    /\ r.pc = "unlink" => entry[jc[r.dp].inum][Head(r.path)] = jc[r.ip].inum
    /\ r.ip # 0 /\ Linking(r) => dinode[jc[r.ip].inum].type # "dir"
    /\ r.pc = "trunc" => dinode[jc[r.tgt].inum].nlink = 0 /\ jc[r.tgt].ref = 1
Suits(r, p, jc) ==
    SuitsPaths(r, jc) /\ SuitsLocks(r, p, jc) /\ SuitsPointers(r, jc) /\ SuitsInodes(r, jc)

OwesAsBefore(l, r) ==
    r.ip # 0 /\ (Goal(r) = "unlinked" \/ Linking(r))
      => l.ip = r.ip /\ (Goal(l) = "unlinked" \/ Linking(l))
KeepsOn(l, r, p, jc) == \A e \in Entries : jc[e].lock = p /\ Keeps(l, e) => Keeps(r, e)
Acquires(r, a, jc) == a \in Entries => jc[a].valid /\ Keeps(r, a)
KeptIn(jc, fr, fi, cw) ==
    /\ \A p \in Procs : Born(jc[cw[p]].inum)
    /\ \A f \in Files : fr[f] > 0 => Born(jc[fi[f]].inum)

(* Files and directories that stay open stay alive. *)
LEMMA KeptQuiet ==
    ASSUME RefInv, LiveInv, NEW p, NEW a, NEW jc, CacheStep(jc, p, a)
    PROVE  KeptIn(jc, fref, fip, cwd)
<1>1. KeptAlive
  BY DEF LiveInv
<1>2. \A e \in Entries : icache[e].ref > 0 => jc[e].inum = Inum(e)
  BY DEF CacheStep, Reads, Inum
<1>3. ASSUME NEW q \in Procs PROVE Born(jc[cwd[q]].inum)
  BY <1>1, <1>2, Targets DEF KeptAlive
<1>4. ASSUME NEW f \in Files, fref[f] > 0 PROVE Born(jc[fip[f]].inum)
  BY <1>1, <1>2, <1>4, FileTarget DEF KeptAlive
<1> QED BY <1>3, <1>4 DEF KeptIn

(* The inodes of all pointers, before and after a step. *)
PointersOK ==
    /\ \A q \in Procs : icache[cwd[q]].inum \in Inums
    /\ \A f \in Files : fref[f] > 0 => icache[fip[f]].inum \in Inums
    /\ \A q \in Procs :
          /\ loc[q].dp # 0 => icache[loc[q].dp].inum \in Inums
          /\ loc[q].ip # 0 => icache[loc[q].ip].inum \in Inums
          /\ loc[q].tgt # 0 => icache[loc[q].tgt].inum \in Inums

(* Every pointer leads to an inode number. *)
LEMMA AllTargets == RefInv => PointersOK
BY Targets, FileTarget DEF Inum, PointersOK

(* And does so after a step. *)
LEMMA AllTargetsNext ==
    ASSUME RefInv'
    PROVE  /\ \A q \in Procs : icache'[cwd'[q]].inum \in Inums
           /\ \A f \in Files : fref'[f] > 0 => icache'[fip'[f]].inum \in Inums
           /\ \A q \in Procs :
                 /\ loc'[q].dp # 0 => icache'[loc'[q].dp].inum \in Inums
                 /\ loc'[q].ip # 0 => icache'[loc'[q].ip].inum \in Inums
                 /\ loc'[q].tgt # 0 => icache'[loc'[q].tgt].inum \in Inums
<1>1. PointersOK'
  BY AllTargets, PTL
<1> QED BY <1>1 DEF PointersOK

(* The same, from conditions on the new frame and the new cache. *)
LEMMA CalmStep ==
    ASSUME RefInv, RefInv', LiveInv, NEW p \in Procs, NEW r, NEW a,
           loc' = [loc EXCEPT ![p] = r], UNCHANGED disk,
           CacheStep(icache', p, a), Calm(loc[p], r),
           Suits(r, p, icache'), OwesAsBefore(loc[p], r), KeepsOn(loc[p], r, p, icache'),
           Acquires(r, a, icache'), KeptIn(icache', fref', fip', cwd')
    PROVE  LiveInv'
<1>0. UNCHANGED <<dinode, entry, bitmap>>
  BY DEF disk
<1>1. Step(p, r) /\ loc'[p] = r
  BY DEF Step, CacheStep, Reads, RefInv, Shapes
<1>2. \A i \in Inums : Born(i)' <=> Born(i)
  BY <1>0, <1>1, CalmBorn DEF Calm
<1>3. /\ r.dp # 0 => icache'[r.dp].inum \in Inums
      /\ r.ip # 0 => icache'[r.ip].inum \in Inums
      /\ r.tgt # 0 => icache'[r.tgt].inum \in Inums
      /\ Holds(r)
  <2>1. /\ loc'[p] \in Frame /\ Holds(loc[p])'
        /\ loc'[p].dp # 0 => icache'[loc'[p].dp].inum \in Inums
        /\ loc'[p].ip # 0 => icache'[loc'[p].ip].inum \in Inums
        /\ loc'[p].tgt # 0 => icache'[loc'[p].tgt].inum \in Inums
    BY AllTargetsNext DEF RefInv, Shapes
  <2>2. Holds(r)
    BY <1>1, <2>1 DEF Holds, Goal, Parent, Counted
  <2> QED BY <1>1, <2>1, <2>2
<1>4. OwnLocks(p, r)
  <2> SUFFICES ASSUME NEW e \in Entries, icache'[e].lock = p
               PROVE  icache'[e].valid /\ Keeps(r, e)
    BY DEF OwnLocks
  <2>1. CASE e = a
    BY <2>1 DEF Acquires
  <2>2. CASE e # a
    <3>1. icache[e].lock = p
      BY <2>2 DEF CacheStep, Reads
    <3>2. icache[e].valid /\ Keeps(loc[p], e)
      BY <3>1, InodeAssumption DEF LiveInv, CacheInv, LockKept
    <3>3. icache[e].ref > 0
      <4>1. e \in {loc[p].dp, loc[p].ip, loc[p].tgt}
        BY <3>2 DEF Keeps
      <4> QED BY <4>1, Pointed
    <3> QED BY <3>2, <3>3 DEF CacheStep, Reads, KeepsOn
  <2> QED BY <2>1, <2>2
<1>5. OwesLess(p, r)
  <2> SUFFICES ASSUME NEW i \in Inums, Owes(r, i)' PROVE Owes(loc[p], i)
    BY DEF OwesLess
  <2>1. r.ip # 0 /\ icache'[r.ip].inum = i /\ (Goal(r) = "unlinked" \/ Linking(r))
    BY DEF Owes, Inum, Linking, Goal
  <2>2. loc[p].ip = r.ip /\ (Goal(loc[p]) = "unlinked" \/ Linking(loc[p]))
    BY <2>1 DEF OwesAsBefore
  <2>3. icache'[r.ip].inum = icache[r.ip].inum
    BY <1>1, <2>1, <2>2, Targets DEF Step
  <2> QED BY <2>1, <2>2, <2>3 DEF Owes, Inum
<1>6. KeptAlive'
  <2>1. ASSUME NEW q \in Procs PROVE Born(Inum(cwd[q]))'
    <3>1. icache'[cwd'[q]].inum \in Inums
      BY AllTargetsNext
    <3>2. PICK j \in Inums : j = icache'[cwd'[q]].inum
      BY <3>1
    <3>3. Born(j)'
      BY <1>2, <3>2 DEF KeptIn
    <3> QED BY <3>2, <3>3 DEF Born, Bears, Inum
  <2>2. ASSUME NEW f \in Files, fref'[f] > 0 PROVE Born(Inum(fip[f]))'
    <3>1. icache'[fip'[f]].inum \in Inums
      BY <2>2, AllTargetsNext
    <3>2. PICK j \in Inums : j = icache'[fip'[f]].inum
      BY <3>1
    <3>3. Born(j)'
      BY <1>2, <2>2, <3>2 DEF KeptIn
    <3> QED BY <3>2, <3>3 DEF Born, Bears, Inum
  <2> QED BY <2>1, <2>2 DEF KeptAlive
<1>7. Fit(r, p)'
  <2>0. Goal(r) \notin {"iget", "enter"} /\ r.pc # "free"
    BY <1>3 DEF Holds, Goal, Iput, Calm
  <2>1. FitPaths(r)'
    BY <2>0 DEF Suits, SuitsPaths, FitPaths, Inum
  <2>2. FitLocks(r, p)'
    BY <2>0 DEF Suits, SuitsLocks, FitLocks
  <2>3. FitPointers(r)'
    <3>1. /\ r.dp # 0 => Born(Inum(r.dp))'
          /\ r.ip # 0 => Born(Inum(r.ip))'
          /\ r.tgt # 0 /\ r.pc \notin {"invalidate", "drop"} => Born(Inum(r.tgt))'
      <4>1. PICK x, y, z : x = icache'[r.dp].inum /\ y = icache'[r.ip].inum /\ z = icache'[r.tgt].inum
        OBVIOUS
      <4>2. /\ r.dp # 0 => Born(x)'
            /\ r.ip # 0 => Born(y)'
            /\ r.tgt # 0 /\ r.pc \notin {"invalidate", "drop"} => Born(z)'
        BY <1>2, <1>3, <4>1 DEF Suits, SuitsPointers
      <4> QED BY <4>1, <4>2 DEF Born, Bears, Inum
    <3> QED BY <3>1 DEF FitPointers
  <2>4. FitInodes(r)'
    <3>1. \A i : ~Bears(r, i)'
      BY DEF Bears, Calm
    <3> QED BY <1>0, <3>1 DEF Suits, SuitsInodes, FitInodes, Calm, Inum, Linking, Goal
  <2> QED BY <2>1, <2>2, <2>3, <2>4 DEF Fit
<1> QED BY <1>4, <1>5, <1>6, <1>7, QuietStep

----------------------------------------------------------------------------
(* Frames *)

(* The paths of requests are of names. *)
LEMMA RequestPaths ==
    ASSUME NEW q \in Requests
    PROVE  q.path.elems \in Seq(DirNames) /\ q.new.elems \in Seq(DirNames)
BY InodeAssumption DEF Path

(* The paths after an iput. *)
LEMMA PutPaths ==
    ASSUME NEW r \in Frame, NEW t \in Labels, r.path \in Seq(DirNames), r.new.elems \in Seq(DirNames)
    PROVE  /\ Put(r, "dp", t).path \in Seq(DirNames) /\ Put(r, "dp", t).new.elems \in Seq(DirNames)
           /\ Put(r, "ip", t).path \in Seq(DirNames) /\ Put(r, "ip", t).new.elems \in Seq(DirNames)
           /\ t = "idle" => Put(r, "dp", t).call = "open" /\ Put(r, "ip", t).call = "open"
<1>1. CASE t = "idle"
  <2>1. Idle.path = <<>> /\ Idle.new = NoPath /\ Idle.call = "open" /\ NoPath.elems = <<>>
    BY DEF Idle, NoPath
  <2>2. /\ Put(r, "dp", t).path = <<>> /\ Put(r, "dp", t).new = NoPath /\ Put(r, "dp", t).call = "open"
        /\ Put(r, "ip", t).path = <<>> /\ Put(r, "ip", t).new = NoPath /\ Put(r, "ip", t).call = "open"
    BY <1>1, <2>1 DEF Put, Idle
  <2>3. <<>> \in Seq(DirNames)
    OBVIOUS
  <2> QED BY <1>1, <2>1, <2>2, <2>3
<1>2. CASE t # "idle"
  <2>1. /\ Put(r, "dp", t).path = r.path /\ Put(r, "dp", t).new = r.new
        /\ Put(r, "ip", t).path = r.path /\ Put(r, "ip", t).new = r.new
    BY <1>2 DEF Put, Frame
  <2> QED BY <1>2, <2>1
<1> QED BY <1>1, <1>2

(* What namex leaves. *)
NamexLeaves(b, r, e, elems) ==
    \/ /\ elems # <<>>
       /\ b.pc = "walk" /\ b.dp = e /\ b.path = elems /\ b.ip = r.ip /\ b.tgt = 0
       /\ b.call = r.call /\ b.new = r.new
    \/ /\ elems = <<>> /\ Parent(r)
       /\ b.pc = "put" /\ b.then = Failed(r) /\ b.dp = 0 /\ b.tgt = e
       /\ Failed(r) = "idle" => b.ip = 0 /\ b.call = "open"
       /\ Failed(r) # "idle" => b.ip = r.ip /\ b.call = r.call
       /\ b.path \in Seq(DirNames) /\ b.new.elems \in Seq(DirNames)
    \/ /\ elems = <<>> /\ ~Parent(r)
       /\ b.pc = "found" /\ b.dp = e /\ b.path = elems /\ b.ip = r.ip /\ b.tgt = 0
       /\ b.call = r.call /\ b.new = r.new

(* namex leaves one of these frames. *)
LEMMA NamexFields ==
    ASSUME NEW r \in Frame, NEW e \in Entries, NEW elems \in Seq(DirNames), r.tgt = 0,
           r.new.elems \in Seq(DirNames)
    PROVE  NamexLeaves(Namex(r, e, elems), r, e, elems)
<1>1. PICK a \in Frame : a = [r EXCEPT !.dp = e]
  BY DEF Frame
<1>2. PICK at \in Frame : at = [a EXCEPT !.path = elems]
  BY <1>1 DEF Frame
<1>3. /\ at.dp = e /\ at.path = elems /\ at.ip = r.ip /\ at.tgt = 0
      /\ at.call = r.call /\ at.new = r.new
  BY <1>1, <1>2 DEF Frame
<1>4. at = [r EXCEPT !.dp = e, !.path = elems]
  BY <1>1, <1>2
<1>5. CASE elems # <<>>
  <2>0. at \in Frame
    OBVIOUS
  <2>1. PICK b \in Frame : b = [at EXCEPT !.pc = "walk"]
    BY ONLY <2>0 DEF Frame, Labels
  <2>2. b = Namex(r, e, elems)
    BY <1>4, <1>5, <2>1 DEF Namex
  <2>3. /\ b.pc = "walk" /\ b.dp = e /\ b.path = elems /\ b.ip = r.ip /\ b.tgt = 0
        /\ b.call = r.call /\ b.new = r.new
    BY <1>3, <2>1 DEF Frame
  <2> QED BY <1>5, <2>2, <2>3 DEF NamexLeaves
<1>6. CASE elems = <<>> /\ Parent(r)
  <2>1. Failed(r) \in Labels
    BY DEF Failed, Labels
  <2>2. PICK b \in Frame : b = Put(at, "dp", Failed(r))
    BY <2>1, PutFrame
  <2>3. b = Namex(r, e, elems)
    BY <1>4, <1>6, <2>2 DEF Namex
  <2>4. /\ b.pc = "put" /\ b.then = Failed(r) /\ b.dp = 0 /\ b.tgt = e
        /\ Failed(r) = "idle" => b.ip = 0
        /\ Failed(r) # "idle" => b.ip = r.ip /\ b.call = r.call
    BY <1>3, <2>1, <2>2, PutFrame
  <2>5. b.path \in Seq(DirNames) /\ b.new.elems \in Seq(DirNames) /\ (Failed(r) = "idle" => b.call = "open")
    BY <1>3, <2>1, <2>2, PutPaths
  <2> QED BY <1>6, <2>3, <2>4, <2>5 DEF NamexLeaves
<1>7. CASE elems = <<>> /\ ~Parent(r)
  <2>0. at \in Frame
    OBVIOUS
  <2>1. PICK b \in Frame : b = [at EXCEPT !.pc = "found"]
    BY ONLY <2>0 DEF Frame, Labels
  <2>2. b = Namex(r, e, elems)
    BY <1>4, <1>7, <2>1 DEF Namex
  <2>3. /\ b.pc = "found" /\ b.dp = e /\ b.path = elems /\ b.ip = r.ip /\ b.tgt = 0
        /\ b.call = r.call /\ b.new = r.new
    BY <1>3, <2>1 DEF Frame
  <2> QED BY <1>7, <2>2, <2>3 DEF NamexLeaves
<1> QED BY <1>5, <1>6, <1>7

(* namex starts at an inode that is alive. *)
LEMMA StartCache ==
    ASSUME RefInv, LiveInv, NEW p \in Procs, NEW ic, Same(icache, ic), Reads(icache, ic, p, 0),
           NEW path \in Path, NEW s \in Start(p, ic, path)
    PROVE  /\ CacheStep(s[1], p, 0) /\ s[2] \in Entries
           /\ Born(s[1][s[2]].inum) /\ s[1][s[2]].inum \in Inums
           /\ path.abs => s[1][s[2]].inum = ROOTINO
           /\ \A e \in Entries : s[1][e].lock = ic[e].lock
<1>1. Born(ROOTINO) /\ ROOTINO \in Inums /\ Reached(p, ROOTINO)
  BY InodeAssumption DEF LiveInv, DiskInv, RootAlive, Reached
<1>2. CASE path.abs
  <2>1. PICK x \in Slot(ROOTINO) : s = <<Iget(ic, x, ROOTINO), x>>
    BY <1>2 DEF Start
  <2>2. /\ CacheStep(Iget(ic, x, ROOTINO), p, 0)
        /\ x \in Entries /\ Iget(ic, x, ROOTINO)[x].inum = ROOTINO
        /\ \A e \in Entries : Iget(ic, x, ROOTINO)[e].lock = ic[e].lock
    BY <1>1, GrownCache
  <2>3. s[1] = Iget(ic, x, ROOTINO) /\ s[2] = x
    BY <2>1
  <2> QED BY <1>1, <2>2, <2>3
<1>3. CASE ~path.abs
  <2>1. s = <<[ic EXCEPT ![cwd[p]].ref = @ + 1], cwd[p]>>
    BY <1>3 DEF Start
  <2>2. cwd[p] \in Entries /\ icache[cwd[p]].ref > 0 /\ Inum(cwd[p]) \in Inums
    BY Targets
  <2>3. Born(Inum(cwd[p])) /\ Reached(p, Inum(cwd[p]))
    BY DEF LiveInv, KeptAlive, Reached
  <2>4. PICK x \in Entries : x = cwd[p]
    BY <2>2
  <2>5. /\ CacheStep([ic EXCEPT ![x].ref = @ + 1], p, 0)
        /\ [ic EXCEPT ![x].ref = @ + 1][x].inum = Inum(x)
        /\ \A e \in Entries : [ic EXCEPT ![x].ref = @ + 1][e].lock = ic[e].lock
    BY <2>2, <2>3, <2>4, IdupCache
  <2>6. s[1] = [ic EXCEPT ![x].ref = @ + 1] /\ s[2] = x
    BY <2>1, <2>4
  <2> QED BY <1>3, <2>2, <2>3, <2>4, <2>5, <2>6
<1> QED BY <1>2, <1>3

----------------------------------------------------------------------------
(* The calm steps *)

(* What is known of the process that takes a step. *)
LEMMA Mine ==
    ASSUME RefInv, LiveInv, NEW p \in Procs
    PROVE  /\ loc[p] \in Frame /\ Holds(loc[p]) /\ Fit(loc[p], p)
           /\ loc[p].path \in Seq(DirNames) /\ loc[p].new.elems \in Seq(DirNames)
           /\ icache \in [Entries -> Cached] /\ Same(icache, icache)
           /\ \A e \in Entries : icache[e].lock = p => Keeps(loc[p], e) /\ icache[e].valid
<1>1. Fit(loc[p], p)
  BY DEF LiveInv
<1>2. \A e \in Entries : icache[e].lock = p => Keeps(loc[p], e) /\ icache[e].valid
  BY InodeAssumption DEF LiveInv, CacheInv, LockKept
<1> QED BY <1>1, <1>2, FrameOf DEF Fit, FitPaths

(* ilock of an entry that p points to reads an inode that is alive. *)
LEMMA IlockReads ==
    ASSUME RefInv, LiveInv, NEW p \in Procs, NEW e \in Entries,
           e \in {loc[p].dp, loc[p].ip}, loc[p].pc # "enter"
    PROVE  /\ Inum(e) \in Inums /\ Born(Inum(e)) /\ icache[e].ref > 0
           /\ Same(icache, Ilock(icache, e)) /\ Reads(icache, Ilock(icache, e), p, 0)
           /\ Ilock(icache, e) \in [Entries -> Cached] /\ Ilock(icache, e)[e].valid
           /\ \A f \in Entries : Ilock(icache, e)[f].lock = icache[f].lock
<1>0. e # 0
  BY DEF Entries
<1>1. Inum(e) \in Inums /\ icache[e].ref > 0 /\ Same(icache, Ilock(icache, e))
      /\ icache \in [Entries -> Cached]
  BY Pointed, FrameOf DEF Inum
<1>2. Born(Inum(e))
  BY <1>0 DEF LiveInv, Fit, FitPointers
<1>3. dinode[icache[e].inum].type # "none"
  BY <1>2 DEF Born, Inum
<1>4. Reads(icache, Ilock(icache, e), p, 0) /\ Ilock(icache, e)[e].valid
  BY <1>1, <1>3, ReadsOps
<1>5. \A f \in Entries : Ilock(icache, e)[f].lock = icache[f].lock
  BY <1>1 DEF Ilock, Cached
<1> QED BY <1>1, <1>2, <1>4, <1>5 DEF Same

(* After ilock of an unlocked entry the copy is what is on disk. *)
LEMMA IlockCopy ==
    ASSUME RefInv, LiveInv, NEW e \in Entries, icache[e].ref > 0, Unlocked(e)
    PROVE  Ilock(icache, e)[e].copy = dinode[Inum(e)]
<1>1. icache \in [Entries -> Cached]
  BY DEF RefInv, Shapes
<1>2. CASE icache[e].valid
  <2>1. ASSUME NEW q \in Procs, loc[q].pc = "invalidate", loc[q].tgt = e PROVE FALSE
    <3>1. icache[e].lock = q
      BY <2>1 DEF LiveInv, Fit, FitLocks
    <3> QED BY <3>1, InodeAssumption DEF Unlocked
  <2>2. icache[e].copy = dinode[Inum(e)]
    BY <1>2, <2>1 DEF LiveInv, CacheInv, Coherent
  <2> QED BY <1>2, <2>2 DEF Ilock
<1>3. CASE ~icache[e].valid
  BY <1>1, <1>3 DEF Ilock, Cached, Inum
<1> QED BY <1>2, <1>3

(* A system call begins: namex starts from the root or from the cwd. *)
LEMMA BeginLive ==
    ASSUME RefInv, RefInv', LiveInv, NEW p \in Procs, NEW q \in Requests, Begin(p, q)
    PROVE  LiveInv'
<1>1. PICK l \in Frame : l = loc[p] /\ Holds(l) /\ l.pc = "idle"
  BY Mine DEF Begin, At
<1>2. q.call \in Calls /\ q.path \in Path /\ q.new \in Path
  BY InodeAssumption
<1>3. PICK s \in Start(p, icache, q.path) :
          /\ icache' = s[1]
          /\ loc' = [loc EXCEPT ![p] = Namex([@ EXCEPT !.call = q.call, !.new = q.new],
                                             s[2], q.path.elems)]
  BY DEF Begin
<1>4. PICK e \in Entries : /\ e = s[2] /\ CacheStep(icache', p, 0)
                           /\ Born(icache'[e].inum) /\ icache'[e].inum \in Inums
                           /\ q.path.abs => icache'[e].inum = ROOTINO
                           /\ \A f \in Entries : icache'[f].lock = icache[f].lock
  <2>1. Reads(icache, icache, p, 0) /\ Same(icache, icache)
    BY Mine, ReadsOps DEF Reads
  <2> QED BY <1>2, <1>3, <2>1, StartCache
<1>5. l.dp = 0 /\ l.ip = 0 /\ l.tgt = 0
  BY <1>1 DEF Holds, Goal, Iput
<1>6. PICK k : k = [l EXCEPT !.call = q.call, !.new = q.new]
  OBVIOUS
<1>7. /\ k \in Frame /\ k.call = q.call /\ k.new = q.new /\ k.dp = 0 /\ k.ip = 0 /\ k.tgt = 0
  <2>1. PICK k1 \in Frame : k1 = [l EXCEPT !.call = q.call]
    BY <1>2 DEF Frame
  <2>2. [k1 EXCEPT !.new = q.new] \in Frame
    BY <1>2 DEF Frame
  <2>3. k = [k1 EXCEPT !.new = q.new]
    BY <1>6, <2>1
  <2> QED BY <1>5, <2>1, <2>2, <2>3 DEF Frame
<1>8. q.path.elems \in Seq(DirNames) /\ q.new.elems \in Seq(DirNames)
  BY RequestPaths
<1>9. PICK r : r = Namex(k, e, q.path.elems)
  OBVIOUS
<1>10. NamexLeaves(r, k, e, q.path.elems)
  BY <1>7, <1>8, <1>9, NamexFields
<1>11. loc' = [loc EXCEPT ![p] = r]
  BY <1>1, <1>3, <1>4, <1>6, <1>9
<1>12. /\ r.ip = 0 /\ r.path \in Seq(DirNames) /\ r.new.elems \in Seq(DirNames)
       /\ \/ r.pc = "walk" /\ r.dp = e /\ r.tgt = 0 /\ r.path = q.path.elems /\ r.call = q.call
          \/ r.pc = "put" /\ r.then = "idle" /\ r.dp = 0 /\ r.tgt = e
          \/ r.pc = "found" /\ r.dp = e /\ r.tgt = 0
  BY <1>7, <1>8, <1>10 DEF NamexLeaves, Failed, Counted
<1>13. Calm(loc[p], r)
  BY <1>1, <1>12 DEF Calm
<1>14. Suits(r, p, icache')
  <2>1. SuitsPaths(r, icache')
    BY <1>4, <1>12 DEF SuitsPaths, Goal, Iput
  <2>2. SuitsLocks(r, p, icache')
    BY <1>12 DEF SuitsLocks, Goal, Iput
  <2>3. SuitsPointers(r, icache')
    BY <1>4, <1>12 DEF SuitsPointers
  <2>4. SuitsInodes(r, icache')
    BY <1>12 DEF SuitsInodes
  <2> QED BY <2>1, <2>2, <2>3, <2>4 DEF Suits
<1>15. OwesAsBefore(loc[p], r)
  BY <1>12 DEF OwesAsBefore
<1>16. KeepsOn(loc[p], r, p, icache')
  BY <1>1 DEF KeepsOn, Keeps, Goal, Iput
<1>17. Acquires(r, 0, icache')
  BY DEF Acquires, Entries
<1>18. KeptIn(icache', fref', fip', cwd')
  BY <1>4, KeptQuiet DEF Begin, files
<1>19. UNCHANGED disk
  BY DEF Begin
<1> QED BY <1>4, <1>11, <1>13, <1>14, <1>15, <1>16, <1>17, <1>18, <1>19, CalmStep

(* A calm step in a system call that keeps no new lock. *)
LEMMA CalmCall ==
    ASSUME RefInv, RefInv', LiveInv, NEW p \in Procs, NEW r,
           loc' = [loc EXCEPT ![p] = r], UNCHANGED <<disk, files>>,
           CacheStep(icache', p, 0), Calm(loc[p], r),
           Suits(r, p, icache'), OwesAsBefore(loc[p], r), KeepsOn(loc[p], r, p, icache')
    PROVE  LiveInv'
<1>1. Acquires(r, 0, icache')
  BY DEF Acquires, Entries
<1>2. KeptIn(icache', fref', fip', cwd')
  BY KeptQuiet DEF files
<1> QED BY <1>1, <1>2, CalmStep

(* The frame of a process in iput. *)
PutLeaves(b, r, f, t) ==
    /\ b \in Frame /\ b.pc = "put" /\ b.then = t /\ b.tgt = r[f]
    /\ b.path \in Seq(DirNames) /\ b.new.elems \in Seq(DirNames)
    /\ t = "idle" => b.dp = 0 /\ b.ip = 0 /\ b.call = "open"
    /\ t # "idle" => /\ b.call = r.call /\ b.path = r.path
                     /\ f = "dp" => b.dp = 0 /\ b.ip = r.ip
                     /\ f = "ip" => b.ip = 0 /\ b.dp = r.dp

(* iput of dp or of ip leaves this frame. *)
LEMMA PutFields ==
    ASSUME NEW r \in Frame, NEW t \in Labels, r.path \in Seq(DirNames), r.new.elems \in Seq(DirNames)
    PROVE  PutLeaves(Put(r, "dp", t), r, "dp", t) /\ PutLeaves(Put(r, "ip", t), r, "ip", t)
BY PutFrame, PutPaths DEF PutLeaves

(* The frame of an iput suits the cache. *)
LEMMA PutSuits ==
    ASSUME NEW b, NEW p, NEW jc, b.pc = "put",
           b.then \in {"idle", "found", "exists", "file", "linkbad", "putip", "putdp", "walk",
                       "unlinked"},
           b.path \in Seq(DirNames), b.new.elems \in Seq(DirNames),
           b.then = "unlinked" => jc[b.ip].lock = p,
           b.dp # 0 => Born(jc[b.dp].inum),
           b.ip # 0 => Born(jc[b.ip].inum),
           b.tgt # 0 => Born(jc[b.tgt].inum),
           b.ip # 0 /\ Linking(b) => dinode[jc[b.ip].inum].type # "dir"
    PROVE  Suits(b, p, jc)
<1>1. Goal(b) = b.then
  BY DEF Goal, Iput
<1>2. SuitsPaths(b, jc)
  BY <1>1 DEF SuitsPaths
<1>3. SuitsLocks(b, p, jc)
  BY <1>1 DEF SuitsLocks
<1>4. SuitsPointers(b, jc)
  BY DEF SuitsPointers
<1>5. SuitsInodes(b, jc)
  BY DEF SuitsInodes
<1> QED BY <1>2, <1>3, <1>4, <1>5 DEF Suits

(* namex looks up one element, or finds no directory and gives up. *)
LEMMA WalkLive ==
    ASSUME Careful, RefInv, RefInv', LiveInv, NEW p \in Procs, Walk(p)
    PROVE  LiveInv'
<1>1. PICK l \in Frame : /\ l = loc[p] /\ Holds(l) /\ Fit(l, p) /\ l.pc = "walk"
                         /\ l.path \in Seq(DirNames) /\ l.new.elems \in Seq(DirNames)
  BY Mine DEF Walk, At
<1>2. PICK e \in Entries : e = l.dp /\ Unlocked(e)
  BY <1>1, Targets DEF Walk, Holds, Goal, Iput
<1>3. PICK ic : ic = Ilock(icache, e)
  OBVIOUS
<1>4. /\ Inum(e) \in Inums /\ Born(Inum(e)) /\ icache[e].ref > 0
      /\ Same(icache, ic) /\ Reads(icache, ic, p, 0) /\ ic[e].copy = dinode[Inum(e)]
  BY <1>1, <1>2, <1>3, IlockReads, IlockCopy
<1>5. UNCHANGED <<disk, files>>
  BY DEF Walk
<1>6. l.ip # 0 => /\ l.ip \in Entries /\ icache[l.ip].ref > 0
                  /\ l.call = "link" /\ Linking(l) /\ Born(Inum(l.ip))
                  /\ dinode[Inum(l.ip)].type # "dir"
  BY <1>1, Targets DEF Holds, Goal, Iput, Linking, Fit, FitPointers, FitInodes
<1>7. l.path # <<>> /\ l.tgt = 0 /\ l.num = 0
  BY <1>1 DEF Holds, Goal, Iput
<1>8. \A f \in Entries : ~Keeps(l, f)
  BY <1>1, <1>7 DEF Keeps, Goal, Iput, Entries
<1>9. CASE icache' = ic /\ loc' = [loc EXCEPT ![p] = Put(@, "dp", Failed(@))]
  <2>1. Failed(l) \in {"linkbad", "idle"} /\ Failed(l) \in Labels
    BY DEF Failed, Labels
  <2>2. PICK r : r = Put(l, "dp", Failed(l))
    OBVIOUS
  <2>3. PutLeaves(r, l, "dp", Failed(l))
    BY <1>1, <2>1, <2>2, PutFields
  <2>4. CacheStep(icache', p, 0)
    BY <1>4, <1>9, SameCache
  <2>5. /\ icache'[e].inum = Inum(e)
        /\ l.ip # 0 => icache'[l.ip].inum = Inum(l.ip)
    BY <1>4, <1>6, <1>9 DEF Same, Inum
  <2>6. Suits(r, p, icache')
    <3>1. r.dp = 0 /\ r.tgt = e /\ (r.ip # 0 => r.ip = l.ip)
      BY <1>2, <2>1, <2>3 DEF PutLeaves
    <3> QED BY <1>4, <1>6, <2>1, <2>3, <2>5, <3>1, PutSuits DEF PutLeaves
  <2>7. Calm(loc[p], r)
    BY <1>1, <2>3 DEF Calm, PutLeaves
  <2>8. OwesAsBefore(loc[p], r)
    BY <1>1, <1>6, <2>1, <2>3 DEF OwesAsBefore, PutLeaves
  <2>9. KeepsOn(loc[p], r, p, icache')
    BY <1>1, <1>8 DEF KeepsOn
  <2>10. loc' = [loc EXCEPT ![p] = r]
    BY <1>1, <1>9, <2>2
  <2> QED BY <1>5, <2>4, <2>6, <2>7, <2>8, <2>9, <2>10, CalmCall
<1>10. CASE /\ Type(ic, e) = "dir" /\ icache' = ic /\ Goto(p, "parent")
            /\ Parent(l) /\ Tail(l.path) = <<>>
  <2>1. PICK r \in Frame : r = [l EXCEPT !.pc = "parent"]
    BY DEF Frame, Labels
  <2>2. /\ r.pc = "parent" /\ r.dp = e /\ r.ip = l.ip /\ r.tgt = 0 /\ r.path = l.path
        /\ r.new = l.new /\ r.call = l.call
    BY <1>2, <1>7, <2>1 DEF Frame
  <2>3. loc' = [loc EXCEPT ![p] = r]
    BY <1>1, <1>10, <2>1 DEF Goto
  <2>4. CacheStep(icache', p, 0)
    BY <1>4, <1>10, SameCache
  <2>5. /\ icache'[e].inum = Inum(e)
        /\ l.ip # 0 => icache'[l.ip].inum = Inum(l.ip)
    BY <1>4, <1>6, <1>10 DEF Same, Inum
  <2>6. Suits(r, p, icache')
    <3>1. SuitsPaths(r, icache')
      BY <1>1, <1>2, <2>2, <2>5 DEF SuitsPaths, Goal, Iput, Fit, FitPaths
    <3>2. SuitsLocks(r, p, icache')
      BY <2>2 DEF SuitsLocks, Goal, Iput
    <3>3. SuitsPointers(r, icache')
      BY <1>4, <1>6, <2>2, <2>5 DEF SuitsPointers
    <3>4. SuitsInodes(r, icache')
      BY <1>4, <1>6, <1>10, <2>2, <2>5 DEF SuitsInodes, Type
    <3> QED BY <3>1, <3>2, <3>3, <3>4 DEF Suits
  <2>7. Calm(loc[p], r)
    BY <1>1, <2>2 DEF Calm
  <2>8. OwesAsBefore(loc[p], r)
    BY <1>1, <1>6, <2>2 DEF OwesAsBefore
  <2>9. KeepsOn(loc[p], r, p, icache')
    BY <1>1, <1>8 DEF KeepsOn
  <2> QED BY <1>5, <2>3, <2>4, <2>6, <2>7, <2>8, <2>9, CalmCall
<1>11. ASSUME NEW x \in Slot(Lookup(e, Name(p))), Lookup(e, Name(p)) # 0,
              Type(ic, e) = "dir",
              icache' = Iget(ic, x, Lookup(e, Name(p))),
              loc' = [loc EXCEPT ![p] =
                        [Put(@, "dp", IF Tail(l.path) = <<>> THEN "found" ELSE "walk")
                           EXCEPT !.dp = x, !.path = Tail(l.path)]],
              ~(Parent(l) /\ Tail(l.path) = <<>>)
       PROVE  LiveInv'
  <2>1. PICK n \in DirNames : n = Name(p)
    BY <1>1, <1>7 DEF Name
  <2>2. PICK i \in Inums : i = Lookup(e, n) /\ Born(i) /\ Reached(p, i)
    <3>1. loc[p].dp = e /\ e # 0 /\ Lookup(e, n) # 0
      BY <1>1, <1>2, <1>11, <2>1 DEF Entries
    <3>2. Upward(e, n)
      BY <1>1, <1>2, <1>4, <1>11, <2>1 DEF Careful, Upward, Type
    <3> QED BY <3>1, <3>2, LookupBorn
  <2>3. /\ CacheStep(icache', p, 0) /\ x \in Entries /\ icache'[x].inum = i
    <3>1. x \in Slot(i) /\ icache' = Iget(ic, x, i)
      BY <1>11, <2>1, <2>2
    <3> QED BY <1>4, <2>2, <3>1, GrownCache
  <2>4. PICK t \in Labels : t = (IF Tail(l.path) = <<>> THEN "found" ELSE "walk")
    BY DEF Labels
  <2>5. PICK b : b = Put(l, "dp", t)
    OBVIOUS
  <2>6. PutLeaves(b, l, "dp", t) /\ t \in {"found", "walk"}
    BY <1>1, <2>4, <2>5, PutFields
  <2>7. PICK r : r = [b EXCEPT !.dp = x, !.path = Tail(l.path)]
    OBVIOUS
  <2>8. /\ r.pc = "put" /\ r.then = t /\ r.tgt = e /\ r.dp = x /\ r.ip = l.ip
        /\ r.call = l.call /\ r.path = Tail(l.path) /\ r.new = b.new
    BY <1>2, <2>6, <2>7 DEF PutLeaves, Frame
  <2>9. loc' = [loc EXCEPT ![p] = r]
    BY <1>1, <1>11, <2>4, <2>5, <2>7
  <2>10. /\ icache'[e].inum = Inum(e)
         /\ l.ip # 0 => icache'[l.ip].inum = Inum(l.ip)
    BY <1>4, <1>6, <2>3 DEF CacheStep, Reads, Inum
  <2>11. Tail(l.path) \in Seq(DirNames) /\ Len(Tail(l.path)) = Len(l.path) - 1
    BY <1>1, <1>7
  <2>13. Suits(r, p, icache')
    BY <1>4, <1>6, <2>2, <2>3, <2>6, <2>8, <2>10, <2>11, PutSuits DEF PutLeaves
  <2>14. Calm(loc[p], r)
    BY <1>1, <2>8 DEF Calm
  <2>15. OwesAsBefore(loc[p], r)
    BY <1>1, <1>6, <2>8 DEF OwesAsBefore
  <2>16. KeepsOn(loc[p], r, p, icache')
    BY <1>1, <1>8 DEF KeepsOn
  <2> QED BY <1>5, <2>3, <2>9, <2>13, <2>14, <2>15, <2>16, CalmCall
<1> QED BY <1>1, <1>2, <1>3, <1>9, <1>10, <1>11 DEF Walk

(* The last iput of a system call, when no lock is left. *)
LEMMA CalmEnd ==
    ASSUME RefInv, RefInv', LiveInv, NEW p \in Procs, NEW r,
           loc' = [loc EXCEPT ![p] = r], UNCHANGED disk, CacheStep(icache', p, 0),
           Calm(loc[p], r), r.pc = "put", r.then = "idle", r.dp = 0, r.ip = 0,
           r.path \in Seq(DirNames), r.new.elems \in Seq(DirNames), Born(icache'[r.tgt].inum),
           \A f \in Entries : icache'[f].lock # p \/ ~Keeps(loc[p], f),
           KeptIn(icache', fref', fip', cwd')
    PROVE  LiveInv'
<1>1. Acquires(r, 0, icache')
  BY DEF Acquires, Entries
<1>2. Suits(r, p, icache')
  BY PutSuits
<1>3. OwesAsBefore(loc[p], r)
  BY DEF OwesAsBefore
<1>4. KeepsOn(loc[p], r, p, icache')
  BY DEF KeepsOn
<1> QED BY <1>1, <1>2, <1>3, <1>4, CalmStep

(* iput tests whether the reference is the last one of an inode without    *)
(* names.                                                                  *)
LEMMA PutTestLive ==
    ASSUME RefInv, RefInv', LiveInv, NEW p \in Procs, PutTest(p)
    PROVE  LiveInv'
<1>1. PICK l \in Frame : /\ l = loc[p] /\ Holds(l) /\ Fit(l, p) /\ l.pc = "put"
                         /\ l.path \in Seq(DirNames) /\ l.new.elems \in Seq(DirNames)
  BY Mine DEF PutTest, At
<1>2. PICK e \in Entries : e = l.tgt /\ Unlocked(e) /\ icache[e].ref > 0 /\ Inum(e) \in Inums
  BY <1>1, Targets DEF PutTest, Holds, Iput
<1>3. icache \in [Entries -> Cached] /\ Same(icache, icache)
  BY Mine
<1>4. UNCHANGED <<disk, files>>
  BY DEF PutTest
<1>5. /\ Born(Inum(e))
      /\ l.dp # 0 => l.dp \in Entries /\ Born(Inum(l.dp))
      /\ l.ip # 0 => l.ip \in Entries /\ Born(Inum(l.ip))
  BY <1>1, <1>2, Targets DEF Fit, FitPointers, Entries
<1>6. /\ Goal(l) = l.then /\ Goal(l) \notin {"ialloc", "iget", "enter", "unlink", "parent"}
      /\ Goal(l) = "unlinked" => l.ip # 0 /\ icache[l.ip].lock = p
      /\ l.ip # 0 /\ Linking(l) => dinode[Inum(l.ip)].type # "dir"
  BY <1>1 DEF Goal, Iput, Holds, Fit, FitLocks, FitInodes, FitPaths
<1>7. e # 0 /\ p # Nobody
  BY InodeAssumption DEF Entries
<1>8. ASSUME NEW t \in {"trunc", "drop"}, NEW a, Goto(p, t), CacheStep(icache', p, a),
             Same(icache, icache'), \A f \in Entries \ {e} : icache'[f].lock = icache[f].lock,
             t = "trunc" => a = e /\ icache'[e].lock = p /\ icache'[e].valid
                            /\ dinode[Inum(e)].nlink = 0 /\ icache'[e].ref = 1,
             t = "drop" => a = 0
      PROVE  LiveInv'
  <2>1. PICK r : r = [l EXCEPT !.pc = t]
    OBVIOUS
  <2>2. /\ r.pc = t /\ r.dp = l.dp /\ r.ip = l.ip /\ r.tgt = e /\ r.path = l.path
        /\ r.new = l.new /\ r.call = l.call /\ r.then = l.then
    BY <1>2, <2>1 DEF Frame
  <2>3. loc' = [loc EXCEPT ![p] = r]
    BY <1>1, <1>8, <2>1 DEF Goto
  <2>4. /\ icache'[e].inum = Inum(e)
        /\ l.ip # 0 => icache'[l.ip].inum = Inum(l.ip)
        /\ l.dp # 0 => icache'[l.dp].inum = Inum(l.dp)
    BY <1>5, <1>8 DEF Same, Inum
  <2>5. Goal(r) = l.then
    BY <2>2 DEF Goal, Iput
  <2>6. Suits(r, p, icache')
    <3>1. SuitsPaths(r, icache')
      BY <1>1, <1>6, <2>2, <2>4, <2>5 DEF SuitsPaths
    <3>2. SuitsLocks(r, p, icache')
      <4>1. Goal(l) = "unlinked" => l.ip # e /\ l.ip \in Entries
        BY <1>2, <1>5, <1>6, <1>7 DEF Unlocked
      <4> QED BY <1>6, <1>8, <2>2, <2>5, <4>1 DEF SuitsLocks
    <3>3. SuitsPointers(r, icache')
      BY <1>5, <2>2, <2>4 DEF SuitsPointers
    <3>4. SuitsInodes(r, icache')
      <4>1. Linking(r) => Linking(l)
        BY <1>6, <2>2, <2>5 DEF Linking
      <4> QED BY <1>6, <1>8, <2>2, <2>4, <4>1 DEF SuitsInodes
    <3> QED BY <3>1, <3>2, <3>3, <3>4 DEF Suits
  <2>7. Calm(loc[p], r)
    BY <1>1, <2>2 DEF Calm
  <2>8. OwesAsBefore(loc[p], r)
    BY <1>1, <1>6, <2>2, <2>5 DEF OwesAsBefore, Linking
  <2>9. KeepsOn(loc[p], r, p, icache')
    BY <1>1, <1>6, <2>2, <2>5 DEF KeepsOn, Keeps
  <2>10. Acquires(r, a, icache')
    BY <1>8, <2>2 DEF Acquires, Keeps, Entries
  <2>11. KeptIn(icache', fref', fip', cwd')
    BY <1>4, <1>8, KeptQuiet DEF files
  <2> QED BY <1>4, <1>8, <2>3, <2>6, <2>7, <2>8, <2>9, <2>10, <2>11, CalmStep
<1>9. CASE LastRef(e) /\ icache' = Hold(icache, e, p) /\ Goto(p, "trunc")
  <2>1. Same(icache, icache') /\ Reads(icache, icache', p, e)
    BY <1>2, <1>3, <1>9, SameSteps, ReadsOps DEF Unlocked
  <2>2. CacheStep(icache', p, e)
    BY <2>1, SameCache
  <2>3. /\ icache'[e].lock = p /\ icache'[e].valid /\ icache'[e].ref = 1
        /\ \A f \in Entries \ {e} : icache'[f].lock = icache[f].lock
    BY <1>3, <1>9 DEF Hold, Cached, LastRef
  <2>4. dinode[Inum(e)].nlink = 0
    <3>1. Ilock(icache, e) = icache
      BY <1>9 DEF Ilock, LastRef
    <3> QED BY <1>2, <1>9, <3>1, IlockCopy DEF LastRef
  <2> QED BY <1>8, <1>9, <2>1, <2>2, <2>3, <2>4
<1>10. CASE Goto(p, "drop") /\ UNCHANGED icache
  <2>1. Reads(icache, icache', p, 0) /\ Same(icache, icache')
    BY <1>2, <1>3, <1>10, ReadsOps
  <2>2. CacheStep(icache', p, 0)
    BY <2>1, SameCache
  <2> QED BY <1>8, <1>10, <2>1, <2>2
<1> QED BY <1>1, <1>2, <1>9, <1>10 DEF PutTest

(* ref-- of the target, and perhaps an unlock. *)
Dropped(jc, p, e) ==
    \A f \in Entries :
        /\ jc[f].ref = icache[f].ref - One(f = e) /\ jc[f].inum = icache[f].inum
        /\ jc[f].valid = icache[f].valid /\ jc[f].copy = icache[f].copy
        /\ jc[f].lock = icache[f].lock \/ (icache[f].lock = p /\ jc[f].lock = Nobody)

(* The reference that iput gives back. *)
LEMMA DropCache ==
    ASSUME RefInv, LiveInv, NEW p \in Procs, NEW e \in Entries, e = loc[p].tgt,
           NEW jc \in [Entries -> Cached], Dropped(jc, p, e)
    PROVE  CacheStep(jc, p, 0)
<1>1. icache \in [Entries -> Cached] /\ Nobody \notin Procs
  BY InodeAssumption DEF RefInv, Shapes
<1>2. \A f \in Entries :
        /\ jc[f].inum = icache[f].inum
        /\ jc[f].valid = icache[f].valid /\ jc[f].copy = icache[f].copy
        /\ jc[f].lock = icache[f].lock \/ (icache[f].lock = p /\ jc[f].lock = Nobody)
        /\ jc[f].ref > 0 => icache[f].ref > 0
        /\ f # e => jc[f].ref = icache[f].ref
  <2>1. \A f \in Entries : icache[f].ref \in Nat /\ jc[f].ref \in Nat
    BY <1>1 DEF Cached
  <2> QED BY <2>1 DEF Dropped, One
<1>3. Reads(icache, jc, p, 0)
  BY <1>1, <1>2 DEF Reads
<1>4. OneIn(jc)
  BY <1>2 DEF OneIn, LiveInv, CacheInv, OneEntry, Inum
<1>5. Spares(jc, p)
  <2> SUFFICES ASSUME NEW q \in Procs \ {p}, loc[q].pc \in {"trunc", "free"}
               PROVE  jc[loc[q].tgt].ref = 1
    BY DEF Spares
  <2>1. loc[q].tgt \in Entries /\ icache[loc[q].tgt].ref = 1 /\ Alone(q, loc[q].tgt)
    BY Dying
  <2>2. loc[q].tgt # e
    BY <2>1 DEF Alone
  <2> QED BY <1>2, <2>1, <2>2
<1> QED BY <1>3, <1>4, <1>5 DEF CacheStep

(* iput gives its reference back, and the call goes on. *)
LEMMA DropLive ==
    ASSUME RefInv, RefInv', LiveInv, NEW p \in Procs, Drop(p)
    PROVE  LiveInv'
<1>1. PICK l \in Frame : /\ l = loc[p] /\ Holds(l) /\ Fit(l, p) /\ l.pc = "drop"
                         /\ l.path \in Seq(DirNames) /\ l.new.elems \in Seq(DirNames)
  BY Mine DEF Drop, At
<1>2. PICK e \in Entries : e = l.tgt /\ icache[e].ref > 0 /\ Inum(e) \in Inums
  BY <1>1, Targets DEF Holds, Iput
<1>3. icache \in [Entries -> Cached] /\ icache' \in [Entries -> Cached]
  BY DEF RefInv, Shapes
<1>4. UNCHANGED <<disk, files>>
  BY DEF Drop
<1>5. /\ l.dp # 0 => l.dp \in Entries /\ icache[l.dp].ref > 0 /\ Born(Inum(l.dp))
      /\ l.ip # 0 => l.ip \in Entries /\ icache[l.ip].ref > 0 /\ Born(Inum(l.ip))
  BY <1>1, Targets DEF Fit, FitPointers
<1>6. /\ Goal(l) = l.then /\ l.then \in {"idle", "walk", "found", "exists", "file",
                                         "unlinked", "linkbad", "putip", "putdp"}
      /\ l.then = "unlinked" => l.ip # 0 /\ icache[l.ip].lock = p
      /\ l.then = "putip" => l.ip # 0
      /\ l.then \in {"walk", "putdp"} => l.dp # 0
      /\ l.then \in {"walk", "putdp"} /\ l.ip # 0 => l.call = "link"
      /\ l.ip # 0 /\ Linking(l) => dinode[Inum(l.ip)].type # "dir"
  BY <1>1 DEF Goal, Iput, Holds, Fit, FitLocks, FitInodes, FitPaths
<1>7. PICK ic : ic = [icache EXCEPT ![e].ref = @ - 1]
  OBVIOUS
<1>8. /\ ic \in [Entries -> Cached] /\ Dropped(ic, p, e)
      /\ \A f \in Entries : ic[f].lock = icache[f].lock
  BY <1>2, <1>3, <1>7 DEF Cached, Dropped, One
<1>9. CacheStep(ic, p, 0)
  BY <1>1, <1>2, <1>8, DropCache
<1>10. ASSUME NEW x \in Entries, icache' = Iunlock(ic, x, p)
       PROVE  /\ CacheStep(icache', p, 0) /\ icache'[x].lock # p
  <2>1. icache'[x].lock # p
    BY <1>8, <1>10, ReadsOps
  <2>2. Dropped(icache', p, e)
    BY <1>8, <1>10 DEF Iunlock, Dropped, Cached
  <2> QED BY <1>1, <1>2, <1>3, <2>1, <2>2, DropCache
<1>11. ASSUME CacheStep(icache', p, 0)
       PROVE  /\ l.dp # 0 => icache'[l.dp].inum = Inum(l.dp)
              /\ l.ip # 0 => icache'[l.ip].inum = Inum(l.ip)
              /\ KeptIn(icache', fref', fip', cwd')
  <2>1. KeptIn(icache', fref', fip', cwd')
    BY <1>4, <1>11, KeptQuiet DEF files
  <2>2. \A f \in Entries : icache[f].ref > 0 => icache'[f].inum = Inum(f)
    BY <1>11 DEF CacheStep, Reads, Inum
  <2> QED BY <1>5, <2>1, <2>2
<1>12. CASE l.then \notin {"idle", "putip", "putdp"} /\ icache' = ic
            /\ loc' = [loc EXCEPT ![p].pc = l.then, ![p].tgt = 0]
  <2>1. PICK r : r = [l EXCEPT !.pc = l.then, !.tgt = 0]
    OBVIOUS
  <2>2. /\ r.pc = l.then /\ r.dp = l.dp /\ r.ip = l.ip /\ r.tgt = 0 /\ r.path = l.path
        /\ r.new = l.new /\ r.call = l.call
    BY <2>1 DEF Frame
  <2>3. loc' = [loc EXCEPT ![p] = r]
    BY <1>1, <1>12, <2>1, FrameOf
  <2>4. Goal(r) = l.then
    BY <1>6, <2>2 DEF Goal, Iput
  <2>5. CacheStep(icache', p, 0)
    BY <1>9, <1>12
  <2>6. /\ l.dp # 0 => icache'[l.dp].inum = Inum(l.dp)
        /\ l.ip # 0 => icache'[l.ip].inum = Inum(l.ip)
    BY <1>11, <2>5
  <2>7. Suits(r, p, icache')
    <3>1. SuitsPaths(r, icache')
      BY <1>1, <1>6, <2>2, <2>4, <2>6 DEF SuitsPaths
    <3>2. SuitsLocks(r, p, icache')
      BY <1>5, <1>6, <1>8, <1>12, <2>2, <2>4 DEF SuitsLocks
    <3>3. SuitsPointers(r, icache')
      BY <1>5, <2>2, <2>6 DEF SuitsPointers
    <3>4. SuitsInodes(r, icache')
      <4>1. Linking(r) => Linking(l)
        BY <1>6, <2>2, <2>4 DEF Linking
      <4> QED BY <1>6, <2>2, <2>6, <4>1 DEF SuitsInodes
    <3> QED BY <3>1, <3>2, <3>3, <3>4 DEF Suits
  <2>8. Calm(loc[p], r)
    BY <1>1, <1>6, <2>2 DEF Calm
  <2>9. OwesAsBefore(loc[p], r)
    BY <1>1, <1>6, <2>2, <2>4 DEF OwesAsBefore, Linking
  <2>10. KeepsOn(loc[p], r, p, icache')
    BY <1>1, <1>6, <2>2, <2>4 DEF KeepsOn, Keeps
  <2> QED BY <1>4, <2>3, <2>5, <2>7, <2>8, <2>9, <2>10, CalmCall
<1>13. CASE l.then = "idle" /\ icache' = ic /\ loc' = [loc EXCEPT ![p] = Idle]
  <2>1. PICK r : r = Idle
    OBVIOUS
  <2>2. /\ r.pc = "idle" /\ r.dp = 0 /\ r.ip = 0 /\ r.tgt = 0 /\ r.path = <<>> /\ r.new.elems = <<>>
        /\ r.call = "open"
    BY <2>1 DEF Idle, NoPath
  <2>3. CacheStep(icache', p, 0)
    BY <1>9, <1>13
  <2>4. <<>> \in Seq(DirNames)
    OBVIOUS
  <2>5. Suits(r, p, icache')
    BY <2>2, <2>4 DEF Suits, SuitsPaths, SuitsLocks, SuitsPointers, SuitsInodes, Goal, Iput
  <2>6. Calm(loc[p], r) /\ OwesAsBefore(loc[p], r)
    BY <1>1, <2>2 DEF Calm, OwesAsBefore
  <2>7. KeepsOn(loc[p], r, p, icache')
    BY <1>1, <1>6, <1>13 DEF KeepsOn, Keeps
  <2> QED BY <1>4, <1>13, <2>1, <2>3, <2>5, <2>6, <2>7, CalmCall
<1>14. CASE /\ l.then = "putip" /\ icache' = Iunlock(ic, l.ip, p)
            /\ loc' = [loc EXCEPT ![p] = Put(@, "ip", "idle")]
  <2>1. PICK r : r = Put(l, "ip", "idle")
    OBVIOUS
  <2>2. PutLeaves(r, l, "ip", "idle")
    BY <1>1, <2>1, PutFields DEF Labels
  <2>3. loc' = [loc EXCEPT ![p] = r]
    BY <1>1, <1>14, <2>1
  <2>4. l.ip \in Entries /\ CacheStep(icache', p, 0) /\ icache'[l.ip].lock # p
    BY <1>5, <1>6, <1>10, <1>14
  <2>5. Born(icache'[r.tgt].inum) /\ KeptIn(icache', fref', fip', cwd')
    BY <1>5, <1>6, <1>11, <1>14, <2>2, <2>4 DEF PutLeaves
  <2>6. \A f \in Entries : icache'[f].lock # p \/ ~Keeps(loc[p], f)
    BY <1>1, <1>6, <1>14, <2>4 DEF Keeps
  <2>7. Calm(loc[p], r)
    BY <1>1, <2>2 DEF Calm, PutLeaves
  <2> QED BY <1>4, <2>2, <2>3, <2>4, <2>5, <2>6, <2>7, CalmEnd DEF PutLeaves
<1>15. CASE /\ l.then = "putdp" /\ icache' = Iunlock(ic, l.dp, p)
            /\ loc' = [loc EXCEPT ![p] = Put(@, "dp", Failed(@))]
  <2>0. Failed(l) \in {"linkbad", "idle"} /\ Failed(l) \in Labels
    BY DEF Failed, Labels
  <2>1. PICK r : r = Put(l, "dp", Failed(l))
    OBVIOUS
  <2>2. PutLeaves(r, l, "dp", Failed(l))
    BY <1>1, <2>0, <2>1, PutFields
  <2>3. loc' = [loc EXCEPT ![p] = r]
    BY <1>1, <1>15, <2>1
  <2>4. l.dp \in Entries /\ CacheStep(icache', p, 0) /\ icache'[l.dp].lock # p
    BY <1>5, <1>6, <1>10, <1>15
  <2>5. /\ icache'[l.dp].inum = Inum(l.dp) /\ Born(Inum(l.dp))
        /\ l.ip # 0 => icache'[l.ip].inum = Inum(l.ip)
    BY <1>5, <1>6, <1>11, <1>15, <2>4
  <2>6. l.ip # 0 => Linking(l)
    BY <1>6, <1>15 DEF Linking
  <2>7. Suits(r, p, icache')
    <3>1. r.dp = 0 /\ r.tgt = l.dp /\ (r.ip # 0 => r.ip = l.ip)
      BY <2>0, <2>2 DEF PutLeaves
    <3> QED BY <1>5, <1>6, <2>0, <2>2, <2>5, <2>6, <3>1, PutSuits DEF PutLeaves
  <2>8. Calm(loc[p], r)
    BY <1>1, <2>2 DEF Calm, PutLeaves
  <2>9. OwesAsBefore(loc[p], r)
    BY <1>1, <2>0, <2>2, <2>6 DEF OwesAsBefore, PutLeaves
  <2>10. KeepsOn(loc[p], r, p, icache')
    BY <1>1, <1>6, <1>15, <2>4 DEF KeepsOn, Keeps
  <2> QED BY <1>4, <2>3, <2>4, <2>7, <2>8, <2>9, <2>10, CalmCall
<1> QED BY <1>1, <1>2, <1>7, <1>12, <1>13, <1>14, <1>15 DEF Drop

(* dirlookup and iget of what it finds. *)
LookupGot(p, e, x, i, jc) ==
    /\ CacheStep(jc, p, 0) /\ NoDrop(icache, jc) /\ x \in Entries /\ jc[x].inum = i
    /\ i \in Inums /\ Born(i)
    /\ \A f \in Entries : jc[f].lock = icache[f].lock
    /\ \A f \in Entries : icache[f].ref > 0 => jc[f].inum = Inum(f)
    /\ jc[e].valid

(* The lookup of a name gets an inode that is alive. *)
LEMMA LookupGets ==
    ASSUME RefInv, LiveInv, NEW p \in Procs, NEW e \in Entries, e = loc[p].dp,
           loc[p].pc # "enter", NEW n \in DirNames, NEW i, i = Lookup(e, n), i # 0,
           Upward(e, n), NEW x \in Slot(i)
    PROVE  LookupGot(p, e, x, i, Iget(Ilock(icache, e), x, i))
<1>1. PICK ic : ic = Ilock(icache, e)
  OBVIOUS
<1>2. /\ Same(icache, ic) /\ Reads(icache, ic, p, 0) /\ icache[e].ref > 0 /\ ic[e].valid
      /\ \A f \in Entries : ic[f].lock = icache[f].lock
  BY <1>1, IlockReads
<1>3. i \in Inums /\ Born(i) /\ Reached(p, i)
  <2>1. loc[p].dp # 0 /\ Lookup(loc[p].dp, n) # 0
    BY DEF Entries
  <2> QED BY <2>1, LookupBorn
<1>4. PICK jc : jc = Iget(ic, x, i)
  OBVIOUS
<1>5. /\ CacheStep(jc, p, 0) /\ NoDrop(icache, jc)
      /\ x \in Entries /\ jc[x].inum = i
      /\ \A f \in Entries : jc[f].lock = ic[f].lock
      /\ \A f \in Entries : ic[f].ref > 0 => jc[f].valid = ic[f].valid
  BY <1>2, <1>3, <1>4, GrownCache
<1>6. ic[e].ref > 0
  BY <1>2 DEF Same
<1>7. \A f \in Entries : icache[f].ref > 0 => jc[f].inum = Inum(f)
  BY <1>5 DEF CacheStep, Reads, Inum
<1> QED BY <1>1, <1>2, <1>3, <1>4, <1>5, <1>6, <1>7 DEF LookupGot

(* create looks its name up. *)
LEMMA CreateLookLive ==
    ASSUME Careful, RefInv, RefInv', LiveInv, NEW p \in Procs, CreateLook(p)
    PROVE  LiveInv'
<1>1. PICK l \in Frame : /\ l = loc[p] /\ Holds(l) /\ Fit(l, p) /\ l.pc = "parent"
                         /\ l.path \in Seq(DirNames) /\ l.new.elems \in Seq(DirNames)
                         /\ l.call \in {"creat", "mkdir", "mknod"}
  BY Mine DEF CreateLook, At
<1>2. PICK e \in Entries : e = l.dp /\ Unlocked(e)
  BY <1>1, Targets DEF CreateLook, Holds, Goal, Iput
<1>3. PICK ic : ic = Ilock(icache, e)
  OBVIOUS
<1>4. /\ Inum(e) \in Inums /\ Born(Inum(e)) /\ icache[e].ref > 0 /\ ic \in [Entries -> Cached]
      /\ Same(icache, ic) /\ Reads(icache, ic, p, 0) /\ ic[e].valid
      /\ \A f \in Entries : ic[f].lock = icache[f].lock
  BY <1>1, <1>2, <1>3, IlockReads
<1>5. UNCHANGED <<disk, files>>
  BY DEF CreateLook
<1>6. l.path # <<>> /\ l.tgt = 0 /\ l.num = 0 /\ l.ip = 0
  BY <1>1 DEF Holds, Goal, Iput
<1>7. \A f \in Entries : ~Keeps(l, f)
  BY <1>1, <1>6 DEF Keeps, Goal, Iput, Entries
<1>8. PICK n \in DirNames : n = Name(p) /\ n = Head(l.path)
  BY <1>1, <1>6 DEF Name
<1>9. PICK i : i = Lookup(e, n)
  OBVIOUS
<1>10. ASSUME NEW x \in Slot(i), i # 0, icache' = Iget(ic, x, i),
              loc' = [loc EXCEPT ![p] = [Put(@, "dp", "exists") EXCEPT !.ip = x]]
       PROVE  LiveInv'
  <2>1. LookupGot(p, e, x, i, icache')
    <3>1. Upward(e, n)
      BY <1>1, <1>2, <1>8 DEF Careful, Upward, Fit, FitInodes
    <3> QED BY <1>1, <1>2, <1>3, <1>9, <1>10, <3>1, LookupGets
  <2>2. PICK b : b = Put(l, "dp", "exists")
    OBVIOUS
  <2>3. PutLeaves(b, l, "dp", "exists")
    BY <1>1, <2>2, PutFields DEF Labels
  <2>4. PICK r : r = [b EXCEPT !.ip = x]
    OBVIOUS
  <2>5. /\ r.pc = "put" /\ r.then = "exists" /\ r.tgt = e /\ r.dp = 0 /\ r.ip = x
        /\ r.call = l.call /\ r.path \in Seq(DirNames) /\ r.new.elems \in Seq(DirNames)
    BY <1>2, <2>3, <2>4 DEF PutLeaves, Frame
  <2>6. loc' = [loc EXCEPT ![p] = r]
    BY <1>1, <1>10, <2>2, <2>4
  <2>7. ~Linking(r) /\ Goal(r) = "exists"
    BY <1>1, <2>5 DEF Linking, Goal, Iput
  <2>8. Suits(r, p, icache')
    BY <1>4, <2>1, <2>5, <2>7, PutSuits DEF LookupGot
  <2>9. Calm(loc[p], r) /\ OwesAsBefore(loc[p], r) /\ KeepsOn(loc[p], r, p, icache')
    BY <1>1, <1>7, <2>5, <2>7 DEF Calm, OwesAsBefore, KeepsOn
  <2> QED BY <1>5, <2>1, <2>6, <2>8, <2>9, CalmCall DEF LookupGot
<1>11. CASE i = 0 /\ icache' = Hold(ic, e, p) /\ Goto(p, "ialloc")
  <2>1. PICK r : r = [l EXCEPT !.pc = "ialloc"]
    OBVIOUS
  <2>2. /\ r.pc = "ialloc" /\ r.dp = e /\ r.ip = 0 /\ r.tgt = 0 /\ r.path = l.path
        /\ r.new = l.new /\ r.call = l.call /\ Goal(r) = "ialloc"
    BY <1>2, <1>6, <2>1 DEF Frame, Goal, Iput
  <2>3. loc' = [loc EXCEPT ![p] = r]
    BY <1>1, <1>11, <2>1 DEF Goto
  <2>4. CacheStep(icache', p, e) /\ icache'[e].lock = p /\ icache'[e].valid
        /\ icache'[e].inum = Inum(e)
    <3>1. ic[e].lock = Nobody
      BY <1>2, <1>4 DEF Unlocked
    <3>2. CacheStep(ic, p, 0) /\ NoDrop(icache, ic)
      BY <1>4, SameCache DEF NoDrop, Same
    <3>3. CacheStep(icache', p, e)
      BY <1>11, <3>1, <3>2, ThenHold
    <3>4. icache'[e].lock = p /\ icache'[e].valid /\ icache'[e].inum = ic[e].inum
      BY <1>4, <1>11 DEF Hold, Cached
    <3> QED BY <1>4, <3>3, <3>4 DEF Same, Inum
  <2>5. n \in Names
    <3>1. entry[Inum(e)]["."] # 0 /\ entry[Inum(e)][".."] # 0
      <4>1. dinode[Inum(e)].type = "dir"
        BY <1>1, <1>2 DEF Fit, FitInodes
      <4> QED BY <1>4, <4>1 DEF LiveInv, DiskInv, Dots
    <3>2. entry[Inum(e)][n] = 0
      BY <1>9, <1>11 DEF Lookup, Dir, Inum
    <3> QED BY <3>1, <3>2 DEF DirNames
  <2>6. Suits(r, p, icache')
    <3>1. SuitsPaths(r, icache')
      BY <1>1, <1>2, <1>8, <2>2, <2>4, <2>5 DEF SuitsPaths, Fit, FitPaths, Goal, Iput
    <3>2. SuitsLocks(r, p, icache') /\ SuitsPointers(r, icache') /\ SuitsInodes(r, icache')
      BY <1>4, <2>2, <2>4 DEF SuitsLocks, SuitsPointers, SuitsInodes
    <3> QED BY <3>1, <3>2 DEF Suits
  <2>7. Calm(loc[p], r) /\ OwesAsBefore(loc[p], r) /\ KeepsOn(loc[p], r, p, icache')
    BY <1>1, <1>7, <2>2 DEF Calm, OwesAsBefore, KeepsOn
  <2>8. Acquires(r, e, icache')
    BY <2>2, <2>4 DEF Acquires, Keeps
  <2>9. KeptIn(icache', fref', fip', cwd')
    BY <1>5, <2>4, KeptQuiet DEF files
  <2> QED BY <1>5, <2>3, <2>4, <2>6, <2>7, <2>8, <2>9, CalmStep
<1>12. \/ /\ i # 0
          /\ \E x \in Slot(i) :
                /\ icache' = Iget(ic, x, i)
                /\ loc' = [loc EXCEPT ![p] = [Put(@, "dp", "exists") EXCEPT !.ip = x]]
       \/ i = 0 /\ icache' = Hold(ic, e, p) /\ Goto(p, "ialloc")
  BY <1>1, <1>2, <1>3, <1>8, <1>9 DEF CreateLook
<1> QED BY <1>10, <1>11, <1>12

(* create finds that the name exists. *)
LEMMA ExistsLive ==
    ASSUME RefInv, RefInv', LiveInv, NEW p \in Procs, Exists(p)
    PROVE  LiveInv'
<1>1. PICK l \in Frame : /\ l = loc[p] /\ Holds(l) /\ Fit(l, p) /\ l.pc = "exists"
                         /\ l.path \in Seq(DirNames) /\ l.new.elems \in Seq(DirNames)
  BY Mine DEF Exists, At
<1>2. PICK e \in Entries : e = l.ip /\ Unlocked(e)
  BY <1>1, Targets DEF Exists, Holds, Goal, Iput
<1>3. PICK ic : ic = Ilock(icache, e)
  OBVIOUS
<1>4. /\ Inum(e) \in Inums /\ Born(Inum(e)) /\ icache[e].ref > 0 /\ ic \in [Entries -> Cached]
      /\ Same(icache, ic) /\ Reads(icache, ic, p, 0) /\ ic[e].valid
      /\ \A f \in Entries : ic[f].lock = icache[f].lock
  BY <1>1, <1>2, <1>3, IlockReads
<1>5. UNCHANGED <<disk, files>>
  BY DEF Exists
<1>6. l.dp = 0 /\ l.tgt = 0 /\ l.num = 0
  BY <1>1 DEF Holds, Goal, Iput
<1>7. \A f \in Entries : ~Keeps(l, f)
  BY <1>1, <1>6 DEF Keeps, Goal, Iput, Entries
<1>8. CacheStep(ic, p, 0) /\ NoDrop(icache, ic) /\ ic[e].inum = Inum(e)
  BY <1>4, SameCache DEF NoDrop, Same, Inum
<1>9. CASE icache' = Hold(ic, e, p) /\ Goto(p, "file")
  <2>1. PICK r : r = [l EXCEPT !.pc = "file"]
    OBVIOUS
  <2>2. /\ r.pc = "file" /\ r.dp = 0 /\ r.ip = e /\ r.tgt = 0 /\ r.path = l.path
        /\ r.new = l.new /\ Goal(r) = "file" /\ ~Linking(r)
    BY <1>2, <1>6, <2>1 DEF Frame, Goal, Iput, Linking
  <2>3. loc' = [loc EXCEPT ![p] = r]
    BY <1>1, <1>9, <2>1 DEF Goto
  <2>4. CacheStep(icache', p, e) /\ icache'[e].valid /\ icache'[e].inum = Inum(e)
    <3>1. ic[e].lock = Nobody
      BY <1>2, <1>4 DEF Unlocked
    <3>2. CacheStep(icache', p, e)
      BY <1>8, <1>9, <3>1, ThenHold
    <3> QED BY <1>4, <1>8, <1>9, <3>2 DEF Hold, Cached
  <2>5. Suits(r, p, icache')
    BY <1>1, <1>4, <2>2, <2>4 DEF Suits, SuitsPaths, SuitsLocks, SuitsPointers, SuitsInodes
  <2>6. Calm(loc[p], r) /\ OwesAsBefore(loc[p], r) /\ KeepsOn(loc[p], r, p, icache')
    BY <1>1, <1>7, <2>2 DEF Calm, OwesAsBefore, KeepsOn
  <2>7. Acquires(r, e, icache')
    BY <2>2, <2>4 DEF Acquires, Keeps
  <2>8. KeptIn(icache', fref', fip', cwd')
    BY <1>5, <2>4, KeptQuiet DEF files
  <2> QED BY <1>5, <2>3, <2>4, <2>5, <2>6, <2>7, <2>8, CalmStep
<1>10. CASE icache' = ic /\ loc' = [loc EXCEPT ![p] = Put(@, "ip", "idle")]
  <2>1. PICK r : r = Put(l, "ip", "idle")
    OBVIOUS
  <2>2. PutLeaves(r, l, "ip", "idle")
    BY <1>1, <2>1, PutFields DEF Labels
  <2>3. loc' = [loc EXCEPT ![p] = r]
    BY <1>1, <1>10, <2>1
  <2>4. Born(icache'[r.tgt].inum) /\ KeptIn(icache', fref', fip', cwd')
    BY <1>2, <1>4, <1>5, <1>8, <1>10, <2>2, KeptQuiet DEF PutLeaves, files
  <2>5. Calm(loc[p], r)
    BY <1>1, <2>2 DEF Calm, PutLeaves
  <2> QED BY <1>1, <1>5, <1>7, <1>8, <1>10, <2>2, <2>3, <2>4, <2>5, CalmEnd DEF PutLeaves
<1> QED BY <1>1, <1>2, <1>3, <1>9, <1>10 DEF Exists

(* ilock of dp, and iput as the last of the system call. *)
LEMMA DpEnd ==
    ASSUME RefInv, RefInv', LiveInv, NEW p \in Procs, loc[p].pc \in {"found", "parent"},
           loc[p].ip = 0, UNCHANGED <<disk, files>>, icache' = Ilock(icache, loc[p].dp),
           loc' = [loc EXCEPT ![p] = Put(@, "dp", "idle")]
    PROVE  LiveInv'
<1>1. PICK l \in Frame : /\ l = loc[p] /\ Holds(l) /\ l.pc \in {"found", "parent"} /\ l.ip = 0
                         /\ l.path \in Seq(DirNames) /\ l.new.elems \in Seq(DirNames)
  BY Mine
<1>2. PICK e \in Entries : e = l.dp
  BY <1>1, Targets DEF Holds, Goal, Iput
<1>3. PICK ic : ic = Ilock(icache, e) /\ icache' = ic
  BY <1>1, <1>2
<1>4. /\ Inum(e) \in Inums /\ Born(Inum(e)) /\ icache[e].ref > 0
      /\ Same(icache, ic) /\ Reads(icache, ic, p, 0)
  BY <1>1, <1>2, <1>3, IlockReads
<1>5. CacheStep(ic, p, 0) /\ ic[e].inum = Inum(e)
  BY <1>4, SameCache DEF Same, Inum
<1>6. \A f \in Entries : ~Keeps(l, f)
  BY <1>1 DEF Keeps, Goal, Iput, Entries
<1>7. PICK r : r = Put(l, "dp", "idle")
  OBVIOUS
<1>8. PutLeaves(r, l, "dp", "idle")
  BY <1>1, <1>7, PutFields DEF Labels
<1>9. loc' = [loc EXCEPT ![p] = r]
  BY <1>1, <1>7
<1>10. Born(icache'[r.tgt].inum) /\ KeptIn(icache', fref', fip', cwd')
  BY <1>2, <1>3, <1>4, <1>5, <1>8, KeptQuiet DEF PutLeaves, files
<1>11. Calm(loc[p], r)
  BY <1>1, <1>8 DEF Calm, PutLeaves
<1> QED BY <1>1, <1>3, <1>5, <1>6, <1>8, <1>9, <1>10, <1>11, CalmEnd DEF PutLeaves

(* open locks what namei found. *)
LEMMA OpenLockLive ==
    ASSUME RefInv, RefInv', LiveInv, NEW p \in Procs, OpenLock(p)
    PROVE  LiveInv'
<1>1. PICK l \in Frame : /\ l = loc[p] /\ Holds(l) /\ Fit(l, p) /\ l.pc = "found"
                         /\ l.path \in Seq(DirNames) /\ l.new.elems \in Seq(DirNames)
  BY Mine DEF OpenLock, InCall
<1>2. PICK e \in Entries : e = l.dp /\ Unlocked(e)
  BY <1>1, Targets DEF OpenLock, Holds, Goal, Iput
<1>3. PICK ic : ic = Ilock(icache, e)
  OBVIOUS
<1>4. /\ Inum(e) \in Inums /\ Born(Inum(e)) /\ icache[e].ref > 0 /\ ic \in [Entries -> Cached]
      /\ Same(icache, ic) /\ Reads(icache, ic, p, 0) /\ ic[e].valid
      /\ \A f \in Entries : ic[f].lock = icache[f].lock
  BY <1>1, <1>2, <1>3, IlockReads
<1>5. UNCHANGED <<disk, files>>
  BY DEF OpenLock
<1>6. l.ip = 0 /\ l.tgt = 0 /\ l.num = 0
  BY <1>1 DEF Holds, Goal, Iput
<1>7. \A f \in Entries : ~Keeps(l, f)
  BY <1>1, <1>6 DEF Keeps, Goal, Iput, Entries
<1>8. CASE /\ icache' = Hold(ic, e, p)
           /\ loc' = [loc EXCEPT ![p].pc = "file", ![p].ip = e, ![p].dp = 0]
  <2>1. PICK r : r = [l EXCEPT !.pc = "file", !.ip = e, !.dp = 0]
    OBVIOUS
  <2>2. /\ r.pc = "file" /\ r.dp = 0 /\ r.ip = e /\ r.tgt = 0 /\ r.path = l.path
        /\ r.new = l.new /\ Goal(r) = "file" /\ ~Linking(r)
    BY <1>6, <2>1 DEF Frame, Goal, Iput, Linking
  <2>3. loc' = [loc EXCEPT ![p] = r]
    BY <1>1, <1>8, <2>1, FrameOf
  <2>4. CacheStep(icache', p, e) /\ icache'[e].valid /\ icache'[e].inum = Inum(e)
    <3>1. ic[e].lock = Nobody
      BY <1>2, <1>4 DEF Unlocked
    <3>2. CacheStep(ic, p, 0) /\ NoDrop(icache, ic) /\ ic[e].inum = Inum(e)
      BY <1>4, SameCache DEF NoDrop, Same, Inum
    <3>3. CacheStep(icache', p, e)
      BY <1>8, <3>1, <3>2, ThenHold
    <3> QED BY <1>4, <1>8, <3>2, <3>3 DEF Hold, Cached
  <2>5. Suits(r, p, icache')
    BY <1>1, <1>4, <2>2, <2>4 DEF Suits, SuitsPaths, SuitsLocks, SuitsPointers, SuitsInodes
  <2>6. Calm(loc[p], r) /\ OwesAsBefore(loc[p], r) /\ KeepsOn(loc[p], r, p, icache')
    BY <1>1, <1>7, <2>2 DEF Calm, OwesAsBefore, KeepsOn
  <2>7. Acquires(r, e, icache')
    BY <2>2, <2>4 DEF Acquires, Keeps
  <2>8. KeptIn(icache', fref', fip', cwd')
    BY <1>5, <2>4, KeptQuiet DEF files
  <2> QED BY <1>5, <2>3, <2>4, <2>5, <2>6, <2>7, <2>8, CalmStep
<1>9. CASE icache' = ic /\ loc' = [loc EXCEPT ![p] = Put(@, "dp", "idle")]
  BY <1>1, <1>2, <1>3, <1>5, <1>6, <1>9, DpEnd
<1> QED BY <1>1, <1>2, <1>3, <1>8, <1>9 DEF OpenLock

(* The lock of ip is released. *)
LEMMA IpUnlocks ==
    ASSUME RefInv, LiveInv, NEW p \in Procs, loc[p].pc = "file",
           icache' = Iunlock(icache, loc[p].ip, p)
    PROVE  /\ loc[p].ip \in Entries /\ Born(Inum(loc[p].ip))
           /\ CacheStep(icache', p, 0) /\ icache'[loc[p].ip].inum = Inum(loc[p].ip)
           /\ \A f \in Entries : icache'[f].lock # p \/ ~Keeps(loc[p], f)
<1>1. PICK e \in Entries : e = loc[p].ip /\ Born(Inum(e))
  BY Mine, Targets DEF Holds, Goal, Iput, Fit, FitPointers
<1>2. icache \in [Entries -> Cached] /\ icache' = Iunlock(icache, e, p)
  BY <1>1, Mine
<1>3. Reads(icache, icache', p, 0) /\ Same(icache, icache') /\ icache'[e].lock # p
  BY <1>2, ReadsOps, SameSteps
<1>4. CacheStep(icache', p, 0) /\ icache'[e].inum = Inum(e)
  BY <1>3, SameCache DEF Same, Inum
<1>5. \A f \in Entries : icache'[f].lock # p \/ ~Keeps(loc[p], f)
  BY <1>1, <1>3 DEF Keeps, Goal, Iput
<1> QED BY <1>1, <1>4, <1>5

(* The frame of a process in user space. *)
LEMMA IdleSuits ==
    ASSUME NEW r, NEW p, NEW jc, r.pc = "idle", r.dp = 0, r.ip = 0, r.tgt = 0,
           r.path \in Seq(DirNames), r.new.elems \in Seq(DirNames)
    PROVE  Suits(r, p, jc)
BY DEF Suits, SuitsPaths, SuitsLocks, SuitsPointers, SuitsInodes, Goal, Iput

(* The frame of a process that is in no call. *)
LEMMA IdleFrame ==
    /\ Idle.pc = "idle" /\ Idle.dp = 0 /\ Idle.ip = 0 /\ Idle.tgt = 0
    /\ Idle.path \in Seq(DirNames) /\ Idle.new.elems \in Seq(DirNames)
<1>1. <<>> \in Seq(DirNames)
  OBVIOUS
<1>2. Idle.path = <<>> /\ Idle.new.elems = <<>>
  BY DEF Idle, NoPath
<1> QED BY <1>1, <1>2 DEF Idle

(* open gets its file and its descriptor. *)
LEMMA OpenFileLive ==
    ASSUME RefInv, RefInv', LiveInv, NEW p \in Procs, OpenFile(p)
    PROVE  LiveInv'
<1>1. /\ loc[p].ip \in Entries /\ Born(Inum(loc[p].ip))
      /\ CacheStep(icache', p, 0) /\ icache'[loc[p].ip].inum = Inum(loc[p].ip)
      /\ \A f \in Entries : icache'[f].lock # p \/ ~Keeps(loc[p], f)
  BY IpUnlocks DEF OpenFile, At
<1>2. PICK r : r = Idle
  OBVIOUS
<1>3. loc' = [loc EXCEPT ![p] = r] /\ UNCHANGED disk
  BY <1>2 DEF OpenFile
<1>4. Suits(r, p, icache')
  BY <1>2, IdleFrame, IdleSuits
<1>5. Calm(loc[p], r) /\ OwesAsBefore(loc[p], r) /\ KeepsOn(loc[p], r, p, icache')
  BY <1>1, <1>2, IdleFrame DEF Calm, OwesAsBefore, KeepsOn, OpenFile, At
<1>6. Acquires(r, 0, icache')
  BY DEF Acquires, Entries
<1>7. KeptIn(icache', fref', fip', cwd')
  <2>1. KeptIn(icache', fref, fip, cwd)
    BY <1>1, KeptQuiet
  <2>2. PICK f \in Files : fref' = [fref EXCEPT ![f] = 1] /\ fip' = [fip EXCEPT ![f] = loc[p].ip]
    BY DEF OpenFile, FreeFiles, Lowest
  <2>3. UNCHANGED cwd
    BY DEF OpenFile
  <2>4. fref \in [Files -> Nat] /\ fip \in [Files -> Entries \cup {0}]
    BY DEF RefInv, Shapes, FileShapes
  <2>5. \A g \in Files : g # f => fref'[g] = fref[g] /\ fip'[g] = fip[g]
    BY <2>2, <2>4
  <2>6. fip'[f] = loc[p].ip
    BY <2>2, <2>4
  <2> QED BY <1>1, <2>1, <2>3, <2>5, <2>6 DEF KeptIn
<1> QED BY <1>1, <1>3, <1>4, <1>5, <1>6, <1>7, CalmStep

(* open finds the tables full. *)
LEMMA OpenFailsLive ==
    ASSUME RefInv, RefInv', LiveInv, NEW p \in Procs, OpenFails(p)
    PROVE  LiveInv'
<1>1. /\ loc[p].ip \in Entries /\ Born(Inum(loc[p].ip))
      /\ CacheStep(icache', p, 0) /\ icache'[loc[p].ip].inum = Inum(loc[p].ip)
      /\ \A f \in Entries : icache'[f].lock # p \/ ~Keeps(loc[p], f)
  BY IpUnlocks DEF OpenFails, At
<1>2. PICK l \in Frame : /\ l = loc[p] /\ l.pc = "file"
                         /\ l.path \in Seq(DirNames) /\ l.new.elems \in Seq(DirNames)
  BY Mine DEF OpenFails, At
<1>3. PICK r : r = Put(l, "ip", "idle")
  OBVIOUS
<1>4. PutLeaves(r, l, "ip", "idle")
  BY <1>2, <1>3, PutFields DEF Labels
<1>5. loc' = [loc EXCEPT ![p] = r] /\ UNCHANGED <<disk, files>>
  BY <1>2, <1>3 DEF OpenFails, GiveUp
<1>6. Born(icache'[r.tgt].inum) /\ KeptIn(icache', fref', fip', cwd')
  BY <1>1, <1>2, <1>4, <1>5, KeptQuiet DEF PutLeaves, files
<1>7. Calm(loc[p], r)
  BY <1>2, <1>4 DEF Calm, PutLeaves
<1> QED BY <1>1, <1>4, <1>5, <1>6, <1>7, CalmEnd DEF PutLeaves

(* unlink looks its name up. *)
LEMMA UnlinkLookLive ==
    ASSUME RefInv, RefInv', LiveInv, NEW p \in Procs, UnlinkLook(p)
    PROVE  LiveInv'
<1>1. PICK l \in Frame : /\ l = loc[p] /\ Holds(l) /\ Fit(l, p) /\ l.pc = "parent"
                         /\ l.path \in Seq(DirNames) /\ l.new.elems \in Seq(DirNames)
                         /\ l.call = "unlink"
  BY Mine DEF UnlinkLook, InCall
<1>2. PICK e \in Entries : e = l.dp /\ Unlocked(e) /\ icache[e].ref > 0
  BY <1>1, Targets DEF UnlinkLook, Holds, Goal, Iput
<1>3. PICK ic : ic = Ilock(icache, e)
  OBVIOUS
<1>4. Inum(e) \in Inums /\ Born(Inum(e))
  BY <1>1, <1>2, IlockReads
<1>5. UNCHANGED <<disk, files>>
  BY DEF UnlinkLook
<1>6. l.path # <<>> /\ l.tgt = 0 /\ l.num = 0 /\ l.ip = 0
  BY <1>1 DEF Holds, Goal, Iput
<1>7. \A f \in Entries : ~Keeps(l, f)
  BY <1>1, <1>6 DEF Keeps, Goal, Iput, Entries
<1>8. PICK n \in DirNames : n = Name(p) /\ n = Head(l.path)
  BY <1>1, <1>6 DEF Name
<1>9. PICK i : i = Lookup(e, n)
  OBVIOUS
<1>10. CASE icache' = ic /\ loc' = [loc EXCEPT ![p] = Put(@, "dp", "idle")]
  BY <1>1, <1>2, <1>3, <1>5, <1>6, <1>10, DpEnd
<1>11. ASSUME NEW x \in Slot(i), i # 0, n \notin {".", ".."}, icache' = Hold(Iget(ic, x, i), e, p),
              loc' = [loc EXCEPT ![p].pc = "unlink", ![p].ip = x]
       PROVE  LiveInv'
  <2>1. PICK jc : jc = Iget(ic, x, i) /\ LookupGot(p, e, x, i, jc)
    <3>1. Upward(e, n)
      BY <1>11 DEF Upward
    <3> QED BY <1>1, <1>2, <1>3, <1>9, <1>11, <3>1, LookupGets
  <2>2. CacheStep(icache', p, e)
    BY <1>2, <1>11, <2>1, ThenHold DEF LookupGot, Unlocked
  <2>3. /\ icache'[e].lock = p /\ icache'[e].valid /\ icache'[e].inum = Inum(e)
        /\ icache'[x].inum = i /\ x \in Entries /\ Born(i) /\ i \in Inums
    <3>1. jc \in [Entries -> Cached]
      BY <2>1 DEF LookupGot, CacheStep
    <3>2. jc[e].valid /\ jc[e].inum = Inum(e) /\ jc[x].inum = i /\ x \in Entries /\ Born(i) /\ i \in Inums
      BY <1>2, <2>1 DEF LookupGot
    <3>3. icache' = Hold(jc, e, p)
      BY <1>11, <2>1
    <3> QED BY <3>1, <3>2, <3>3 DEF Hold, Cached
  <2>4. PICK r : r = [l EXCEPT !.pc = "unlink", !.ip = x]
    OBVIOUS
  <2>5. /\ r.pc = "unlink" /\ r.dp = e /\ r.ip = x /\ r.tgt = 0 /\ r.path = l.path
        /\ r.new = l.new /\ r.call = "unlink" /\ Goal(r) = "unlink" /\ ~Linking(r)
    BY <1>1, <1>2, <1>6, <2>4 DEF Frame, Goal, Iput, Linking
  <2>6. loc' = [loc EXCEPT ![p] = r]
    BY <1>1, <1>11, <2>4, FrameOf
  <2>7. Suits(r, p, icache')
    <3>1. n \in Names
      BY <1>11 DEF DirNames
    <3>2. SuitsPaths(r, icache') /\ SuitsLocks(r, p, icache')
      BY <1>1, <1>8, <2>3, <2>5, <3>1 DEF SuitsPaths, SuitsLocks
    <3>3. SuitsPointers(r, icache')
      BY <1>4, <2>3, <2>5 DEF SuitsPointers
    <3>4. entry[Inum(e)][n] = i
      BY <1>9 DEF Lookup, Dir, Inum
    <3>5. SuitsInodes(r, icache')
      BY <1>8, <2>3, <2>5, <3>4 DEF SuitsInodes
    <3> QED BY <3>2, <3>3, <3>5 DEF Suits
  <2>8. Calm(loc[p], r) /\ OwesAsBefore(loc[p], r) /\ KeepsOn(loc[p], r, p, icache')
    BY <1>1, <1>7, <2>5 DEF Calm, OwesAsBefore, KeepsOn
  <2>9. Acquires(r, e, icache')
    BY <2>3, <2>5 DEF Acquires, Keeps
  <2>10. KeptIn(icache', fref', fip', cwd')
    BY <1>5, <2>2, KeptQuiet DEF files
  <2> QED BY <1>5, <2>2, <2>6, <2>7, <2>8, <2>9, <2>10, CalmStep
<1>12. \/ icache' = ic /\ loc' = [loc EXCEPT ![p] = Put(@, "dp", "idle")]
       \/ /\ n \notin {".", ".."} /\ i # 0
          /\ \E x \in Slot(i) :
                /\ icache' = Hold(Iget(ic, x, i), e, p)
                /\ loc' = [loc EXCEPT ![p].pc = "unlink", ![p].ip = x]
  BY <1>1, <1>2, <1>3, <1>8, <1>9 DEF UnlinkLook
<1> QED BY <1>10, <1>11, <1>12

(* unlink of a directory that has names in it *)
LEMMA UnlinkFullLive ==
    ASSUME RefInv, RefInv', LiveInv, NEW p \in Procs, loc[p].pc = "unlink",
           UNCHANGED <<disk, files>>, icache' = Ilock(icache, loc[p].ip),
           loc' = [loc EXCEPT ![p] = Put(@, "ip", "putdp")]
    PROVE  LiveInv'
<1>1. PICK l \in Frame : /\ l = loc[p] /\ Holds(l) /\ Fit(l, p) /\ l.pc = "unlink"
                         /\ l.path \in Seq(DirNames) /\ l.new.elems \in Seq(DirNames)
  BY Mine
<1>2. PICK e \in Entries : e = l.ip
  BY <1>1, Targets DEF Holds, Goal, Iput
<1>3. PICK ic : ic = Ilock(icache, e) /\ icache' = ic
  BY <1>1, <1>2
<1>4. /\ Inum(e) \in Inums /\ Born(Inum(e)) /\ icache[e].ref > 0
      /\ Same(icache, ic) /\ Reads(icache, ic, p, 0)
  BY <1>1, <1>2, <1>3, IlockReads
<1>5. CacheStep(ic, p, 0) /\ ic[e].inum = Inum(e)
  BY <1>4, SameCache DEF Same, Inum
<1>6. l.dp \in Entries /\ ic[l.dp].inum = Inum(l.dp) /\ Born(Inum(l.dp)) /\ l.dp # 0
  <2>1. l.dp \in Entries /\ Born(Inum(l.dp)) /\ l.dp # 0
    BY <1>1, Targets DEF Holds, Goal, Iput, Fit, FitPointers
  <2> QED BY <1>4, <2>1 DEF Same, Inum
<1>7. PICK r : r = Put(l, "ip", "putdp")
  OBVIOUS
<1>8. PutLeaves(r, l, "ip", "putdp")
  BY <1>1, <1>7, PutFields DEF Labels
<1>9. loc' = [loc EXCEPT ![p] = r]
  BY <1>1, <1>7
<1>10. /\ r.pc = "put" /\ r.then = "putdp" /\ r.dp = l.dp /\ r.ip = 0 /\ r.tgt = e
       /\ r.path \in Seq(DirNames) /\ r.new.elems \in Seq(DirNames) /\ Goal(r) = "putdp"
  BY <1>2, <1>8 DEF PutLeaves, Goal, Iput
<1>11. Suits(r, p, icache')
  BY <1>3, <1>4, <1>5, <1>6, <1>10, PutSuits
<1>12. Calm(loc[p], r) /\ OwesAsBefore(loc[p], r)
  BY <1>1, <1>10 DEF Calm, OwesAsBefore
<1>13. KeepsOn(loc[p], r, p, icache')
  BY <1>1, <1>10 DEF KeepsOn, Keeps, Goal, Iput
<1> QED BY <1>3, <1>5, <1>9, <1>11, <1>12, <1>13, CalmCall

(* link to a name that exists *)
LEMMA LinkExistsLive ==
    ASSUME Careful, RefInv, RefInv', LiveInv, NEW p \in Procs, InCall(p, "parent", "link"),
           Unlocked(loc[p].dp), NEW i, i = Lookup(loc[p].dp, Name(p)), i # 0,
           NEW x \in Slot(i), icache' = Hold(Iget(Ilock(icache, loc[p].dp), x, i), loc[p].dp, p),
           loc' = [loc EXCEPT ![p].pc = "put", ![p].tgt = x, ![p].then = "putdp"],
           UNCHANGED <<disk, files>>
    PROVE  LiveInv'
<1>1. PICK l \in Frame : /\ l = loc[p] /\ Holds(l) /\ Fit(l, p) /\ l.pc = "parent"
                         /\ l.path \in Seq(DirNames) /\ l.new.elems \in Seq(DirNames)
                         /\ l.call = "link"
  BY Mine DEF InCall
<1>2. PICK e \in Entries : e = l.dp /\ Unlocked(e) /\ icache[e].ref > 0
  BY <1>1, Targets DEF Holds, Goal, Iput
<1>3. Inum(e) \in Inums /\ Born(Inum(e))
  BY <1>1, <1>2, IlockReads
<1>4. l.path # <<>> /\ l.tgt = 0 /\ l.num = 0
  BY <1>1 DEF Holds, Goal, Iput
<1>5. PICK n \in DirNames : n = Name(p) /\ n = Head(l.path)
  BY <1>1, <1>4 DEF Name
<1>6. PICK jc : jc = Iget(Ilock(icache, e), x, i) /\ LookupGot(p, e, x, i, jc)
  <2>1. Upward(e, n)
    BY <1>1, <1>2, <1>5 DEF Careful, Upward, Fit, FitInodes
  <2> QED BY <1>1, <1>2, <1>5, <2>1, LookupGets
<1>7. icache' = Hold(jc, e, p)
  BY <1>1, <1>2, <1>6
<1>8. CacheStep(icache', p, e)
  BY <1>2, <1>6, <1>7, ThenHold DEF LookupGot, Unlocked
<1>9. /\ icache'[e].lock = p /\ icache'[e].valid /\ icache'[e].inum = Inum(e)
      /\ icache'[x].inum = i /\ x \in Entries /\ Born(i) /\ i \in Inums
      /\ \A f \in Entries : icache[f].ref > 0 => icache'[f].inum = Inum(f)
  <2>1. jc \in [Entries -> Cached]
    BY <1>6 DEF LookupGot, CacheStep
  <2>2. /\ jc[e].valid /\ jc[e].inum = Inum(e) /\ jc[x].inum = i /\ x \in Entries /\ Born(i) /\ i \in Inums
        /\ \A f \in Entries : icache[f].ref > 0 => jc[f].inum = Inum(f)
    BY <1>2, <1>6 DEF LookupGot
  <2> QED BY <1>7, <2>1, <2>2 DEF Hold, Cached
<1>10. PICK r : r = [l EXCEPT !.pc = "put", !.tgt = x, !.then = "putdp"]
  OBVIOUS
<1>11. /\ r.pc = "put" /\ r.then = "putdp" /\ r.dp = e /\ r.ip = l.ip /\ r.tgt = x
       /\ r.path = l.path /\ r.new = l.new /\ r.call = "link" /\ Goal(r) = "putdp"
  BY <1>1, <1>2, <1>10 DEF Frame, Goal, Iput
<1>12. loc' = [loc EXCEPT ![p] = r]
  BY <1>1, <1>10, FrameOf
<1>13. Linking(l) /\ (l.ip # 0 => /\ l.ip \in Entries /\ icache[l.ip].ref > 0
                                  /\ Born(Inum(l.ip)) /\ dinode[Inum(l.ip)].type # "dir")
  BY <1>1, Targets DEF Linking, Goal, Iput, Fit, FitPointers, FitInodes
<1>14. Suits(r, p, icache')
  BY <1>1, <1>3, <1>9, <1>11, <1>13, PutSuits
<1>15. Calm(loc[p], r) /\ OwesAsBefore(loc[p], r)
  BY <1>1, <1>11, <1>13 DEF Calm, OwesAsBefore
<1>16. KeepsOn(loc[p], r, p, icache')
  BY <1>1 DEF KeepsOn, Keeps, Goal, Iput
<1>17. Acquires(r, e, icache')
  BY <1>9, <1>11 DEF Acquires, Keeps
<1>18. KeptIn(icache', fref', fip', cwd')
  BY <1>8, KeptQuiet DEF files
<1> QED BY <1>8, <1>12, <1>14, <1>15, <1>16, <1>17, <1>18, CalmStep

(* chdir takes the directory it found. *)
LEMMA ChdirLive ==
    ASSUME RefInv, RefInv', LiveInv, NEW p \in Procs, Chdir(p)
    PROVE  LiveInv'
<1>1. PICK l \in Frame : /\ l = loc[p] /\ Holds(l) /\ Fit(l, p) /\ l.pc = "found"
                         /\ l.path \in Seq(DirNames) /\ l.new.elems \in Seq(DirNames)
  BY Mine DEF Chdir, InCall
<1>2. PICK e \in Entries : e = l.dp
  BY <1>1, Targets DEF Chdir, Holds, Goal, Iput
<1>3. PICK ic : ic = Ilock(icache, e) /\ icache' = ic
  BY <1>1, <1>2 DEF Chdir
<1>4. /\ Inum(e) \in Inums /\ Born(Inum(e)) /\ icache[e].ref > 0
      /\ Same(icache, ic) /\ Reads(icache, ic, p, 0)
  BY <1>1, <1>2, <1>3, IlockReads
<1>5. CacheStep(icache', p, 0)
  BY <1>3, <1>4, SameCache
<1>6. l.ip = 0 /\ l.tgt = 0
  BY <1>1 DEF Holds, Goal, Iput
<1>7. \A f \in Entries : ~Keeps(l, f)
  BY <1>1, <1>6 DEF Keeps, Goal, Iput, Entries
<1>8. UNCHANGED <<disk, fref, fip, ofile>>
  BY DEF Chdir
<1>9. CASE loc' = [loc EXCEPT ![p] = Put(@, "dp", "idle")] /\ UNCHANGED cwd
  <2>1. UNCHANGED files
    BY <1>8, <1>9 DEF files
  <2> QED BY <1>1, <1>2, <1>3, <1>6, <1>8, <1>9, <2>1, DpEnd
<1>10. CASE /\ cwd' = [cwd EXCEPT ![p] = e]
            /\ loc' = [loc EXCEPT ![p] = Put([@ EXCEPT !.dp = cwd[p]], "dp", "idle")]
  <2>1. PICK c \in Entries : c = cwd[p] /\ icache[c].ref > 0 /\ Born(Inum(c))
    BY Targets DEF LiveInv, KeptAlive
  <2>2. PICK k \in Frame : k = [l EXCEPT !.dp = c]
    BY DEF Frame
  <2>3. k.dp = c /\ k.path = l.path /\ k.new = l.new
    BY <2>2 DEF Frame
  <2>4. PICK r : r = Put(k, "dp", "idle")
    OBVIOUS
  <2>5. PutLeaves(r, k, "dp", "idle")
    BY <1>1, <2>3, <2>4, PutFields DEF Labels
  <2>6. loc' = [loc EXCEPT ![p] = r]
    BY <1>1, <1>10, <2>1, <2>2, <2>4
  <2>7. \A f \in Entries : icache[f].ref > 0 => icache'[f].inum = Inum(f)
    BY <1>5 DEF CacheStep, Reads, Inum
  <2>8. Born(icache'[r.tgt].inum)
    BY <2>1, <2>3, <2>5, <2>7 DEF PutLeaves
  <2>9. KeptIn(icache', fref', fip', cwd')
    <3>1. KeptIn(icache', fref, fip, cwd)
      BY <1>5, KeptQuiet
    <3>2. \A q \in Procs : cwd'[q] = IF q = p THEN e ELSE cwd[q]
      BY <1>10 DEF RefInv, Shapes, FileShapes
    <3>3. Born(icache'[e].inum)
      BY <1>4, <2>7
    <3> QED BY <1>8, <3>1, <3>2, <3>3 DEF KeptIn
  <2>10. Calm(loc[p], r)
    BY <1>1, <2>5 DEF Calm, PutLeaves
  <2> QED BY <1>1, <1>5, <1>7, <1>8, <2>5, <2>6, <2>8, <2>9, <2>10, CalmEnd DEF PutLeaves
<1> QED BY <1>1, <1>2, <1>3, <1>9, <1>10 DEF Chdir

(* A step in user space *)
LEMMA CalmIdle ==
    ASSUME RefInv, RefInv', LiveInv, NEW p \in Procs, loc[p].pc = "idle",
           UNCHANGED <<disk, loc>>, CacheStep(icache', p, 0), KeptIn(icache', fref', fip', cwd')
    PROVE  LiveInv'
<1>1. PICK l \in Frame : /\ l = loc[p] /\ Holds(l) /\ l.pc = "idle"
                         /\ l.path \in Seq(DirNames) /\ l.new.elems \in Seq(DirNames)
  BY Mine
<1>2. l.dp = 0 /\ l.ip = 0 /\ l.tgt = 0
  BY <1>1 DEF Holds, Goal, Iput
<1>3. loc' = [loc EXCEPT ![p] = l]
  BY <1>1, FrameOf DEF RefInv, Shapes
<1>4. Suits(l, p, icache')
  BY <1>1, <1>2, IdleSuits
<1>5. Calm(loc[p], l) /\ OwesAsBefore(loc[p], l) /\ KeepsOn(loc[p], l, p, icache')
  BY <1>1, <1>2 DEF Calm, OwesAsBefore, KeepsOn
<1>6. Acquires(l, 0, icache')
  BY DEF Acquires, Entries
<1> QED BY <1>3, <1>4, <1>5, <1>6, CalmStep

(* The cache as it is *)
LEMMA StillCache ==
    ASSUME RefInv, LiveInv, NEW p \in Procs, UNCHANGED icache
    PROVE  CacheStep(icache', p, 0)
<1>1. Reads(icache, icache', p, 0) /\ Same(icache, icache')
  BY Mine DEF Reads
<1> QED BY <1>1, SameCache

(* A descriptor is closed. *)
LEMMA CloseLive ==
    ASSUME RefInv, RefInv', LiveInv, NEW p \in Procs, NEW d \in Fds, Close(p, d)
    PROVE  LiveInv'
<1>1. PICK f \in Files : f = ofile[p][d] /\ fref[f] > 0 /\ fip[f] \in Entries
  BY OpenPointed DEF Close
<1>2. CacheStep(icache', p, 0) /\ UNCHANGED <<disk, icache, fip, cwd>>
  BY StillCache DEF Close
<1>3. \A g \in Files : fref'[g] > 0 => fref[g] > 0
  <2>1. fref \in [Files -> Nat] /\ fref' = [fref EXCEPT ![f] = @ - 1]
    BY <1>1 DEF RefInv, Shapes, FileShapes, Close
  <2> QED BY <1>1, <2>1
<1>4. KeptIn(icache', fref', fip', cwd')
  <2>1. KeptIn(icache', fref, fip, cwd)
    BY <1>2, KeptQuiet
  <2> QED BY <1>2, <1>3, <2>1 DEF KeptIn
<1>5. loc[p].pc = "idle"
  BY DEF Close, At
<1>6. CASE UNCHANGED loc
  BY <1>2, <1>4, <1>5, <1>6, CalmIdle
<1>7. CASE loc' = [loc EXCEPT ![p] = Put([@ EXCEPT !.ip = fip[f]], "ip", "idle")]
  <2>1. PICK l \in Frame : /\ l = loc[p] /\ l.pc = "idle"
                           /\ l.path \in Seq(DirNames) /\ l.new.elems \in Seq(DirNames)
    BY <1>5, Mine
  <2>2. PICK k \in Frame : k = [l EXCEPT !.ip = fip[f]]
    BY <1>1 DEF Frame
  <2>3. k.ip = fip[f] /\ k.path = l.path /\ k.new = l.new
    BY <2>2 DEF Frame
  <2>4. PICK r : r = Put(k, "ip", "idle")
    OBVIOUS
  <2>5. PutLeaves(r, k, "ip", "idle")
    BY <2>1, <2>3, <2>4, PutFields DEF Labels
  <2>6. loc' = [loc EXCEPT ![p] = r]
    BY <1>7, <2>1, <2>2, <2>4
  <2>7. Born(icache'[r.tgt].inum)
    BY <1>1, <1>2, <2>3, <2>5 DEF PutLeaves, LiveInv, KeptAlive, Inum
  <2>8. \A g \in Entries : ~Keeps(loc[p], g)
    BY <1>5 DEF Keeps, Goal, Iput
  <2>9. Calm(loc[p], r)
    BY <1>5, <2>5 DEF Calm, PutLeaves
  <2> QED BY <1>2, <1>4, <2>5, <2>6, <2>7, <2>8, <2>9, CalmEnd DEF PutLeaves
<1> QED BY <1>1, <1>6, <1>7 DEF Close

(* A descriptor is duplicated. *)
LEMMA DupLive ==
    ASSUME RefInv, RefInv', LiveInv, NEW p \in Procs, NEW d \in Fds, Dup(p, d)
    PROVE  LiveInv'
<1>1. PICK f \in Files : f = ofile[p][d] /\ fref[f] > 0
  BY OpenPointed DEF Dup
<1>2. CacheStep(icache', p, 0) /\ UNCHANGED <<disk, icache, fip, cwd, loc>>
  BY StillCache DEF Dup
<1>3. \A g \in Files : fref'[g] > 0 => fref[g] > 0
  <2>1. fref \in [Files -> Nat] /\ fref' = [fref EXCEPT ![f] = @ + 1]
    BY <1>1 DEF RefInv, Shapes, FileShapes, Dup, Filedup
  <2> QED BY <1>1, <2>1
<1>4. KeptIn(icache', fref', fip', cwd')
  <2>1. KeptIn(icache', fref, fip, cwd)
    BY <1>2, KeptQuiet
  <2> QED BY <1>2, <1>3, <2>1 DEF KeptIn
<1> QED BY <1>2, <1>4, CalmIdle DEF Dup, At

(* ilock of the inode of an open file *)
LEMMA FileReads ==
    ASSUME RefInv, LiveInv, NEW p \in Procs, NEW d \in Fds, ofile[p][d] # 0, NEW e,
           e = fip[ofile[p][d]]
    PROVE  /\ e \in Entries /\ Inum(e) \in Inums /\ Born(Inum(e)) /\ icache[e].ref > 0
           /\ Same(icache, Ilock(icache, e)) /\ Reads(icache, Ilock(icache, e), p, 0)
           /\ Ilock(icache, e)[e].valid
<1>1. /\ ofile[p][d] \in Files /\ fref[ofile[p][d]] > 0
      /\ e \in Entries /\ icache[e].ref > 0 /\ icache[e].inum \in Inums
  BY OpenPointed
<1>2. Born(Inum(e)) /\ dinode[icache[e].inum].type # "none"
  BY <1>1 DEF LiveInv, KeptAlive, Born, Inum
<1>3. icache \in [Entries -> Cached] /\ dinode \in [Inums -> AnyDinode] /\ icache[e].inum # 0
  BY <1>1, InodeAssumption DEF RefInv, Shapes, DiskShapes
<1>4. Same(icache, Ilock(icache, e))
  BY <1>1, <1>3, SameSteps
<1>5. Reads(icache, Ilock(icache, e), p, 0) /\ Ilock(icache, e)[e].valid
  BY <1>1, <1>2, <1>3, ReadsOps
<1> QED BY <1>1, <1>2, <1>4, <1>5 DEF Inum

(* A file is read. *)
LEMMA ReadLive ==
    ASSUME RefInv, RefInv', LiveInv, NEW p \in Procs, NEW d \in Fds, Read(p, d)
    PROVE  LiveInv'
<1>1. ofile[p][d] # 0 /\ loc[p].pc = "idle" /\ UNCHANGED <<disk, files, loc>>
  BY DEF Read, At
<1>2. PICK e : e = fip[ofile[p][d]] /\ icache' = Ilock(icache, e)
  BY DEF Read
<1>3. CacheStep(icache', p, 0)
  BY <1>1, <1>2, FileReads, SameCache
<1>4. KeptIn(icache', fref', fip', cwd')
  BY <1>1, <1>3, KeptQuiet DEF files
<1> QED BY <1>1, <1>3, <1>4, CalmIdle

----------------------------------------------------------------------------
(* Steps that change the disk *)

(* Process p turns the cache into jc, and changes the inodes of entries X  *)
(* in it and on disk.                                                      *)
Mentions(p, f) ==
    \/ f \in {loc[p].dp, loc[p].ip}
    \/ \E g \in Files : fref[g] > 0 /\ fip[g] = f
Updates(p, X, jc) ==
    /\ X \subseteq Entries
    /\ \A f \in Entries : /\ icache'[f].ref = jc[f].ref /\ icache'[f].inum = jc[f].inum
                          /\ icache'[f].lock = jc[f].lock
    /\ \A f \in Entries \ X : icache'[f].valid = jc[f].valid /\ icache'[f].copy = jc[f].copy
    /\ \A f \in X : /\ icache[f].ref > 0 /\ jc[f].ref > 0 /\ icache'[f].valid
                    /\ icache'[f].copy = dinode'[Inum(f)] /\ dinode'[Inum(f)].type # "none"
                    /\ Mentions(p, f) /\ (Born(Inum(f)) \/ Bears(loc[p], Inum(f)))
    /\ \A i \in Inums : (\A f \in X : Inum(f) # i) => dinode'[i] = dinode[i]

(* The cache follows what iupdate writes. *)
LEMMA UpdateCache ==
    ASSUME RefInv, RefInv', LiveInv, NEW p \in Procs, NEW r, NEW X, NEW jc, NEW a,
           loc' = [loc EXCEPT ![p] = r], CacheStep(jc, p, a), Updates(p, X, jc),
           OwnLocks(p, r), loc[p].pc # "invalidate"
    PROVE  Step(p, r) /\ CacheInv' /\ BirthsKept(p) /\ DeathsKept(p)
<1>0. Reads(icache, jc, p, a) /\ OneIn(jc) /\ Spares(jc, p) /\ jc \in [Entries -> Cached]
  BY DEF CacheStep
<1>1. \A f \in Entries : /\ icache'[f].ref = jc[f].ref /\ icache'[f].inum = jc[f].inum
                         /\ icache'[f].lock = jc[f].lock
  BY DEF Updates
<1>2. Step(p, r)
  BY <1>0, <1>1 DEF Step, Reads
<1>3. OneIn(icache')
  BY <1>0, <1>1 DEF OneIn
<1>4. ValidKept(p)
  <2> SUFFICES ASSUME NEW f \in Entries, icache[f].lock \in Procs \ {p} PROVE icache'[f].valid
    BY DEF ValidKept
  <2>1. icache[f].valid /\ Keeps(loc[icache[f].lock], f)
    BY InodeAssumption DEF LiveInv, CacheInv, LockKept
  <2>2. icache[f].ref > 0
    <3>1. PICK q \in Procs : q = icache[f].lock
      OBVIOUS
    <3>2. f \in {loc[q].dp, loc[q].ip, loc[q].tgt}
      BY <2>1, <3>1 DEF Keeps
    <3> QED BY <3>2, Pointed
  <2>3. jc[f].valid
    BY <1>0, <2>1, <2>2 DEF Reads
  <2> QED BY <2>3 DEF Updates
<1>5. ASSUME NEW f \in Entries, f \notin X, jc[f].ref > 0, jc[f].inum \in Inums
      PROVE  dinode'[jc[f].inum] = dinode[jc[f].inum]
  <2>1. \A g \in X : Inum(g) # jc[f].inum
    <3> SUFFICES ASSUME NEW g \in X, Inum(g) = jc[f].inum PROVE FALSE
      OBVIOUS
    <3>1. g \in Entries /\ jc[g].ref > 0 /\ icache[g].ref > 0 /\ g # f
      BY <1>5 DEF Updates
    <3>2. jc[g].inum = Inum(g)
      BY <1>0, <3>1 DEF Reads, Inum
    <3> QED BY <1>0, <1>5, <3>1, <3>2 DEF OneIn
  <2> QED BY <1>5, <2>1 DEF Updates
<1>6. Coheres(p, r)
  <2> SUFFICES ASSUME NEW f \in Entries, icache'[f].ref > 0, icache'[f].valid
      PROVE  \/ /\ icache'[f].copy = dinode'[icache'[f].inum]
                /\ dinode'[icache'[f].inum].type # "none"
             \/ /\ icache[f].ref > 0 /\ icache[f].valid
                /\ icache'[f].copy = icache[f].copy
                /\ dinode'[icache[f].inum] = dinode[icache[f].inum]
                /\ ~(loc[p].pc = "invalidate" /\ loc[p].tgt = f)
    BY DEF Coheres
  <2>1. CASE f \in X
    BY <1>0, <1>1, <2>1 DEF Updates, Inum, Reads
  <2>2. CASE f \notin X
    <3>1. icache'[f].inum \in Inums
      BY DEF RefInv, Used, Shapes, Cached
    <3>2. jc[f].ref > 0 /\ jc[f].valid /\ icache'[f].copy = jc[f].copy
      BY <1>1, <2>2 DEF Updates
    <3>3. dinode'[jc[f].inum] = dinode[jc[f].inum]
      BY <1>1, <1>5, <2>2, <3>1, <3>2
    <3>4. \/ icache[f].ref > 0 /\ icache[f].valid /\ jc[f].copy = icache[f].copy
          \/ jc[f].copy = dinode[jc[f].inum] /\ dinode[jc[f].inum].type # "none"
      BY <1>0, <3>2 DEF Reads
    <3>5. icache[f].ref > 0 => jc[f].inum = icache[f].inum
      BY <1>0 DEF Reads
    <3> QED BY <1>1, <3>2, <3>3, <3>4, <3>5
  <2> QED BY <2>1, <2>2
<1>7. CacheInv'
  BY <1>2, <1>3, <1>4, <1>6, CacheInvStep
<1>8. BirthsKept(p)
  <2> SUFFICES ASSUME NEW q \in Procs \ {p}, NEW i \in Inums, Bears(loc[q], i)
               PROVE  dinode'[i] = dinode[i]
    BY DEF BirthsKept
  <2>1. ~Born(i) /\ ~Bears(loc[p], i)
    BY DEF Born, LiveInv, DiskInv, OneBirth
  <2>2. \A f \in X : Inum(f) # i
    BY <2>1 DEF Updates
  <2> QED BY <2>2 DEF Updates
<1>9. DeathsKept(p)
  <2> SUFFICES ASSUME NEW q \in Procs \ {p}, loc[q].pc \in {"trunc", "free"}
               PROVE  icache'[loc[q].tgt].ref = 1 /\ dinode'[Inum(loc[q].tgt)].nlink = 0
    BY DEF DeathsKept
  <2>1. PICK e \in Entries : /\ e = loc[q].tgt /\ Alone(q, e) /\ icache[e].ref = 1
                             /\ dinode[Inum(e)].nlink = 0 /\ Inum(e) \in Inums
    BY Dying
  <2>2. e \notin X
    BY <2>1 DEF Updates, Mentions, Alone
  <2>3. jc[e].ref = 1
    BY <1>0, <2>1 DEF Spares
  <2>4. jc[e].inum = Inum(e)
    BY <1>0, <2>1 DEF Reads, Inum
  <2> QED BY <1>1, <1>5, <2>1, <2>2, <2>3, <2>4
<1> QED BY <1>2, <1>7, <1>8, <1>9

(* Who unlinks keeps the directory locked. *)
LEMMA UnlinkLocked ==
    ASSUME RefInv, LiveInv, NEW p \in Procs, NEW q \in Procs \ {p}, loc[q].pc = "unlink"
    PROVE  /\ loc[q].dp \in Entries /\ icache[loc[q].dp].lock = q /\ Born(Inum(loc[q].dp))
           /\ \A e \in Entries : icache[e].ref > 0 /\ icache[e].lock # q
                                 => Inum(e) # Inum(loc[q].dp)
<1>1. loc[q].dp # 0
  BY Mine DEF Holds, Goal, Iput
<1>2. loc[q].dp \in Entries /\ icache[loc[q].dp].ref > 0
  BY <1>1, Targets
<1>3. icache[loc[q].dp].lock = q /\ Born(Inum(loc[q].dp))
  BY <1>1, Mine DEF Fit, FitLocks, FitPointers, Goal, Iput
<1> QED BY <1>2, <1>3 DEF LiveInv, CacheInv, OneEntry

(* The inode that is being truncated stays the same. *)
GoneAsBefore == \A i : Gone(i)' <=> Gone(i)
(* Who has given its block up stays so. *)
LEMMA GoneStays ==
    ASSUME RefInv, NEW p \in Procs, NEW r, Step(p, r), loc[p].pc # "free", r.pc # "free"
    PROVE  GoneAsBefore
<1>1. loc'[p] = r
  BY DEF Step, RefInv, Shapes
<1>2. ASSUME NEW i PROVE Gone(i)' <=> Gone(i)
  <2>1. ASSUME NEW q \in Procs
        PROVE  loc'[q].pc = "free" /\ icache'[loc'[q].tgt].inum = i
               <=> loc[q].pc = "free" /\ icache[loc[q].tgt].inum = i
    <3>1. CASE q = p
      BY <1>1, <3>1
    <3>2. CASE q # p
      <4>1. loc'[q] = loc[q] /\ (loc[q].tgt # 0 => Inum(loc[q].tgt)' = Inum(loc[q].tgt))
        BY <3>2, OthersStay
      <4>2. loc[q].pc = "free" => loc[q].tgt # 0
        BY DEF RefInv, Holds, Iput
      <4> QED BY <4>1, <4>2 DEF Inum
    <3> QED BY <3>1, <3>2
  <2> QED BY <2>1 DEF Gone, Inum
<1> QED BY <1>2 DEF GoneAsBefore

(* Blocks stay where they are. *)
LEMMA BlocksStay ==
    ASSUME RefInv, LiveInv, NEW p \in Procs, NEW r, Step(p, r), UNCHANGED bitmap,
           \A i \in Inums : dinode'[i].addr = dinode[i].addr,
           loc[p].pc # "free", r.pc # "free"
    PROVE  BlockInv'
BY GoneStays DEF LiveInv, BlockInv, Owns, GoneAsBefore

(* A step that neither begins nor ends the life of an inode. *)
SameTypes == \A i \in Inums : dinode'[i].type = dinode[i].type

(* A step that frees and allocates no inode keeps the invariant. *)
LEMMA SteadyStep ==
    ASSUME RefInv, RefInv', LiveInv, NEW p \in Procs, NEW r, Step(p, r), SameTypes,
           loc[p].pc \notin {"iget", "enter"},
           r.pc \notin {"iget", "enter", "parent", "unlink", "trunc", "free"},
           CacheInv', DiskInv', BlockInv',
           BirthsKept(p), UnlinksKept(p), DeathsKept(p),
           Suits(r, p, icache'), KeptIn(icache', fref', fip', cwd')
    PROVE  LiveInv'
<1>1. loc'[p] = r
  BY DEF Step, RefInv, Shapes
<1>2. \A i \in Inums : Born(i)' <=> Born(i)
  BY CalmBorn DEF SameTypes
<1>3. /\ r.dp # 0 => icache'[r.dp].inum \in Inums
      /\ r.ip # 0 => icache'[r.ip].inum \in Inums
      /\ r.tgt # 0 => icache'[r.tgt].inum \in Inums
      /\ Holds(r)
  <2>1. /\ loc'[p] \in Frame /\ Holds(loc[p])'
        /\ loc'[p].dp # 0 => icache'[loc'[p].dp].inum \in Inums
        /\ loc'[p].ip # 0 => icache'[loc'[p].ip].inum \in Inums
        /\ loc'[p].tgt # 0 => icache'[loc'[p].tgt].inum \in Inums
    BY AllTargetsNext DEF RefInv, Shapes
  <2>2. Holds(r)
    BY <1>1, <2>1 DEF Holds, Goal, Parent, Counted
  <2> QED BY <1>1, <2>1, <2>2
<1>4. KeptAlive'
  <2>1. ASSUME NEW q \in Procs PROVE Born(Inum(cwd[q]))'
    <3>1. PICK j \in Inums : j = icache'[cwd'[q]].inum
      BY AllTargetsNext
    <3>2. Born(j)'
      BY <1>2, <3>1 DEF KeptIn
    <3> QED BY <3>1, <3>2 DEF Born, Bears, Inum
  <2>2. ASSUME NEW f \in Files, fref'[f] > 0 PROVE Born(Inum(fip[f]))'
    <3>1. PICK j \in Inums : j = icache'[fip'[f]].inum
      BY <2>2, AllTargetsNext
    <3>2. Born(j)'
      BY <1>2, <2>2, <3>1 DEF KeptIn
    <3> QED BY <3>1, <3>2 DEF Born, Bears, Inum
  <2> QED BY <2>1, <2>2 DEF KeptAlive
<1>5. Fit(r, p)'
  <2>0. Goal(r) \notin {"iget", "enter"} /\ r.pc # "free"
    BY <1>3 DEF Holds, Goal, Iput
  <2>1. FitPaths(r)'
    BY <2>0 DEF Suits, SuitsPaths, FitPaths, Inum
  <2>2. FitLocks(r, p)'
    BY <2>0 DEF Suits, SuitsLocks, FitLocks
  <2>3. FitPointers(r)'
    <3>1. PICK x, y, z : x = icache'[r.dp].inum /\ y = icache'[r.ip].inum /\ z = icache'[r.tgt].inum
      OBVIOUS
    <3>2. /\ r.dp # 0 => Born(x)'
          /\ r.ip # 0 => Born(y)'
          /\ r.tgt # 0 /\ r.pc \notin {"invalidate", "drop"} => Born(z)'
      BY <1>2, <1>3, <3>1 DEF Suits, SuitsPointers
    <3>3. /\ r.dp # 0 => Born(Inum(r.dp))'
          /\ r.ip # 0 => Born(Inum(r.ip))'
          /\ r.tgt # 0 /\ r.pc \notin {"invalidate", "drop"} => Born(Inum(r.tgt))'
      BY <3>1, <3>2 DEF Born, Bears, Inum
    <3> QED BY <3>3 DEF FitPointers
  <2>4. FitInodes(r)'
    <3>1. \A i : ~Bears(r, i)'
      BY DEF Bears
    <3>2. r.ip # 0 /\ Linking(r) => dinode'[icache'[r.ip].inum].type # "dir"
      BY <1>3 DEF Suits, SuitsInodes, SameTypes
    <3> QED BY <3>1, <3>2 DEF FitInodes, Inum, Linking, Goal
  <2> QED BY <2>1, <2>2, <2>3, <2>4 DEF Fit
<1>6. \A q \in Procs : Fit(loc[q], q)'
  <2>1. Survive(0)
    BY <1>2 DEF Survive, SameTypes
  <2>2. Untouched(p, 0)
    BY Targets, InodeAssumption DEF Untouched
  <2>3. \A q \in Procs \ {p} : Fit(loc[q], q)'
    BY <2>1, <2>2, OthersFit
  <2>4. Fit(loc[p], p)'
    BY <1>1, <1>5 DEF Fit, FitPaths, FitLocks, FitPointers, FitInodes, Linking, Bears, Goal
  <2> QED BY <2>3, <2>4
<1> QED BY <1>4, <1>6 DEF LiveInv

----------------------------------------------------------------------------
(* Counting names *)

(* A set that gains or loses at most an element. *)
LEMMA CardMoves ==
    ASSUME NEW S, IsFiniteSet(S), NEW T, NEW x
    PROVE  /\ T \subseteq S => Cardinality(T) <= Cardinality(S) + 0
           /\ T \subseteq S \cup {x} => Cardinality(T) <= Cardinality(S) + 1
           /\ x \in S /\ T \subseteq S \ {x} => Cardinality(T) <= Cardinality(S) + (-1)
<1>0. Cardinality(S) \in Nat
  BY FS_CardinalityType
<1>1. ASSUME T \subseteq S PROVE IsFiniteSet(T) /\ Cardinality(T) <= Cardinality(S) /\ Cardinality(T) \in Nat
  BY <1>1, FS_Subset, FS_CardinalityType
<1>2. ASSUME T \subseteq S \cup {x} PROVE Cardinality(T) <= Cardinality(S) + 1
  <2>1. IsFiniteSet(S \cup {x}) /\ Cardinality(S \cup {x}) \in Nat
        /\ Cardinality(S \cup {x}) <= Cardinality(S) + 1
    BY <1>0, FS_AddElement, FS_CardinalityType
  <2>2. Cardinality(T) <= Cardinality(S \cup {x}) /\ Cardinality(T) \in Nat
    BY <1>2, <2>1, FS_Subset, FS_CardinalityType
  <2> QED BY <1>0, <2>1, <2>2
<1>3. ASSUME x \in S, T \subseteq S \ {x} PROVE Cardinality(T) <= Cardinality(S) + (-1)
  <2>1. IsFiniteSet(S \ {x}) /\ Cardinality(S \ {x}) = Cardinality(S) - 1
    BY <1>3, FS_RemoveElement
  <2>2. Cardinality(T) <= Cardinality(S \ {x}) /\ Cardinality(T) \in Nat
    BY <1>3, <2>1, FS_Subset, FS_CardinalityType
  <2> QED BY <1>0, <2>1, <2>2
<1> QED BY <1>0, <1>1, <1>2, <1>3

(* The links of an inode grow with its names, counted or owed. *)
GrowBy(i, a, b, c) ==
    /\ Cardinality(NameSet(i)') <= Cardinality(NameSet(i)) + a
    /\ Cardinality(SubDirs(i)') <= Cardinality(SubDirs(i)) + b
    /\ Cardinality(Owing(i)') <= Cardinality(Owing(i)) + c
    /\ dinode'[i].nlink >= dinode[i].nlink + a + b + c

(* An inode whose links grow with its names stays counted. *)
LEMMA CountStep ==
    ASSUME RefInv, RefInv', LiveInv, NEW i \in Inums, Born(i),
           NEW a \in Int, NEW b \in Int, NEW c \in Int, GrowBy(i, a, b, c)
    PROVE  CountOK(i)'
<1>1. dinode[i].nlink \in Int /\ dinode'[i].nlink \in Int
  BY DEF RefInv, Shapes, DiskShapes, AnyDinode
<1>2. NamesOf(i) + Pending(i) <= dinode[i].nlink
  BY DEF LiveInv, DiskInv, CountOK
<1>3. /\ Cardinality(NameSet(i)) \in Nat /\ Cardinality(SubDirs(i)) \in Nat
      /\ Cardinality(Owing(i)) \in Nat
      /\ NamesOf(i) = Cardinality(NameSet(i)) + Cardinality(SubDirs(i)) + One(i = ROOTINO)
      /\ Pending(i) = Cardinality(Owing(i))
  BY NameSets
<1>4. PICK A, B, C : A = NameSet(i)' /\ B = SubDirs(i)' /\ C = Owing(i)'
  OBVIOUS
<1>5. /\ NamesOf(i)' = Cardinality(A) + Cardinality(B) + One(i = ROOTINO)
      /\ Pending(i)' = Cardinality(C)
  <2>1. NamesOf(i)' = Cardinality(A) + Cardinality(B) + One(i = ROOTINO)
    BY <1>4 DEF NamesOf, NameSet, SubDirs, One
  <2>2. Pending(i)' = Cardinality(C)
    BY <1>4 DEF Pending, Owing
  <2> QED BY <2>1, <2>2
<1>6. Cardinality(A) \in Nat /\ Cardinality(B) \in Nat /\ Cardinality(C) \in Nat
  <2>1. IsFiniteSet(Inums \X Names)
    BY FinitePools, FS_Product
  <2>2. A \in SUBSET (Inums \X Names) /\ B \in SUBSET Names /\ C \in SUBSET Procs
    BY <1>4 DEF NameSet, SubDirs, Owing
  <2> QED BY <2>1, <2>2, FinitePools, FS_Subset, FS_CardinalityType
<1>7. One(i = ROOTINO) \in Nat
  BY DEF One
<1>8. NamesOf(i)' + Pending(i)' <= dinode'[i].nlink
  BY <1>1, <1>2, <1>3, <1>4, <1>5, <1>6, <1>7 DEF GrowBy
<1> QED BY <1>8 DEF CountOK

(* Who owes a name after a step of p. *)
LEMMA OwingStep ==
    ASSUME RefInv, NEW p \in Procs, NEW r, Step(p, r), NEW i
    PROVE  /\ Owing(i)' \subseteq Owing(i) \cup {p}
           /\ ~Owes(r, i)' => Owing(i)' \subseteq Owing(i) \ {p}
           /\ Owes(loc[p], i) => p \in Owing(i)
           /\ (Owes(r, i)' => Owes(loc[p], i)) => Owing(i)' \subseteq Owing(i)
<1>1. loc'[p] = r
  BY DEF Step, RefInv, Shapes
<1>2. \A q \in Procs \ {p} : Owes(loc[q], i)' <=> Owes(loc[q], i)
  BY OthersStay
<1>3. Owes(loc[p], i)' <=> Owes(r, i)'
  BY <1>1 DEF Owes, Linking, Goal
<1>4. Owing(i)' \subseteq Owing(i) \cup {p}
  BY <1>2 DEF Owing
<1>5. ASSUME ~Owes(r, i)' PROVE Owing(i)' \subseteq Owing(i) \ {p}
  BY <1>2, <1>3, <1>5 DEF Owing
<1>6. Owes(loc[p], i) => p \in Owing(i)
  BY DEF Owing
<1>7. ASSUME Owes(r, i)' => Owes(loc[p], i) PROVE Owing(i)' \subseteq Owing(i)
  BY <1>2, <1>3, <1>7 DEF Owing
<1> QED BY <1>4, <1>5, <1>6, <1>7

(* The disk after a step that neither begins nor ends the life of an inode. *)
OnlyBorn == \A i \in Inums : ~Born(i) => entry'[i] = entry[i] /\ dinode'[i] = dinode[i]
SameDots == \A i \in Inums, n \in {".", ".."} : entry'[i][n] = entry[i][n]
NewBorn ==
    \A i \in Inums, n \in Names :
        entry'[i][n] # 0 => entry'[i][n] = entry[i][n]
                            \/ /\ entry'[i][n] \in Inums /\ Born(entry'[i][n])
                               /\ dinode[entry'[i][n]].type # "dir"

BornAsBefore ==
    /\ \A i \in Inums : Born(i)' <=> Born(i)
    /\ \A q \in Procs : \A i : Bears(loc[q], i)' <=> Bears(loc[q], i)

(* The disk stays in order when only inodes that are alive change. *)
LEMMA BornDisk ==
    ASSUME RefInv, RefInv', LiveInv, SameTypes, BornAsBefore,
           OnlyBorn, SameDots, NewBorn, \A i \in Inums : Born(i) => CountOK(i)'
    PROVE  DiskInv'
<1>2. /\ \A i \in Inums : Born(i)' <=> Born(i)
      /\ \A q \in Procs : \A i : Bears(loc[q], i)' <=> Bears(loc[q], i)
  BY DEF BornAsBefore
<1>3. OneBirth'
  BY <1>2 DEF LiveInv, DiskInv, OneBirth
<1>4. RootAlive'
  BY <1>2, InodeAssumption DEF LiveInv, DiskInv, RootAlive, SameTypes
<1>5. ASSUME NEW i \in Inums
      PROVE  Blank(i)' /\ NamesBorn(i)' /\ Dots(i)' /\ Up(i)' /\ CountOK(i)'
  <2>1. Blank(i) /\ NamesBorn(i) /\ Dots(i) /\ Up(i)
    BY DEF LiveInv, DiskInv
  <2>2. Blank(i)'
    BY <1>2, <2>1 DEF Blank, OnlyBorn
  <2>3. NamesBorn(i)'
    <3>1. ASSUME NEW n \in Names, entry'[i][n] # 0 PROVE Born(entry[i][n])'
      <4>1. PICK j : j = entry'[i][n]
        OBVIOUS
      <4>2. j \in Inums /\ Born(j)
        <5>1. entry[i][n] \in Inums \cup {0}
          BY DEF RefInv, Shapes, DiskShapes, DirNames
        <5> QED BY <2>1, <3>1, <4>1, <5>1 DEF NamesBorn, NewBorn
      <4>3. Born(j)'
        BY <1>2, <4>2
      <4> QED BY <4>1, <4>3 DEF Born, Bears
    <3> QED BY <3>1 DEF NamesBorn
  <2>4. Dots(i)'
    BY <1>2, <2>1 DEF Dots, SameDots, SameTypes
  <2>5. CountOK(i)'
    BY <1>2 DEF CountOK
  <2>6. Up(i)'
    <3>1. i = ROOTINO => entry'[i][".."] = ROOTINO
      BY <2>1 DEF Up, SameDots
    <3>2. ASSUME NEW n \in Names, entry'[i][n] # 0, dinode'[entry'[i][n]].type = "dir"
          PROVE  entry'[entry'[i][n]][".."] = i
      <4>1. PICK j : j = entry'[i][n]
        OBVIOUS
      <4>2. j \in Inums
        BY <4>1, <3>2 DEF RefInv, Shapes, DiskShapes, DirNames
      <4>3. dinode[j].type = "dir" /\ entry'[j][".."] = entry[j][".."]
        BY <3>2, <4>1, <4>2 DEF SameTypes, SameDots
      <4>4. entry[i][n] = j
        BY <3>2, <4>1, <4>3 DEF NewBorn
      <4>5. entry[j][".."] = i
        BY <2>1, <3>2, <4>1, <4>3, <4>4 DEF Up
      <4> QED BY <4>1, <4>3, <4>5
    <3> QED BY <3>1, <3>2 DEF Up
  <2> QED BY <2>2, <2>3, <2>4, <2>5, <2>6
<1> QED BY <1>3, <1>4, <1>5 DEF DiskInv

(* The same for a step that gives birth to none. *)
LEMMA SteadyDisk ==
    ASSUME RefInv, RefInv', LiveInv, NEW p \in Procs, NEW r, Step(p, r), SameTypes,
           loc[p].pc \notin {"iget", "enter"}, r.pc \notin {"iget", "enter"},
           OnlyBorn, SameDots, NewBorn, \A i \in Inums : Born(i) => CountOK(i)'
    PROVE  DiskInv'
<1>1. BornAsBefore
  BY CalmBorn DEF SameTypes, BornAsBefore
<1> QED BY <1>1, BornDisk

(* What stays open after an update. *)
LEMMA KeptUpdate ==
    ASSUME RefInv, LiveInv, NEW p, NEW a, NEW jc, CacheStep(jc, p, a), UNCHANGED files,
           \A f \in Entries : icache'[f].inum = jc[f].inum
    PROVE  KeptIn(icache', fref', fip', cwd')
<1>1. KeptIn(jc, fref, fip, cwd)
  BY KeptQuiet
<1>2. UNCHANGED <<fref, fip, cwd>>
  BY DEF files
<1>3. \A q \in Procs : cwd[q] \in Entries
  BY Targets
<1>4. \A f \in Files : fref[f] > 0 => fip[f] \in Entries
  BY FileTarget
<1> QED BY <1>1, <1>2, <1>3, <1>4 DEF KeptIn

(* The links of one inode change, with what p owes. *)
Relinks(p, r, e, k) ==
    /\ dinode' = [dinode EXCEPT ![Inum(e)] = Links(@, k)]
    /\ UNCHANGED <<entry, bitmap, files>>
    /\ icache[e].ref > 0 /\ Inum(e) \in Inums /\ Born(Inum(e)) /\ Mentions(p, e)
    /\ k = -1 => Owes(loc[p], Inum(e)) /\ r.ip = 0
    /\ k = 1 /\ r.ip # 0 => r.ip = e

(* A step that counts a link up or down keeps the invariant. *)
LEMMA LinksStep ==
    ASSUME RefInv, RefInv', LiveInv, NEW p \in Procs, NEW r, NEW jc, NEW a,
           NEW e \in Entries, NEW k \in {-1, 1}, Relinks(p, r, e, k),
           loc' = [loc EXCEPT ![p] = r], CacheStep(jc, p, a), jc[e].ref > 0, jc[e].valid,
           icache' = Change(jc, e, Links(dinode[Inum(e)], k)),
           OwnLocks(p, r), loc[p].pc \notin {"iget", "enter", "invalidate", "free"},
           r.pc \notin {"iget", "enter", "parent", "unlink", "trunc", "free"},
           Suits(r, p, icache')
    PROVE  LiveInv'
<1>0. /\ jc \in [Entries -> Cached] /\ Reads(icache, jc, p, a)
      /\ dinode \in [Inums -> AnyDinode]
  BY DEF CacheStep, RefInv, Shapes, DiskShapes
<1>1. PICK j \in Inums : /\ j = Inum(e) /\ Born(j) /\ icache[e].ref > 0 /\ Mentions(p, e)
                         /\ dinode' = [dinode EXCEPT ![j] = Links(@, k)]
  BY DEF Relinks
<1>2. PICK d : d = Links(dinode[j], k)
  OBVIOUS
<1>3. /\ d.type = dinode[j].type /\ d.nlink = dinode[j].nlink + k /\ d.addr = dinode[j].addr
      /\ dinode[j].nlink \in Int
  BY <1>0, <1>2 DEF Links, AnyDinode
<1>4. dinode'[j] = d /\ \A i \in Inums \ {j} : dinode'[i] = dinode[i]
  BY <1>0, <1>1, <1>2
<1>5. SameTypes /\ \A i \in Inums : dinode'[i].addr = dinode[i].addr
  BY <1>3, <1>4 DEF SameTypes
<1>6. icache' = [jc EXCEPT ![e].copy = d]
  BY <1>1, <1>2 DEF Change
<1>7. /\ \A f \in Entries : /\ icache'[f].ref = jc[f].ref /\ icache'[f].inum = jc[f].inum
                            /\ icache'[f].lock = jc[f].lock /\ icache'[f].valid = jc[f].valid
                            /\ f # e => icache'[f].copy = jc[f].copy
      /\ icache'[e].copy = d
  BY <1>0, <1>6 DEF Cached
<1>8. Updates(p, {e}, jc)
  <2>1. dinode[j].type # "none"
    BY <1>1 DEF Born
  <2> QED BY <1>1, <1>3, <1>4, <1>7, <2>1 DEF Updates
<1>9. Step(p, r) /\ CacheInv' /\ BirthsKept(p) /\ DeathsKept(p)
  BY <1>8, UpdateCache
<1>10. UnlinksKept(p)
  BY DEF UnlinksKept, Relinks
<1>11. BlockInv'
  BY <1>5, <1>9, BlocksStay DEF Relinks
<1>12. KeptIn(icache', fref', fip', cwd')
  BY <1>7, KeptUpdate DEF Relinks
<1>13. ASSUME NEW i \in Inums, Born(i) PROVE CountOK(i)'
  <2>1. NameSet(i)' = NameSet(i)
    BY DEF NameSet, Relinks
  <2>2. SubDirs(i)' = SubDirs(i)
    <3>1. \A n \in Names : entry[i][n] \in Inums \cup {0}
      BY DEF RefInv, Shapes, DiskShapes, DirNames
    <3> QED BY <1>5, <3>1 DEF SubDirs, Relinks, SameTypes
  <2>3. /\ Cardinality(NameSet(i)') <= Cardinality(NameSet(i)) + 0
        /\ Cardinality(SubDirs(i)') <= Cardinality(SubDirs(i)) + 0
    BY <2>1, <2>2, NameSets
  <2>4. IsFiniteSet(Owing(i))
    BY NameSets
  <2>5. CASE i = j
    <3>1. Cardinality(Owing(i)') <= Cardinality(Owing(i)) + k
      <4>1. CASE k = 1
        BY <1>9, <2>4, <4>1, OwingStep, CardMoves
      <4>2. CASE k = -1
        <5>1. Owes(loc[p], i) /\ ~Owes(r, i)'
          BY <1>1, <2>5, <4>2 DEF Relinks, Owes
        <5> QED BY <1>9, <2>4, <4>2, <5>1, OwingStep, CardMoves
      <4> QED BY <4>1, <4>2
    <3>2. GrowBy(i, 0, 0, k)
      BY <1>3, <1>4, <2>3, <2>5, <3>1 DEF GrowBy
    <3> QED BY <1>13, <3>2, CountStep
  <2>6. CASE i # j
    <3>1. ~Owes(r, i)'
      <4>1. icache'[e].inum = j
        BY <1>0, <1>1, <1>7 DEF Reads, Inum
      <4> QED BY <2>6, <4>1 DEF Relinks, Owes, Inum
    <3>2. Cardinality(Owing(i)') <= Cardinality(Owing(i)) + 0
      <4>1. Owing(i)' \subseteq Owing(i)
        BY <1>9, <3>1, OwingStep
      <4> QED BY <2>4, <4>1, CardMoves
    <3>3. dinode'[i].nlink = dinode[i].nlink /\ dinode[i].nlink \in Int
      BY <1>0, <1>4, <2>6 DEF AnyDinode
    <3>4. GrowBy(i, 0, 0, 0)
      BY <2>3, <3>2, <3>3 DEF GrowBy
    <3> QED BY <1>13, <3>4, CountStep
  <2> QED BY <2>5, <2>6
<1>14. OnlyBorn
  BY <1>1, <1>4 DEF OnlyBorn, Relinks
<1>15. SameDots /\ NewBorn
  BY DEF SameDots, NewBorn, Relinks
<1>16. DiskInv'
  BY <1>5, <1>9, <1>13, <1>14, <1>15, SteadyDisk
<1> QED BY <1>5, <1>9, <1>10, <1>11, <1>12, <1>16, SteadyStep

(* The copy of an inode that p keeps locked is what is on disk. *)
LEMMA HeldCopy ==
    ASSUME RefInv, LiveInv, NEW p \in Procs, NEW e \in Entries, icache[e].lock = p,
           icache[e].ref > 0, loc[p].pc # "invalidate"
    PROVE  icache[e].valid /\ icache[e].copy = dinode[Inum(e)]
<1>1. icache[e].valid
  BY Mine
<1>2. ASSUME NEW q \in Procs, loc[q].pc = "invalidate", loc[q].tgt = e PROVE FALSE
  <2>1. icache[e].lock = q
    BY <1>2 DEF LiveInv, Fit, FitLocks
  <2> QED BY <1>2, <2>1
<1> QED BY <1>1, <1>2 DEF LiveInv, CacheInv, Coherent

(* No lock is left. *)
LEMMA NoLocks ==
    ASSUME RefInv, LiveInv, NEW p \in Procs, NEW r, NEW jc, CacheStep(jc, p, 0),
           \A f \in Entries : icache'[f].lock = jc[f].lock,
           \A f \in Entries : jc[f].lock # p \/ ~Keeps(loc[p], f)
    PROVE  OwnLocks(p, r)
<1> SUFFICES ASSUME NEW f \in Entries, icache'[f].lock = p PROVE FALSE
  BY DEF OwnLocks
<1>1. icache[f].lock = p
  BY DEF CacheStep, Reads, Entries
<1> QED BY <1>1, Mine

(* Unlocking and changing the copy, in either order *)
LEMMA UnlockChange ==
    ASSUME NEW ic \in [Entries -> Cached], NEW e \in Entries, NEW f \in Entries, NEW d, NEW p
    PROVE  Iunlock(Change(ic, e, d), f, p) = Change(Iunlock(ic, f, p), e, d)
<1>1. PICK c : c = Change(ic, e, d)
  OBVIOUS
<1>2. DOMAIN c = Entries /\ c[f].lock = ic[f].lock
  BY <1>1 DEF Change, Cached
<1>3. CASE ic[f].lock = p
  <2>1. Iunlock(c, f, p) = [c EXCEPT ![f].lock = Nobody] /\ Iunlock(ic, f, p) = [ic EXCEPT ![f].lock = Nobody]
    BY <1>2, <1>3 DEF Iunlock, Entries
  <2>2. CASE e = f
    BY <1>1, <2>1, <2>2 DEF Change, Cached
  <2>3. CASE e # f
    BY <1>1, <2>1, <2>3 DEF Change, Cached
  <2> QED BY <2>2, <2>3
<1>4. CASE ic[f].lock # p
  BY <1>1, <1>2, <1>4 DEF Iunlock
<1> QED BY <1>3, <1>4

(* unlink counts the name down that it has erased. *)
LEMMA UnlinkedLive ==
    ASSUME RefInv, RefInv', LiveInv, NEW p \in Procs, Unlinked(p)
    PROVE  LiveInv'
<1>1. PICK l \in Frame : /\ l = loc[p] /\ Holds(l) /\ Fit(l, p) /\ l.pc = "unlinked"
                         /\ l.path \in Seq(DirNames) /\ l.new.elems \in Seq(DirNames)
  BY Mine DEF Unlinked, At
<1>2. PICK e \in Entries : e = l.ip /\ icache[e].ref > 0 /\ Inum(e) \in Inums
  BY <1>1, Targets DEF Holds, Goal, Iput
<1>3. icache[e].lock = p /\ Born(Inum(e))
  BY <1>1, <1>2 DEF Fit, FitLocks, FitPointers, Goal, Iput, Entries
<1>4. icache[e].valid /\ icache[e].copy = dinode[Inum(e)] /\ icache \in [Entries -> Cached]
  BY <1>1, <1>2, <1>3, HeldCopy, Mine
<1>5. PICK jc : jc = Iunlock(icache, e, p)
  OBVIOUS
<1>6. Reads(icache, jc, p, 0) /\ Same(icache, jc) /\ jc[e].lock # p
  BY <1>4, <1>5, ReadsOps, SameSteps
<1>7. CacheStep(jc, p, 0) /\ jc[e].inum = Inum(e) /\ jc[e].ref > 0 /\ jc[e].valid
  <2>1. CacheStep(jc, p, 0) /\ jc[e].inum = Inum(e) /\ jc[e].ref > 0
    BY <1>2, <1>6, SameCache DEF Same, Inum
  <2> QED BY <1>2, <1>4, <1>6, <2>1 DEF Reads
<1>8. PICK d : d = Links(dinode[Inum(e)], -1)
  OBVIOUS
<1>9. icache' = Change(jc, e, d)
  <2>1. icache' = Iunlock(Change(icache, e, d), e, p)
    BY <1>1, <1>2, <1>4, <1>8 DEF Unlinked
  <2> QED BY <1>4, <1>5, <2>1, UnlockChange
<1>10. \A f \in Entries : icache'[f].lock = jc[f].lock /\ icache'[f].inum = jc[f].inum
  BY <1>7, <1>9 DEF Change, CacheStep, Cached
<1>11. PICK r : r = Put(l, "ip", "idle")
  OBVIOUS
<1>12. PutLeaves(r, l, "ip", "idle")
  BY <1>1, <1>11, PutFields DEF Labels
<1>13. loc' = [loc EXCEPT ![p] = r]
  BY <1>1, <1>11 DEF Unlinked
<1>14. Relinks(p, r, e, -1)
  <2>1. dinode' = [dinode EXCEPT ![Inum(e)] = Links(@, -1)]
    BY <1>1, <1>2, <1>4 DEF Unlinked, Iupdate, Inum
  <2>2. UNCHANGED <<entry, bitmap, files>>
    BY DEF Unlinked
  <2>3. Owes(loc[p], Inum(e)) /\ Mentions(p, e)
    BY <1>1, <1>2 DEF Owes, Mentions, Goal, Iput, Entries
  <2>4. r.ip = 0
    BY <1>12 DEF PutLeaves
  <2> QED BY <1>2, <1>3, <2>1, <2>2, <2>3, <2>4 DEF Relinks
<1>15. OwnLocks(p, r)
  <2>1. \A f \in Entries : jc[f].lock # p \/ ~Keeps(loc[p], f)
    BY <1>1, <1>2, <1>6 DEF Keeps, Goal, Iput
  <2> QED BY <1>7, <1>10, <2>1, NoLocks
<1>16. Suits(r, p, icache')
  BY <1>2, <1>3, <1>7, <1>10, <1>12, PutSuits DEF PutLeaves
<1> QED BY <1>1, <1>7, <1>8, <1>9, <1>12, <1>13, <1>14, <1>15, <1>16, LinksStep DEF PutLeaves

(* link counts down again after it has failed. *)
LEMMA LinkBadLive ==
    ASSUME RefInv, RefInv', LiveInv, NEW p \in Procs, LinkBad(p)
    PROVE  LiveInv'
<1>1. PICK l \in Frame : /\ l = loc[p] /\ Holds(l) /\ Fit(l, p) /\ l.pc = "linkbad"
                         /\ l.path \in Seq(DirNames) /\ l.new.elems \in Seq(DirNames)
  BY Mine DEF LinkBad, At
<1>2. PICK e \in Entries : e = l.ip /\ icache[e].ref > 0 /\ Inum(e) \in Inums /\ Unlocked(e)
  BY <1>1, Targets DEF LinkBad, Holds, Goal, Iput
<1>3. PICK jc : jc = Ilock(icache, e)
  OBVIOUS
<1>4. /\ Born(Inum(e)) /\ Same(icache, jc) /\ Reads(icache, jc, p, 0) /\ jc[e].valid
      /\ jc[e].copy = dinode[Inum(e)]
  BY <1>1, <1>2, <1>3, IlockReads, IlockCopy
<1>5. CacheStep(jc, p, 0) /\ jc[e].inum = Inum(e) /\ jc[e].ref > 0
  BY <1>2, <1>4, SameCache DEF Same, Inum
<1>6. icache' = Change(jc, e, Links(dinode[Inum(e)], -1))
  BY <1>1, <1>2, <1>3, <1>4 DEF LinkBad
<1>7. \A f \in Entries : icache'[f].lock = jc[f].lock /\ icache'[f].inum = jc[f].inum
  BY <1>5, <1>6 DEF Change, CacheStep, Cached
<1>8. PICK r : r = Put(l, "ip", "idle")
  OBVIOUS
<1>9. PutLeaves(r, l, "ip", "idle")
  BY <1>1, <1>8, PutFields DEF Labels
<1>10. loc' = [loc EXCEPT ![p] = r]
  BY <1>1, <1>8 DEF LinkBad
<1>11. Relinks(p, r, e, -1)
  <2>1. dinode' = [dinode EXCEPT ![Inum(e)] = Links(@, -1)]
    BY <1>1, <1>2, <1>3, <1>4 DEF LinkBad, Iupdate, Inum
  <2>2. UNCHANGED <<entry, bitmap, files>>
    BY DEF LinkBad
  <2>3. Owes(loc[p], Inum(e)) /\ Mentions(p, e)
    BY <1>1, <1>2 DEF Owes, Mentions, Holds, Linking, Goal, Iput, Entries
  <2>4. r.ip = 0
    BY <1>9 DEF PutLeaves
  <2> QED BY <1>2, <1>4, <2>1, <2>2, <2>3, <2>4 DEF Relinks
<1>12. OwnLocks(p, r)
  <2>1. \A f \in Entries : ~Keeps(loc[p], f)
    BY <1>1 DEF Keeps, Goal, Iput
  <2> QED BY <1>5, <1>7, <2>1, NoLocks
<1>13. Suits(r, p, icache')
  BY <1>2, <1>4, <1>5, <1>7, <1>9, PutSuits DEF PutLeaves
<1> QED BY <1>1, <1>4, <1>5, <1>6, <1>9, <1>10, <1>11, <1>12, <1>13, LinksStep DEF PutLeaves

(* Counting a reference, or a new entry, and changing the copy, in either order *)
Again(ic, x) == [ic EXCEPT ![x].ref = @ + 1]
Anew(ic, x, i) == [ic EXCEPT ![x].inum = i, ![x].ref = 1, ![x].valid = FALSE]

(* A new reference and a new copy commute, *)
LEMMA RefChange ==
    ASSUME NEW ic \in [Entries -> Cached], NEW e \in Entries, NEW x \in Entries, NEW d
    PROVE  Again(Change(ic, e, d), x) = Change(Again(ic, x), e, d)
<1>1. CASE x = e
  BY <1>1 DEF Change, Cached, Again
<1>2. CASE x # e
  BY <1>2 DEF Change, Cached, Again
<1> QED BY <1>1, <1>2

(* and so do a new entry and a new copy. *)
LEMMA NewChange ==
    ASSUME NEW ic \in [Entries -> Cached], NEW e \in Entries, NEW x \in Entries, x # e, NEW d, NEW i
    PROVE  Anew(Change(ic, e, d), x, i) = Change(Anew(ic, x, i), e, d)
<1>0. PICK c, k : c = Change(ic, e, d) /\ k = Anew(ic, x, i)
  OBVIOUS
<1>1. c = [ic EXCEPT ![e].copy = d] /\ DOMAIN c = Entries /\ c[x] = ic[x]
  BY <1>0 DEF Change
<1>2. PICK m : m = [ic[x] EXCEPT !.inum = i, !.ref = 1, !.valid = FALSE]
  OBVIOUS
<1>3. k = [ic EXCEPT ![x] = m]
  BY <1>0, <1>2 DEF Anew
<1>4. Anew(c, x, i) = [c EXCEPT ![x] = m]
  BY <1>1, <1>2 DEF Anew
<1>5. Change(k, e, d) = [k EXCEPT ![e].copy = d]
  BY DEF Change
<1>6. [c EXCEPT ![x] = m] = [k EXCEPT ![e].copy = d]
  <2>1. PICK n : n = [ic[e] EXCEPT !.copy = d]
    OBVIOUS
  <2>2. c = [ic EXCEPT ![e] = n] /\ k[e] = ic[e]
    BY <1>1, <1>3, <2>1
  <2>3. [k EXCEPT ![e].copy = d] = [k EXCEPT ![e] = n]
    BY <2>1, <2>2
  <2>4. [c EXCEPT ![x] = m] = [k EXCEPT ![e] = n]
    <3>1. PICK u, v : u = [c EXCEPT ![x] = m] /\ v = [k EXCEPT ![e] = n]
      OBVIOUS
    <3>2. /\ u = [f \in Entries |-> IF f = x THEN m ELSE IF f = e THEN n ELSE ic[f]]
          /\ v = [f \in Entries |-> IF f = x THEN m ELSE IF f = e THEN n ELSE ic[f]]
      BY <1>3, <2>2, <3>1
    <3> QED BY <3>1, <3>2
  <2> QED BY <2>3, <2>4
<1> QED BY <1>0, <1>4, <1>5, <1>6

(* namex starts on a cache whose copy of e has changed. *)
LEMMA StartChange ==
    ASSUME NEW p \in Procs, NEW ic \in [Entries -> Cached], NEW e \in Entries, ic[e].ref > 0,
           ic[e].valid, Same(icache, ic), NEW d, NEW path \in Path, cwd[p] \in Entries,
           NEW s \in Start(p, Change(ic, e, d), path)
    PROVE  \E t \in Start(p, ic, path) :
              s[2] = t[2] /\ s[1] = Change(t[1], e, d) /\ t[1][e].ref > 0 /\ t[1][e].valid
<1>1. PICK c : c = Change(ic, e, d)
  OBVIOUS
<1>2. \A f \in Entries : c[f].ref = ic[f].ref
  BY <1>1 DEF Change, Cached
<1>3. CASE path.abs
  <2>1. PICK x \in Slot(ROOTINO) : s = <<Iget(c, x, ROOTINO), x>>
    BY <1>1, <1>3 DEF Start
  <2>2. x \in Entries
    BY DEF Slot, Lowest
  <2>3. PICK t : t = <<Iget(ic, x, ROOTINO), x>>
    OBVIOUS
  <2>4. t \in Start(p, ic, path)
    BY <1>3, <2>3 DEF Start
  <2>5. CASE ic[x].ref > 0
    <3>1. t[1] = [ic EXCEPT ![x].ref = @ + 1] /\ s[1] = [c EXCEPT ![x].ref = @ + 1]
      BY <1>2, <2>1, <2>2, <2>3, <2>5 DEF Iget
    <3>2. t[1][e].ref > 0 /\ t[1][e].valid
      BY <2>2, <3>1 DEF Cached
    <3>3. s[1] = Change(t[1], e, d)
      <4>1. t[1] = Again(ic, x) /\ s[1] = Again(c, x)
        BY <3>1 DEF Again
      <4> QED BY <1>1, <2>2, <4>1, RefChange
    <3> QED BY <2>1, <2>3, <2>4, <3>2, <3>3
  <2>6. CASE ~(ic[x].ref > 0)
    <3>1. /\ t[1] = [ic EXCEPT ![x].inum = ROOTINO, ![x].ref = 1, ![x].valid = FALSE]
          /\ s[1] = [c EXCEPT ![x].inum = ROOTINO, ![x].ref = 1, ![x].valid = FALSE]
      BY <1>2, <2>1, <2>2, <2>3, <2>6 DEF Iget
    <3>2. x # e
      BY <2>6
    <3>3. t[1][e].ref > 0 /\ t[1][e].valid
      BY <2>2, <3>1, <3>2 DEF Cached
    <3>4. s[1] = Change(t[1], e, d)
      <4>1. t[1] = Anew(ic, x, ROOTINO) /\ s[1] = Anew(c, x, ROOTINO)
        BY <3>1 DEF Anew
      <4> QED BY <1>1, <2>2, <3>2, <4>1, NewChange
    <3> QED BY <2>1, <2>3, <2>4, <3>3, <3>4
  <2> QED BY <2>5, <2>6
<1>4. CASE ~path.abs
  <2>1. PICK x \in Entries : x = cwd[p]
    OBVIOUS
  <2>2. s = <<[c EXCEPT ![x].ref = @ + 1], x>>
    BY <1>1, <1>4, <2>1 DEF Start
  <2>3. PICK t : t = <<[ic EXCEPT ![x].ref = @ + 1], x>>
    OBVIOUS
  <2>4. t \in Start(p, ic, path)
    BY <1>4, <2>1, <2>3 DEF Start
  <2>5. t[1] = [ic EXCEPT ![x].ref = @ + 1] /\ s[1] = [c EXCEPT ![x].ref = @ + 1]
    BY <2>2, <2>3
  <2>6. t[1][e].ref > 0 /\ t[1][e].valid
    BY <2>5 DEF Cached
  <2>7. s[1] = Change(t[1], e, d)
    <3>1. t[1] = Again(ic, x) /\ s[1] = Again(c, x)
      BY <2>5 DEF Again
    <3> QED BY <1>1, <3>1, RefChange
  <2> QED BY <2>2, <2>3, <2>4, <2>6, <2>7
<1> QED BY <1>3, <1>4

(* link counts the name up that it will enter. *)
LEMMA LinkCountLive ==
    ASSUME RefInv, RefInv', LiveInv, NEW p \in Procs, LinkCount(p)
    PROVE  LiveInv'
<1>1. PICK l \in Frame : /\ l = loc[p] /\ Holds(l) /\ Fit(l, p) /\ l.pc = "found"
                         /\ l.path \in Seq(DirNames) /\ l.new.elems \in Seq(DirNames)
                         /\ l.call = "link" /\ l.new \in Path
  BY Mine DEF LinkCount, InCall, Frame
<1>2. PICK e \in Entries : e = l.dp /\ icache[e].ref > 0 /\ Inum(e) \in Inums /\ Unlocked(e)
  BY <1>1, Targets DEF LinkCount, Holds, Goal, Iput
<1>3. PICK ic : ic = Ilock(icache, e)
  OBVIOUS
<1>4. /\ Born(Inum(e)) /\ Same(icache, ic) /\ Reads(icache, ic, p, 0) /\ ic[e].valid
      /\ ic[e].copy = dinode[Inum(e)] /\ ic \in [Entries -> Cached]
  BY <1>1, <1>2, <1>3, IlockReads, IlockCopy
<1>5. l.ip = 0 /\ l.tgt = 0
  BY <1>1 DEF Holds, Goal, Iput
<1>6. UNCHANGED files
  BY DEF LinkCount
<1>7. CASE icache' = ic /\ loc' = [loc EXCEPT ![p] = Put(@, "dp", "idle")] /\ UNCHANGED disk
  BY <1>1, <1>2, <1>3, <1>5, <1>6, <1>7, DpEnd
<1>8. ASSUME dinode[Inum(e)].type # "dir", NEW d, d = Links(dinode[Inum(e)], 1),
             dinode' = Iupdate(dinode, e, d), NEW s \in Start(p, Change(ic, e, d), l.new),
             icache' = s[1],
             loc' = [loc EXCEPT ![p] = Namex([@ EXCEPT !.ip = e, !.new = NoPath], s[2], l.new.elems)],
             UNCHANGED <<entry, bitmap>>
      PROVE  LiveInv'
  <2>1. ic[e].ref > 0 /\ cwd[p] \in Entries
    BY <1>2, <1>4, Targets DEF Same
  <2>2. PICK t \in Start(p, ic, l.new) :
            s[2] = t[2] /\ s[1] = Change(t[1], e, d) /\ t[1][e].ref > 0 /\ t[1][e].valid
    BY <1>1, <1>4, <1>8, <2>1, StartChange
  <2>3. PICK x \in Entries, jc \in {t[1]} :
            /\ x = t[2] /\ CacheStep(jc, p, 0)
            /\ Born(jc[x].inum) /\ jc[x].inum \in Inums
            /\ \A f \in Entries : jc[f].lock = ic[f].lock
    BY <1>1, <1>4, <2>2, StartCache
  <2>4. icache' = Change(jc, e, Links(dinode[Inum(e)], 1)) /\ jc[e].ref > 0 /\ jc[e].valid
    BY <1>8, <2>2, <2>3
  <2>5. \A f \in Entries : icache'[f].lock = jc[f].lock /\ icache'[f].inum = jc[f].inum
    BY <2>3, <2>4 DEF Change, CacheStep, Cached
  <2>6. icache'[e].inum = Inum(e)
    BY <1>2, <2>3, <2>5 DEF CacheStep, Reads, Inum
  <2>7. PICK k : k = [l EXCEPT !.ip = e, !.new = NoPath]
    OBVIOUS
  <2>8. k \in Frame /\ k.ip = e /\ k.new.elems = <<>> /\ k.call = "link" /\ k.tgt = 0
    <3>1. NoPath \in Path /\ NoPath.elems = <<>>
      <4>1. <<>> \in Seq(DirNames)
        OBVIOUS
      <4> QED BY <4>1 DEF NoPath, Path
    <3>2. PICK k1 \in Frame : k1 = [l EXCEPT !.ip = e]
      BY DEF Frame
    <3>3. [k1 EXCEPT !.new = NoPath] \in Frame
      BY <3>1 DEF Frame
    <3>4. k = [k1 EXCEPT !.new = NoPath]
      BY <2>7, <3>2
    <3> QED BY <1>1, <1>5, <3>1, <3>2, <3>3, <3>4 DEF Frame
  <2>9. PICK r : r = Namex(k, x, l.new.elems)
    OBVIOUS
  <2>10. loc' = [loc EXCEPT ![p] = r]
    BY <1>1, <1>8, <2>2, <2>3, <2>7, <2>9
  <2>11. <<>> \in Seq(DirNames)
    OBVIOUS
  <2>12. NamexLeaves(r, k, x, l.new.elems)
    BY <1>1, <2>8, <2>9, <2>11, NamexFields
  <2>13. Counted(k) /\ Parent(k) /\ Failed(k) = "linkbad"
    BY <2>8 DEF Counted, Parent, Failed, Entries
  <2>14. /\ r.ip = e /\ r.call = "link" /\ r.path \in Seq(DirNames) /\ r.new.elems \in Seq(DirNames)
         /\ \/ r.pc = "walk" /\ r.dp = x /\ r.tgt = 0
            \/ r.pc = "put" /\ r.then = "linkbad" /\ r.dp = 0 /\ r.tgt = x
    BY <1>1, <2>8, <2>11, <2>12, <2>13 DEF NamexLeaves
  <2>15. Relinks(p, r, e, 1)
    <3>1. dinode' = [dinode EXCEPT ![Inum(e)] = Links(@, 1)]
      BY <1>8 DEF Iupdate, Inum
    <3>2. Mentions(p, e)
      BY <1>1, <1>2 DEF Mentions
    <3>3. UNCHANGED <<entry, bitmap, files>>
      BY <1>6, <1>8
    <3> QED BY <1>2, <1>4, <2>14, <3>1, <3>2, <3>3 DEF Relinks
  <2>16. OwnLocks(p, r)
    <3>1. \A f \in Entries : ~Keeps(loc[p], f)
      BY <1>1 DEF Keeps, Goal, Iput
    <3> QED BY <2>3, <2>5, <3>1, NoLocks
  <2>17. Suits(r, p, icache')
    <3>1. SuitsPaths(r, icache') /\ SuitsLocks(r, p, icache')
      BY <2>14 DEF SuitsPaths, SuitsLocks, Goal, Iput
    <3>2. SuitsPointers(r, icache')
      BY <1>4, <2>3, <2>5, <2>6, <2>14 DEF SuitsPointers
    <3>3. SuitsInodes(r, icache')
      BY <1>8, <2>6, <2>14 DEF SuitsInodes
    <3> QED BY <3>1, <3>2, <3>3 DEF Suits
  <2> QED BY <1>1, <2>3, <2>4, <2>10, <2>14, <2>15, <2>16, <2>17, LinksStep
<1>9. \/ icache' = ic /\ loc' = [loc EXCEPT ![p] = Put(@, "dp", "idle")] /\ UNCHANGED disk
      \/ /\ dinode[Inum(e)].type # "dir"
         /\ \E d : /\ d = Links(dinode[Inum(e)], 1)
                   /\ dinode' = Iupdate(dinode, e, d)
                   /\ \E s \in Start(p, Change(ic, e, d), l.new) :
                         /\ icache' = s[1]
                         /\ loc' = [loc EXCEPT ![p] = Namex([@ EXCEPT !.ip = e, !.new = NoPath],
                                                            s[2], l.new.elems)]
         /\ UNCHANGED <<entry, bitmap>>
  BY <1>1, <1>2, <1>3, <1>4 DEF LinkCount, OneMore, Type
<1> QED BY <1>7, <1>8, <1>9

(* Name n of directory d becomes j, which is 0 when the name is erased. *)
Writes(d, n, j) ==
    \A i \in Inums, m \in Names :
        entry'[i][m] = IF i = d /\ m = n THEN j ELSE entry[i][m]

(* The names that come and go with it. *)
NameMoves(i, d, n, j) ==
    /\ i # j => NameSet(i)' \subseteq NameSet(i)
    /\ NameSet(i)' \subseteq NameSet(i) \cup {<<d, n>>}
    /\ entry[d][n] = i /\ i # j => /\ <<d, n>> \in NameSet(i)
                                   /\ NameSet(i)' \subseteq NameSet(i) \ {<<d, n>>}
SubMoves(i, d, n, j) ==
    /\ i # d => SubDirs(i)' \subseteq SubDirs(i)
    /\ SubDirs(i)' \subseteq SubDirs(i) \cup {n}
    /\ j = 0 \/ dinode[j].type # "dir" => SubDirs(i)' \subseteq SubDirs(i)
    /\ i = d /\ j = 0 /\ entry[d][n] # 0 /\ dinode[entry[d][n]].type = "dir"
         => n \in SubDirs(i) /\ SubDirs(i)' \subseteq SubDirs(i) \ {n}

(* What one written name does to the names of i. *)
LEMMA NameWrites ==
    ASSUME RefInv, SameTypes, NEW d \in Inums, NEW n \in Names, NEW j \in Inums \cup {0},
           Writes(d, n, j), NEW i \in Inums
    PROVE  NameMoves(i, d, n, j) /\ SubMoves(i, d, n, j)
<1>1. \A x \in Inums \X Names :
         /\ x[1] \in Inums /\ x[2] \in Names /\ x = <<x[1], x[2]>>
         /\ entry'[x[1]][x[2]] = IF x = <<d, n>> THEN j ELSE entry[x[1]][x[2]]
  BY DEF Writes
<1>2. PICK N : N = NameSet(i)'
  OBVIOUS
<1>3. N = {x \in Inums \X Names : entry'[x[1]][x[2]] = i}
  BY <1>2 DEF NameSet
<1>4. /\ i # j => N \subseteq NameSet(i)
      /\ N \subseteq NameSet(i) \cup {<<d, n>>}
  BY <1>1, <1>3 DEF NameSet
<1>5. ASSUME entry[d][n] = i, i # j
      PROVE  <<d, n>> \in NameSet(i) /\ N \subseteq NameSet(i) \ {<<d, n>>}
  <2>1. <<d, n>> \in NameSet(i)
    BY <1>5 DEF NameSet
  <2>2. <<d, n>> \notin N
    BY <1>3, <1>5 DEF Writes
  <2> QED BY <1>4, <1>5, <2>1, <2>2
<1>6. NameMoves(i, d, n, j)
  BY <1>2, <1>4, <1>5 DEF NameMoves
<1>7. PICK M : M = SubDirs(i)'
  OBVIOUS
<1>8. \A m \in Names : entry[i][m] \in Inums \cup {0}
  BY DEF RefInv, Shapes, DiskShapes, DirNames
<1>9. \A m : m \in M <=> /\ m \in Names
                         /\ entry'[i][m] # 0 /\ dinode'[entry'[i][m]].type = "dir"
  BY <1>7 DEF SubDirs
<1>10. \A m \in M : m \in SubDirs(i) \/ (m = n /\ i = d /\ j # 0 /\ dinode[j].type = "dir")
  <2> SUFFICES ASSUME NEW m \in M, ~(m = n /\ i = d /\ j # 0 /\ dinode[j].type = "dir")
               PROVE  m \in SubDirs(i)
    OBVIOUS
  <2>1. m \in Names /\ entry'[i][m] # 0 /\ dinode'[entry'[i][m]].type = "dir"
    BY <1>9
  <2>2. CASE m = n /\ i = d
    BY <2>1, <2>2 DEF Writes, SameTypes
  <2>3. CASE ~(m = n /\ i = d)
    <3>1. entry'[i][m] = entry[i][m]
      BY <2>1, <2>3 DEF Writes
    <3> QED BY <1>8, <2>1, <3>1 DEF SubDirs, SameTypes
  <2> QED BY <2>2, <2>3
<1>11. ASSUME i = d, j = 0, entry[d][n] # 0, dinode[entry[d][n]].type = "dir"
       PROVE  n \in SubDirs(i) /\ M \subseteq SubDirs(i) \ {n}
  <2>1. n \in SubDirs(i)
    BY <1>11 DEF SubDirs
  <2>2. n \notin M
    BY <1>9, <1>11 DEF Writes
  <2> QED BY <1>10, <1>11, <2>1, <2>2
<1>12. SubMoves(i, d, n, j)
  BY <1>7, <1>10, <1>11 DEF SubMoves
<1> QED BY <1>6, <1>12

(* The directory of a system call that keeps it out of others' way. *)
LEMMA OthersUnlink ==
    ASSUME RefInv, LiveInv, NEW p \in Procs, NEW e \in Entries, icache[e].ref > 0,
           icache[e].lock \in {p, Nobody},
           \A i \in Inums : i # Inum(e) => entry'[i] = entry[i]
    PROVE  UnlinksKept(p)
<1> SUFFICES ASSUME NEW q \in Procs \ {p}, loc[q].pc = "unlink"
             PROVE  entry'[Inum(loc[q].dp)] = entry[Inum(loc[q].dp)]
  BY DEF UnlinksKept
<1>1. icache[e].lock # q
  BY InodeAssumption
<1>2. loc[q].dp \in Entries /\ Inum(e) # Inum(loc[q].dp)
  BY <1>1, UnlinkLocked
<1>3. Inum(loc[q].dp) \in Inums
  <2>1. loc[q].dp # 0
    BY <1>2 DEF Entries
  <2> QED BY <2>1, Targets
<1> QED BY <1>2, <1>3

(* link enters its name. *)
LEMMA LinkNewLive ==
    ASSUME RefInv, RefInv', LiveInv, NEW p \in Procs, InCall(p, "parent", "link"),
           Unlocked(loc[p].dp), Lookup(loc[p].dp, Name(p)) = 0,
           icache' = Ilock(icache, loc[p].dp),
           entry' = Dirlink(loc[p].dp, Name(p), Dir(loc[p].ip)),
           loc' = [loc EXCEPT ![p] = Put(@, "dp", "putip")],
           UNCHANGED <<dinode, bitmap, files>>
    PROVE  LiveInv'
<1>1. PICK l \in Frame : /\ l = loc[p] /\ Holds(l) /\ Fit(l, p) /\ l.pc = "parent"
                         /\ l.path \in Seq(DirNames) /\ l.new.elems \in Seq(DirNames)
                         /\ l.call = "link"
  BY Mine DEF InCall
<1>2. PICK e \in Entries : e = l.dp /\ Unlocked(e)
  BY <1>1, Targets DEF Holds, Goal, Iput
<1>3. PICK jc : jc = Ilock(icache, e)
  OBVIOUS
<1>4. /\ Inum(e) \in Inums /\ Born(Inum(e)) /\ icache[e].ref > 0 /\ jc \in [Entries -> Cached]
      /\ Same(icache, jc) /\ Reads(icache, jc, p, 0) /\ jc[e].valid
      /\ \A f \in Entries : jc[f].lock = icache[f].lock
  BY <1>1, <1>2, <1>3, IlockReads
<1>5. CacheStep(jc, p, 0) /\ jc[e].inum = Inum(e)
  BY <1>4, SameCache DEF Same, Inum
<1>6. l.path # <<>> /\ l.tgt = 0 /\ l.ip # 0
  BY <1>1 DEF Holds, Goal, Iput, Parent, Counted
<1>7. PICK g \in Entries : g = l.ip /\ icache[g].ref > 0 /\ Inum(g) \in Inums
  BY <1>1, <1>6, Targets
<1>8. PICK j \in Inums : j = Inum(g) /\ Born(j) /\ dinode[j].type # "dir"
  BY <1>1, <1>6, <1>7 DEF Fit, FitPointers, FitInodes, Linking, Goal, Iput
<1>9. PICK n \in DirNames : n = Name(p) /\ n = Head(l.path)
  BY <1>1, <1>6 DEF Name
<1>10. PICK d \in Inums : d = Inum(e) /\ entry[d][n] = 0 /\ Born(d)
  BY <1>1, <1>2, <1>4, <1>9 DEF Lookup, Dir, Inum
<1>11. n \in Names
  <2>1. dinode[d].type = "dir"
    BY <1>1, <1>2, <1>10 DEF Fit, FitInodes
  <2>2. entry[d]["."] # 0 /\ entry[d][".."] # 0
    BY <1>10, <2>1 DEF LiveInv, DiskInv, Dots
  <2> QED BY <1>10, <2>2 DEF DirNames
<1>12. entry' = [entry EXCEPT ![d][n] = j]
  BY <1>1, <1>2, <1>7, <1>8, <1>9, <1>10 DEF Dirlink, Dir, Inum
<1>13. /\ entry \in [Inums -> [DirNames -> Inums \cup {0}]] /\ n \in DirNames
       /\ dinode \in [Inums -> AnyDinode]
  BY <1>11 DEF RefInv, Shapes, DiskShapes, DirNames
<1>14. /\ \A i \in Inums : i # d => entry'[i] = entry[i]
       /\ \A m \in DirNames : entry'[d][m] = IF m = n THEN j ELSE entry[d][m]
  BY <1>12, <1>13
<1>15. Writes(d, n, j)
  BY <1>14 DEF Writes, DirNames
<1>16. PICK r : r = Put(l, "dp", "putip")
  OBVIOUS
<1>17. PutLeaves(r, l, "dp", "putip")
  BY <1>1, <1>16, PutFields DEF Labels
<1>18. loc' = [loc EXCEPT ![p] = r]
  BY <1>1, <1>16
<1>19. icache' = jc /\ dinode' = dinode
  BY <1>1, <1>2, <1>3
<1>20. OwnLocks(p, r)
  <2>1. \A f \in Entries : ~Keeps(loc[p], f)
    BY <1>1, <1>6 DEF Keeps, Goal, Iput, Entries
  <2> QED BY <1>5, <1>19, <2>1, NoLocks
<1>21. Updates(p, {}, jc)
  BY <1>19 DEF Updates
<1>22. Step(p, r) /\ CacheInv' /\ BirthsKept(p) /\ DeathsKept(p)
  BY <1>1, <1>5, <1>18, <1>20, <1>21, UpdateCache
<1>23. SameTypes
  BY <1>19 DEF SameTypes
<1>24. UnlinksKept(p)
  <2>1. icache[e].lock \in {p, Nobody}
    BY <1>2 DEF Unlocked
  <2> QED BY <1>4, <1>10, <1>14, <2>1, OthersUnlink
<1>25. BlockInv'
  BY <1>1, <1>17, <1>19, <1>22, BlocksStay DEF PutLeaves
<1>26. KeptIn(icache', fref', fip', cwd')
  BY <1>5, <1>19, KeptUpdate
<1>27. Goal(r) = "putip" /\ ~Linking(r)
  BY <1>17 DEF PutLeaves, Goal, Iput, Linking
<1>28. ASSUME NEW i \in Inums, Born(i) PROVE CountOK(i)'
  <2>1. NameMoves(i, d, n, j) /\ SubMoves(i, d, n, j)
    BY <1>11, <1>15, <1>23, NameWrites
  <2>2. IsFiniteSet(NameSet(i)) /\ IsFiniteSet(SubDirs(i)) /\ IsFiniteSet(Owing(i))
    BY NameSets
  <2>3. Cardinality(SubDirs(i)') <= Cardinality(SubDirs(i)) + 0
    BY <1>8, <2>1, <2>2, CardMoves DEF SubMoves
  <2>4. ~Owes(r, i)'
    BY <1>27 DEF Owes, Linking, Goal
  <2>5. Owing(i)' \subseteq Owing(i) \ {p}
    BY <1>22, <2>4, OwingStep
  <2>6. dinode'[i].nlink = dinode[i].nlink /\ dinode[i].nlink \in Int
    BY <1>13, <1>19 DEF AnyDinode
  <2>7. CASE i = j
    <3>1. Owes(loc[p], i)
      BY <1>1, <1>6, <1>7, <1>8, <2>7 DEF Owes, Linking, Goal, Iput
    <3>2. p \in Owing(i)
      BY <1>22, <3>1, OwingStep
    <3>3. Cardinality(Owing(i)') <= Cardinality(Owing(i)) + (-1)
      BY <2>2, <2>5, <3>2, CardMoves
    <3>4. Cardinality(NameSet(i)') <= Cardinality(NameSet(i)) + 1
      BY <2>1, <2>2, CardMoves DEF NameMoves
    <3>5. GrowBy(i, 1, 0, -1)
      BY <2>3, <2>6, <3>3, <3>4 DEF GrowBy
    <3> QED BY <1>28, <3>5, CountStep
  <2>8. CASE i # j
    <3>1. Owing(i)' \subseteq Owing(i)
      BY <2>5
    <3>2. Cardinality(Owing(i)') <= Cardinality(Owing(i)) + 0
      BY <2>2, <3>1, CardMoves
    <3>3. Cardinality(NameSet(i)') <= Cardinality(NameSet(i)) + 0
      BY <2>1, <2>2, <2>8, CardMoves DEF NameMoves
    <3>4. GrowBy(i, 0, 0, 0)
      BY <2>3, <2>6, <3>2, <3>3 DEF GrowBy
    <3> QED BY <1>28, <3>4, CountStep
  <2> QED BY <2>7, <2>8
<1>29. OnlyBorn
  BY <1>10, <1>14, <1>19 DEF OnlyBorn
<1>30. SameDots
  BY <1>11, <1>14, InodeAssumption DEF SameDots, DirNames
<1>31. NewBorn
  BY <1>8, <1>15, <1>19 DEF NewBorn, Writes
<1>32. DiskInv'
  BY <1>1, <1>17, <1>22, <1>23, <1>28, <1>29, <1>30, <1>31, SteadyDisk DEF PutLeaves
<1>33. Suits(r, p, icache')
  <2>1. jc[g].inum = Inum(g)
    BY <1>4, <1>7 DEF Same, Inum
  <2> QED BY <1>1, <1>2, <1>4, <1>5, <1>7, <1>8, <1>17, <1>19, <1>27, <2>1, PutSuits DEF PutLeaves
<1> QED BY <1>1, <1>17, <1>22, <1>23, <1>24, <1>25, <1>26, <1>32, <1>33, SteadyStep DEF PutLeaves

(* link enters its name or finds that it exists. *)
LEMMA LinkEnterLive ==
    ASSUME Careful, RefInv, RefInv', LiveInv, NEW p \in Procs, LinkEnter(p)
    PROVE  LiveInv'
<1>1. PICK i : i = Lookup(loc[p].dp, Name(p))
  OBVIOUS
<1>2. InCall(p, "parent", "link") /\ Unlocked(loc[p].dp) /\ UNCHANGED <<dinode, bitmap, files>>
  BY DEF LinkEnter
<1>3. ASSUME i # 0, NEW x \in Slot(i),
             icache' = Hold(Iget(Ilock(icache, loc[p].dp), x, i), loc[p].dp, p),
             loc' = [loc EXCEPT ![p].pc = "put", ![p].tgt = x, ![p].then = "putdp"],
             UNCHANGED entry
      PROVE  LiveInv'
  <2>1. UNCHANGED <<disk, files>>
    BY <1>2, <1>3 DEF disk
  <2> QED BY <1>1, <1>2, <1>3, <2>1, LinkExistsLive
<1>4. CASE /\ i = 0
           /\ icache' = Ilock(icache, loc[p].dp)
           /\ entry' = Dirlink(loc[p].dp, Name(p), Dir(loc[p].ip))
           /\ loc' = [loc EXCEPT ![p] = Put(@, "dp", "putip")]
  BY <1>1, <1>2, <1>4, LinkNewLive
<1> QED BY <1>1, <1>3, <1>4 DEF LinkEnter

(* unlink that erases the name, with c the directory's inode afterwards *)
Kind(p) == IF dinode[Inum(loc[p].ip)].type = "dir" THEN -1 ELSE 0
Erases(p, c) ==
    /\ c = Links(icache[loc[p].dp].copy, Kind(p))
    /\ entry' = Dirlink(loc[p].dp, Name(p), 0) /\ dinode' = Iupdate(dinode, loc[p].dp, c)
    /\ icache' = Hold(Iunlock(Change(Ilock(icache, loc[p].ip), loc[p].dp, c), loc[p].dp, p),
                      loc[p].ip, p)
    /\ loc' = [loc EXCEPT ![p] = Put(@, "dp", "unlinked")]
    /\ UNCHANGED <<bitmap, files>>

(* unlink erases the name. *)
LEMMA UnlinkGoneLive ==
    ASSUME RefInv, RefInv', LiveInv, NEW p \in Procs, loc[p].pc = "unlink", Unlocked(loc[p].ip),
           NEW c, Erases(p, c)
    PROVE  LiveInv'
<1>1. PICK l \in Frame : /\ l = loc[p] /\ Holds(l) /\ Fit(l, p) /\ l.pc = "unlink"
                         /\ l.path \in Seq(DirNames) /\ l.new.elems \in Seq(DirNames)
  BY Mine
<1>2. PICK e \in Entries : /\ e = l.dp /\ icache[e].ref > 0 /\ Inum(e) \in Inums
                           /\ icache[e].lock = p
  BY <1>1, Targets DEF Holds, Goal, Iput, Fit, FitLocks
<1>3. PICK g \in Entries : /\ g = l.ip /\ icache[g].ref > 0 /\ Inum(g) \in Inums
                           /\ icache[g].lock = Nobody
  BY <1>1, Targets DEF Holds, Goal, Iput, Unlocked
<1>4. PICK d \in Inums : d = Inum(e) /\ Born(d)
  BY <1>1, <1>2 DEF Fit, FitPointers, Entries
<1>5. PICK j \in Inums : j = Inum(g) /\ Born(j) /\ j # d /\ g # e
  <2>1. Born(Inum(g))
    BY <1>1, <1>3 DEF Fit, FitPointers, Entries
  <2>2. g # e
    BY <1>2, <1>3, InodeAssumption
  <2> QED BY <1>2, <1>3, <1>4, <2>1, <2>2 DEF LiveInv, CacheInv, OneEntry
<1>6. PICK ic : ic = Ilock(icache, g)
  OBVIOUS
<1>7. /\ ic \in [Entries -> Cached] /\ Same(icache, ic) /\ Reads(icache, ic, p, 0) /\ ic[g].valid
      /\ \A f \in Entries : ic[f].lock = icache[f].lock
  BY <1>1, <1>3, <1>6, IlockReads
<1>8. PICK n \in Names : n = Name(p) /\ n = Head(l.path) /\ entry[d][n] = j
  <2>1. Head(l.path) \in Names
    BY <1>1 DEF Fit, FitPaths, Goal, Iput
  <2>2. entry[d][Head(l.path)] = j
    BY <1>1, <1>2, <1>3, <1>4, <1>5 DEF Fit, FitInodes
  <2> QED BY <1>1, <2>1, <2>2 DEF Name
<1>9. /\ entry \in [Inums -> [DirNames -> Inums \cup {0}]] /\ n \in DirNames
      /\ dinode \in [Inums -> AnyDinode]
  BY <1>8 DEF RefInv, Shapes, DiskShapes, DirNames
<1>10. icache[e].valid /\ icache[e].copy = dinode[d]
  BY <1>1, <1>2, <1>4, HeldCopy
<1>11. PICK k \in {-1, 0} :
          /\ c.type = dinode[d].type /\ c.addr = dinode[d].addr /\ c.nlink = dinode[d].nlink + k
          /\ dinode[d].nlink \in Int /\ c.type # "none" /\ (k = -1 <=> dinode[j].type = "dir")
  <2>1. PICK k \in {-1, 0} : k = Kind(p) /\ (k = -1 <=> dinode[j].type = "dir")
    BY <1>1, <1>3, <1>5 DEF Kind
  <2>2. c = Links(dinode[d], k)
    BY <1>1, <1>2, <1>10, <2>1 DEF Erases
  <2>3. dinode[d] \in AnyDinode /\ dinode[d].type # "none"
    BY <1>4, <1>9 DEF Born
  <2> QED BY <2>1, <2>2, <2>3 DEF Links, AnyDinode
<1>12. PICK uc, jc : uc = Iunlock(ic, e, p) /\ jc = Hold(uc, g, p)
  OBVIOUS
<1>13. /\ uc \in [Entries -> Cached]
       /\ \A f \in Entries : /\ uc[f].ref = ic[f].ref /\ uc[f].inum = ic[f].inum
                             /\ uc[f].valid = ic[f].valid /\ uc[f].copy = ic[f].copy
                             /\ uc[f].lock = IF f = e THEN Nobody ELSE ic[f].lock
  <2>1. ic[e].lock = p /\ e # 0
    BY <1>2, <1>7 DEF Entries
  <2>2. uc = [ic EXCEPT ![e].lock = Nobody]
    BY <1>12, <2>1 DEF Iunlock
  <2> QED BY <1>7, <2>2 DEF Cached
<1>14. /\ jc \in [Entries -> Cached]
       /\ \A f \in Entries : /\ jc[f].ref = uc[f].ref /\ jc[f].inum = uc[f].inum
                             /\ jc[f].valid = uc[f].valid /\ jc[f].copy = uc[f].copy
                             /\ jc[f].lock = IF f = g THEN p ELSE uc[f].lock
  <2>1. jc = [uc EXCEPT ![g].lock = p]
    BY <1>12 DEF Hold
  <2> QED BY <1>13, <2>1 DEF Cached
<1>15. CacheStep(jc, p, g)
  <2>1. CacheStep(ic, p, 0) /\ NoDrop(icache, ic)
    BY <1>7, SameCache DEF NoDrop, Same
  <2>2. CacheStep(uc, p, 0)
    BY <1>12, <2>1, ThenHold
  <2>3. NoDrop(icache, uc) /\ uc[g].lock = Nobody
    BY <1>3, <1>5, <1>7, <1>13, <2>1 DEF NoDrop
  <2> QED BY <1>12, <2>2, <2>3, ThenHold
<1>16. icache' = Change(jc, e, c)
  <2>1. icache' = Hold(Iunlock(Change(ic, e, c), e, p), g, p)
    BY <1>1, <1>2, <1>3, <1>6 DEF Erases
  <2>2. Iunlock(Change(ic, e, c), e, p) = Change(uc, e, c)
    BY <1>7, <1>12, UnlockChange
  <2>3. PICK v : v = Change(uc, e, c)
    OBVIOUS
  <2>4. icache' = [v EXCEPT ![g].lock = p] /\ v = [uc EXCEPT ![e].copy = c]
    BY <2>1, <2>2, <2>3 DEF Hold, Change
  <2>5. PICK m, w : m = [uc[e] EXCEPT !.copy = c] /\ w = [uc[g] EXCEPT !.lock = p]
    OBVIOUS
  <2>6. v = [uc EXCEPT ![e] = m] /\ jc = [uc EXCEPT ![g] = w]
    BY <1>12, <2>4, <2>5 DEF Hold
  <2>7. icache' = [v EXCEPT ![g] = w] /\ Change(jc, e, c) = [jc EXCEPT ![e] = m]
    <3>1. v[g] = uc[g] /\ jc[e] = uc[e]
      BY <1>5, <1>13, <2>6
    <3> QED BY <2>4, <2>5, <3>1 DEF Change
  <2>8. PICK x, y : x = [v EXCEPT ![g] = w] /\ y = [jc EXCEPT ![e] = m]
    OBVIOUS
  <2>9. /\ x = [f \in Entries |-> IF f = g THEN w ELSE IF f = e THEN m ELSE uc[f]]
        /\ y = [f \in Entries |-> IF f = g THEN w ELSE IF f = e THEN m ELSE uc[f]]
    BY <1>5, <1>13, <2>6, <2>8
  <2> QED BY <2>7, <2>8, <2>9
<1>17. /\ \A f \in Entries : /\ icache'[f].ref = jc[f].ref /\ icache'[f].inum = jc[f].inum
                             /\ icache'[f].lock = jc[f].lock /\ icache'[f].valid = jc[f].valid
                             /\ f # e => icache'[f].copy = jc[f].copy
       /\ icache'[e].copy = c
  BY <1>14, <1>16 DEF Change, Cached
<1>18. /\ dinode'[d] = c /\ \A i \in Inums \ {d} : dinode'[i] = dinode[i]
  BY <1>1, <1>2, <1>4, <1>9 DEF Iupdate, Inum, Erases
<1>19. /\ \A i \in Inums : i # d => entry'[i] = entry[i]
       /\ \A m \in DirNames : entry'[d][m] = IF m = n THEN 0 ELSE entry[d][m]
  <2>1. entry' = [entry EXCEPT ![d][n] = 0]
    BY <1>1, <1>2, <1>4, <1>8 DEF Dirlink, Dir, Inum, Erases
  <2> QED BY <1>9, <2>1
<1>20. Writes(d, n, 0)
  BY <1>19 DEF Writes, DirNames
<1>21. SameTypes /\ \A i \in Inums : dinode'[i].addr = dinode[i].addr
  BY <1>11, <1>18 DEF SameTypes
<1>22. PICK r : r = Put(l, "dp", "unlinked")
  OBVIOUS
<1>23. PutLeaves(r, l, "dp", "unlinked")
  BY <1>1, <1>22, PutFields DEF Labels
<1>24. /\ loc' = [loc EXCEPT ![p] = r] /\ Goal(r) = "unlinked" /\ r.ip = g /\ r.dp = 0
       /\ r.tgt = e /\ r.pc = "put" /\ ~Linking(r)
  BY <1>1, <1>2, <1>3, <1>22, <1>23 DEF PutLeaves, Goal, Iput, Linking, Erases
<1>25. OwnLocks(p, r)
  <2> SUFFICES ASSUME NEW f \in Entries, icache'[f].lock = p
               PROVE  icache'[f].valid /\ Keeps(r, f)
    BY DEF OwnLocks
  <2>1. f = g
    <3> SUFFICES ASSUME f # g PROVE FALSE
      OBVIOUS
    <3>1. f # e /\ icache[f].lock = p
      BY <1>7, <1>13, <1>14, <1>17, InodeAssumption
    <3>2. Keeps(l, f)
      BY <1>1, <3>1, Mine
    <3> QED BY <1>1, <1>2, <3>1, <3>2 DEF Keeps, Goal, Iput
  <2> QED BY <1>7, <1>13, <1>14, <1>17, <1>24, <2>1 DEF Keeps
<1>26. Updates(p, {e}, jc)
  <2>1. Mentions(p, e)
    BY <1>1, <1>2 DEF Mentions
  <2>2. jc[e].ref > 0 /\ icache'[e].valid
    <3>1. ic[e].ref > 0 /\ ic[e].valid
      BY <1>2, <1>7, <1>10 DEF Same, Reads
    <3> QED BY <1>13, <1>14, <1>17, <3>1
  <2> QED BY <1>2, <1>4, <1>11, <1>17, <1>18, <2>1, <2>2 DEF Updates
<1>27. Step(p, r) /\ CacheInv' /\ BirthsKept(p) /\ DeathsKept(p)
  BY <1>1, <1>15, <1>24, <1>25, <1>26, UpdateCache
<1>28. UnlinksKept(p)
  BY <1>2, <1>4, <1>19, OthersUnlink
<1>29. BlockInv'
  BY <1>1, <1>21, <1>24, <1>27, BlocksStay DEF Erases
<1>30. KeptIn(icache', fref', fip', cwd')
  BY <1>15, <1>17, KeptUpdate DEF Erases
<1>31. icache'[g].inum = j /\ icache'[e].inum = d
  BY <1>2, <1>3, <1>4, <1>5, <1>7, <1>13, <1>14, <1>17 DEF Same, Inum
<1>32. ASSUME NEW i \in Inums, Born(i) PROVE CountOK(i)'
  <2>1. NameMoves(i, d, n, 0) /\ SubMoves(i, d, n, 0)
    BY <1>8, <1>20, <1>21, NameWrites
  <2>2. IsFiniteSet(NameSet(i)) /\ IsFiniteSet(SubDirs(i)) /\ IsFiniteSet(Owing(i))
    BY NameSets
  <2>3. i # 0 /\ j # 0
    BY InodeAssumption
  <2>4. CASE i = j
    <3>1. Cardinality(NameSet(i)') <= Cardinality(NameSet(i)) + (-1)
      BY <1>8, <2>1, <2>2, <2>3, <2>4, CardMoves DEF NameMoves
    <3>2. Cardinality(SubDirs(i)') <= Cardinality(SubDirs(i)) + 0
      BY <2>1, <2>2, CardMoves DEF SubMoves
    <3>3. Cardinality(Owing(i)') <= Cardinality(Owing(i)) + 1
      BY <1>27, <2>2, OwingStep, CardMoves
    <3>4. dinode'[i].nlink = dinode[i].nlink /\ dinode[i].nlink \in Int
      BY <1>5, <1>9, <1>18, <2>4 DEF AnyDinode
    <3>5. GrowBy(i, -1, 0, 1)
      BY <3>1, <3>2, <3>3, <3>4 DEF GrowBy
    <3> QED BY <1>32, <3>5, CountStep
  <2>5. CASE i # j
    <3>1. Cardinality(NameSet(i)') <= Cardinality(NameSet(i)) + 0
      BY <2>1, <2>2, <2>3, CardMoves DEF NameMoves
    <3>2. ~Owes(r, i)'
      BY <1>24, <1>31, <2>5 DEF Owes, Inum
    <3>3. Owing(i)' \subseteq Owing(i)
      BY <1>27, <3>2, OwingStep
    <3>4. Cardinality(Owing(i)') <= Cardinality(Owing(i)) + 0
      BY <2>2, <3>3, CardMoves
    <3>5. CASE i = d /\ k = -1
      <4>1. Cardinality(SubDirs(i)') <= Cardinality(SubDirs(i)) + (-1)
        BY <1>8, <1>11, <2>1, <2>2, <2>3, <3>5, CardMoves DEF SubMoves
      <4>2. GrowBy(i, 0, -1, 0)
        BY <1>11, <1>18, <3>1, <3>4, <3>5, <4>1 DEF GrowBy
      <4> QED BY <1>32, <4>2, CountStep
    <3>6. CASE ~(i = d /\ k = -1)
      <4>1. Cardinality(SubDirs(i)') <= Cardinality(SubDirs(i)) + 0
        BY <2>1, <2>2, CardMoves DEF SubMoves
      <4>2. dinode'[i].nlink = dinode[i].nlink /\ dinode[i].nlink \in Int
        BY <1>9, <1>11, <1>18, <3>6 DEF AnyDinode
      <4>3. GrowBy(i, 0, 0, 0)
        BY <3>1, <3>4, <4>1, <4>2 DEF GrowBy
      <4> QED BY <1>32, <4>3, CountStep
    <3> QED BY <3>5, <3>6
  <2> QED BY <2>4, <2>5
<1>33. OnlyBorn
  BY <1>4, <1>18, <1>19 DEF OnlyBorn
<1>34. SameDots
  BY <1>8, <1>19, InodeAssumption DEF SameDots, DirNames
<1>35. NewBorn
  BY <1>20 DEF NewBorn, Writes
<1>36. DiskInv'
  BY <1>1, <1>21, <1>24, <1>27, <1>32, <1>33, <1>34, <1>35, SteadyDisk
<1>37. Suits(r, p, icache')
  <2>1. icache'[g].lock = p
    BY <1>14, <1>17
  <2> QED BY <1>4, <1>5, <1>23, <1>24, <1>31, <2>1, PutSuits DEF PutLeaves
<1> QED BY <1>1, <1>21, <1>24, <1>27, <1>28, <1>29, <1>30, <1>36, <1>37, SteadyStep

(* unlink erases the name, or finds that the directory is not empty. *)
LEMMA UnlinkLive ==
    ASSUME RefInv, RefInv', LiveInv, NEW p \in Procs, Unlink(p)
    PROVE  LiveInv'
<1>1. loc[p].pc = "unlink" /\ Unlocked(loc[p].ip) /\ UNCHANGED files
  BY DEF Unlink, At
<1>2. PICK g \in Entries : g = loc[p].ip /\ icache[g].ref > 0
  BY <1>1, Mine, Targets DEF Holds, Goal, Iput
<1>3. PICK ic : ic = Ilock(icache, g) /\ ic[g].copy = dinode[Inum(g)]
  BY <1>1, <1>2, IlockCopy
<1>5. PICK c : c = Links(icache[loc[p].dp].copy, Kind(p))
  OBVIOUS
<1>6. CASE UNCHANGED disk /\ icache' = ic /\ loc' = [loc EXCEPT ![p] = Put(@, "ip", "putdp")]
  BY <1>1, <1>2, <1>3, <1>6, UnlinkFullLive
<1>7. CASE Erases(p, c)
  BY <1>1, <1>7, UnlinkGoneLive
<1>8. \/ UNCHANGED disk /\ icache' = ic /\ loc' = [loc EXCEPT ![p] = Put(@, "ip", "putdp")]
      \/ Erases(p, c)
  BY <1>2, <1>3, <1>5 DEF Unlink, Type, Erases, Kind, Inum
<1> QED BY <1>6, <1>7, <1>8

(* Inode j, which has no block, gets one that is free. *)
LEMMA BlockTaken ==
    ASSUME RefInv, LiveInv, NEW p \in Procs, NEW r, Step(p, r),
           loc[p].pc # "free", r.pc # "free", NEW j \in Inums, ~Gone(j), NEW b \in Blocks,
           b \notin bitmap, bitmap' = bitmap \cup {b},
           dinode[j].addr = 0, dinode'[j].addr = b,
           \A i \in Inums \ {j} : dinode'[i].addr = dinode[i].addr
    PROVE  BlockInv'
<1>1. GoneAsBefore
  BY GoneStays
<1>2. \A i \in Inums : ~Owns(i, b)
  BY DEF LiveInv, BlockInv
<1>3. ASSUME NEW c \in Blocks, NEW i \in Inums
      PROVE  Owns(i, c)' <=> IF i = j THEN c = b ELSE Owns(i, c)
  BY <1>1 DEF Owns, GoneAsBefore
<1>4. \A c \in Blocks : ~Owns(j, c)
  BY InodeAssumption DEF Owns
<1> SUFFICES ASSUME NEW c \in Blocks
             PROVE  /\ c \in bitmap' <=> \E i \in Inums : Owns(i, c)'
                    /\ \A h, i \in Inums : Owns(h, c)' /\ Owns(i, c)' => h = i
  BY DEF BlockInv
<1>5. /\ c \in bitmap <=> \E i \in Inums : Owns(i, c)
      /\ \A h, i \in Inums : Owns(h, c) /\ Owns(i, c) => h = i
  BY DEF LiveInv, BlockInv
<1>6. CASE c = b
  BY <1>2, <1>3, <1>6
<1>7. CASE c # b
  BY <1>3, <1>4, <1>5, <1>7
<1> QED BY <1>6, <1>7

(* filewrite takes a block for the file of entry e. *)
Extends(e, b) ==
    /\ b \notin bitmap /\ bitmap' = bitmap \cup {b}
    /\ dinode' = Iupdate(dinode, e, Bmap(dinode[Inum(e)], b))
    /\ icache' = Change(Ilock(icache, e), e, Bmap(dinode[Inum(e)], b))
    /\ UNCHANGED <<entry, files, loc>>

(* A write to an empty file allocates its block. *)
LEMMA ExtendsLive ==
    ASSUME RefInv, RefInv', LiveInv, NEW p \in Procs, NEW d \in Fds, loc[p].pc = "idle",
           ofile[p][d] # 0, NEW e, e = fip[ofile[p][d]], Unlocked(e),
           dinode[Inum(e)].addr = 0, NEW b \in Blocks, Extends(e, b)
    PROVE  LiveInv'
<1>1. PICK jc : jc = Ilock(icache, e)
  OBVIOUS
<1>2. /\ e \in Entries /\ Born(Inum(e)) /\ icache[e].ref > 0
      /\ Same(icache, jc) /\ Reads(icache, jc, p, 0) /\ jc[e].valid
  BY <1>1, FileReads
<1>3. CacheStep(jc, p, 0) /\ jc \in [Entries -> Cached] /\ jc[e].ref > 0
  BY <1>2, SameCache DEF Same
<1>4. PICK j \in Inums : j = Inum(e) /\ Born(j) /\ dinode[j].addr = 0
  BY <1>2, FileReads
<1>5. dinode \in [Inums -> AnyDinode]
  BY DEF RefInv, Shapes, DiskShapes
<1>6. PICK c : c = Bmap(dinode[j], b)
  OBVIOUS
<1>7. /\ c.type = dinode[j].type /\ c.nlink = dinode[j].nlink /\ c.addr = b
      /\ dinode[j].nlink \in Int /\ c.type # "none"
  BY <1>4, <1>5, <1>6 DEF Bmap, AnyDinode, Born
<1>8. dinode'[j] = c /\ \A i \in Inums \ {j} : dinode'[i] = dinode[i]
  BY <1>4, <1>5, <1>6 DEF Extends, Iupdate, Inum
<1>9. icache' = [jc EXCEPT ![e].copy = c]
  BY <1>1, <1>4, <1>6 DEF Extends, Change
<1>10. /\ \A f \in Entries : /\ icache'[f].ref = jc[f].ref /\ icache'[f].inum = jc[f].inum
                             /\ icache'[f].lock = jc[f].lock /\ icache'[f].valid = jc[f].valid
                             /\ f # e => icache'[f].copy = jc[f].copy
       /\ icache'[e].copy = c
  BY <1>2, <1>3, <1>9 DEF Cached
<1>11. PICK g \in Files : g = ofile[p][d] /\ fref[g] > 0 /\ fip[g] = e
  BY OpenPointed DEF RefInv, Shapes, FileShapes
<1>12. PICK r : r = loc[p]
  OBVIOUS
<1>13. /\ r \in Frame /\ r.pc = "idle" /\ r.dp = 0 /\ r.ip = 0 /\ r.tgt = 0
       /\ r.path \in Seq(DirNames) /\ r.new.elems \in Seq(DirNames)
  BY <1>12, Mine DEF Holds, Goal, Iput
<1>14. loc' = [loc EXCEPT ![p] = r]
  BY <1>12 DEF Extends, RefInv, Shapes
<1>15. OwnLocks(p, r)
  <2>1. \A f \in Entries : ~Keeps(loc[p], f)
    BY <1>12, <1>13 DEF Keeps, Goal, Iput, Entries
  <2> QED BY <1>3, <1>10, <2>1, NoLocks
<1>16. Updates(p, {e}, jc)
  <2>1. Mentions(p, e)
    BY <1>11 DEF Mentions
  <2> QED BY <1>2, <1>3, <1>4, <1>7, <1>8, <1>10, <2>1 DEF Updates
<1>17. Step(p, r) /\ CacheInv' /\ BirthsKept(p) /\ DeathsKept(p)
  BY <1>3, <1>14, <1>15, <1>16, UpdateCache
<1>18. SameTypes /\ entry' = entry /\ UNCHANGED files
  BY <1>7, <1>8 DEF SameTypes, Extends
<1>19. UnlinksKept(p)
  BY <1>18 DEF UnlinksKept
<1>20. ~Gone(j)
  <2> SUFFICES ASSUME NEW q \in Procs, loc[q].pc = "free", Inum(loc[q].tgt) = j PROVE FALSE
    BY DEF Gone
  <2>1. Alone(q, loc[q].tgt) /\ e = loc[q].tgt
    BY <1>2, <1>4, Dying
  <2> QED BY <1>11, <2>1 DEF Alone
<1>21. BlockInv'
  BY <1>4, <1>7, <1>8, <1>13, <1>17, <1>20, BlockTaken DEF Extends
<1>22. KeptIn(icache', fref', fip', cwd')
  BY <1>3, <1>10, <1>18, KeptUpdate
<1>23. ASSUME NEW i \in Inums, Born(i) PROVE CountOK(i)'
  <2>1. NameSet(i)' = NameSet(i)
    BY <1>18 DEF NameSet
  <2>2. SubDirs(i)' = SubDirs(i)
    <3>1. \A n \in Names : entry[i][n] \in Inums \cup {0}
      BY DEF RefInv, Shapes, DiskShapes, DirNames
    <3> QED BY <1>18, <3>1 DEF SubDirs, SameTypes
  <2>3. Owing(i)' \subseteq Owing(i)
    <3>1. ~Owes(r, i)'
      BY <1>13 DEF Owes
    <3> QED BY <1>17, <3>1, OwingStep
  <2>4. IsFiniteSet(Owing(i))
    BY NameSets
  <2>5. Cardinality(Owing(i)') <= Cardinality(Owing(i)) + 0
    BY <2>3, <2>4, CardMoves
  <2>6. dinode'[i].nlink = dinode[i].nlink /\ dinode[i].nlink \in Int
    BY <1>5, <1>7, <1>8 DEF AnyDinode
  <2>7. GrowBy(i, 0, 0, 0)
    BY <2>1, <2>2, <2>5, <2>6, NameSets DEF GrowBy
  <2> QED BY <1>23, <2>7, CountStep
<1>24. OnlyBorn /\ SameDots /\ NewBorn
  BY <1>4, <1>8, <1>18 DEF OnlyBorn, SameDots, NewBorn
<1>25. DiskInv'
  BY <1>13, <1>17, <1>18, <1>23, <1>24, SteadyDisk
<1>26. Suits(r, p, icache')
  BY <1>13, IdleSuits
<1> QED BY <1>13, <1>17, <1>18, <1>19, <1>21, <1>22, <1>25, <1>26, SteadyStep

(* A file is written. *)
LEMMA WriteLive ==
    ASSUME RefInv, RefInv', LiveInv, NEW p \in Procs, NEW d \in Fds, Write(p, d)
    PROVE  LiveInv'
<1>1. loc[p].pc = "idle" /\ ofile[p][d] # 0
  BY DEF Write, At
<1>2. PICK e : e = fip[ofile[p][d]] /\ Unlocked(e)
  BY DEF Write
<1>3. e \in Entries /\ icache[e].ref > 0
  BY <1>1, <1>2, FileReads
<1>4. Ilock(icache, e)[e].copy = dinode[Inum(e)]
  BY <1>2, <1>3, IlockCopy
<1>5. PICK b \in Blocks : Extends(e, b) /\ dinode[Inum(e)].addr = 0
  BY <1>2, <1>4 DEF Write, Extends, Balloc
<1> QED BY <1>1, <1>2, <1>5, ExtendsLive

(* The inodes are as before, and p owes no more names. *)
LEMMA StillDisk ==
    ASSUME RefInv, RefInv', LiveInv, NEW p \in Procs, NEW r, Step(p, r),
           BornAsBefore, dinode' = dinode, entry' = entry, OwesLess(p, r)
    PROVE  DiskInv' /\ SameTypes /\ UnlinksKept(p)
<1>1. SameTypes /\ UnlinksKept(p)
  BY DEF SameTypes, UnlinksKept
<1>2. ASSUME NEW i \in Inums, Born(i) PROVE CountOK(i)'
  <2>1. NameSet(i)' = NameSet(i) /\ SubDirs(i)' = SubDirs(i)
    BY DEF NameSet, SubDirs
  <2>2. Owing(i)' \subseteq Owing(i)
    BY OwingStep DEF OwesLess
  <2>3. IsFiniteSet(Owing(i))
    BY NameSets
  <2>4. Cardinality(Owing(i)') <= Cardinality(Owing(i)) + 0
    BY <2>2, <2>3, CardMoves
  <2>5. dinode[i].nlink \in Int
    BY DEF RefInv, Shapes, DiskShapes, AnyDinode
  <2>6. GrowBy(i, 0, 0, 0)
    BY <2>1, <2>4, <2>5, NameSets DEF GrowBy
  <2> QED BY <1>2, <2>6, CountStep
<1>3. OnlyBorn /\ SameDots /\ NewBorn
  BY DEF OnlyBorn, SameDots, NewBorn
<1>4. DiskInv'
  BY <1>1, <1>2, <1>3, BornDisk
<1> QED BY <1>1, <1>4

(* The processes after a step that leaves the inodes that were alive. *)
LEMMA AllFit ==
    ASSUME RefInv, RefInv', LiveInv, NEW p \in Procs, NEW r, Step(p, r), NEW d,
           Survive(d), Untouched(p, d), BirthsKept(p), UnlinksKept(p), DeathsKept(p),
           Fit(r, p)'
    PROVE  \A q \in Procs : Fit(loc[q], q)'
<1>1. loc'[p] = r
  BY DEF Step, RefInv, Shapes
<1>2. \A q \in Procs \ {p} : Fit(loc[q], q)'
  BY OthersFit
<1>3. Fit(loc[p], p)'
  BY <1>1 DEF Fit, FitPaths, FitLocks, FitPointers, FitInodes, Linking, Bears, Goal
<1> QED BY <1>2, <1>3

(* No inode has the number 0. *)
LEMMA NoneTouched ==
    ASSUME RefInv, NEW p \in Procs
    PROVE  Untouched(p, 0)
BY Targets, InodeAssumption DEF Untouched

(* What p goes to next inside iput, with the same inodes. *)
Onward(l, r) ==
    /\ r.path = l.path /\ r.new = l.new /\ r.call = l.call /\ r.dp = l.dp /\ r.ip = l.ip
    /\ r.tgt = l.tgt /\ r.num = l.num /\ r.then = l.then
    /\ l.pc \in Iput /\ r.pc \in Iput /\ Goal(r) = Goal(l)
(* A step within iput keeps the variables of the call. *)
LEMMA OnwardFrame ==
    ASSUME RefInv, NEW p \in Procs, NEW t \in Iput, loc[p].pc \in Iput, Goto(p, t), NEW r,
           r = [loc[p] EXCEPT !.pc = t]
    PROVE  loc' = [loc EXCEPT ![p] = r] /\ r.pc = t /\ Onward(loc[p], r) /\ r \in Frame
<1>1. loc[p] \in Frame
  BY DEF RefInv, Shapes
<1>2. t \in Labels
  BY DEF Iput, Labels
<1>3. r \in Frame /\ r.pc = t /\ Onward(loc[p], r)
  BY <1>1, <1>2 DEF Frame, Onward, Goal
<1> QED BY <1>3 DEF Goto

(* itrunc gives the block of the inode back. *)
LEMMA TruncLive ==
    ASSUME RefInv, RefInv', LiveInv, NEW p \in Procs, Trunc(p)
    PROVE  LiveInv'
<1>1. PICK l \in Frame : l = loc[p] /\ Holds(l) /\ Fit(l, p) /\ l.pc = "trunc"
  BY Mine DEF Trunc, At
<1>2. /\ UNCHANGED <<dinode, entry, icache>> /\ UNCHANGED files /\ Goto(p, "free")
  BY DEF Trunc
<1>3. PICK e \in Entries : /\ e = l.tgt /\ icache[e].lock = p /\ Inum(e) \in Inums
                           /\ icache[e].ref = 1 /\ dinode[Inum(e)].nlink = 0 /\ Born(Inum(e))
  BY <1>1, Dying DEF Fit, FitLocks
<1>4. PICK r : r = [l EXCEPT !.pc = "free"]
  OBVIOUS
<1>5. loc' = [loc EXCEPT ![p] = r] /\ r.pc = "free" /\ Onward(l, r)
  BY <1>1, <1>2, <1>4, OnwardFrame DEF Iput
<1>6. CacheStep(icache, p, 0)
  BY <1>2, StillCache
<1>7. Updates(p, {}, icache)
  BY <1>2 DEF Updates
<1>8. OwnLocks(p, r)
  <2>1. \A f \in Entries : Keeps(l, f) => Keeps(r, f)
    BY <1>1, <1>5 DEF Keeps, Onward
  <2> QED BY <1>1, <1>2, <2>1, Mine DEF OwnLocks
<1>9. Step(p, r) /\ CacheInv' /\ BirthsKept(p) /\ DeathsKept(p)
  BY <1>1, <1>5, <1>6, <1>7, <1>8, UpdateCache
<1>10. BornAsBefore
  BY <1>1, <1>2, <1>5, <1>9, CalmBorn DEF BornAsBefore
<1>11. OwesLess(p, r)
  BY <1>1, <1>2, <1>5 DEF OwesLess, Owes, Linking, Onward, Inum, Goal
<1>12. DiskInv' /\ SameTypes /\ UnlinksKept(p)
  BY <1>2, <1>9, <1>10, <1>11, StillDisk
<1>13. Fit(r, p)'
  <2>1. FitPaths(r)'
    BY <1>1, <1>2, <1>5 DEF Fit, FitPaths, Onward, Inum, Goal
  <2>2. FitLocks(r, p)'
    BY <1>1, <1>2, <1>5 DEF Fit, FitLocks, Onward, Goal
  <2>3. \A f \in Entries : Born(Inum(f)) /\ Inum(f) \in Inums => Born(Inum(f))'
    BY <1>2, <1>10 DEF BornAsBefore, Born, Bears, Inum
  <2>4. FitPointers(r)'
    <3>1. /\ r.dp # 0 => r.dp \in Entries /\ Born(Inum(r.dp)) /\ Inum(r.dp) \in Inums
          /\ r.ip # 0 => r.ip \in Entries /\ Born(Inum(r.ip)) /\ Inum(r.ip) \in Inums
          /\ r.tgt \in Entries /\ Born(Inum(r.tgt)) /\ Inum(r.tgt) \in Inums
      BY <1>1, <1>3, <1>5, Targets DEF Fit, FitPointers, Onward
    <3> QED BY <2>3, <3>1 DEF FitPointers
  <2>5. FitInodes(r)'
    <3>1. /\ \A i : ~Bears(r, i)' /\ r.pc \notin {"parent", "unlink"}
      BY <1>5 DEF Bears
    <3>2. r.ip # 0 /\ Linking(r) => dinode[Inum(r.ip)].type # "dir"
      BY <1>1, <1>5 DEF Fit, FitInodes, Onward, Linking, Goal
    <3>3. dinode[Inum(r.tgt)].nlink = 0 /\ icache[r.tgt].ref = 1
      BY <1>3, <1>5 DEF Onward
    <3> QED BY <1>2, <3>1, <3>2, <3>3 DEF FitInodes, Inum, Linking, Goal
  <2> QED BY <2>1, <2>2, <2>4, <2>5 DEF Fit
<1>14. \A q \in Procs : Fit(loc[q], q)'
  <2>1. Survive(0)
    BY <1>10, <1>12 DEF Survive, BornAsBefore, SameTypes
  <2> QED BY <1>9, <1>12, <1>13, <2>1, NoneTouched, AllFit
<1>15. KeptAlive'
  <2>1. ASSUME NEW q \in Procs PROVE Born(Inum(cwd[q]))'
    <3>1. Born(Inum(cwd[q])) /\ Inum(cwd[q]) \in Inums
      BY Targets DEF LiveInv, KeptAlive
    <3> QED BY <1>2, <1>10, <3>1 DEF BornAsBefore, Born, Bears, Inum, files
  <2>2. ASSUME NEW f \in Files, fref[f] > 0 PROVE Born(Inum(fip[f]))'
    <3>1. Born(Inum(fip[f])) /\ Inum(fip[f]) \in Inums
      BY <2>2, FileTarget DEF LiveInv, KeptAlive
    <3> QED BY <1>2, <1>10, <3>1 DEF BornAsBefore, Born, Bears, Inum, files
  <2> QED BY <1>2, <2>1, <2>2 DEF KeptAlive, files
<1>16. PICK d \in Inums : d = Inum(e) /\ ~Gone(d)
  <2>1. ASSUME NEW q \in Procs, loc[q].pc = "free", Inum(loc[q].tgt) = Inum(e) PROVE FALSE
    <3>1. Alone(q, loc[q].tgt) /\ e = loc[q].tgt /\ q # p
      BY <1>1, <1>3, <2>1, Dying
    <3> QED BY <1>1, <1>3, <3>1 DEF Alone
  <2> QED BY <1>3, <2>1 DEF Gone
<1>17. bitmap' = bitmap \ {dinode[d].addr}
  <2>1. icache[e].copy = dinode[d]
    BY <1>1, <1>3, <1>16, HeldCopy
  <2> QED BY <1>1, <1>3, <2>1 DEF Trunc, Bfree
<1>18. \A i \in Inums : Gone(i)' <=> Gone(i) \/ i = d
  <2>1. loc'[p] = r /\ \A q \in Procs \ {p} : loc'[q] = loc[q]
    BY <1>5 DEF RefInv, Shapes
  <2>2. r.tgt = e
    BY <1>3, <1>5 DEF Onward
  <2> QED BY <1>1, <1>2, <1>5, <1>16, <2>1, <2>2 DEF Gone, Inum
<1>19. BlockInv'
  <2>1. ASSUME NEW c \in Blocks, NEW i \in Inums
        PROVE  Owns(i, c)' <=> Owns(i, c) /\ i # d
    BY <1>2, <1>18 DEF Owns
  <2> SUFFICES ASSUME NEW c \in Blocks
               PROVE  /\ c \in bitmap' <=> \E i \in Inums : Owns(i, c)'
                      /\ \A h, i \in Inums : Owns(h, c)' /\ Owns(i, c)' => h = i
    BY DEF BlockInv
  <2>2. /\ c \in bitmap <=> \E i \in Inums : Owns(i, c)
        /\ \A h, i \in Inums : Owns(h, c) /\ Owns(i, c) => h = i
    BY DEF LiveInv, BlockInv
  <2>3. Owns(d, c) <=> c = dinode[d].addr
    BY <1>16 DEF Owns
  <2> QED BY <1>17, <2>1, <2>2, <2>3
<1> QED BY <1>9, <1>12, <1>14, <1>15, <1>19 DEF LiveInv

(* The pointers between system calls, when inode d dies. *)
Unkept(d) ==
    /\ \A q \in Procs : Inum(cwd[q]) # d
    /\ \A f \in Files : fref[f] > 0 => Inum(fip[f]) # d
(* What files and current directories refer to stays alive. *)
LEMMA KeptStays ==
    ASSUME RefInv, LiveInv, NEW p \in Procs, NEW r, Step(p, r), UNCHANGED files, NEW d,
           Survive(d), Unkept(d)
    PROVE  KeptAlive'
<1>1. ASSUME NEW e \in Entries, icache[e].ref > 0, Born(Inum(e)), Inum(e) \in Inums, Inum(e) # d
      PROVE  Born(Inum(e))'
  <2>1. PICK i \in Inums : i = Inum(e) /\ Born(i)'
    BY <1>1 DEF Survive
  <2>2. icache'[e].inum = i
    BY <1>1, <2>1 DEF Step, Inum
  <2> QED BY <2>1, <2>2 DEF Born, Bears, Inum
<1>2. ASSUME NEW q \in Procs PROVE Born(Inum(cwd[q]))'
  <2>1. PICK e \in Entries : e = cwd[q] /\ icache[e].ref > 0 /\ Inum(e) \in Inums
    BY Targets
  <2>2. Born(Inum(e)) /\ Inum(e) # d
    BY <2>1 DEF LiveInv, KeptAlive, Unkept
  <2>3. Born(Inum(e))'
    BY <1>1, <2>1, <2>2
  <2> QED BY <2>1, <2>3 DEF Born, Bears, Inum, files
<1>3. ASSUME NEW f \in Files, fref[f] > 0 PROVE Born(Inum(fip[f]))'
  <2>1. PICK e \in Entries : e = fip[f] /\ icache[e].ref > 0 /\ Inum(e) \in Inums
    BY <1>3, FileTarget
  <2>2. Born(Inum(e)) /\ Inum(e) # d
    BY <1>3, <2>1 DEF LiveInv, KeptAlive, Unkept
  <2>3. Born(Inum(e))'
    BY <1>1, <2>1, <2>2
  <2> QED BY <2>1, <2>3 DEF Born, Bears, Inum, files
<1> QED BY <1>2, <1>3 DEF KeptAlive, files
(* Nothing refers to inode 0. *)
LEMMA NoneUnkept ==
    ASSUME RefInv
    PROVE  Unkept(0)
BY Targets, FileTarget, InodeAssumption DEF Unkept

(* What p relies on inside iput, after d has died. *)
LEMMA OnwardFit ==
    ASSUME RefInv, LiveInv, NEW p \in Procs, NEW r, Step(p, r), Onward(loc[p], r),
           r.pc \in {"invalidate", "drop"}, NEW d, Survive(d),
           loc[p].dp # 0 => Inum(loc[p].dp) # d,
           loc[p].ip # 0 => Inum(loc[p].ip) # d,
           Goal(r) = "unlinked" => icache'[r.ip].lock = p,
           r.pc = "invalidate" => icache'[r.tgt].lock = p /\ r.ip # r.tgt
    PROVE  Fit(r, p)'
<1>1. PICK l \in Frame : l = loc[p] /\ Holds(l) /\ Fit(l, p) /\ l.pc \in Iput
  BY Mine DEF Onward
<1>2. Goal(r) \notin {"ialloc", "iget", "enter", "unlink", "parent"}
  BY <1>1 DEF Onward, Holds, Goal
<1>3. ASSUME NEW e \in Entries, e \in {l.dp, l.ip}
      PROVE  /\ icache'[e].inum = Inum(e) /\ Inum(e) \in Inums /\ Born(Inum(e))
             /\ Born(Inum(e))' /\ dinode'[icache'[e].inum].type = dinode[Inum(e)].type
  <2>1. icache[e].ref > 0 /\ Inum(e) \in Inums /\ Inum(e) # d
    BY <1>1, <1>3, Targets DEF Entries
  <2>2. Born(Inum(e))
    BY <1>1, <1>3 DEF Fit, FitPointers, Entries, Iput
  <2>3. PICK i \in Inums : /\ i = Inum(e) /\ Born(i)' /\ dinode'[i].type = dinode[i].type
                           /\ icache'[e].inum = i
    BY <2>1, <2>2 DEF Survive, Step, Inum
  <2> QED BY <2>1, <2>2, <2>3 DEF Born, Bears, Inum
<1>4. l.dp \in Entries \cup {0} /\ l.ip \in Entries \cup {0}
  BY <1>1 DEF Frame
<1>5. FitPaths(r)'
  <2>1. l.path \in Seq(DirNames) /\ l.new.elems \in Seq(DirNames)
    BY <1>1, Mine
  <2> QED BY <1>1, <1>2, <2>1 DEF FitPaths, Onward, Goal
<1>6. FitLocks(r, p)'
  BY <1>2 DEF FitLocks, Goal
<1>7. FitPointers(r)'
  BY <1>1, <1>3, <1>4 DEF FitPointers, Onward
<1>8. FitInodes(r)'
  <2>1. \A i : ~Bears(r, i)'
    BY DEF Bears
  <2>2. r.ip # 0 /\ Linking(r) => dinode'[icache'[r.ip].inum].type # "dir"
    BY <1>1, <1>3, <1>4 DEF Fit, FitInodes, Onward, Linking, Goal
  <2> QED BY <2>1, <2>2 DEF FitInodes, Inum, Linking, Goal
<1> QED BY <1>5, <1>6, <1>7, <1>8 DEF Fit

(* iput forgets the inode that it has freed. *)
LEMMA InvalidateLive ==
    ASSUME RefInv, RefInv', LiveInv, NEW p \in Procs, Invalidate(p)
    PROVE  LiveInv'
<1>1. PICK l \in Frame : l = loc[p] /\ Holds(l) /\ Fit(l, p) /\ l.pc = "invalidate"
  BY Mine DEF Invalidate, At
<1>2. dinode' = dinode /\ entry' = entry /\ bitmap' = bitmap /\ UNCHANGED files /\ Goto(p, "drop")
  BY DEF Invalidate, disk
<1>3. PICK e \in Entries : e = l.tgt /\ icache[e].lock = p
  BY <1>1, Targets DEF Fit, FitLocks, Holds, Iput
<1>4. PICK r : r = [l EXCEPT !.pc = "drop"]
  OBVIOUS
<1>5. loc' = [loc EXCEPT ![p] = r] /\ r.pc = "drop" /\ Onward(l, r)
  BY <1>1, <1>2, <1>4, OnwardFrame DEF Iput
<1>6. icache \in [Entries -> Cached]
  BY Mine
<1>7. \A f \in Entries : /\ icache'[f].ref = icache[f].ref /\ icache'[f].inum = icache[f].inum
                         /\ icache'[f].copy = icache[f].copy
                         /\ f # e => icache'[f].lock = icache[f].lock /\ icache'[f].valid = icache[f].valid
                         /\ f = e => icache'[f].lock = Nobody /\ icache'[f].valid = FALSE
  <2>1. PICK ic : ic = [icache EXCEPT ![e].valid = FALSE]
    OBVIOUS
  <2>2. ic \in [Entries -> Cached] /\ ic[e].lock = p /\ e # 0
    <3>1. ic \in [Entries -> Cached]
      BY <1>6, <2>1, SameSteps DEF Same, Invalid
    <3>2. ic[e] = [icache[e] EXCEPT !.valid = FALSE] /\ icache[e] \in Cached
      BY <1>6, <2>1
    <3> QED BY <1>3, <3>1, <3>2 DEF Cached, Entries
  <2>3. icache' = [ic EXCEPT ![e].lock = Nobody]
    BY <1>1, <1>3, <2>1, <2>2 DEF Invalidate, Invalid, Iunlock
  <2> QED BY <1>6, <2>1, <2>2, <2>3 DEF Cached
<1>8. Step(p, r)
  BY <1>3, <1>5, <1>7, InodeAssumption DEF Step
<1>9. CacheInv'
  <2>1. OneIn(icache')
    BY <1>7 DEF OneIn, LiveInv, CacheInv, OneEntry, Inum
  <2>2. OwnLocks(p, r)
    <3> SUFFICES ASSUME NEW f \in Entries, icache'[f].lock = p
                 PROVE  icache'[f].valid /\ Keeps(r, f)
      BY DEF OwnLocks
    <3>1. f # e /\ icache[f].lock = p
      BY <1>7, InodeAssumption
    <3>2. icache[f].valid /\ Keeps(l, f)
      BY <1>1, <3>1, Mine
    <3>3. Keeps(r, f)
      BY <1>3, <1>5, <3>1, <3>2 DEF Keeps, Onward
    <3> QED BY <1>7, <3>1, <3>2, <3>3
  <2>3. ValidKept(p)
    BY <1>3, <1>7, InodeAssumption DEF ValidKept, LiveInv, CacheInv, LockKept
  <2>4. Coheres(p, r)
    BY <1>1, <1>2, <1>3, <1>7 DEF Coheres
  <2> QED BY <1>8, <2>1, <2>2, <2>3, <2>4, CacheInvStep
<1>10. BornAsBefore
  BY <1>1, <1>2, <1>5, <1>8, CalmBorn DEF BornAsBefore
<1>11. OwesLess(p, r)
  <2>1. l.ip # 0 => l.ip \in Entries
    BY <1>1 DEF Frame
  <2> QED BY <1>1, <1>5, <1>7, <2>1 DEF OwesLess, Owes, Linking, Onward, Inum, Goal
<1>12. DiskInv' /\ SameTypes /\ UnlinksKept(p)
  BY <1>2, <1>8, <1>10, <1>11, StillDisk
<1>13. Survive(0)
  BY <1>10, <1>12 DEF Survive, BornAsBefore, SameTypes
<1>14. Fit(r, p)'
  <2>1. loc[p].dp # 0 => Inum(loc[p].dp) # 0
    BY Targets, InodeAssumption
  <2>2. loc[p].ip # 0 => Inum(loc[p].ip) # 0
    BY Targets, InodeAssumption
  <2>3. Goal(r) = "unlinked" => icache'[r.ip].lock = p
    <3> SUFFICES ASSUME Goal(r) = "unlinked" PROVE icache'[r.ip].lock = p
      OBVIOUS
    <3>1. PICK g \in Entries : g = l.ip /\ icache[g].lock = p /\ Born(Inum(g)) /\ r.ip = g
      BY <1>1, <1>5, Targets DEF Fit, FitLocks, FitPointers, Holds, Onward, Entries
    <3>2. g # e
      BY <1>1, <1>3, <3>1 DEF Fit, FitLocks
    <3> QED BY <1>7, <3>1, <3>2
  <2> QED BY <1>1, <1>5, <1>8, <1>13, <2>1, <2>2, <2>3, OnwardFit
<1>15. \A q \in Procs : Fit(loc[q], q)'
  <2>1. BirthsKept(p)
    BY <1>2 DEF BirthsKept
  <2>2. DeathsKept(p)
    <3> SUFFICES ASSUME NEW q \in Procs \ {p}, loc[q].pc \in {"trunc", "free"}
                 PROVE  icache'[loc[q].tgt].ref = 1 /\ dinode'[Inum(loc[q].tgt)].nlink = 0
      BY DEF DeathsKept
    <3> QED BY <1>2, <1>7, Dying
  <2> QED BY <1>8, <1>12, <1>13, <1>14, <2>1, <2>2, NoneTouched, AllFit
<1>16. KeptAlive'
  BY <1>2, <1>8, <1>13, KeptStays, NoneUnkept
<1>17. BlockInv'
  BY <1>1, <1>2, <1>5, <1>8, BlocksStay
<1> QED BY <1>9, <1>12, <1>15, <1>16, <1>17 DEF LiveInv

(* The death of an inode: process p frees d, the inode of entry e. *)
Dies(p, e, d) ==
    /\ e \in Entries /\ d \in Inums /\ e = loc[p].tgt /\ d = Inum(e) /\ icache[e].lock = p
    /\ icache[e].ref = 1 /\ Born(d) /\ Nameless(d) /\ Alone(p, e)
    /\ \A f \in Entries : icache[f].ref > 0 /\ Inum(f) = d => f = e
    /\ dinode'[d].type = "none" /\ dinode'[d].nlink = 0 /\ dinode'[d].addr = 0
    /\ entry'[d] = NoNames
    /\ \A i \in Inums \ {d} : dinode'[i] = dinode[i] /\ entry'[i] = entry[i]
    /\ \A f \in Entries : /\ icache'[f].ref = icache[f].ref /\ icache'[f].inum = icache[f].inum
                          /\ icache'[f].lock = icache[f].lock /\ icache'[f].valid = icache[f].valid
                          /\ f # e => icache'[f].copy = icache[f].copy
    /\ UNCHANGED bitmap /\ UNCHANGED files

(* That is what the step does. *)
LEMMA FreeDies ==
    ASSUME RefInv, LiveInv, NEW p \in Procs, Free(p)
    PROVE  Dies(p, loc[p].tgt, Inum(loc[p].tgt))
<1>1. loc[p].pc = "free"
  BY DEF Free, At
<1>2. PICK e \in Entries : /\ e = loc[p].tgt /\ icache[e].lock = p /\ Inum(e) \in Inums
                           /\ icache[e].ref = 1 /\ dinode[Inum(e)].nlink = 0 /\ Born(Inum(e))
                           /\ Nameless(Inum(e)) /\ Alone(p, e)
                           /\ \A f \in Entries : icache[f].ref > 0 /\ Inum(f) = Inum(e) => f = e
  <2>1. icache[loc[p].tgt].lock = p
    BY <1>1, Mine DEF Fit, FitLocks
  <2> QED BY <1>1, <2>1, Dying
<1>3. PICK d \in Inums : d = Inum(e)
  BY <1>2
<1>4. icache[e].copy = dinode[d] /\ icache \in [Entries -> Cached]
  BY <1>1, <1>2, <1>3, HeldCopy, Mine
<1>5. /\ dinode \in [Inums -> AnyDinode]
      /\ entry \in [Inums -> [DirNames -> Inums \cup {0}]]
  BY DEF RefInv, Shapes, DiskShapes
<1>6. PICK c : c = [dinode[d] EXCEPT !.type = "none", !.addr = 0]
  OBVIOUS
<1>7. c.type = "none" /\ c.addr = 0 /\ c.nlink = 0
  BY <1>2, <1>3, <1>5, <1>6 DEF AnyDinode
<1>8. /\ dinode' = [dinode EXCEPT ![d] = c] /\ entry' = [entry EXCEPT ![d] = NoNames]
      /\ icache' = [icache EXCEPT ![e].copy = c]
  BY <1>2, <1>3, <1>4, <1>6 DEF Free, Iupdate, Change, Dir, Inum
<1>9. /\ dinode'[d] = c /\ entry'[d] = NoNames
      /\ \A i \in Inums \ {d} : dinode'[i] = dinode[i] /\ entry'[i] = entry[i]
  BY <1>5, <1>8
<1>10. \A f \in Entries : /\ icache'[f].ref = icache[f].ref /\ icache'[f].inum = icache[f].inum
                          /\ icache'[f].lock = icache[f].lock /\ icache'[f].valid = icache[f].valid
                          /\ f # e => icache'[f].copy = icache[f].copy
  BY <1>4, <1>8 DEF Cached
<1>11. UNCHANGED bitmap /\ UNCHANGED files
  BY DEF Free
<1> QED BY <1>2, <1>3, <1>7, <1>9, <1>10, <1>11 DEF Dies

(* Nobody else has anything to do with d. *)
LEMMA DiesApart ==
    ASSUME RefInv, LiveInv, NEW p \in Procs, NEW e, NEW d, Dies(p, e, d)
    PROVE  /\ Untouched(p, d) /\ Unkept(d)
           /\ loc[p].dp # 0 => Inum(loc[p].dp) # d
           /\ loc[p].ip # 0 => Inum(loc[p].ip) # d
           /\ loc[p].ip # e
           /\ \A q \in Procs, i \in Inums : Bears(loc[q], i) => i # d
<1>1. \A f \in Entries : icache[f].ref > 0 /\ Inum(f) = d => f = e
  BY DEF Dies
<1>2. Alone(p, e) /\ Born(d) /\ d \in Inums
  BY DEF Dies
<1>3. ASSUME NEW q \in Procs
      PROVE  /\ loc[q].dp # 0 => Inum(loc[q].dp) # d
             /\ loc[q].ip # 0 => Inum(loc[q].ip) # d
             /\ Inum(cwd[q]) # d
  BY <1>1, <1>2, Targets DEF Alone
<1>4. ASSUME NEW q \in Procs \ {p} PROVE loc[q].tgt # 0 => Inum(loc[q].tgt) # d
  BY <1>1, <1>2, Targets DEF Alone
<1>5. ASSUME NEW f \in Files, fref[f] > 0 PROVE Inum(fip[f]) # d
  BY <1>1, <1>2, <1>5, FileTarget DEF Alone
<1> QED BY <1>2, <1>3, <1>4, <1>5 DEF Untouched, Unkept, Alone, Born

(* The disk stays in order without the inode, *)
LEMMA FreeDisk ==
    ASSUME RefInv, RefInv', LiveInv, NEW p \in Procs, NEW r, Step(p, r), NEW e, NEW d, Dies(p, e, d),
           \A i \in Inums \ {d} : Born(i)' <=> Born(i),
           \A q \in Procs : \A i : Bears(loc[q], i)' <=> Bears(loc[q], i),
           OwesLess(p, r)
    PROVE  DiskInv'
<1>1. /\ d \in Inums /\ Nameless(d) /\ Born(d) /\ entry'[d] = NoNames
      /\ dinode'[d].type = "none" /\ dinode'[d].nlink = 0 /\ dinode'[d].addr = 0
      /\ \A i \in Inums \ {d} : dinode'[i] = dinode[i] /\ entry'[i] = entry[i]
  BY DEF Dies
<1>2. ~Born(d)'
  BY <1>1 DEF Born
<1>3. /\ OneBirth /\ RootAlive
      /\ \A i \in Inums : Blank(i) /\ NamesBorn(i) /\ Dots(i) /\ Up(i) /\ CountOK(i)
  BY DEF LiveInv, DiskInv
<1>4. OneBirth'
  BY <1>3 DEF OneBirth
<1>5. RootAlive'
  BY <1>1, <1>3, InodeAssumption DEF RootAlive, Nameless
<1>6. \A n \in DirNames : entry'[d][n] = 0
  BY <1>1 DEF NoNames
<1>7. ASSUME NEW i \in Inums PROVE Blank(i)'
  BY <1>1, <1>3 DEF Blank
<1>8. ASSUME NEW i \in Inums PROVE NamesBorn(i)'
  <2> SUFFICES ASSUME NEW n \in Names, entry'[i][n] # 0 PROVE Born(entry[i][n])'
    BY DEF NamesBorn
  <2>1. i # d /\ entry'[i][n] = entry[i][n]
    BY <1>1, <1>6 DEF DirNames
  <2>2. PICK j \in Inums : j = entry[i][n] /\ Born(j) /\ j # d
    <3>1. entry[i][n] \in Inums \cup {0}
      BY DEF RefInv, Shapes, DiskShapes, DirNames
    <3> QED BY <1>1, <1>3, <2>1, <3>1 DEF NamesBorn, Nameless
  <2>3. Born(j)'
    BY <2>2
  <2> QED BY <2>1, <2>2, <2>3 DEF Born, Bears
<1>9. ASSUME NEW i \in Inums PROVE Dots(i)'
  <2>1. CASE i = d
    BY <1>2, <1>6, <2>1 DEF Dots, DirNames
  <2>2. CASE i # d
    BY <1>1, <1>3, <2>2 DEF Dots
  <2> QED BY <2>1, <2>2
<1>11. ASSUME NEW i \in Inums PROVE Up(i)'
  <2>1. CASE i = d
    BY <1>1, <1>6, <2>1 DEF Up, DirNames, Nameless
  <2>2. CASE i # d
    <3>1. entry'[i] = entry[i] /\ Up(i)
      BY <1>1, <1>3, <2>2
    <3>2. ASSUME NEW n \in Names, entry'[i][n] # 0, dinode'[entry'[i][n]].type = "dir"
          PROVE  entry'[entry'[i][n]][".."] = i
      <4>1. PICK j \in Inums : j = entry[i][n] /\ j # d
        <5>1. entry[i][n] \in Inums \cup {0}
          BY DEF RefInv, Shapes, DiskShapes, DirNames
        <5> QED BY <1>1, <3>1, <3>2, <5>1 DEF Nameless
      <4>2. dinode[j].type = "dir" /\ entry'[j] = entry[j] /\ entry[i][n] # 0
        BY <1>1, <3>1, <3>2, <4>1
      <4>3. entry[j][".."] = i
        BY <3>1, <4>1, <4>2 DEF Up
      <4> QED BY <3>1, <4>1, <4>2, <4>3
    <3> QED BY <3>1, <3>2 DEF Up
  <2> QED BY <2>1, <2>2
<1>10. ASSUME NEW i \in Inums PROVE CountOK(i)'
  <2>1. CASE i = d \/ ~Born(i)
    BY <1>2, <2>1 DEF CountOK
  <2>2. CASE i # d /\ Born(i)
    <3>1. NameSet(i)' \subseteq NameSet(i)
      <4>1. i # 0
        BY InodeAssumption
      <4>2. \A x \in Inums \X Names : /\ x[1] \in Inums /\ x[2] \in Names
                                      /\ entry'[x[1]][x[2]] = i => entry[x[1]][x[2]] = i
        BY <1>1, <1>6, <4>1 DEF DirNames
      <4> QED BY <4>2 DEF NameSet
    <3>2. SubDirs(i)' \subseteq SubDirs(i)
      <4>1. \A n \in Names : /\ entry'[i][n] = entry[i][n] /\ entry[i][n] # d
                             /\ entry[i][n] \in Inums \cup {0}
        BY <1>1, <2>2 DEF Nameless, RefInv, Shapes, DiskShapes, DirNames
      <4> QED BY <1>1, <4>1 DEF SubDirs
    <3>3. Owing(i)' \subseteq Owing(i)
      BY OwingStep DEF OwesLess
    <3>4. IsFiniteSet(NameSet(i)) /\ IsFiniteSet(SubDirs(i)) /\ IsFiniteSet(Owing(i))
      BY NameSets
    <3>5. /\ Cardinality(NameSet(i)') <= Cardinality(NameSet(i)) + 0
          /\ Cardinality(SubDirs(i)') <= Cardinality(SubDirs(i)) + 0
          /\ Cardinality(Owing(i)') <= Cardinality(Owing(i)) + 0
      BY <3>1, <3>2, <3>3, <3>4, CardMoves
    <3>6. dinode'[i].nlink = dinode[i].nlink /\ dinode[i].nlink \in Int
      BY <1>1, <2>2 DEF RefInv, Shapes, DiskShapes, AnyDinode
    <3>7. GrowBy(i, 0, 0, 0)
      BY <3>5, <3>6 DEF GrowBy
    <3> QED BY <2>2, <3>7, CountStep
  <2> QED BY <2>1, <2>2
<1> QED BY <1>4, <1>5, <1>7, <1>8, <1>9, <1>10, <1>11 DEF DiskInv

(* and so do the blocks. *)
LEMMA FreeBlocks ==
    ASSUME RefInv, LiveInv, NEW p \in Procs, NEW r, Step(p, r), loc[p].pc = "free",
           r.pc = "invalidate", NEW e, NEW d, Dies(p, e, d)
    PROVE  BlockInv'
<1>1. /\ d \in Inums /\ d = Inum(e) /\ e = loc[p].tgt /\ bitmap' = bitmap /\ dinode'[d].addr = 0
      /\ \A i \in Inums \ {d} : dinode'[i] = dinode[i]
  BY DEF Dies
<1>2. loc'[p] = r
  BY DEF Step, RefInv, Shapes
<1>3. Gone(d)
  BY <1>1 DEF Gone
<1>4. ASSUME NEW i \in Inums \ {d} PROVE Gone(i)' <=> Gone(i)
  <2>1. ASSUME NEW q \in Procs
        PROVE  loc'[q].pc = "free" /\ icache'[loc'[q].tgt].inum = i
               <=> loc[q].pc = "free" /\ icache[loc[q].tgt].inum = i
    <3>1. CASE q = p
      BY <1>1, <1>2, <3>1 DEF Inum
    <3>2. CASE q # p
      <4>1. loc'[q] = loc[q] /\ (loc[q].tgt # 0 => Inum(loc[q].tgt)' = Inum(loc[q].tgt))
        BY <3>2, OthersStay
      <4>2. loc[q].pc = "free" => loc[q].tgt # 0
        BY DEF RefInv, Holds, Iput
      <4> QED BY <4>1, <4>2 DEF Inum
    <3> QED BY <3>1, <3>2
  <2> QED BY <2>1 DEF Gone, Inum
<1>5. ASSUME NEW c \in Blocks, NEW i \in Inums PROVE Owns(i, c)' <=> Owns(i, c)
  <2>1. CASE i = d
    BY <1>1, <1>3, <2>1, InodeAssumption DEF Owns
  <2>2. CASE i # d
    BY <1>1, <1>4, <2>2 DEF Owns
  <2> QED BY <2>1, <2>2
<1> QED BY <1>1, <1>5 DEF LiveInv, BlockInv

(* iput frees the inode. *)
LEMMA FreeLive ==
    ASSUME RefInv, RefInv', LiveInv, NEW p \in Procs, Free(p)
    PROVE  LiveInv'
<1>1. PICK l \in Frame : l = loc[p] /\ Holds(l) /\ Fit(l, p) /\ l.pc = "free"
  BY Mine DEF Free, At
<1>2. PICK e, d : e = loc[p].tgt /\ d = Inum(loc[p].tgt)
  OBVIOUS
<1>3. Dies(p, e, d)
  BY <1>2, FreeDies
<1>4. /\ Untouched(p, d) /\ Unkept(d)
      /\ loc[p].dp # 0 => Inum(loc[p].dp) # d
      /\ loc[p].ip # 0 => Inum(loc[p].ip) # d
      /\ loc[p].ip # e
      /\ \A q \in Procs, i \in Inums : Bears(loc[q], i) => i # d
  BY <1>3, DiesApart
<1>5. /\ e \in Entries /\ d \in Inums /\ icache[e].lock = p
      /\ \A f \in Entries : icache[f].ref > 0 /\ Inum(f) = d => f = e
      /\ \A i \in Inums \ {d} : dinode'[i] = dinode[i] /\ entry'[i] = entry[i]
      /\ UNCHANGED files
  BY <1>3 DEF Dies
<1>6. \A f \in Entries : /\ icache'[f].ref = icache[f].ref /\ icache'[f].inum = icache[f].inum
                         /\ icache'[f].lock = icache[f].lock /\ icache'[f].valid = icache[f].valid
                         /\ f # e => icache'[f].copy = icache[f].copy
  BY <1>3 DEF Dies
<1>7. PICK r : r = [l EXCEPT !.pc = "invalidate"]
  OBVIOUS
<1>8. loc' = [loc EXCEPT ![p] = r] /\ r.pc = "invalidate" /\ Onward(l, r)
  BY <1>1, <1>7, OnwardFrame DEF Iput, Free
<1>9. Step(p, r)
  BY <1>6, <1>8 DEF Step
<1>10. CacheInv'
  <2>1. OneIn(icache')
    BY <1>6 DEF OneIn, LiveInv, CacheInv, OneEntry, Inum
  <2>2. OwnLocks(p, r)
    <3>1. \A f \in Entries : Keeps(l, f) => Keeps(r, f)
      BY <1>1, <1>8 DEF Keeps, Onward
    <3> QED BY <1>1, <1>6, <3>1, Mine DEF OwnLocks
  <2>3. ValidKept(p)
    BY <1>6, InodeAssumption DEF ValidKept, LiveInv, CacheInv, LockKept
  <2>4. Coheres(p, r)
    <3> SUFFICES ASSUME NEW f \in Entries, f # e, icache'[f].ref > 0, icache'[f].valid
        PROVE  /\ icache[f].ref > 0 /\ icache[f].valid
               /\ icache'[f].copy = icache[f].copy
               /\ dinode'[icache[f].inum] = dinode[icache[f].inum]
      BY <1>1, <1>2, <1>8 DEF Coheres, Onward
    <3>1. icache[f].ref > 0 /\ icache[f].inum \in Inums
      BY <1>6 DEF RefInv, Used, Shapes, Cached
    <3> QED BY <1>5, <1>6, <3>1 DEF Inum
  <2> QED BY <1>9, <2>1, <2>2, <2>3, <2>4, CacheInvStep
<1>11. \A q \in Procs : \A i : Bears(loc[q], i)' <=> Bears(loc[q], i)
  <2>1. loc'[p] = r
    BY <1>9 DEF Step, RefInv, Shapes
  <2>2. \A i : ~Bears(loc[p], i) /\ ~Bears(loc[p], i)'
    BY <1>1, <1>8, <2>1 DEF Bears
  <2> QED BY <1>9, <2>2, OthersStay
<1>12. \A i \in Inums \ {d} : Born(i)' <=> Born(i)
  BY <1>5, <1>11 DEF Born
<1>13. OwesLess(p, r)
  <2>1. l.ip # 0 => l.ip \in Entries
    BY <1>1 DEF Frame
  <2> QED BY <1>1, <1>6, <1>8, <2>1 DEF OwesLess, Owes, Linking, Onward, Inum, Goal
<1>14. DiskInv'
  BY <1>3, <1>9, <1>11, <1>12, <1>13, FreeDisk
<1>15. Survive(d)
  BY <1>5, <1>12 DEF Survive
<1>16. Fit(r, p)'
  <2>1. Goal(r) = "unlinked" => icache'[r.ip].lock = p
    <3> SUFFICES ASSUME Goal(r) = "unlinked" PROVE icache'[r.ip].lock = p
      OBVIOUS
    <3>1. PICK g \in Entries : g = l.ip /\ icache[g].lock = p /\ r.ip = g
      BY <1>1, <1>8, Targets DEF Fit, FitLocks, Holds, Onward
    <3> QED BY <1>6, <3>1
  <2>2. icache'[r.tgt].lock = p /\ r.ip # r.tgt
    BY <1>1, <1>2, <1>4, <1>5, <1>6, <1>8 DEF Onward
  <2> QED BY <1>1, <1>4, <1>8, <1>9, <1>15, <2>1, <2>2, OnwardFit
<1>17. BirthsKept(p)
  BY <1>4, <1>5 DEF BirthsKept
<1>18. UnlinksKept(p)
  <2> SUFFICES ASSUME NEW q \in Procs \ {p}, loc[q].pc = "unlink"
               PROVE  entry'[Inum(loc[q].dp)] = entry[Inum(loc[q].dp)]
    BY DEF UnlinksKept
  <2>1. loc[q].dp # 0 /\ Inum(loc[q].dp) \in Inums
    BY Mine, Targets DEF Holds, Goal, Iput
  <2> QED BY <1>4, <1>5, <2>1 DEF Untouched
<1>19. DeathsKept(p)
  <2> SUFFICES ASSUME NEW q \in Procs \ {p}, loc[q].pc \in {"trunc", "free"}
               PROVE  icache'[loc[q].tgt].ref = 1 /\ dinode'[Inum(loc[q].tgt)].nlink = 0
    BY DEF DeathsKept
  <2>1. /\ loc[q].tgt \in Entries /\ Inum(loc[q].tgt) \in Inums
        /\ icache[loc[q].tgt].ref = 1 /\ dinode[Inum(loc[q].tgt)].nlink = 0
    BY Dying
  <2>2. Inum(loc[q].tgt) # d
    BY <1>4, <2>1 DEF Untouched, Entries
  <2> QED BY <1>5, <1>6, <2>1, <2>2
<1>20. \A q \in Procs : Fit(loc[q], q)'
  BY <1>4, <1>9, <1>15, <1>16, <1>17, <1>18, <1>19, AllFit
<1>21. KeptAlive'
  BY <1>4, <1>5, <1>9, <1>15, KeptStays
<1>22. BlockInv'
  BY <1>1, <1>3, <1>8, <1>9, FreeBlocks
<1> QED BY <1>10, <1>14, <1>20, <1>21, <1>22 DEF LiveInv

(* The type of a new inode. *)
LEMMA NewInode ==
    ASSUME NEW c
    PROVE  /\ [NoInode EXCEPT !.type = NewType(c)].type = NewType(c)
           /\ [NoInode EXCEPT !.type = NewType(c)].nlink = 0
           /\ [NoInode EXCEPT !.type = NewType(c)].addr = 0
           /\ NewType(c) \in {"file", "dir", "dev"} /\ NewType(c) # "none"
           /\ (NewType(c) = "dir" <=> c = "mkdir")
BY DEF NoInode, NewType

(* An inode that p allocates is nobody's. *)
LEMMA Unclaimed ==
    ASSUME RefInv, LiveInv, NEW i \in Inums, dinode[i].type = "none"
    PROVE  ~Born(i) /\ \A q \in Procs : ~Bears(loc[q], i)
<1>1. ~Born(i)
  BY DEF Born
<1>2. ASSUME NEW q \in Procs, Bears(loc[q], i) PROVE FALSE
  BY <1>2, NewInode DEF LiveInv, Fit, FitInodes
<1> QED BY <1>1, <1>2

(* ialloc takes a free inode. *)
LEMMA IallocLive ==
    ASSUME RefInv, RefInv', LiveInv, NEW p \in Procs, Ialloc(p)
    PROVE  LiveInv'
<1>1. PICK l \in Frame : /\ l = loc[p] /\ Holds(l) /\ Fit(l, p) /\ l.pc = "ialloc"
  BY Mine DEF Ialloc, At
<1>2. PICK i \in Inums :
         /\ dinode[i].type = "none"
         /\ dinode' = [dinode EXCEPT ![i] = [NoInode EXCEPT !.type = NewType(l.call)]]
         /\ loc' = [loc EXCEPT ![p].pc = "iget", ![p].num = i]
  BY <1>1 DEF Ialloc
<1>3. UNCHANGED <<entry, bitmap, icache>> /\ UNCHANGED files
  BY DEF Ialloc
<1>4. PICK c : /\ c = [NoInode EXCEPT !.type = NewType(l.call)]
               /\ c.type # "none" /\ c.nlink = 0 /\ c.addr = 0
  BY NewInode
<1>5. dinode'[i] = c /\ \A j \in Inums \ {i} : dinode'[j] = dinode[j]
  BY <1>2, <1>4 DEF RefInv, Shapes, DiskShapes
<1>6. PICK r : r = [l EXCEPT !.pc = "iget", !.num = i]
  OBVIOUS
<1>7. loc' = [loc EXCEPT ![p] = r]
  BY <1>1, <1>2, <1>6
<1>8. /\ r.pc = "iget" /\ r.num = i /\ r.dp = l.dp /\ r.ip = 0 /\ r.tgt = 0
      /\ r.path = l.path /\ r.new = l.new /\ r.call = l.call /\ r.then = l.then
      /\ Goal(r) = "iget" /\ Goal(l) = "ialloc" /\ l.dp # 0
  BY <1>1, <1>6 DEF Frame, Holds, Goal, Iput
<1>9. Step(p, r)
  BY <1>3, <1>7 DEF Step
<1>10. loc'[p] = r /\ \A q \in Procs \ {p} : loc'[q] = loc[q]
  BY <1>7 DEF RefInv, Shapes
<1>11. ~Born(i) /\ \A q \in Procs : ~Bears(loc[q], i)
  BY <1>2, Unclaimed
<1>12. /\ \A j : Bears(loc[p], j)' <=> j = i
       /\ \A q \in Procs \ {p} : \A j : Bears(loc[q], j)' <=> Bears(loc[q], j)
       /\ \A j : ~Bears(loc[p], j)
  BY <1>1, <1>3, <1>8, <1>10 DEF Bears, Inum
<1>13. \A j \in Inums : Born(j)' <=> Born(j)
  BY <1>5, <1>11, <1>12 DEF Born
<1>14. \A j \in Inums : Born(j) => dinode'[j] = dinode[j]
  BY <1>5, <1>11
<1>15. CacheInv'
  <2>1. OneEntry'
    BY <1>3 DEF OneEntry, Inum, LiveInv, CacheInv
  <2>2. ASSUME NEW e \in Entries PROVE LockKept(e)'
    <3>1. LockKept(e) /\ icache[e].lock \in Procs \cup {Nobody}
      BY DEF LiveInv, CacheInv, RefInv, Shapes, Cached
    <3>2. Keeps(l, e) => Keeps(r, e)
      BY <1>1, <1>8 DEF Keeps
    <3>3. CASE icache[e].lock = p
      <4>1. icache[e].valid /\ Keeps(r, e)
        BY <1>1, <3>1, <3>2, <3>3, InodeAssumption DEF LockKept
      <4> QED BY <1>3, <1>10, <3>3, <4>1 DEF LockKept, Keeps, Goal
    <3>4. CASE icache[e].lock \in Procs \ {p}
      BY <1>3, <1>10, <3>1, <3>4 DEF LockKept, Keeps, Goal
    <3>5. CASE icache[e].lock = Nobody
      BY <1>3, <3>5 DEF LockKept
    <3> QED BY <3>1, <3>3, <3>4, <3>5
  <2>3. ASSUME NEW e \in Entries PROVE Coherent(e)'
    <3> SUFFICES ASSUME icache[e].ref > 0, icache[e].valid
                 PROVE  \/ icache[e].copy = dinode'[Inum(e)] /\ dinode'[Inum(e)].type # "none"
                        \/ \E q \in Procs : loc'[q].pc = "invalidate" /\ loc'[q].tgt = e
      BY <1>3 DEF Coherent, Inum
    <3>1. Inum(e) \in Inums
      BY DEF RefInv, Used, Shapes, Cached, Inum
    <3>2. \/ icache[e].copy = dinode[Inum(e)] /\ dinode[Inum(e)].type # "none"
          \/ \E q \in Procs : loc[q].pc = "invalidate" /\ loc[q].tgt = e
      BY DEF LiveInv, CacheInv, Coherent
    <3>3. CASE icache[e].copy = dinode[Inum(e)] /\ dinode[Inum(e)].type # "none"
      BY <1>2, <1>5, <3>1, <3>3
    <3>4. ASSUME NEW q \in Procs, loc[q].pc = "invalidate", loc[q].tgt = e
          PROVE  loc'[q].pc = "invalidate" /\ loc'[q].tgt = e
      BY <1>1, <1>10, <3>4
    <3> QED BY <3>2, <3>3, <3>4
  <2> QED BY <2>1, <2>2, <2>3 DEF CacheInv
<1>16. DiskInv'
  <2>0. /\ OneBirth /\ RootAlive
        /\ \A j \in Inums : Blank(j) /\ NamesBorn(j) /\ Dots(j) /\ Up(j) /\ CountOK(j)
    BY DEF LiveInv, DiskInv
  <2>1. OneBirth'
    BY <1>11, <1>12, <2>0 DEF OneBirth
  <2>2. RootAlive'
    BY <1>13, <1>14, <2>0, InodeAssumption DEF RootAlive
  <2>3. ASSUME NEW j \in Inums PROVE Blank(j)'
    BY <1>3, <1>4, <1>5, <1>13, <2>0 DEF Blank
  <2>4. ASSUME NEW j \in Inums PROVE NamesBorn(j)'
    <3> SUFFICES ASSUME NEW n \in Names, entry'[j][n] # 0 PROVE Born(entry[j][n])'
      BY DEF NamesBorn
    <3>1. PICK k \in Inums : k = entry[j][n] /\ k = entry'[j][n] /\ Born(k)'
      <4>1. entry[j][n] \in Inums \cup {0}
        BY DEF RefInv, Shapes, DiskShapes, DirNames
      <4> QED BY <1>3, <1>13, <2>0, <4>1 DEF NamesBorn
    <3> QED BY <3>1 DEF Born, Bears
  <2>5. ASSUME NEW j \in Inums PROVE Dots(j)'
    <3>1. CASE Born(j)
      BY <1>3, <1>13, <1>14, <2>0, <3>1 DEF Dots
    <3>2. CASE ~Born(j)
      <4>1. entry'[j] = NoNames /\ ~Born(j)'
        BY <1>3, <1>13, <2>0, <3>2 DEF Blank
      <4> QED BY <4>1 DEF Dots, NoNames, DirNames
    <3> QED BY <3>1, <3>2
  <2>8. ASSUME NEW j \in Inums PROVE Up(j)'
    <3>1. \A n \in Names : entry[j][n] # 0 => dinode'[entry[j][n]] = dinode[entry[j][n]]
      <4>1. \A n \in Names : entry[j][n] \in Inums \cup {0}
        BY DEF RefInv, Shapes, DiskShapes, DirNames
      <4> QED BY <1>14, <2>0, <4>1 DEF NamesBorn
    <3> QED BY <1>3, <2>0, <3>1 DEF Up
  <2>6. ASSUME NEW j \in Inums, Born(j) PROVE CountOK(j)'
    <3>1. NameSet(j)' = NameSet(j)
      BY <1>3 DEF NameSet
    <3>2. SubDirs(j)' = SubDirs(j)
      <4>1. \A n \in Names : entry[j][n] # 0 => dinode'[entry[j][n]] = dinode[entry[j][n]]
        <5>1. \A n \in Names : entry[j][n] \in Inums \cup {0}
          BY DEF RefInv, Shapes, DiskShapes, DirNames
        <5> QED BY <1>14, <2>0, <5>1 DEF NamesBorn
      <4> QED BY <1>3, <4>1 DEF SubDirs
    <3>3. Owing(j)' \subseteq Owing(j)
      <4>1. ~Owes(r, j)'
        BY <1>8 DEF Owes
      <4> QED BY <1>9, <4>1, OwingStep
    <3>4. IsFiniteSet(Owing(j))
      BY NameSets
    <3>5. Cardinality(Owing(j)') <= Cardinality(Owing(j)) + 0
      BY <3>3, <3>4, CardMoves
    <3>6. dinode'[j].nlink = dinode[j].nlink /\ dinode[j].nlink \in Int
      BY <1>14, <2>6 DEF RefInv, Shapes, DiskShapes, AnyDinode
    <3>7. GrowBy(j, 0, 0, 0)
      BY <3>1, <3>2, <3>5, <3>6, NameSets DEF GrowBy
    <3> QED BY <2>6, <3>7, CountStep
  <2>7. ASSUME NEW j \in Inums PROVE CountOK(j)'
    BY <1>13, <2>6 DEF CountOK
  <2> QED BY <2>1, <2>2, <2>3, <2>4, <2>5, <2>7, <2>8 DEF DiskInv
<1>17. Survive(0) /\ BirthsKept(p) /\ UnlinksKept(p)
  BY <1>3, <1>5, <1>11, <1>13, <1>14 DEF Survive, BirthsKept, UnlinksKept
<1>18. DeathsKept(p)
  <2> SUFFICES ASSUME NEW q \in Procs \ {p}, loc[q].pc \in {"trunc", "free"}
               PROVE  icache'[loc[q].tgt].ref = 1 /\ dinode'[Inum(loc[q].tgt)].nlink = 0
    BY DEF DeathsKept
  <2> QED BY <1>3, <1>14, Dying
<1>19. Fit(r, p)'
  <2>1. PICK e \in Entries : e = l.dp /\ Inum(e) \in Inums /\ Born(Inum(e)) /\ icache[e].lock = p
    BY <1>1, <1>8, Targets DEF Fit, FitPointers, FitLocks
  <2>2. FitPaths(r)'
    <3>1. l.path \in Seq(DirNames) /\ l.new.elems \in Seq(DirNames) /\ Head(l.path) \in Names
      BY <1>1, <1>8, Mine DEF Fit, FitPaths
    <3> QED BY <1>3, <1>8, <3>1 DEF FitPaths
  <2>3. FitLocks(r, p)'
    BY <1>3, <1>8, <2>1 DEF FitLocks, Goal
  <2>4. FitPointers(r)'
    BY <1>3, <1>8, <1>13, <2>1 DEF FitPointers, Born, Bears, Inum
  <2>5. FitInodes(r)'
    <3>1. \A j \in Inums : Bears(r, j)' => j = i
      BY <1>8 DEF Bears
    <3>2. dinode'[i] = [NoInode EXCEPT !.type = NewType(r.call)]
      BY <1>4, <1>5, <1>8
    <3>3. \A j \in Inums : Bears(r, j)' => dinode'[j] = [NoInode EXCEPT !.type = NewType(r.call)]
      BY <3>1, <3>2
    <3> QED BY <1>8, <3>3 DEF FitInodes
  <2> QED BY <2>2, <2>3, <2>4, <2>5 DEF Fit
<1>20. \A q \in Procs : Fit(loc[q], q)'
  BY <1>9, <1>17, <1>18, <1>19, NoneTouched, AllFit
<1>21. KeptAlive'
  BY <1>3, <1>9, <1>17, KeptStays, NoneUnkept
<1>22. BlockInv'
  <2>1. \A j \in Inums : dinode'[j].addr = dinode[j].addr
    <3>1. dinode[i].addr = 0
      BY <1>11 DEF LiveInv, DiskInv, Blank
    <3> QED BY <1>4, <1>5, <3>1
  <2> QED BY <1>1, <1>3, <1>8, <1>9, <2>1, BlocksStay
<1> QED BY <1>15, <1>16, <1>20, <1>21, <1>22 DEF LiveInv

(* ialloc gets a cache entry for it. *)
LEMMA IallocGetLive ==
    ASSUME RefInv, RefInv', LiveInv, NEW p \in Procs, IallocGet(p)
    PROVE  LiveInv'
<1>1. PICK l \in Frame : /\ l = loc[p] /\ Holds(l) /\ Fit(l, p) /\ l.pc = "iget"
  BY Mine DEF IallocGet, At
<1>2. PICK i \in Inums : i = l.num
  BY <1>1 DEF Holds, Goal, Iput, Frame
<1>3. PICK x \in Slot(i) : /\ icache' = Iget(icache, x, i)
                           /\ loc' = [loc EXCEPT ![p].pc = "enter", ![p].ip = x, ![p].num = 0]
  BY <1>1, <1>2 DEF IallocGet
<1>4. dinode' = dinode /\ entry' = entry /\ bitmap' = bitmap /\ UNCHANGED files
  BY DEF IallocGet, disk
<1>5. Reached(p, i)
  BY <1>1, <1>2 DEF Reached
<1>6. /\ CacheStep(icache', p, 0) /\ x \in Entries /\ icache'[x].inum = i
      /\ \A e \in Entries : icache'[e].lock = icache[e].lock
  <2>1. icache \in [Entries -> Cached] /\ Same(icache, icache)
    BY Mine
  <2>2. Reads(icache, icache, p, 0)
    BY <1>3, <2>1, ReadsOps DEF Slot, Lowest
  <2> QED BY <1>3, <1>5, <2>1, <2>2, GrownCache
<1>7. PICK r : r = [l EXCEPT !.pc = "enter", !.ip = x, !.num = 0]
  OBVIOUS
<1>8. loc' = [loc EXCEPT ![p] = r]
  BY <1>1, <1>3, <1>7
<1>9. /\ r.pc = "enter" /\ r.dp = l.dp /\ r.ip = x /\ r.tgt = 0
      /\ r.path = l.path /\ r.new = l.new /\ r.call = l.call
      /\ Goal(r) = "enter" /\ Goal(l) = "iget" /\ l.dp # 0
  BY <1>1, <1>7 DEF Frame, Holds, Goal, Iput
<1>10. OwnLocks(p, r)
  <2> SUFFICES ASSUME NEW f \in Entries, icache'[f].lock = p
               PROVE  icache'[f].valid /\ Keeps(r, f)
    BY DEF OwnLocks
  <2>1. icache[f].valid /\ Keeps(l, f)
    BY <1>1, <1>6, Mine
  <2>2. Keeps(r, f)
    BY <1>1, <1>9, <2>1 DEF Keeps
  <2>3. icache[f].ref > 0
    <3>1. f = l.dp
      BY <1>1, <1>9, <2>1 DEF Keeps
    <3> QED BY <1>1, <1>9, <3>1, Targets
  <2> QED BY <1>6, <2>1, <2>2, <2>3 DEF CacheStep, Reads
<1>11. Updates(p, {}, icache')
  BY <1>4 DEF Updates
<1>12. Step(p, r) /\ CacheInv' /\ BirthsKept(p) /\ DeathsKept(p)
  BY <1>1, <1>6, <1>8, <1>10, <1>11, UpdateCache
<1>13. BornAsBefore
  <2>1. loc'[p] = r
    BY <1>8 DEF RefInv, Shapes
  <2>2. \A j : Bears(loc[p], j)' <=> Bears(loc[p], j)
    BY <1>1, <1>2, <1>6, <1>9, <2>1 DEF Bears, Inum
  <2>3. \A q \in Procs : \A j : Bears(loc[q], j)' <=> Bears(loc[q], j)
    BY <1>12, <2>2, OthersStay
  <2>4. \A j \in Inums : Born(j)' <=> Born(j)
    BY <1>4, <2>3 DEF Born
  <2> QED BY <2>3, <2>4 DEF BornAsBefore
<1>14. OwesLess(p, r)
  BY <1>9 DEF OwesLess, Owes, Linking, Goal
<1>15. DiskInv' /\ SameTypes /\ UnlinksKept(p)
  BY <1>4, <1>12, <1>13, <1>14, StillDisk
<1>16. Survive(0)
  BY <1>13, <1>15 DEF Survive, BornAsBefore, SameTypes
<1>17. Fit(r, p)'
  <2>1. PICK e \in Entries : /\ e = l.dp /\ Inum(e) \in Inums /\ Born(Inum(e))
                             /\ icache'[e].lock = p /\ icache'[e].inum = Inum(e)
    <3>1. PICK e \in Entries : /\ e = l.dp /\ Inum(e) \in Inums /\ Born(Inum(e))
                               /\ icache[e].lock = p /\ icache[e].ref > 0
      BY <1>1, <1>9, Targets DEF Fit, FitPointers, FitLocks
    <3> QED BY <1>6, <3>1 DEF CacheStep, Reads, Inum
  <2>2. FitPaths(r)'
    <3>1. l.path \in Seq(DirNames) /\ l.new.elems \in Seq(DirNames) /\ Head(l.path) \in Names
      BY <1>1, <1>9, Mine DEF Fit, FitPaths
    <3> QED BY <1>9, <2>1, <3>1 DEF FitPaths
  <2>3. FitLocks(r, p)'
    BY <1>9, <2>1 DEF FitLocks, Goal
  <2>4. FitPointers(r)'
    <3>1. PICK j \in Inums : j = Inum(l.dp) /\ icache'[r.dp].inum = j /\ Born(j)'
      BY <1>9, <1>13, <2>1 DEF BornAsBefore
    <3>2. Born(Inum(r.dp))'
      BY <3>1 DEF Born, Bears, Inum
    <3> QED BY <1>9, <3>2 DEF FitPointers
  <2>5. FitInodes(r)'
    <3>1. \A j \in Inums : Bears(r, j)' => j = i
      BY <1>6, <1>9 DEF Bears, Inum
    <3>2. dinode[i] = [NoInode EXCEPT !.type = NewType(r.call)]
      BY <1>1, <1>2, <1>9 DEF Fit, FitInodes, Bears
    <3>3. \A j \in Inums : Bears(r, j)' => dinode'[j] = [NoInode EXCEPT !.type = NewType(r.call)]
      BY <1>4, <3>1, <3>2
    <3>4. ~Linking(r)
      BY <1>9 DEF Linking
    <3> QED BY <1>9, <3>3, <3>4 DEF FitInodes, Linking, Goal
  <2> QED BY <2>2, <2>3, <2>4, <2>5 DEF Fit
<1>18. \A q \in Procs : Fit(loc[q], q)'
  BY <1>12, <1>15, <1>16, <1>17, NoneTouched, AllFit
<1>19. KeptAlive'
  BY <1>4, <1>12, <1>16, KeptStays, NoneUnkept
<1>20. BlockInv'
  BY <1>1, <1>4, <1>9, <1>12, BlocksStay
<1> QED BY <1>12, <1>15, <1>18, <1>19, <1>20 DEF LiveInv

(* Entry by entry, what the operations on the cache do. *)
Alike(ic, jc, e) ==
    /\ jc \in [Entries -> Cached]
    /\ \A f \in Entries : /\ jc[f].ref = ic[f].ref /\ jc[f].inum = ic[f].inum
                          /\ jc[f].valid = ic[f].valid
                          /\ f # e => jc[f].copy = ic[f].copy /\ jc[f].lock = ic[f].lock
(* The fields that each cache operation changes. *)
LEMMA OpFields ==
    ASSUME NEW ic \in [Entries -> Cached], NEW e \in Entries, NEW p \in Procs
    PROVE  /\ \A c \in AnyDinode : /\ Alike(ic, Change(ic, e, c), e)
                                   /\ Change(ic, e, c)[e].copy = c
                                   /\ Change(ic, e, c)[e].lock = ic[e].lock
           /\ ic[e].lock = p => /\ Alike(ic, Iunlock(ic, e, p), e)
                                /\ Iunlock(ic, e, p)[e].copy = ic[e].copy
                                /\ Iunlock(ic, e, p)[e].lock = Nobody
           /\ /\ Alike(ic, Hold(ic, e, p), e)
              /\ Hold(ic, e, p)[e].copy = ic[e].copy
              /\ Hold(ic, e, p)[e].lock = p
<1>1. ASSUME NEW c \in AnyDinode
      PROVE  /\ Alike(ic, Change(ic, e, c), e)
             /\ Change(ic, e, c)[e].copy = c
             /\ Change(ic, e, c)[e].lock = ic[e].lock
  BY DEF Alike, Change, Cached
<1>2. ASSUME ic[e].lock = p
      PROVE  /\ Alike(ic, Iunlock(ic, e, p), e)
             /\ Iunlock(ic, e, p)[e].copy = ic[e].copy
             /\ Iunlock(ic, e, p)[e].lock = Nobody
  <2>1. Iunlock(ic, e, p) = [ic EXCEPT ![e].lock = Nobody]
    BY <1>2 DEF Iunlock, Entries
  <2> QED BY <2>1 DEF Alike, Cached
<1>3. /\ Alike(ic, Hold(ic, e, p), e)
      /\ Hold(ic, e, p)[e].copy = ic[e].copy
      /\ Hold(ic, e, p)[e].lock = p
  BY DEF Alike, Hold, Cached
<1> QED BY <1>1, <1>2, <1>3

(* create has an inode i for name n of directory d, locked in entry g. *)
Bearing(p, e, g, i, d, n) ==
    /\ e \in Entries /\ g \in Entries /\ e # g /\ e = loc[p].ip /\ g = loc[p].dp
    /\ i \in Inums /\ d \in Inums /\ i # d /\ i = Inum(e) /\ d = Inum(g)
    /\ icache[e].ref > 0 /\ icache[g].ref > 0 /\ icache[e].lock = Nobody /\ icache[g].lock = p
    /\ icache[g].valid /\ icache[g].copy = dinode[d]
    /\ Born(d) /\ ~Born(i) /\ Bears(loc[p], i)
    /\ dinode[i].type # "none" /\ dinode[i].nlink = 0 /\ dinode[i].addr = 0
    /\ (dinode[i].type = "dir" <=> loc[p].call = "mkdir")
    /\ entry[i] = NoNames /\ n \in Names /\ n = Name(p)

(* create stands so when it enters the inode. *)
LEMMA EnterBears ==
    ASSUME RefInv, LiveInv, NEW p \in Procs, Enter(p)
    PROVE  Bearing(p, loc[p].ip, loc[p].dp, Inum(loc[p].ip), Inum(loc[p].dp), Name(p))
<1>1. PICK l \in Frame : l = loc[p] /\ Holds(l) /\ Fit(l, p) /\ l.pc = "enter" /\ Unlocked(l.ip)
  BY Mine DEF Enter, At
<1>2. PICK e \in Entries : e = l.ip /\ icache[e].ref > 0 /\ Inum(e) \in Inums /\ icache[e].lock = Nobody
  BY <1>1, Targets DEF Holds, Goal, Iput, Unlocked
<1>3. PICK g \in Entries : /\ g = l.dp /\ icache[g].ref > 0 /\ Inum(g) \in Inums
                           /\ icache[g].lock = p /\ Born(Inum(g))
  BY <1>1, Targets DEF Holds, Goal, Iput, Fit, FitLocks, FitPointers
<1>4. PICK i, d \in Inums : i = Inum(e) /\ d = Inum(g)
  BY <1>2, <1>3
<1>5. Bears(loc[p], i) /\ ~Born(i) /\ i # d
  BY <1>1, <1>2, <1>3, <1>4 DEF Bears, Born
<1>6. dinode[i] = [NoInode EXCEPT !.type = NewType(l.call)]
  BY <1>1, <1>5 DEF Fit, FitInodes
<1>7. /\ dinode[i].type # "none" /\ dinode[i].nlink = 0 /\ dinode[i].addr = 0
      /\ (dinode[i].type = "dir" <=> l.call = "mkdir")
  BY <1>6, NewInode
<1>8. entry[i] = NoNames
  BY <1>5 DEF LiveInv, DiskInv, Blank
<1>9. icache[g].valid /\ icache[g].copy = dinode[d]
  BY <1>1, <1>3, <1>4, HeldCopy
<1>10. Name(p) \in Names
  BY <1>1, <1>3, <1>4 DEF Name, Fit, FitPaths, Goal, Iput
<1>11. e # g
  BY <1>2, <1>3, InodeAssumption
<1> QED BY <1>1, <1>2, <1>3, <1>4, <1>5, <1>7, <1>8, <1>9, <1>10, <1>11 DEF Bearing

(* The disk and the cache after it; k tells a directory, which gets block b. *)
NewOnDisk(i, d, n, k, b) ==
    /\ dinode'[i].type = dinode[i].type /\ dinode'[i].nlink = 1 /\ dinode'[i].addr = b
    /\ dinode'[d].type = dinode[d].type /\ dinode'[d].nlink = dinode[d].nlink + k
    /\ dinode'[d].addr = dinode[d].addr
    /\ \A j \in Inums \ {i, d} : dinode'[j] = dinode[j] /\ entry'[j] = entry[j]
    /\ Writes(d, n, i)
    /\ entry'[d]["."] = entry[d]["."] /\ entry'[d][".."] = entry[d][".."]
    /\ entry'[i]["."] = IF k = 1 THEN i ELSE 0
    /\ entry'[i][".."] = IF k = 1 THEN d ELSE 0
    /\ \/ k = 1 /\ b \in Blocks /\ b \notin bitmap /\ bitmap' = bitmap \cup {b}
       \/ k = 0 /\ b = 0 /\ bitmap' = bitmap
NewInCache(p, e, g, i, d) ==
    /\ \A f \in Entries : /\ icache'[f].ref = icache[f].ref /\ icache'[f].inum = icache[f].inum
                          /\ f \notin {e, g} => /\ icache'[f].lock = icache[f].lock
                                                /\ icache'[f].valid = icache[f].valid
                                                /\ icache'[f].copy = icache[f].copy
    /\ icache'[e].lock = p /\ icache'[e].valid /\ icache'[e].copy = dinode'[i]
    /\ icache'[g].lock = Nobody /\ icache'[g].valid /\ icache'[g].copy = dinode'[d]

(* ilock of the new inode *)
Fetched(ic, e, i) ==
    /\ ic \in [Entries -> Cached]
    /\ \A f \in Entries : /\ ic[f].ref = icache[f].ref /\ ic[f].inum = icache[f].inum
                          /\ ic[f].lock = icache[f].lock
                          /\ f # e => ic[f].valid = icache[f].valid /\ ic[f].copy = icache[f].copy
    /\ ic[e].valid /\ ic[e].copy = dinode[i]
(* ilock fetches the new inode. *)
LEMMA NewFetched ==
    ASSUME RefInv, LiveInv, NEW p \in Procs, NEW e, NEW g, NEW i, NEW d, NEW n,
           Bearing(p, e, g, i, d, n)
    PROVE  Fetched(Ilock(icache, e), e, i)
<1>1. PICK ic : ic = Ilock(icache, e)
  OBVIOUS
<1>2. /\ e \in Entries /\ icache[e].ref > 0 /\ Unlocked(e) /\ i = Inum(e) /\ i \in Inums
  BY DEF Bearing, Unlocked
<1>3. ic[e].copy = dinode[i]
  BY <1>1, <1>2, IlockCopy
<1>4. icache \in [Entries -> Cached] /\ dinode \in [Inums -> AnyDinode]
  BY DEF RefInv, Shapes, DiskShapes
<1>5. CASE icache[e].valid
  BY <1>1, <1>2, <1>3, <1>4, <1>5 DEF Fetched, Ilock
<1>6. CASE ~icache[e].valid
  <2>1. PICK c \in AnyDinode : c = dinode[i]
    BY <1>2, <1>4
  <2>2. ic = [icache EXCEPT ![e].valid = TRUE, ![e].copy = c]
    BY <1>1, <1>2, <1>6, <2>1 DEF Ilock, Inum
  <2>3. Same(icache, ic)
    <3>1. icache[e].inum # 0
      BY <1>2, InodeAssumption DEF Inum
    <3> QED BY <1>1, <1>2, <1>4, <3>1, SameSteps
  <2>4. /\ ic[e] = [icache[e] EXCEPT !.valid = TRUE, !.copy = c] /\ icache[e] \in Cached
        /\ \A f \in Entries : f # e => ic[f] = icache[f]
    BY <1>2, <1>4, <2>2
  <2>5. ic[e].valid /\ ic[e].lock = icache[e].lock
    BY <2>4 DEF Cached
  <2>6. \A f \in Entries : /\ ic[f].ref = icache[f].ref /\ ic[f].inum = icache[f].inum
                           /\ ic[f].lock = icache[f].lock
    BY <2>3, <2>4, <2>5 DEF Same
  <2>7. \A f \in Entries : f # e => ic[f].valid = icache[f].valid /\ ic[f].copy = icache[f].copy
    BY <2>4
  <2>8. ic \in [Entries -> Cached]
    BY <2>3 DEF Same
  <2> QED BY <1>1, <1>3, <2>5, <2>6, <2>7, <2>8 DEF Fetched
<1> QED BY <1>1, <1>5, <1>6

(* create enters the inode so, a directory with its dots and its block. *)
LEMMA EnterSteps ==
    ASSUME RefInv, LiveInv, NEW p \in Procs, Enter(p), NEW e, NEW g, NEW i, NEW d, NEW n,
           Bearing(p, e, g, i, d, n)
    PROVE  \E k \in {0, 1} : \E b \in Blocks \cup {0} :
              /\ NewOnDisk(i, d, n, k, b) /\ NewInCache(p, e, g, i, d)
              /\ (k = 1 <=> loc[p].call = "mkdir")
<1>1. /\ e \in Entries /\ g \in Entries /\ e # g /\ e = loc[p].ip /\ g = loc[p].dp
      /\ i \in Inums /\ d \in Inums /\ i # d /\ i = icache[e].inum /\ d = icache[g].inum
      /\ icache[e].lock = Nobody /\ icache[g].lock = p
      /\ icache[g].valid /\ icache[g].copy = dinode[d]
      /\ entry[i] = NoNames /\ n \in Names /\ n = Name(p)
  BY DEF Bearing, Inum
<1>0. e \in Entries /\ g \in Entries /\ e # g
  BY <1>1
<1>a. i \in Inums /\ d \in Inums /\ i # d
  BY <1>1
<1>2. PICK ic \in [Entries -> Cached] : ic = Ilock(icache, e) /\ Fetched(ic, e, i)
  BY NewFetched DEF Fetched
<1>3. /\ dinode \in [Inums -> AnyDinode] /\ dinode[i] \in AnyDinode /\ dinode[d] \in AnyDinode
      /\ entry \in [Inums -> [DirNames -> Inums \cup {0}]]
      /\ n \in DirNames /\ "." \in DirNames /\ ".." \in DirNames /\ n # "." /\ n # ".."
  BY <1>1, InodeAssumption DEF RefInv, Shapes, DiskShapes, DirNames
<1>4. PICK new \in [Blocks \cup {0} -> AnyDinode] :
         \A b \in Blocks \cup {0} : /\ new[b] = Bmap([ic[e].copy EXCEPT !.nlink = 1], b)
                                    /\ new[b].type = dinode[i].type /\ new[b].nlink = 1
                                    /\ new[b].addr = b
  <2>1. ic[e].copy = dinode[i]
    BY <1>2 DEF Fetched
  <2>2. PICK c \in AnyDinode : c = [dinode[i] EXCEPT !.nlink = 1]
    BY <1>3, DinodeOps
  <2>3. \A b \in Blocks \cup {0} : Bmap(c, b) \in AnyDinode
    BY DinodeOps
  <2>4. \A b \in Blocks \cup {0} : /\ Bmap(c, b).type = dinode[i].type /\ Bmap(c, b).nlink = 1
                                   /\ Bmap(c, b).addr = b
    BY <1>3, <2>2 DEF Bmap, AnyDinode
  <2>5. PICK new : new = [b \in Blocks \cup {0} |-> Bmap(c, b)]
    OBVIOUS
  <2> QED BY <2>1, <2>2, <2>3, <2>4, <2>5
<1>5. PICK parent \in AnyDinode :
         /\ parent = Links(icache[g].copy, 1) /\ parent.type = dinode[d].type
         /\ parent.nlink = dinode[d].nlink + 1 /\ parent.addr = dinode[d].addr
  <2>1. PICK parent \in AnyDinode : parent = Links(dinode[d], 1)
    <3>1. 1 \in Int
      OBVIOUS
    <3>2. PICK c \in AnyDinode : c = dinode[d]
      BY <1>3
    <3>3. Links(c, 1) \in AnyDinode
      BY <3>1, DinodeOps
    <3> QED BY <3>2, <3>3
  <2>2. /\ parent.type = dinode[d].type /\ parent.nlink = dinode[d].nlink + 1
        /\ parent.addr = dinode[d].addr
    BY <1>3, <2>1 DEF Links, AnyDinode
  <2> QED BY <1>1, <2>1, <2>2
<1>6. PICK named : named = [entry EXCEPT ![d][n] = i]
  OBVIOUS
<1>7. /\ named \in [Inums -> [DirNames -> Inums \cup {0}]]
      /\ \A j \in Inums : j # d => named[j] = entry[j]
      /\ \A m \in DirNames : named[d][m] = IF m = n THEN i ELSE entry[d][m]
  BY <1>1, <1>3, <1>6
<1>8. \A m \in DirNames : entry[i][m] = 0
  BY <1>1 DEF NoNames
<1>b. /\ named[i] = entry[i] /\ named[d]["."] = entry[d]["."] /\ named[d][".."] = entry[d][".."]
      /\ entry[i]["."] = 0 /\ entry[i][".."] = 0
  BY <1>a, <1>3, <1>7, <1>8
<1>c. \A j \in Inums, m \in Names :
         named[j][m] = IF j = d /\ m = n THEN i ELSE entry[j][m]
  <2>1. \A m \in Names : m \in DirNames
    BY DEF DirNames
  <2> QED BY <1>7, <2>1
<1>9. \A jc \in [Entries -> Cached] :
         /\ \A f \in Entries : /\ jc[f].ref = icache[f].ref /\ jc[f].inum = icache[f].inum
                               /\ jc[f].lock = icache[f].lock /\ jc[f].valid = ic[f].valid
                               /\ f \notin {e, g} => jc[f].copy = icache[f].copy
         /\ jc[e].copy = dinode'[i] /\ jc[g].copy = dinode'[d]
         /\ icache' = Hold(Iunlock(jc, g, p), e, p)
         => NewInCache(p, e, g, i, d)
  <2> SUFFICES ASSUME NEW jc \in [Entries -> Cached],
                      \A f \in Entries :
                         /\ jc[f].ref = icache[f].ref /\ jc[f].inum = icache[f].inum
                         /\ jc[f].lock = icache[f].lock /\ jc[f].valid = ic[f].valid
                         /\ f \notin {e, g} => jc[f].copy = icache[f].copy,
                      jc[e].copy = dinode'[i], jc[g].copy = dinode'[d],
                      icache' = Hold(Iunlock(jc, g, p), e, p)
               PROVE  NewInCache(p, e, g, i, d)
    OBVIOUS
  <2>1. PICK uc \in [Entries -> Cached] :
           uc = Iunlock(jc, g, p) /\ Alike(jc, uc, g) /\ uc[g].copy = jc[g].copy /\ uc[g].lock = Nobody
    <3>1. jc[g].lock = p
      BY <1>1
    <3> QED BY ONLY <1>0, <3>1, jc \in [Entries -> Cached], p \in Procs, OpFields DEF Alike
  <2>2. Alike(uc, icache', e) /\ icache'[e].copy = uc[e].copy /\ icache'[e].lock = p
    <3>1. icache' = Hold(uc, e, p)
      BY <2>1
    <3> QED BY ONLY <1>0, <2>1, <3>1, p \in Procs, OpFields
  <2>3. ic[e].valid /\ \A f \in Entries : f # e => ic[f].valid = icache[f].valid
    BY <1>2 DEF Fetched
  <2>4. \A f \in Entries : icache'[f].ref = icache[f].ref /\ icache'[f].inum = icache[f].inum
    BY <2>1, <2>2 DEF Alike
  <2>5. \A f \in Entries : icache'[f].valid = ic[f].valid
    BY <2>1, <2>2 DEF Alike
  <2>6. \A f \in Entries : f \notin {e, g} => /\ icache'[f].lock = icache[f].lock
                                              /\ icache'[f].copy = icache[f].copy
    BY <2>1, <2>2 DEF Alike
  <2>7. icache'[e].lock = p /\ icache'[e].copy = dinode'[i]
    BY <1>0, <2>1, <2>2 DEF Alike
  <2>8. icache'[g].lock = Nobody /\ icache'[g].copy = dinode'[d]
    BY <1>0, <2>1, <2>2 DEF Alike
  <2>9. icache'[e].valid /\ icache'[g].valid
    <3>1. icache[g].valid
      BY <1>1
    <3> QED BY <1>0, <2>3, <2>5, <3>1
  <2>10. \A f \in Entries : f \notin {e, g} => icache'[f].valid = icache[f].valid
    BY <2>3, <2>5
  <2> QED BY <2>4, <2>6, <2>7, <2>8, <2>9, <2>10 DEF NewInCache
<1>10. ASSUME loc[p].call = "mkdir" PROVE \E b \in Blocks : NewOnDisk(i, d, n, 1, b) /\ NewInCache(p, e, g, i, d)
  <2>1. PICK b \in Blocks :
           /\ b \notin bitmap /\ bitmap' = bitmap \cup {b}
           /\ dinode' = [[dinode EXCEPT ![i] = new[b]] EXCEPT ![d] = parent]
           /\ icache' = Hold(Iunlock(Change(Change(ic, e, new[b]), g, parent), g, p), e, p)
           /\ entry' = [named EXCEPT ![i] = [NoNames EXCEPT !["."] = i, ![".."] = d]]
    <3>1. PICK b \in Blocks :
             /\ Balloc(b) /\ bitmap' = bitmap \cup {b}
             /\ dinode' = Iupdate(Iupdate(dinode, e, Bmap([ic[e].copy EXCEPT !.nlink = 1], b)), g, parent)
             /\ icache' = Hold(Iunlock(Change(Change(ic, e, Bmap([ic[e].copy EXCEPT !.nlink = 1], b)),
                                             g, parent), g, p), e, p)
             /\ entry' = [Dirlink(g, n, Dir(e)) EXCEPT
                             ![Dir(e)] = [NoNames EXCEPT !["."] = Dir(e), ![".."] = Dir(g)]]
      BY <1>1, <1>2, <1>5, <1>10 DEF Enter
    <3>2. Bmap([ic[e].copy EXCEPT !.nlink = 1], b) = new[b]
      BY <1>4
    <3>3. Dir(e) = i /\ Dir(g) = d
      BY <1>1 DEF Dir
    <3>4. Dirlink(g, n, i) = named
      BY <1>6, <3>3 DEF Dirlink
    <3>5. dinode' = [[dinode EXCEPT ![i] = new[b]] EXCEPT ![d] = parent]
      BY <1>1, <3>1, <3>2 DEF Iupdate
    <3> QED BY <3>1, <3>2, <3>3, <3>4, <3>5 DEF Balloc
  <2>2. /\ dinode'[i] = new[b] /\ dinode'[d] = parent
        /\ \A j \in Inums \ {i, d} : dinode'[j] = dinode[j]
    BY <1>1, <1>3, <2>1
  <2>3. PICK dots : dots = [NoNames EXCEPT !["."] = i, ![".."] = d]
    OBVIOUS
  <2>4. dots["."] = i /\ dots[".."] = d /\ \A m \in Names : dots[m] = 0
    BY <1>3, <2>3, InodeAssumption DEF NoNames, DirNames
  <2>5. /\ entry'[i] = dots /\ \A j \in Inums \ {i} : entry'[j] = named[j]
    <3>1. entry' = [named EXCEPT ![i] = dots]
      BY <2>1, <2>3
    <3> QED BY <1>1, <1>7, <3>1
  <2>6. Writes(d, n, i)
    <3>1. ASSUME NEW j \in Inums, NEW m \in Names
          PROVE  entry'[j][m] = IF j = d /\ m = n THEN i ELSE entry[j][m]
      <4>1. CASE j = i
        <5>1. entry'[j][m] = 0 /\ named[j][m] = 0
          BY <1>b, <1>8, <2>4, <2>5, <4>1 DEF DirNames
        <5> QED BY <1>c, <5>1
      <4>2. CASE j # i
        BY <1>c, <2>5, <4>2
      <4> QED BY <4>1, <4>2
    <3> QED BY <3>1 DEF Writes
  <2>7. NewOnDisk(i, d, n, 1, b)
    <3>1. dinode'[i].type = dinode[i].type /\ dinode'[i].nlink = 1 /\ dinode'[i].addr = b
      BY <1>4, <2>2
    <3>2. /\ dinode'[d].type = dinode[d].type /\ dinode'[d].nlink = dinode[d].nlink + 1
          /\ dinode'[d].addr = dinode[d].addr
      BY <1>5, <2>2
    <3>3. \A j \in Inums \ {i, d} : dinode'[j] = dinode[j] /\ entry'[j] = entry[j]
      <4>1. \A j \in Inums \ {i, d} : entry'[j] = entry[j]
        BY <1>7, <2>5
      <4> QED BY <2>2, <4>1
    <3>4. entry'[d]["."] = entry[d]["."] /\ entry'[d][".."] = entry[d][".."]
      BY <1>a, <1>b, <2>5
    <3>5. entry'[i]["."] = i /\ entry'[i][".."] = d
      BY <2>4, <2>5
    <3>6. b \in Blocks /\ b \notin bitmap /\ bitmap' = bitmap \cup {b}
      BY <2>1
    <3> QED BY <2>6, <3>1, <3>2, <3>3, <3>4, <3>5, <3>6 DEF NewOnDisk
  <2>8. PICK c1 \in [Entries -> Cached] :
           c1 = Change(ic, e, new[b]) /\ Alike(ic, c1, e) /\ c1[e].copy = new[b] /\ c1[e].lock = ic[e].lock
    <3>1. new[b] \in AnyDinode
      OBVIOUS
    <3> QED BY ONLY <1>0, <3>1, ic \in [Entries -> Cached], p \in Procs, OpFields DEF Alike
  <2>9. PICK c2 \in [Entries -> Cached] :
           c2 = Change(c1, g, parent) /\ Alike(c1, c2, g) /\ c2[g].copy = parent /\ c2[g].lock = c1[g].lock
    BY ONLY <1>0, parent \in AnyDinode, c1 \in [Entries -> Cached], p \in Procs, OpFields DEF Alike
  <2>10. /\ \A f \in Entries : /\ c2[f].ref = icache[f].ref /\ c2[f].inum = icache[f].inum
                               /\ c2[f].lock = icache[f].lock /\ c2[f].valid = ic[f].valid
                               /\ f \notin {e, g} => c2[f].copy = icache[f].copy
         /\ c2[e].copy = dinode'[i] /\ c2[g].copy = dinode'[d]
    <3>1. \A f \in Entries : /\ c2[f].ref = icache[f].ref /\ c2[f].inum = icache[f].inum
                             /\ c2[f].lock = icache[f].lock
      BY <1>0, <1>2, <2>8, <2>9 DEF Alike, Fetched
    <3>2. \A f \in Entries : c2[f].valid = ic[f].valid
      BY <2>8, <2>9 DEF Alike
    <3>3. \A f \in Entries : f \notin {e, g} => c2[f].copy = icache[f].copy
      BY <1>2, <2>8, <2>9 DEF Alike, Fetched
    <3>4. c2[e].copy = dinode'[i] /\ c2[g].copy = dinode'[d]
      BY <1>0, <2>2, <2>8, <2>9 DEF Alike
    <3> QED BY <3>1, <3>2, <3>3, <3>4
  <2>11. NewInCache(p, e, g, i, d)
    BY <1>9, <2>1, <2>8, <2>9, <2>10
  <2> QED BY <2>7, <2>11
<1>11. ASSUME loc[p].call # "mkdir" PROVE NewOnDisk(i, d, n, 0, 0) /\ NewInCache(p, e, g, i, d)
  <2>1. /\ dinode' = [dinode EXCEPT ![i] = new[0]]
        /\ icache' = Hold(Iunlock(Change(ic, e, new[0]), g, p), e, p)
        /\ entry' = named /\ bitmap' = bitmap
    <3>1. /\ dinode' = Iupdate(dinode, e, Bmap([ic[e].copy EXCEPT !.nlink = 1], 0))
          /\ icache' = Hold(Iunlock(Change(ic, e, Bmap([ic[e].copy EXCEPT !.nlink = 1], 0)),
                                    g, p), e, p)
          /\ entry' = Dirlink(g, n, Dir(e)) /\ bitmap' = bitmap
      BY <1>1, <1>2, <1>11 DEF Enter
    <3>2. Bmap([ic[e].copy EXCEPT !.nlink = 1], 0) = new[0]
      BY <1>4
    <3>3. Dir(e) = i /\ Dir(g) = d
      BY <1>1 DEF Dir
    <3>4. Dirlink(g, n, i) = named
      BY <1>6, <3>3 DEF Dirlink
    <3>5. dinode' = [dinode EXCEPT ![i] = new[0]]
      BY <1>1, <3>1, <3>2 DEF Iupdate
    <3> QED BY <3>1, <3>2, <3>3, <3>4, <3>5
  <2>2. dinode'[i] = new[0] /\ \A j \in Inums \ {i} : dinode'[j] = dinode[j]
    BY <1>1, <1>3, <2>1
  <2>3. Writes(d, n, i)
    <3>1. ASSUME NEW j \in Inums, NEW m \in Names
          PROVE  entry'[j][m] = IF j = d /\ m = n THEN i ELSE entry[j][m]
      BY <1>c, <2>1
    <3> QED BY <3>1 DEF Writes
  <2>4. dinode[d].nlink \in Int
    BY <1>3 DEF AnyDinode
  <2>5. NewOnDisk(i, d, n, 0, 0)
    <3>1. new[0].type = dinode[i].type /\ new[0].nlink = 1 /\ new[0].addr = 0
      BY <1>4
    <3>2. /\ dinode'[d] = dinode[d] /\ dinode[d].nlink = dinode[d].nlink + 0
          /\ \A j \in Inums \ {i, d} : dinode'[j] = dinode[j] /\ entry'[j] = entry[j]
      <4>1. dinode'[d] = dinode[d] /\ dinode[d].nlink = dinode[d].nlink + 0
        BY <1>1, <2>2, <2>4
      <4>2. \A j \in Inums \ {i, d} : dinode'[j] = dinode[j]
        BY <2>2
      <4>3. \A j \in Inums \ {i, d} : entry'[j] = entry[j]
        BY <1>7, <2>1
      <4> QED BY <4>1, <4>2, <4>3
    <3>3. /\ entry'[d]["."] = entry[d]["."] /\ entry'[d][".."] = entry[d][".."]
          /\ entry'[i]["."] = 0 /\ entry'[i][".."] = 0
      BY <1>b, <2>1
    <3> QED BY <2>1, <2>2, <2>3, <3>1, <3>2, <3>3 DEF NewOnDisk
  <2>6. PICK c1 \in [Entries -> Cached] :
           c1 = Change(ic, e, new[0]) /\ Alike(ic, c1, e) /\ c1[e].copy = new[0] /\ c1[e].lock = ic[e].lock
    <3>1. new[0] \in AnyDinode
      OBVIOUS
    <3> QED BY ONLY <1>0, <3>1, ic \in [Entries -> Cached], p \in Procs, OpFields DEF Alike
  <2>7. /\ \A f \in Entries : /\ c1[f].ref = icache[f].ref /\ c1[f].inum = icache[f].inum
                              /\ c1[f].lock = icache[f].lock /\ c1[f].valid = ic[f].valid
                              /\ f \notin {e, g} => c1[f].copy = icache[f].copy
        /\ c1[e].copy = dinode'[i] /\ c1[g].copy = dinode'[d]
    <3>1. \A f \in Entries : /\ c1[f].ref = icache[f].ref /\ c1[f].inum = icache[f].inum
                             /\ c1[f].lock = icache[f].lock
      BY <1>0, <1>2, <2>6 DEF Alike, Fetched
    <3>2. \A f \in Entries : c1[f].valid = ic[f].valid
      BY <2>6 DEF Alike
    <3>3. \A f \in Entries : f \notin {e, g} => c1[f].copy = icache[f].copy
      BY <1>2, <2>6 DEF Alike, Fetched
    <3>4. c1[e].copy = dinode'[i] /\ c1[g].copy = dinode'[d]
      <4>1. c1[g].copy = ic[g].copy /\ ic[g].copy = icache[g].copy
        BY <1>0, <1>2, <2>6 DEF Alike, Fetched
      <4>2. icache[g].copy = dinode'[d]
        BY <1>1, <2>2
      <4> QED BY <2>2, <2>6, <4>1, <4>2
    <3> QED BY <3>1, <3>2, <3>3, <3>4
  <2>8. NewInCache(p, e, g, i, d)
    BY <1>9, <2>1, <2>6, <2>7
  <2> QED BY <2>5, <2>8
<1> QED BY <1>10, <1>11

(* The cache that create leaves, before the copies change *)
LEMMA EnterCache ==
    ASSUME RefInv, LiveInv, NEW p \in Procs, NEW e, NEW g, NEW i, NEW d, NEW n,
           Bearing(p, e, g, i, d, n), NewInCache(p, e, g, i, d)
    PROVE  \E jc : /\ CacheStep(jc, p, e)
                   /\ \A f \in Entries : /\ jc[f].ref = icache[f].ref /\ jc[f].inum = icache[f].inum
                                         /\ jc[f].lock = icache'[f].lock
                                         /\ f \notin {e, g} => /\ jc[f].valid = icache'[f].valid
                                                               /\ jc[f].copy = icache'[f].copy
<1>1. /\ e \in Entries /\ g \in Entries /\ e # g /\ icache[e].lock = Nobody /\ icache[g].lock = p
      /\ icache[e].ref > 0 /\ i = icache[e].inum /\ i \in Inums /\ dinode[i].type # "none"
  BY DEF Bearing, Inum
<1>2. PICK ic \in [Entries -> Cached] : ic = Ilock(icache, e) /\ Fetched(ic, e, i)
  BY NewFetched DEF Fetched
<1>3. Reads(icache, ic, p, 0) /\ Same(icache, ic)
  <2>1. icache \in [Entries -> Cached]
    BY Mine
  <2>2. Reads(icache, ic, p, 0)
    BY <1>1, <1>2, <2>1, ReadsOps
  <2> QED BY <1>2, <2>1, <2>2 DEF Same, Fetched
<1>4. CacheStep(ic, p, 0) /\ NoDrop(icache, ic)
  BY <1>3, SameCache DEF NoDrop, Same
<1>5. ic[g].lock = p
  BY <1>1, <1>2 DEF Fetched
<1>6. PICK uc \in [Entries -> Cached] :
         uc = Iunlock(ic, g, p) /\ Alike(ic, uc, g) /\ uc[g].copy = ic[g].copy /\ uc[g].lock = Nobody
  BY <1>1, <1>5, OpFields DEF Alike
<1>7. CacheStep(uc, p, 0)
  BY <1>1, <1>4, <1>6, ThenHold
<1>8. NoDrop(icache, uc) /\ uc[e].lock = Nobody
  BY <1>1, <1>2, <1>4, <1>6 DEF NoDrop, Alike, Fetched
<1>9. PICK jc \in [Entries -> Cached] :
         jc = Hold(uc, e, p) /\ Alike(uc, jc, e) /\ jc[e].copy = uc[e].copy /\ jc[e].lock = p
  BY <1>1, OpFields DEF Alike
<1>10. CacheStep(jc, p, e)
  BY <1>1, <1>7, <1>8, <1>9, ThenHold
<1>11. \A f \in Entries : jc[f].ref = icache[f].ref /\ jc[f].inum = icache[f].inum
  BY <1>2, <1>6, <1>9 DEF Alike, Fetched
<1>12. \A f \in Entries : f \notin {e, g} => jc[f].lock = icache'[f].lock /\ jc[f].copy = icache'[f].copy
  BY <1>2, <1>6, <1>9 DEF Alike, Fetched, NewInCache
<1>13. \A f \in Entries : f \notin {e, g} => jc[f].valid = icache'[f].valid
  BY <1>2, <1>6, <1>9 DEF Alike, Fetched, NewInCache
<1>14. jc[e].lock = icache'[e].lock /\ jc[g].lock = icache'[g].lock
  BY <1>1, <1>6, <1>9 DEF Alike, NewInCache
<1>15. \A f \in Entries : jc[f].lock = icache'[f].lock
  BY <1>12, <1>14
<1> QED BY <1>10, <1>11, <1>12, <1>13, <1>15

(* Who is alive after it *)
LEMMA EnterBorn ==
    ASSUME RefInv, LiveInv, NEW p \in Procs, NEW r, Step(p, r), r.pc = "put",
           NEW e, NEW g, NEW i, NEW d, NEW n, NEW k, NEW b,
           Bearing(p, e, g, i, d, n), NewOnDisk(i, d, n, k, b), loc[p].pc = "enter"
    PROVE  /\ SameTypes /\ Born(i)' /\ \A j \in Inums \ {i} : Born(j)' <=> Born(j)
           /\ \A j : ~Bears(loc[p], j)'
           /\ \A q \in Procs \ {p} : \A j : Bears(loc[q], j)' <=> Bears(loc[q], j)
<1>1. SameTypes
  <2>1. \A j \in Inums \ {i, d} : dinode'[j] = dinode[j]
    BY DEF NewOnDisk
  <2>2. dinode'[i].type = dinode[i].type /\ dinode'[d].type = dinode[d].type
    BY DEF NewOnDisk
  <2> QED BY <2>1, <2>2 DEF SameTypes
<1>2. loc'[p] = r
  BY DEF Step, RefInv, Shapes
<1>3. \A j : ~Bears(loc[p], j)'
  BY <1>2 DEF Bears
<1>4. \A q \in Procs \ {p} : \A j : Bears(loc[q], j)' <=> Bears(loc[q], j)
  BY OthersStay
<1>5. /\ i \in Inums /\ dinode[i].type # "none" /\ Bears(loc[p], i) /\ i = Inum(loc[p].ip)
  BY DEF Bearing
<1>6. \A j : Bears(loc[p], j) => j = i
  BY <1>5 DEF Bears
<1>7. Born(i)'
  <2>1. \A q \in Procs \ {p} : ~Bears(loc[q], i)
    BY <1>5 DEF LiveInv, DiskInv, OneBirth
  <2>2. \A q \in Procs : ~Bears(loc[q], i)'
    BY <1>3, <1>4, <2>1
  <2>3. dinode'[i].type # "none"
    BY <1>1, <1>5 DEF SameTypes
  <2> QED BY <2>2, <2>3 DEF Born
<1>8. ASSUME NEW j \in Inums \ {i} PROVE Born(j)' <=> Born(j)
  <2>1. \A q \in Procs : Bears(loc[q], j)' <=> Bears(loc[q], j)
    BY <1>3, <1>4, <1>6
  <2> QED BY <1>1, <2>1 DEF Born, SameTypes
<1> QED BY <1>1, <1>3, <1>4, <1>7, <1>8

(* Nobody owes a name to the inode that a process bears. *)
LEMMA UnbornOwes ==
    ASSUME RefInv, LiveInv, NEW i \in Inums, ~Born(i), NEW q \in Procs, loc[q].pc # "enter"
    PROVE  ~Owes(loc[q], i)
<1>1. loc[q].ip # 0 => Born(Inum(loc[q].ip))
  BY Mine DEF Fit, FitPointers
<1> QED BY <1>1 DEF Owes

(* The new inode has one name, its entry in d. *)
LEMMA NewCount ==
    ASSUME RefInv, RefInv', LiveInv, NEW p \in Procs, NEW r, Step(p, r),
           \A j : ~Owes(r, j)', NEW e, NEW g, NEW i, NEW d, NEW n, NEW k, NEW b,
           Bearing(p, e, g, i, d, n), NewOnDisk(i, d, n, k, b)
    PROVE  CountOK(i)'
<1>1. /\ i \in Inums /\ d \in Inums /\ i # d /\ ~Born(i) /\ n \in Names /\ entry[i] = NoNames
      /\ Born(d)
  BY DEF Bearing
<1>2. i # ROOTINO
  BY <1>1 DEF LiveInv, DiskInv, RootAlive
<1>3. PICK A, B, C : A = NameSet(i)' /\ B = SubDirs(i)' /\ C = Owing(i)'
  OBVIOUS
<1>4. /\ NamesOf(i)' = Cardinality(A) + Cardinality(B) + One(i = ROOTINO)
      /\ Pending(i)' = Cardinality(C)
  <2>1. NamesOf(i)' = Cardinality(A) + Cardinality(B) + One(i = ROOTINO)
    BY <1>3 DEF NamesOf, NameSet, SubDirs, One
  <2>2. Pending(i)' = Cardinality(C)
    BY <1>3 DEF Pending, Owing
  <2> QED BY <2>1, <2>2
<1>5. A \subseteq {<<d, n>>}
  <2> SUFFICES ASSUME NEW x \in A PROVE x = <<d, n>>
    OBVIOUS
  <2>1. PICK j \in Inums, m \in Names : x = <<j, m>> /\ entry'[j][m] = i
    BY <1>3 DEF NameSet
  <2>2. entry[j][m] # i
    <3>1. i # 0
      BY <1>1, InodeAssumption
    <3>2. entry[j][m] # 0 => Born(entry[j][m])
      BY <2>1 DEF LiveInv, DiskInv, NamesBorn
    <3> QED BY <1>1, <3>1, <3>2
  <2>3. j = d /\ m = n
    BY <2>1, <2>2 DEF NewOnDisk, Writes
  <2> QED BY <2>1, <2>3
<1>6. B = {}
  <2>1. \A m \in Names : entry'[i][m] = 0
    BY <1>1 DEF NewOnDisk, Writes, NoNames, DirNames
  <2> QED BY <1>3, <2>1 DEF SubDirs
<1>7. C = {}
  <2>1. ASSUME NEW q \in Procs PROVE ~Owes(loc[q], i)'
    <3>1. CASE q = p
      <4>1. loc'[p] = r
        BY DEF Step, RefInv, Shapes
      <4> QED BY <3>1, <4>1 DEF Owes, Inum, Linking, Goal
    <3>2. CASE q # p
      <4>1. Owes(loc[q], i)' <=> Owes(loc[q], i)
        BY <3>2, OthersStay
      <4>2. ~Owes(loc[q], i)
        BY <1>1, UnbornOwes DEF Owes, Goal, Iput, Linking
      <4> QED BY <4>1, <4>2
    <3> QED BY <3>1, <3>2
  <2> QED BY <1>3, <2>1 DEF Owing
<1>8. Cardinality(A) \in Nat /\ Cardinality(A) <= 1
  <2>1. IsFiniteSet({<<d, n>>}) /\ Cardinality({<<d, n>>}) = 1
    BY FS_Singleton
  <2>2. IsFiniteSet(A) /\ Cardinality(A) <= 1
    BY <1>5, <2>1, FS_Subset
  <2> QED BY <2>2, FS_CardinalityType
<1>9. Cardinality(B) = 0 /\ Cardinality(C) = 0 /\ One(i = ROOTINO) = 0
  BY <1>2, <1>6, <1>7, FS_EmptySet DEF One
<1>10. dinode'[i].nlink = 1
  BY DEF NewOnDisk
<1>11. NamesOf(i)' + Pending(i)' <= dinode'[i].nlink
  BY <1>4, <1>8, <1>9, <1>10
<1> QED BY <1>11 DEF CountOK

(* The inodes that were alive keep their counts. *)
LEMMA OldCount ==
    ASSUME RefInv, RefInv', LiveInv, NEW p \in Procs, NEW r, Step(p, r), SameTypes,
           \A j : ~Owes(r, j)', NEW e, NEW g, NEW i, NEW d, NEW n, NEW k \in {0, 1}, NEW b,
           k = 1 <=> loc[p].call = "mkdir",
           Bearing(p, e, g, i, d, n), NewOnDisk(i, d, n, k, b), NEW j \in Inums, Born(j)
    PROVE  CountOK(j)'
<1>1. /\ i \in Inums /\ d \in Inums /\ i # d /\ ~Born(i) /\ n \in Names
      /\ (dinode[i].type = "dir" <=> loc[p].call = "mkdir")
  BY DEF Bearing
<1>2. Writes(d, n, i) /\ j # i
  BY <1>1 DEF NewOnDisk
<1>3. NameMoves(j, d, n, i) /\ SubMoves(j, d, n, i)
  BY <1>1, <1>2, NameWrites
<1>4. IsFiniteSet(NameSet(j)) /\ IsFiniteSet(SubDirs(j)) /\ IsFiniteSet(Owing(j))
  BY NameSets
<1>5. Cardinality(NameSet(j)') <= Cardinality(NameSet(j)) + 0
  BY <1>2, <1>3, <1>4, CardMoves DEF NameMoves
<1>6. Owing(j)' \subseteq Owing(j)
  BY OwingStep
<1>7. Cardinality(Owing(j)') <= Cardinality(Owing(j)) + 0
  BY <1>4, <1>6, CardMoves
<1>8. dinode[j].nlink \in Int
  BY DEF RefInv, Shapes, DiskShapes, AnyDinode
<1>9. CASE j = d /\ k = 1
  <2>1. Cardinality(SubDirs(j)') <= Cardinality(SubDirs(j)) + 1
    BY <1>3, <1>4, CardMoves DEF SubMoves
  <2>2. dinode'[j].nlink = dinode[j].nlink + 1
    BY <1>9 DEF NewOnDisk
  <2>3. GrowBy(j, 0, 1, 0)
    BY <1>5, <1>7, <1>8, <2>1, <2>2 DEF GrowBy
  <2>4. 0 \in Int /\ 1 \in Int
    OBVIOUS
  <2> QED BY <2>3, <2>4, CountStep
<1>10. CASE ~(j = d /\ k = 1)
  <2>1. SubDirs(j)' \subseteq SubDirs(j)
    BY <1>1, <1>3, <1>10 DEF SubMoves
  <2>2. Cardinality(SubDirs(j)') <= Cardinality(SubDirs(j)) + 0
    BY <1>4, <2>1, CardMoves
  <2>3. dinode'[j].nlink = dinode[j].nlink
    BY <1>2, <1>8, <1>10 DEF NewOnDisk
  <2>4. GrowBy(j, 0, 0, 0)
    BY <1>5, <1>7, <1>8, <2>2, <2>3 DEF GrowBy
  <2> QED BY <2>4, CountStep
<1> QED BY <1>9, <1>10

(* The disk after create has entered its inode *)
LEMMA EnterDisk ==
    ASSUME RefInv, RefInv', LiveInv, NEW p \in Procs, NEW r, Step(p, r), r.pc = "put",
           \A j : ~Owes(r, j)', NEW e, NEW g, NEW i, NEW d, NEW n, NEW k \in {0, 1}, NEW b,
           k = 1 <=> loc[p].call = "mkdir", loc[p].pc = "enter",
           Bearing(p, e, g, i, d, n), NewOnDisk(i, d, n, k, b)
    PROVE  DiskInv'
<1>1. /\ i \in Inums /\ d \in Inums /\ i # d /\ ~Born(i) /\ n \in Names /\ entry[i] = NoNames
      /\ (dinode[i].type = "dir" <=> loc[p].call = "mkdir") /\ Born(d)
  BY DEF Bearing
<1>2. /\ SameTypes /\ Born(i)' /\ \A j \in Inums \ {i} : Born(j)' <=> Born(j)
      /\ \A j : ~Bears(loc[p], j)'
      /\ \A q \in Procs \ {p} : \A j : Bears(loc[q], j)' <=> Bears(loc[q], j)
  BY EnterBorn
<1>3. OneBirth'
  <2> SUFFICES ASSUME NEW q \in Procs, NEW s \in Procs, NEW j \in Inums,
                      Bears(loc[q], j)', Bears(loc[s], j)'
               PROVE  q = s
    BY DEF OneBirth
  <2>1. q # p /\ s # p
    BY <1>2
  <2>2. Bears(loc[q], j) /\ Bears(loc[s], j)
    BY <1>2, <2>1
  <2> QED BY <2>2 DEF LiveInv, DiskInv, OneBirth
<1>4. RootAlive'
  <2>1. Born(ROOTINO) /\ dinode[ROOTINO].type = "dir" /\ ROOTINO \in Inums
    BY InodeAssumption DEF LiveInv, DiskInv, RootAlive
  <2> QED BY <1>1, <1>2, <2>1 DEF RootAlive, SameTypes
<1>5. ASSUME NEW j \in Inums PROVE Blank(j)'
  <2>1. CASE Born(j)'
    BY <2>1 DEF Blank
  <2>2. CASE ~Born(j)'
    <3>1. j # i /\ j # d /\ ~Born(j)
      BY <1>1, <1>2, <2>2
    <3>2. dinode'[j] = dinode[j] /\ entry'[j] = entry[j]
      BY <3>1 DEF NewOnDisk
    <3>3. entry[j] = NoNames /\ dinode[j].nlink = 0 /\ dinode[j].addr = 0
      BY <3>1 DEF LiveInv, DiskInv, Blank
    <3> QED BY <3>2, <3>3 DEF Blank
  <2> QED BY <2>1, <2>2
<1>6. ASSUME NEW j \in Inums PROVE NamesBorn(j)'
  <2> SUFFICES ASSUME NEW m \in Names, entry'[j][m] # 0 PROVE Born(entry[j][m])'
    BY DEF NamesBorn
  <2>1. PICK t : t = entry'[j][m]
    OBVIOUS
  <2>2. Born(t)'
    <3>1. CASE j = d /\ m = n
      BY <1>2, <2>1, <3>1 DEF NewOnDisk, Writes
    <3>2. CASE ~(j = d /\ m = n)
      <4>1. t = entry[j][m]
        BY <2>1, <3>2 DEF NewOnDisk, Writes
      <4>2. Born(t)
        BY <2>1, <4>1 DEF LiveInv, DiskInv, NamesBorn
      <4>3. t \in Inums
        <5>1. m \in DirNames
          BY DEF DirNames
        <5> QED BY <2>1, <4>1, <5>1 DEF RefInv, Shapes, DiskShapes
      <4> QED BY <1>1, <1>2, <4>2, <4>3
    <3> QED BY <3>1, <3>2
  <2> QED BY <2>1, <2>2 DEF Born, Bears, Inum
<1>7. ASSUME NEW j \in Inums PROVE Dots(j)'
  <2>1. CASE j # i
    <3>1. entry'[j]["."] = entry[j]["."] /\ entry'[j][".."] = entry[j][".."]
      BY <2>1 DEF NewOnDisk
    <3>2. Born(j)' <=> Born(j)
      BY <1>2, <2>1
    <3>3. dinode'[j].type = dinode[j].type
      BY <1>2 DEF SameTypes
    <3>4. Dots(j)
      BY DEF LiveInv, DiskInv
    <3> QED BY <3>1, <3>2, <3>3, <3>4 DEF Dots
  <2>2. CASE j = i
    <3>1. /\ entry'[i]["."] = IF k = 1 THEN i ELSE 0
          /\ entry'[i][".."] = IF k = 1 THEN d ELSE 0
      BY DEF NewOnDisk
    <3>2. i # 0 /\ d # 0
      BY <1>1, InodeAssumption
    <3>3. dinode'[i].type = "dir" <=> k = 1
      BY <1>1, <1>2 DEF SameTypes
    <3> QED BY <2>2, <3>1, <3>2, <3>3 DEF Dots
  <2> QED BY <2>1, <2>2
<1>9. ASSUME NEW j \in Inums PROVE Up(j)'
  <2>0. Up(j) /\ NamesBorn(j)
    BY DEF LiveInv, DiskInv
  <2>1. \A t \in Inums \ {i} : entry'[t][".."] = entry[t][".."]
    BY DEF NewOnDisk
  <2>2. j = ROOTINO => entry'[j][".."] = ROOTINO
    <3>1. j = ROOTINO => j # i
      BY <1>1 DEF LiveInv, DiskInv, RootAlive
    <3> QED BY <2>0, <2>1, <3>1 DEF Up
  <2>3. ASSUME NEW m \in Names, entry'[j][m] # 0, dinode'[entry'[j][m]].type = "dir"
        PROVE  entry'[entry'[j][m]][".."] = j
    <3>1. PICK t : t = entry'[j][m]
      OBVIOUS
    <3>2. CASE j = d /\ m = n
      <4>1. t = i
        BY <3>1, <3>2 DEF NewOnDisk, Writes
      <4>2. k = 1
        BY <1>1, <1>2, <2>3, <3>1, <4>1 DEF SameTypes
      <4>3. entry'[i][".."] = d
        BY <4>2 DEF NewOnDisk
      <4> QED BY <3>1, <3>2, <4>1, <4>3
    <3>3. CASE ~(j = d /\ m = n)
      <4>1. t = entry[j][m]
        BY <3>1, <3>3 DEF NewOnDisk, Writes
      <4>2. Born(t) /\ t # i
        BY <1>1, <2>0, <2>3, <3>1, <4>1 DEF NamesBorn
      <4>3. t \in Inums
        <5>1. m \in DirNames
          BY DEF DirNames
        <5> QED BY <2>3, <3>1, <4>1, <5>1 DEF RefInv, Shapes, DiskShapes
      <4>4. dinode[t].type = "dir" /\ entry'[t][".."] = entry[t][".."]
        BY <1>2, <2>1, <2>3, <3>1, <4>2, <4>3 DEF SameTypes
      <4>5. entry[t][".."] = j
        BY <2>0, <2>3, <3>1, <4>1, <4>4 DEF Up
      <4> QED BY <3>1, <4>4, <4>5
    <3> QED BY <3>2, <3>3
  <2> QED BY <2>2, <2>3 DEF Up
<1>8. ASSUME NEW j \in Inums PROVE CountOK(j)'
  <2>1. CASE j = i
    BY <2>1, NewCount
  <2>2. CASE j # i /\ Born(j)
    BY <1>2, <2>2, OldCount
  <2>3. CASE j # i /\ ~Born(j)
    <3>1. ~Born(j)'
      BY <1>2, <2>3
    <3> QED BY <3>1 DEF CountOK
  <2> QED BY <2>1, <2>2, <2>3
<1> QED BY <1>3, <1>4, <1>5, <1>6, <1>7, <1>8, <1>9 DEF DiskInv

(* create has entered the inode it allocated. *)
LEMMA EnterLive ==
    ASSUME RefInv, RefInv', LiveInv, NEW p \in Procs, Enter(p)
    PROVE  LiveInv'
<1>1. PICK e, g, i, d, n : /\ e = loc[p].ip /\ g = loc[p].dp /\ i = Inum(loc[p].ip)
                           /\ d = Inum(loc[p].dp) /\ n = Name(p)
  OBVIOUS
<1>2. Bearing(p, e, g, i, d, n)
  BY <1>1, EnterBears
<1>3. PICK k \in {0, 1} : \E b \in Blocks \cup {0} :
         /\ NewOnDisk(i, d, n, k, b) /\ NewInCache(p, e, g, i, d)
         /\ (k = 1 <=> loc[p].call = "mkdir")
  BY <1>2, EnterSteps
<1>4. PICK b \in Blocks \cup {0} :
         /\ NewOnDisk(i, d, n, k, b) /\ NewInCache(p, e, g, i, d)
         /\ (k = 1 <=> loc[p].call = "mkdir")
  BY <1>3
<1>5. PICK jc : /\ CacheStep(jc, p, e)
                /\ \A f \in Entries : /\ jc[f].ref = icache[f].ref /\ jc[f].inum = icache[f].inum
                                      /\ jc[f].lock = icache'[f].lock
                                      /\ f \notin {e, g} => /\ jc[f].valid = icache'[f].valid
                                                            /\ jc[f].copy = icache'[f].copy
  BY <1>2, <1>4, EnterCache
<1>6. PICK l \in Frame : l = loc[p] /\ Holds(l) /\ Fit(l, p)
  BY Mine
<1>7. l.pc = "enter" /\ UNCHANGED files
  BY <1>6 DEF Enter, At
<1>8. PICK t \in {"file", "putip"} : t = IF l.call = "creat" THEN "file" ELSE "putip"
  OBVIOUS
<1>9. PICK r : r = Put(l, "dp", t)
  OBVIOUS
<1>10. loc' = [loc EXCEPT ![p] = r]
  BY <1>6, <1>8, <1>9 DEF Enter
<1>11. PutLeaves(r, l, "dp", t)
  <2>1. l.path \in Seq(DirNames) /\ l.new.elems \in Seq(DirNames) /\ t \in Labels
    BY <1>6, Mine DEF Labels
  <2> QED BY <1>6, <1>9, <2>1, PutFields
<1>12. /\ r.pc = "put" /\ Goal(r) = t /\ r.ip = e /\ r.dp = 0 /\ r.tgt = g
       /\ r.path \in Seq(DirNames) /\ r.new.elems \in Seq(DirNames) /\ ~Linking(r) /\ Goal(r) # "unlinked"
  BY <1>1, <1>6, <1>8, <1>11 DEF PutLeaves, Goal, Iput, Linking
<1>13. /\ e \in Entries /\ g \in Entries /\ e # g /\ i \in Inums /\ d \in Inums /\ i # d
       /\ i = icache[e].inum /\ d = icache[g].inum /\ icache[e].ref > 0 /\ icache[g].ref > 0
       /\ icache[e].lock = Nobody /\ icache[g].lock = p /\ Born(d) /\ ~Born(i) /\ Bears(loc[p], i)
       /\ dinode[i].type # "none" /\ dinode[i].addr = 0
  BY <1>2 DEF Bearing, Inum
<1>14. OwnLocks(p, r)
  <2> SUFFICES ASSUME NEW f \in Entries, icache'[f].lock = p
               PROVE  icache'[f].valid /\ Keeps(r, f)
    BY DEF OwnLocks
  <2>1. f = e
    <3> SUFFICES ASSUME f # e PROVE FALSE
      OBVIOUS
    <3>1. f # g /\ icache[f].lock = p
      BY <1>4, InodeAssumption DEF NewInCache
    <3>2. Keeps(l, f)
      BY <1>6, <3>1, Mine
    <3> QED BY <1>1, <1>6, <1>7, <3>1, <3>2 DEF Keeps, Goal, Iput
  <2>2. icache'[e].valid
    BY <1>4 DEF NewInCache
  <2> QED BY <1>8, <1>12, <2>1, <2>2 DEF Keeps
<1>15. Updates(p, {e, g}, jc)
  <2>1. \A f \in Entries : /\ icache'[f].ref = jc[f].ref /\ icache'[f].inum = jc[f].inum
                           /\ icache'[f].lock = jc[f].lock
    BY <1>4, <1>5 DEF NewInCache
  <2>2. \A f \in Entries \ {e, g} : icache'[f].valid = jc[f].valid /\ icache'[f].copy = jc[f].copy
    BY <1>5
  <2>3. /\ icache'[e].valid /\ icache'[e].copy = dinode'[i]
        /\ icache'[g].valid /\ icache'[g].copy = dinode'[d]
        /\ dinode'[i].type = dinode[i].type /\ dinode'[d].type = dinode[d].type
    BY <1>4 DEF NewInCache, NewOnDisk
  <2>4. Mentions(p, e) /\ Mentions(p, g) /\ jc[e].ref > 0 /\ jc[g].ref > 0
    BY <1>1, <1>5, <1>13 DEF Mentions
  <2>5. dinode[d].type # "none"
    BY <1>13 DEF Born
  <2>6. \A f \in {e, g} : /\ icache[f].ref > 0 /\ jc[f].ref > 0 /\ icache'[f].valid
                          /\ icache'[f].copy = dinode'[Inum(f)] /\ dinode'[Inum(f)].type # "none"
                          /\ Mentions(p, f) /\ (Born(Inum(f)) \/ Bears(loc[p], Inum(f)))
    BY <1>13, <2>3, <2>4, <2>5 DEF Inum
  <2>7. \A j \in Inums : (\A f \in {e, g} : Inum(f) # j) => dinode'[j] = dinode[j]
    BY <1>4, <1>13 DEF NewOnDisk, Inum
  <2> QED BY <1>13, <2>1, <2>2, <2>6, <2>7 DEF Updates
<1>16. Step(p, r) /\ CacheInv' /\ BirthsKept(p) /\ DeathsKept(p)
  <2>1. loc[p].pc # "invalidate"
    BY <1>6, <1>7
  <2> QED BY <1>5, <1>10, <1>14, <1>15, <2>1, UpdateCache
<1>17. UnlinksKept(p)
  <2> SUFFICES ASSUME NEW q \in Procs \ {p}, loc[q].pc = "unlink"
               PROVE  entry'[Inum(loc[q].dp)] = entry[Inum(loc[q].dp)]
    BY DEF UnlinksKept
  <2>1. /\ loc[q].dp \in Entries /\ Born(Inum(loc[q].dp))
        /\ \A f \in Entries : icache[f].ref > 0 /\ icache[f].lock # q => Inum(f) # Inum(loc[q].dp)
    BY UnlinkLocked
  <2>2. loc[q].dp # 0
    BY <2>1, InodeAssumption DEF Entries
  <2>3. Inum(loc[q].dp) \in Inums
    BY <2>2, Targets
  <2>4. Inum(loc[q].dp) # d /\ Inum(loc[q].dp) # i
    BY <1>13, <2>1 DEF Inum
  <2> QED BY <1>4, <2>3, <2>4 DEF NewOnDisk
<1>18. /\ SameTypes /\ Born(i)' /\ \A j \in Inums \ {i} : Born(j)' <=> Born(j)
       /\ \A j : ~Bears(loc[p], j)'
  BY <1>2, <1>4, <1>6, <1>7, <1>12, <1>16, EnterBorn
<1>19. Survive(0)
  BY <1>13, <1>18 DEF Survive, SameTypes
<1>20. Fit(r, p)'
  <2>1. icache'[e].inum = i /\ icache'[g].inum = d /\ Born(d)'
    BY <1>4, <1>13, <1>18 DEF NewInCache
  <2>2. FitPaths(r)'
    BY <1>8, <1>12 DEF FitPaths
  <2>3. FitLocks(r, p)'
    BY <1>8, <1>12 DEF FitLocks
  <2>4. FitPointers(r)'
    <3>1. Born(Inum(r.ip))' /\ Born(Inum(r.tgt))'
      BY <1>12, <1>18, <2>1 DEF Born, Bears, Inum
    <3> QED BY <1>12, <3>1 DEF FitPointers
  <2>5. FitInodes(r)'
    BY <1>12 DEF FitInodes, Bears, Linking
  <2> QED BY <2>2, <2>3, <2>4, <2>5 DEF Fit
<1>21. \A q \in Procs : Fit(loc[q], q)'
  BY <1>16, <1>17, <1>19, <1>20, NoneTouched, AllFit
<1>22. KeptAlive'
  BY <1>7, <1>16, <1>19, KeptStays, NoneUnkept
<1>23. BlockInv'
  <2>1. loc[p].pc # "free" /\ r.pc # "free"
    BY <1>6, <1>7, <1>12
  <2>2. CASE k = 1
    <3>1. b \in Blocks /\ b \notin bitmap /\ bitmap' = bitmap \cup {b} /\ dinode'[i].addr = b
      BY <1>4, <2>2 DEF NewOnDisk
    <3>2. \A j \in Inums \ {i} : dinode'[j].addr = dinode[j].addr
      BY <1>4 DEF NewOnDisk
    <3>3. ~Gone(i)
      BY <1>13, Dying DEF Gone
    <3> QED BY <1>13, <1>16, <2>1, <3>1, <3>2, <3>3, BlockTaken
  <2>3. CASE k = 0
    <3>1. bitmap' = bitmap /\ dinode'[i].addr = 0
      BY <1>4, <2>3 DEF NewOnDisk
    <3>2. \A j \in Inums \ {i} : dinode'[j].addr = dinode[j].addr
      BY <1>4 DEF NewOnDisk
    <3>3. \A j \in Inums : dinode'[j].addr = dinode[j].addr
      BY <1>13, <3>1, <3>2
    <3> QED BY <1>16, <2>1, <3>1, <3>3, BlocksStay
  <2> QED BY <2>2, <2>3
<1>24. DiskInv'
  <2>1. \A j : ~Owes(r, j)'
    BY <1>12 DEF Owes, Linking
  <2> QED BY <1>2, <1>4, <1>6, <1>7, <1>12, <1>16, <2>1, EnterDisk
<1> QED BY <1>16, <1>21, <1>22, <1>23, <1>24 DEF LiveInv

(* The file system that mkfs makes *)
LEMMA InitLive ==
    ASSUME Init
    PROVE  LiveInv
<1>1. RefInv
  BY InitRefs
<1>2. /\ Idle.pc = "idle" /\ Idle.dp = 0 /\ Idle.ip = 0 /\ Idle.tgt = 0
      /\ Idle.path \in Seq(DirNames) /\ Idle.new.elems \in Seq(DirNames)
  BY IdleFrame
<1>3. \A p \in Procs : loc[p] = Idle
  BY DEF Init
<1>4. \A p \in Procs : \A i : ~Bears(loc[p], i) /\ ~Owes(loc[p], i)
  BY <1>2, <1>3 DEF Bears, Owes
<1>5. \A i \in Inums : dinode[i].type = IF i = ROOTINO THEN "dir" ELSE "none"
  BY DEF Init, NoInode
<1>6. \A i \in Inums : Born(i) <=> i = ROOTINO
  BY <1>4, <1>5 DEF Born
<1>7. ROOTINO \in Inums /\ ROOTINO # 0 /\ RootBlock \in Blocks /\ 0 \notin Blocks
  BY InodeAssumption
<1>8. CacheInv
  <2>1. \A e \in Entries : /\ icache[e].lock = Nobody /\ ~icache[e].valid
                           /\ icache[e].ref = IF e = 1 THEN Cardinality(Procs) ELSE 0
    BY DEF Init
  <2>2. OneEntry
    BY <2>1 DEF OneEntry
  <2> QED BY <2>1, <2>2 DEF CacheInv, LockKept, Coherent
<1>9. \A i \in Inums, n \in Names : entry[i][n] = 0
  BY DEF Init, NoNames, DirNames
<1>10. ASSUME NEW i \in Inums PROVE CountOK(i)
  <2> SUFFICES ASSUME i = ROOTINO PROVE NamesOf(i) + Pending(i) <= dinode[i].nlink
    BY <1>6 DEF CountOK
  <2>1. i # 0
    BY <1>7
  <2>2. NameSet(i) = {}
    BY <1>9, <2>1 DEF NameSet
  <2>3. SubDirs(i) = {} /\ Owing(i) = {}
    BY <1>4, <1>9 DEF SubDirs, Owing
  <2>4. NamesOf(i) = 0 + 0 + One(i = ROOTINO) /\ Pending(i) = 0
    BY <2>2, <2>3, NameSets, FS_EmptySet
  <2>5. dinode[i].nlink = 1
    BY DEF Init
  <2> QED BY <2>4, <2>5 DEF One
<1>11. ASSUME NEW i \in Inums PROVE Blank(i) /\ NamesBorn(i) /\ Dots(i) /\ Up(i)
  <2>1. Blank(i)
    BY <1>6 DEF Blank, Init, NoInode
  <2>2. NamesBorn(i)
    BY <1>9 DEF NamesBorn
  <2>3. /\ i = ROOTINO => entry[i]["."] = ROOTINO /\ entry[i][".."] = ROOTINO
        /\ i # ROOTINO => entry[i]["."] = 0 /\ entry[i][".."] = 0
    BY InodeAssumption DEF Init, NoNames, DirNames
  <2>4. Up(i)
    BY <1>9, <2>3 DEF Up
  <2> QED BY <1>5, <1>6, <1>7, <2>1, <2>2, <2>3, <2>4 DEF Dots
<1>12. DiskInv
  <2>1. OneBirth /\ RootAlive
    BY <1>4, <1>5, <1>6, <1>7 DEF OneBirth, RootAlive
  <2> QED BY <1>10, <1>11, <2>1 DEF DiskInv
<1>13. KeptAlive
  <2>1. \A p \in Procs : Inum(cwd[p]) = ROOTINO
    BY InodeAssumption DEF Init, Inum, Entries
  <2>2. \A f \in Files : fref[f] = 0
    BY DEF Init
  <2> QED BY <1>6, <1>7, <2>1, <2>2 DEF KeptAlive
<1>14. BlockInv
  <2>1. \A i : ~Gone(i)
    BY <1>2, <1>3 DEF Gone
  <2>2. \A i \in Inums : dinode[i].addr = IF i = ROOTINO THEN RootBlock ELSE 0
    BY DEF Init, NoInode
  <2>3. ASSUME NEW b \in Blocks, NEW i \in Inums PROVE Owns(i, b) <=> i = ROOTINO /\ b = RootBlock
    BY <1>7, <2>1, <2>2 DEF Owns
  <2>4. bitmap = {RootBlock}
    BY DEF Init
  <2> QED BY <1>7, <2>3, <2>4 DEF BlockInv
<1>15. ASSUME NEW p \in Procs PROVE Fit(loc[p], p)
  <2>1. loc[p].pc = "idle" /\ loc[p].dp = 0 /\ loc[p].ip = 0 /\ loc[p].tgt = 0
    BY <1>2, <1>3
  <2>2. loc[p].path \in Seq(DirNames) /\ loc[p].new.elems \in Seq(DirNames)
    BY <1>2, <1>3
  <2> QED BY <1>4, <2>1, <2>2 DEF Fit, FitPaths, FitLocks, FitPointers, FitInodes, Goal, Iput
<1> QED BY <1>8, <1>12, <1>13, <1>14, <1>15 DEF LiveInv

(* Nothing changes. *)
LEMMA StillLive ==
    ASSUME RefInv, LiveInv, UNCHANGED vars
    PROVE  LiveInv'
<1>1. UNCHANGED <<dinode, entry, bitmap, icache, fref, fip, ofile, cwd, loc>>
  BY DEF vars, disk, files
<1>2. /\ \A i : Born(i)' <=> Born(i)
      /\ \A p \in Procs : \A i : Bears(loc[p], i)' <=> Bears(loc[p], i)
  BY <1>1 DEF Born, Bears, Inum
<1>3. CacheInv'
  BY <1>1 DEF LiveInv, CacheInv, OneEntry, LockKept, Coherent, Inum, Keeps, Goal
<1>4. DiskInv'
  <2>1. \A i : NamesOf(i)' = NamesOf(i) /\ Pending(i)' = Pending(i)
    BY <1>1 DEF NamesOf, Pending, Owes, Linking, Goal, Inum
  <2>2. OneBirth' /\ RootAlive'
    BY <1>1 DEF LiveInv, DiskInv, OneBirth, RootAlive, Born, Bears, Inum
  <2>3. ASSUME NEW i \in Inums
        PROVE  Blank(i)' /\ NamesBorn(i)' /\ Dots(i)' /\ Up(i)' /\ CountOK(i)'
    <3>1. Blank(i) /\ NamesBorn(i) /\ Dots(i) /\ Up(i) /\ CountOK(i)
      BY DEF LiveInv, DiskInv
    <3>2. Up(i)'
      BY <1>1, <3>1 DEF Up
    <3> QED BY <1>1, <2>1, <3>1, <3>2 DEF Blank, NamesBorn, Dots, CountOK, Born, Bears, Inum
  <2> QED BY <2>2, <2>3 DEF DiskInv
<1>5. KeptAlive'
  BY <1>1 DEF LiveInv, KeptAlive, Born, Bears, Inum
<1>6. BlockInv'
  BY <1>1 DEF LiveInv, BlockInv, Owns, Gone, Inum
<1>7. ASSUME NEW p \in Procs PROVE Fit(loc[p], p)'
  <2>1. Fit(loc[p], p)
    BY DEF LiveInv
  <2>2. FitPaths(loc[p])' /\ FitLocks(loc[p], p)'
    BY <1>1, <2>1 DEF Fit, FitPaths, FitLocks, Goal, Inum
  <2>3. FitPointers(loc[p])'
    BY <1>1, <2>1 DEF Fit, FitPointers, Born, Bears, Inum
  <2>4. FitInodes(loc[p])'
    BY <1>1, <2>1 DEF Fit, FitInodes, Bears, Inum, Goal, Linking
  <2> QED BY <2>2, <2>3, <2>4 DEF Fit
<1> QED BY <1>3, <1>4, <1>5, <1>6, <1>7 DEF LiveInv

(* Every step keeps the invariant. *)
LEMMA NextLive ==
    ASSUME Careful, RefInv, LiveInv, [Next]_vars
    PROVE  LiveInv'
<1>1. CASE UNCHANGED vars
  BY <1>1, StillLive
<1>2. CASE Next
  <2>1. PICK p \in Procs :
        \/ \E r \in Requests : Begin(p, r)
        \/ Walk(p)
        \/ PutTest(p) \/ Trunc(p) \/ Free(p) \/ Invalidate(p) \/ Drop(p)
        \/ CreateLook(p) \/ Exists(p) \/ Ialloc(p) \/ IallocGet(p) \/ Enter(p)
        \/ OpenLock(p) \/ OpenFile(p) \/ OpenFails(p)
        \/ UnlinkLook(p) \/ Unlink(p) \/ Unlinked(p)
        \/ LinkCount(p) \/ LinkEnter(p) \/ LinkBad(p)
        \/ Chdir(p)
        \/ \E d \in Fds : Close(p, d) \/ Dup(p, d) \/ Read(p, d) \/ Write(p, d)
    BY <1>2 DEF Next
  <2>2. RefInv'
    BY NextRefs
  <2> QED BY <2>1, <2>2, BeginLive, WalkLive, PutTestLive, TruncLive, FreeLive, InvalidateLive,
             DropLive, CreateLookLive, ExistsLive, IallocLive, IallocGetLive, EnterLive,
             OpenLockLive, OpenFileLive, OpenFailsLive, UnlinkLookLive, UnlinkLive,
             UnlinkedLive, LinkCountLive, LinkEnterLive, LinkBadLive, ChdirLive,
             CloseLive, DupLive, ReadLive, WriteLive
<1> QED BY <1>1, <1>2

(* Both invariants hold together: each step keeps the references counted,  *)
(* and with them the locks, the cache, the disk and the blocks in order.   *)
THEOREM InodeLive == Spec /\ []Careful => [](RefInv /\ LiveInv)
<1>1. Init => RefInv /\ LiveInv
  BY InitRefs, InitLive
<1>2. Careful /\ RefInv /\ LiveInv /\ [Next]_vars => (RefInv /\ LiveInv)'
  BY NextRefs, NextLive
<1> QED BY <1>1, <1>2, PTL DEF Spec

(* What is counted covers the names: of an inode that is alive, and of one *)
(* that is being created, which has none.                                  *)
LEMMA LiveNames ==
    ASSUME RefInv, LiveInv
    PROVE  NamesCounted
<1> SUFFICES ASSUME NEW i \in Inums, dinode[i].type # "none"
             PROVE  NamesOf(i) <= dinode[i].nlink
  BY DEF NamesCounted
<1>1. /\ Cardinality(NameSet(i)) \in Nat /\ Cardinality(SubDirs(i)) \in Nat
      /\ Cardinality(Owing(i)) \in Nat /\ One(i = ROOTINO) \in Nat
      /\ NamesOf(i) = Cardinality(NameSet(i)) + Cardinality(SubDirs(i)) + One(i = ROOTINO)
      /\ Pending(i) = Cardinality(Owing(i))
  BY NameSets DEF One
<1>2. dinode[i].nlink \in Int
  BY DEF RefInv, Shapes, DiskShapes, AnyDinode
<1>3. CASE Born(i)
  <2>1. NamesOf(i) + Pending(i) <= dinode[i].nlink
    BY <1>3 DEF LiveInv, DiskInv, CountOK
  <2> QED BY <1>1, <1>2, <2>1
<1>4. CASE ~Born(i)
  <2>1. entry[i] = NoNames /\ dinode[i].nlink = 0 /\ i # ROOTINO
    BY <1>4 DEF LiveInv, DiskInv, Blank, RootAlive
  <2>2. i # 0
    BY InodeAssumption
  <2>3. NameSet(i) = {}
    <3>1. \A j \in Inums, n \in Names : entry[j][n] # 0 => Born(entry[j][n])
      BY DEF LiveInv, DiskInv, NamesBorn
    <3>2. \A j \in Inums, n \in Names : entry[j][n] # i
      BY <1>4, <2>2, <3>1
    <3> QED BY <3>2 DEF NameSet
  <2>4. SubDirs(i) = {}
    BY <2>1 DEF SubDirs, NoNames, DirNames
  <2> QED BY <1>1, <2>1, <2>3, <2>4, FS_EmptySet DEF One
<1> QED BY <1>3, <1>4

(* Of the inodes that are not being truncated, one owns each block that    *)
(* is in use.                                                              *)
LEMMA LiveBlocks ==
    ASSUME RefInv, LiveInv
    PROVE  BlocksOwned
<1> DEFINE gone == {Dir(loc[p].tgt) : p \in {q \in Procs : At(q, "free")}}
           owner(b) == {i \in Inums \ gone : dinode[i].addr = b}
<1> SUFFICES ASSUME NEW b \in Blocks
             PROVE  Cardinality(owner(b)) = IF b \in bitmap THEN 1 ELSE 0
  BY DEF BlocksOwned
<1>1. \A i \in Inums : i \in gone <=> Gone(i)
  BY DEF Gone, At, Dir, Inum
<1>2. \A i \in Inums : i \in owner(b) <=> Owns(i, b)
  BY <1>1 DEF Owns
<1>3. /\ b \in bitmap <=> \E i \in Inums : Owns(i, b)
      /\ \A i, j \in Inums : Owns(i, b) /\ Owns(j, b) => i = j
  BY DEF LiveInv, BlockInv
<1>4. owner(b) \subseteq Inums
  OBVIOUS
<1> HIDE DEF owner
<1>5. CASE b \in bitmap
  <2>1. PICK i \in Inums : Owns(i, b)
    BY <1>3, <1>5
  <2>2. owner(b) = {i}
    BY <1>2, <1>3, <1>4, <2>1
  <2> QED BY <1>5, <2>2, FS_Singleton
<1>6. CASE b \notin bitmap
  <2>1. owner(b) = {}
    BY <1>2, <1>3, <1>4, <1>6
  <2> QED BY <1>6, <2>1, FS_EmptySet
<1> QED BY <1>5, <1>6

(* A cache entry with references has a pointer. *)
HasPointer(e) ==
    \/ \E f \in Files : fref[f] > 0 /\ fip[f] = e
    \/ \E q \in Procs : cwd[q] = e
    \/ \E q \in Procs : loc[q].dp = e \/ loc[q].ip = e \/ loc[q].tgt = e

(* It has one. *)
LEMMA Referred ==
    ASSUME RefInv, NEW e \in Entries, icache[e].ref > 0
    PROVE  HasPointer(e)
<1> DEFINE A == {g \in Files : fref[g] > 0 /\ fip[g] = e}
           B == {q \in Procs : cwd[q] = e}
           C == {x \in Procs \X {"dp", "ip", "tgt"} : loc[x[1]][x[2]] = e}
<1>1. icache[e].ref = Cardinality(A) + Cardinality(B) + Cardinality(C)
  BY DEF RefInv, RefsCounted, Pointers
<1>2. ~(A = {} /\ B = {} /\ C = {})
  <2> HIDE DEF A, B, C
  <2> QED BY <1>1, FS_EmptySet
<1>3. A # {} => \E f \in Files : fref[f] > 0 /\ fip[f] = e
  OBVIOUS
<1>4. B # {} => \E q \in Procs : cwd[q] = e
  OBVIOUS
<1>5. C # {} => \E q \in Procs : loc[q].dp = e \/ loc[q].ip = e \/ loc[q].tgt = e
  <2> SUFFICES ASSUME NEW x \in C
               PROVE  \E q \in Procs : loc[q].dp = e \/ loc[q].ip = e \/ loc[q].tgt = e
    OBVIOUS
  <2>1. PICK q \in Procs, m \in {"dp", "ip", "tgt"} : loc[q][m] = e
    OBVIOUS
  <2> QED BY <2>1
<1> HIDE DEF A, B, C
<1> QED BY <1>2, <1>3, <1>4, <1>5 DEF HasPointer

(* What a pointer refers to is allocated. *)
LEMMA LiveInodes ==
    ASSUME RefInv, LiveInv
    PROVE  InodeAlive
<1>1. ASSUME NEW i \in Inums, NEW n \in DirNames, entry[i][n] # 0, n = ".." => HasName(i)
      PROVE  dinode[entry[i][n]].type # "none"
  <2>1. CASE n \in Names
    BY <1>1, <2>1 DEF LiveInv, DiskInv, NamesBorn, Born
  <2>2. CASE n = ".."
    <3>1. CASE i = ROOTINO
      <4>1. entry[i][".."] = ROOTINO
        BY <3>1 DEF LiveInv, DiskInv, Up
      <4> QED BY <2>2, <4>1 DEF LiveInv, DiskInv, RootAlive
    <3>2. ASSUME NEW j \in Inums, NEW m \in Names, entry[j][m] = i
          PROVE  dinode[entry[i][n]].type # "none"
      <4>1. i # 0
        BY InodeAssumption
      <4>2. CASE dinode[i].type = "dir"
        <5>1. entry[i][".."] = j
          BY <3>2, <4>1, <4>2 DEF LiveInv, DiskInv, Up
        <5>2. Born(j)
          <6>1. entry[j] # NoNames
            BY <3>2, <4>1 DEF NoNames, DirNames
          <6> QED BY <6>1 DEF LiveInv, DiskInv, Blank
        <5> QED BY <2>2, <5>1, <5>2 DEF Born
      <4>3. CASE dinode[i].type # "dir"
        BY <1>1, <2>2, <4>3 DEF LiveInv, DiskInv, Dots
      <4> QED BY <4>2, <4>3
    <3> QED BY <1>1, <2>2, <3>1, <3>2 DEF HasName
  <2>3. CASE n = "."
    <3>1. entry[i]["."] = i
      BY <1>1, <2>3 DEF LiveInv, DiskInv, Dots
    <3>2. CASE Born(i)
      BY <2>3, <3>1, <3>2 DEF Born
    <3>3. CASE ~Born(i)
      <4>1. entry[i] = NoNames
        BY <3>3 DEF LiveInv, DiskInv, Blank
      <4> QED BY <1>1, <4>1 DEF NoNames
    <3> QED BY <3>2, <3>3
  <2> QED BY <2>1, <2>2, <2>3 DEF DirNames
<1>2. ASSUME NEW e \in Entries, icache[e].ref > 0,
             ~\E p \in Procs : loc[p].tgt = e /\ loc[p].pc \in {"invalidate", "drop"}
      PROVE  dinode[Inum(e)].type # "none"
  <2>1. e # 0
    BY DEF Entries
  <2>2. ASSUME NEW f \in Files, fref[f] > 0, fip[f] = e PROVE dinode[Inum(e)].type # "none"
    BY <2>2 DEF LiveInv, KeptAlive, Born
  <2>3. ASSUME NEW q \in Procs, cwd[q] = e PROVE dinode[Inum(e)].type # "none"
    BY <2>3 DEF LiveInv, KeptAlive, Born
  <2>4. ASSUME NEW q \in Procs, loc[q].dp = e \/ loc[q].ip = e \/ loc[q].tgt = e
        PROVE  dinode[Inum(e)].type # "none"
    <3>1. Fit(loc[q], q) /\ Inum(e) \in Inums
      BY <2>1, <2>4, Mine, Targets
    <3>2. CASE loc[q].ip = e /\ loc[q].pc = "enter"
      <4>1. Bears(loc[q], Inum(e))
        BY <3>2 DEF Bears
      <4>2. dinode[Inum(e)] = [NoInode EXCEPT !.type = NewType(loc[q].call)]
        BY <3>1, <4>1 DEF Fit, FitInodes
      <4> QED BY <4>2, NewInode
    <3>3. CASE ~(loc[q].ip = e /\ loc[q].pc = "enter")
      BY <1>2, <2>1, <2>4, <3>1, <3>3 DEF Fit, FitPointers, Born
    <3> QED BY <3>2, <3>3
  <2>5. HasPointer(e)
    BY <1>2, Referred
  <2> QED BY <2>2, <2>3, <2>4, <2>5 DEF HasPointer
<1> QED BY <1>1, <1>2 DEF InodeAlive, Inum

(* xv6 never frees a file that has a name, and unlink never meets a link   *)
(* count below 1: nlink is at least the number of names of an inode and of *)
(* subdirectories of a directory, whatever link, unlink, create and iput   *)
(* do at once, in directories at any depth.                                *)
THEOREM InodeNamesCounted == Spec /\ []Careful => []NamesCounted
<1>1. RefInv /\ LiveInv => NamesCounted
  BY LiveNames
<1> QED BY <1>1, InodeLive, PTL

(* No block is given to two inodes or lost: a block is in use exactly when *)
(* one inode has it, but for the inode that itrunc has just emptied in     *)
(* memory and not yet on disk.                                             *)
THEOREM InodeBlocksOwned == Spec /\ []Careful => []BlocksOwned
<1>1. RefInv /\ LiveInv => BlocksOwned
  BY LiveBlocks
<1> QED BY <1>1, InodeLive, PTL

(* "ilock: no type" does not happen to who is Careful: no name, no .. of a *)
(* directory that has a name, however deep, and no pointer leads to a free *)
(* inode but the pointer of the iput that has just freed it.               *)
THEOREM InodesAlive == Spec /\ []Careful => []InodeAlive
<1>1. RefInv /\ LiveInv => InodeAlive
  BY LiveInodes
<1> QED BY <1>1, InodeLive, PTL
=============================================================================
