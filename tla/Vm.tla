--------------------------------- MODULE Vm ---------------------------------
(***************************************************************************)
(* Physical pages and address spaces: kalloc.c, vm.c, exec.c, and the      *)
(* parts of fork, exit, wait and growproc (proc.c) that touch memory.      *)
(*                                                                         *)
(* An address space is the page directory's frame, the frames of the page  *)
(* tables it points to (the last KPDE of them map the kernel) and the      *)
(* user page table entries.  Addresses count units of which PGSIZE make a  *)
(* page.  Processes meet only in the free list, in the table of shared     *)
(* pages and in wait(): a step takes pages until it has all it wants or    *)
(* none is left, and giving back what a failed call took is a step of its  *)
(* own, so that others find memory exhausted in between.  Which free page  *)
(* kalloc hands out nothing can tell; the model takes the lowest.          *)
(*                                                                         *)
(* Where the kernel panics, or writes through a pointer it never set, the  *)
(* model notes the reason in broken and goes no further.                   *)
(***************************************************************************)
EXTENDS Integers, Sequences, FiniteSets
LOCAL INSTANCE SequencesExt

CONSTANTS NPROC,        \* slots of the process table; 0 is init
          NFRAMES,      \* pages between end and PHYSTOP
          PGSIZE,       \* units per page
          NPTE,         \* entries per page table
          UPDE, KPDE,   \* user and kernel entries of a page directory
          SbrkArgs,     \* arguments of sbrk, in units
          Images,       \* what exec may find at a path
          ArgSizes,     \* sizes of the strings and the vector exec pushes
          Names,        \* names of shared pages (user addresses)
          SHM_MAXNUM    \* entries of shmtable

ASSUME VmAssumption ==
    /\ NPROC \in Nat \ {0} /\ NFRAMES \in Nat /\ PGSIZE \in Nat \ {0}
    /\ NPTE \in Nat \ {0} /\ UPDE \in Nat \ {0} /\ KPDE \in Nat
    /\ SbrkArgs \subseteq Int /\ ArgSizes \subseteq Nat
    /\ SHM_MAXNUM \in Nat \ {0} /\ 0 \notin Names

Slots  == 0 .. NPROC - 1
Frames == 1 .. NFRAMES
Pages  == 0 .. UPDE * NPTE - 1          \* user pages
KERNBASE == UPDE * NPTE * PGSIZE
UINT   == 2 * KERNBASE                  \* addresses wrap here

VARIABLES free,      \* kmem.freelist
          state, parent, kstack, sz, pgdir, shmpgs,   \* struct proc
          shmtable,
          loc,       \* where a process is in the kernel, and its locals
          lost,      \* pages nothing refers to any more
          broken     \* why the kernel cannot go on, or "no"

vars == <<free, state, parent, kstack, sz, pgdir, shmpgs, shmtable, loc, lost, broken>>

PgUp(a) == (a + PGSIZE - 1) \div PGSIZE         \* PGROUNDUP, as a page number
Lowest(S) == CHOOSE x \in S : \A y \in S : x <= y

NoPte == [pa |-> 0, u |-> FALSE]
EmptyDir(f) == [frame |-> f, tab |-> [d \in 0 .. UPDE + KPDE - 1 |-> 0],
                pte |-> [v \in Pages |-> NoPte]]
NoDir == EmptyDir(0)
User == [pc |-> "user", dir |-> NoDir, sz |-> 0, mem |-> 0, child |-> 0]

Tables(d) == {d.tab[i] : i \in DOMAIN d.tab} \ {0}
UserPages(d) == {d.pte[v].pa : v \in Pages} \ {0}
FramesOf(d) == ({d.frame} \ {0}) \cup Tables(d) \cup UserPages(d)

----------------------------------------------------------------------------
(* The operators below work on a record m of the free list, the address    *)
(* space being built, its size, whether all went well, a page that was     *)
(* allocated and could not be mapped, and the reason of a panic.           *)
Mem(f, d) == [free |-> f, dir |-> d, sz |-> 0, ok |-> TRUE, mem |-> 0, panic |-> "no"]

(* kalloc, into the field mem. *)
Kalloc(m) ==
    IF m.free = {} THEN [m EXCEPT !.ok = FALSE]
    ELSE [m EXCEPT !.mem = Lowest(m.free), !.free = @ \ {Lowest(m.free)}]

(* The page table of entry d is there, or is allocated now. *)
walkpgdir(m, d) ==
    IF m.dir.tab[d] # 0 THEN m
    ELSE IF m.free = {} THEN [m EXCEPT !.ok = FALSE]
    ELSE [m EXCEPT !.dir.tab[d] = Lowest(m.free), !.free = @ \ {Lowest(m.free)}]

mappages(m, v, pa, u) ==
    LET w == walkpgdir(m, v \div NPTE) IN
    IF ~w.ok THEN w
    ELSE IF w.dir.pte[v].pa # 0 THEN [w EXCEPT !.panic = "remap"]
    ELSE [w EXCEPT !.dir.pte[v] = [pa |-> pa, u |-> u]]

(* What freevm gives back: user pages, page tables, the directory. *)
freevm(m) == [m EXCEPT !.free = @ \cup FramesOf(m.dir), !.dir = NoDir]

setupkvm(f) ==
    LET m == Kalloc(Mem(f, NoDir))
        k == FoldLeft(LAMBDA r, d : IF r.ok THEN walkpgdir(r, d) ELSE r,
                      [m EXCEPT !.dir = EmptyDir(m.mem), !.mem = 0],
                      [i \in 1 .. KPDE |-> UPDE + i - 1])
    IN  IF k.ok THEN k ELSE freevm(k)

allocpage(m, v) ==
    LET k == Kalloc(m)
        w == mappages(k, v, k.mem, TRUE)
    IN  IF ~m.ok THEN m
        ELSE IF ~k.ok \/ ~w.ok THEN IF k.ok THEN w ELSE k
        ELSE [w EXCEPT !.mem = 0]

(* Where allocuvm starts (mutant: with the page oldsz lies in). *)
RoundsDown(oldsz) == oldsz \div PGSIZE
FirstPage(oldsz) == PgUp(oldsz)

(* The loop of allocuvm; what it does when memory runs out is Undo.  Its   *)
(* result 0 means an error, also when 0 is the size asked for.             *)
allocuvm(m, oldsz, newsz) ==
    IF newsz >= KERNBASE THEN [m EXCEPT !.ok = FALSE]
    ELSE IF newsz < oldsz THEN [m EXCEPT !.sz = oldsz]
    ELSE LET a == FoldLeft(allocpage, m, [i \in 1 .. PgUp(newsz) - FirstPage(oldsz) |->
                                            FirstPage(oldsz) + i - 1])
         IN  [a EXCEPT !.sz = newsz, !.ok = @ /\ newsz # 0]

(* Pages deallocuvm frees on the way from oldsz down to newsz (mutant: it  *)
(* starts with the page newsz lies in).                                    *)
deallocRoundsDown(oldsz, newsz) == {v \in Pages : v >= newsz \div PGSIZE /\ v < PgUp(oldsz)}
deallocPages(oldsz, newsz) == {v \in Pages : v >= PgUp(newsz) /\ v < PgUp(oldsz)}

Deallocated(d, oldsz, newsz) == {d.pte[v].pa : v \in deallocPages(oldsz, newsz)} \ {0}

deallocuvm(m, oldsz, newsz) ==
    [m EXCEPT !.free = @ \cup Deallocated(m.dir, oldsz, newsz),
              !.dir.pte = [v \in Pages |-> IF v \in deallocPages(oldsz, newsz) THEN NoPte
                                                                           ELSE @[v]]]

(* copyuvm: a page that cannot be mapped stays in m.mem. *)
copypage(d, m, v) ==
    LET k == Kalloc(m)
        w == mappages(k, v, k.mem, d.pte[v].u)
    IN  IF ~m.ok \/ m.panic # "no" THEN m
        ELSE IF d.pte[v].pa = 0 THEN [m EXCEPT !.panic = "copyuvm: page not present"]
        ELSE IF ~k.ok \/ ~w.ok THEN IF k.ok THEN w ELSE k
        ELSE [w EXCEPT !.mem = 0]

copyuvm(f, d, size) ==
    LET m == setupkvm(f) IN
    IF ~m.ok THEN m
    ELSE IF PgUp(size) > Cardinality(Pages) THEN [m EXCEPT !.panic = "copyuvm: pte should exist"]
    ELSE FoldLeft(LAMBDA r, v : copypage(d, r, v), m, [i \in 1 .. PgUp(size) |-> i - 1])

(* loaduvm reads the file into pages that allocuvm has mapped. *)
loaduvm(m, seg) ==
    IF \E v \in (seg.vaddr \div PGSIZE) .. PgUp(seg.vaddr + seg.filesz) - 1 : m.dir.pte[v].pa = 0
    THEN [m EXCEPT !.panic = "loaduvm: address should exist"]
    ELSE [m EXCEPT !.ok = ~seg.short]

(* One program header. *)
loadsegment(m, seg) ==
    LET end == (seg.vaddr + seg.memsz) % UINT
        a == allocuvm(m, m.sz, end)
    IN  IF ~m.ok THEN m
        ELSE IF seg.memsz < seg.filesz \/ end < seg.vaddr THEN [m EXCEPT !.ok = FALSE]
        ELSE IF ~a.ok THEN a
        ELSE IF seg.vaddr % PGSIZE # 0 THEN [a EXCEPT !.ok = FALSE]
        ELSE loaduvm(a, seg)

(* Two pages above the program: clearpteu makes the lower one a guard. *)
pushstack(m) ==
    LET base == PgUp(m.sz) * PGSIZE
        a == allocuvm(m, base, base + 2 * PGSIZE)
    IN  IF ~m.ok \/ ~a.ok THEN [a EXCEPT !.ok = FALSE]
        ELSE IF a.dir.pte[PgUp(m.sz)].pa = 0 THEN [a EXCEPT !.panic = "clearpteu"]
        ELSE [a EXCEPT !.dir.pte[PgUp(m.sz)].u = FALSE]

(* copyout of n units that end at the top; uva2ka refuses a page that is   *)
(* absent or not the user's.                                               *)
copyout(m, n) ==
    [m EXCEPT !.ok = @ /\ n <= m.sz
                       /\ \A v \in ((m.sz - n) \div PGSIZE) .. PgUp(m.sz) - 1 :
                            m.dir.pte[v].pa # 0 /\ m.dir.pte[v].u]

(* exec up to its commit. *)
buildimage(f, img, args) ==
    LET k == setupkvm(f)
        l == FoldLeft(loadsegment, k, img.segs)
    IN  IF ~k.ok THEN k ELSE IF ~l.ok THEN l
        ELSE LET s == pushstack(l) IN IF s.ok THEN copyout(s, args) ELSE s

----------------------------------------------------------------------------
(* Pages in shmtable, and why freeing the pages F breaks the kernel. *)
SharedPages == {shmtable[k].pa : k \in DOMAIN shmtable} \ {0}
Freeing(F) ==
    IF F \cap SharedPages # {} THEN "shared page freed"
    ELSE IF F \cap free # {} THEN "kfree of a free page" ELSE broken

shminit == [k \in 0 .. SHM_MAXNUM - 1 |-> [name |-> 0, pa |-> 0, ref |-> 0]]

(* userinit: setupkvm and inituvm, after kinit2 has freed every page. *)
Init ==
    LET k == Kalloc(Mem(Frames, NoDir))
        m == allocuvm(setupkvm(k.free), 0, PGSIZE)
    IN  /\ m.ok /\ m.panic = "no"
        /\ free = m.free
        /\ state = [p \in Slots |-> IF p = 0 THEN "LIVE" ELSE "UNUSED"]
        /\ parent = [p \in Slots |-> 0]
        /\ kstack = [p \in Slots |-> IF p = 0 THEN k.mem ELSE 0]
        /\ sz = [p \in Slots |-> IF p = 0 THEN PGSIZE ELSE 0]
        /\ pgdir = [p \in Slots |-> IF p = 0 THEN m.dir ELSE NoDir]
        /\ shmpgs = [p \in Slots |-> {}]
        /\ shmtable = shminit
        /\ loc = [p \in Slots |-> User]
        /\ lost = {}
        /\ broken = "no"

(* A process can make a system call while its first page is there; if it   *)
(* has freed its own program, trap() kills it when it returns.             *)
At(p, l) == broken = "no" /\ loc[p].pc = l
InUser(p) == At(p, "user") /\ state[p] = "LIVE"
Runs(p) == InUser(p) /\ pgdir[p].pte[0].u

(* growproc(n), n > 0.  When memory runs out Undo follows. *)
Grow(p, n) ==
    LET m == allocuvm(Mem(free, pgdir[p]), sz[p], sz[p] + n) IN
    /\ Runs(p) /\ n > 0 /\ sz[p] + n < KERNBASE
    /\ free' = m.free
    /\ pgdir' = [pgdir EXCEPT ![p] = m.dir]
    /\ sz' = [sz EXCEPT ![p] = IF m.ok THEN m.sz ELSE @]
    /\ loc' = [loc EXCEPT ![p] = IF m.ok THEN User
                                 ELSE [User EXCEPT !.pc = "undo", !.sz = sz[p] + n, !.mem = m.mem]]
    /\ broken' = m.panic
    /\ UNCHANGED <<state, parent, kstack, shmpgs, shmtable, lost>>

(* allocuvm out of memory: deallocuvm, and kfree(mem) if the page table    *)
(* was missing (mutant: it is forgotten).                                  *)
SpareForgotten(p) == {}
Spare(p) == {loc[p].mem} \ {0}

Undo(p) ==
    LET m == deallocuvm(Mem(free, pgdir[p]), loc[p].sz, sz[p]) IN
    /\ At(p, "undo")
    /\ free' = m.free \cup Spare(p)
    /\ pgdir' = [pgdir EXCEPT ![p] = m.dir]
    /\ loc' = [loc EXCEPT ![p] = User]
    /\ UNCHANGED <<state, parent, kstack, sz, shmpgs, shmtable, lost, broken>>

(* The size after deallocuvm, whose result 0 counts as failure. *)
ShrunkSize(p, n) == IF sz[p] + n = 0 THEN sz[p] ELSE sz[p] + n

(* growproc(n), n < 0; below zero the sum wraps and nothing happens. *)
Shrink(p, n) ==
    LET m == deallocuvm(Mem(free, pgdir[p]), sz[p], sz[p] + n) IN
    /\ Runs(p) /\ n < 0 /\ sz[p] + n >= 0
    /\ free' = m.free
    /\ pgdir' = [pgdir EXCEPT ![p] = m.dir]
    /\ sz' = [sz EXCEPT ![p] = ShrunkSize(p, n)]
    /\ broken' = Freeing(Deallocated(pgdir[p], sz[p], sz[p] + n))
    /\ UNCHANGED <<state, parent, kstack, shmpgs, shmtable, loc, lost>>

----------------------------------------------------------------------------
(* fork copies through the child's pointers to shared pages: they are null *)
(* or, in a slot used before, still those of the process that had it.      *)
ForkWrites(p, np) == IF shmpgs[p] \subseteq shmpgs[np] THEN "no" ELSE "null shmpgs"

(* fork: allocproc takes the first free slot and a kernel stack, copyuvm   *)
(* the memory.  When it fails UnFork follows.                              *)
Fork(p) ==
    /\ Runs(p) /\ \E np \in Slots : state[np] = "UNUSED"
    /\ free # {}
    /\ LET np == Lowest({q \in Slots : state[q] = "UNUSED"})
           ks == Kalloc(Mem(free, NoDir))
           m  == copyuvm(ks.free, pgdir[p], sz[p])
       IN  /\ free' = m.free
           /\ kstack' = [kstack EXCEPT ![np] = ks.mem]
           /\ lost' = lost \cup ({m.mem} \ {0})
           /\ broken' = IF m.panic # "no" \/ ~m.ok THEN m.panic ELSE ForkWrites(p, np)
           /\ state' = [state EXCEPT ![np] = IF m.ok THEN "LIVE" ELSE "EMBRYO"]
           /\ pgdir' = [pgdir EXCEPT ![np] = IF m.ok THEN m.dir ELSE NoDir]
           /\ sz' = [sz EXCEPT ![np] = IF m.ok THEN sz[p] ELSE @]
           /\ parent' = [parent EXCEPT ![np] = IF m.ok THEN p ELSE @]
           /\ loc' = IF m.ok THEN loc
                     ELSE [loc EXCEPT ![p] = [User EXCEPT !.pc = "unfork", !.dir = m.dir,
                                                          !.child = np]]
    /\ UNCHANGED <<shmpgs, shmtable>>

UnFork(p) ==
    LET np == loc[p].child IN
    /\ At(p, "unfork")
    /\ free' = free \cup FramesOf(loc[p].dir) \cup {kstack[np]}
    /\ kstack' = [kstack EXCEPT ![np] = 0]
    /\ state' = [state EXCEPT ![np] = "UNUSED"]
    /\ loc' = [loc EXCEPT ![p] = User]
    /\ UNCHANGED <<parent, sz, pgdir, shmpgs, shmtable, lost, broken>>

----------------------------------------------------------------------------
(* exec forgets the shared pages before it knows whether it can succeed. *)
Exec(p, img, args) ==
    /\ Runs(p)
    /\ shmpgs' = [shmpgs EXCEPT ![p] = {}]
    /\ IF img.found /\ img.elf
       THEN LET m == buildimage(free, img, args) IN
            /\ free' = m.free
            /\ loc' = [loc EXCEPT ![p] =
                        [User EXCEPT !.pc = IF m.ok THEN "commit" ELSE "bad",
                                     !.dir = m.dir, !.sz = m.sz, !.mem = m.mem]]
            /\ broken' = m.panic
       ELSE UNCHANGED <<free, loc, broken>>
    /\ UNCHANGED <<state, parent, kstack, sz, pgdir, shmtable, lost>>

(* The new image replaces the old one, which is freed. *)
ExecCommit(p) ==
    /\ At(p, "commit")
    /\ pgdir' = [pgdir EXCEPT ![p] = loc[p].dir]
    /\ sz' = [sz EXCEPT ![p] = loc[p].sz]
    /\ free' = free \cup FramesOf(pgdir[p])
    /\ broken' = Freeing(FramesOf(pgdir[p]))
    /\ loc' = [loc EXCEPT ![p] = User]
    /\ UNCHANGED <<state, parent, kstack, shmpgs, shmtable, lost>>

(* goto bad: freevm(pgdir), after allocuvm has given back its last page. *)
ExecBad(p) ==
    /\ At(p, "bad")
    /\ free' = free \cup FramesOf(loc[p].dir) \cup Spare(p)
    /\ loc' = [loc EXCEPT ![p] = User]
    /\ UNCHANGED <<state, parent, kstack, sz, pgdir, shmpgs, shmtable, lost, broken>>

----------------------------------------------------------------------------
Dec(n) == (n + UINT - 1) % UINT         \* uint ref_count--

(* exit, by a system call or by a trap.  The address space stays: the      *)
(* process still runs on it.                                               *)
Exit(p) ==
    /\ InUser(p) /\ p # 0
    /\ state' = [state EXCEPT ![p] = "ZOMBIE"]
    /\ parent' = [q \in Slots |-> IF parent[q] = p THEN 0 ELSE parent[q]]
    /\ shmtable' = [k \in DOMAIN shmtable |->
                      IF k \in shmpgs[p] THEN [shmtable[k] EXCEPT !.ref = Dec(@)] ELSE shmtable[k]]
    /\ UNCHANGED <<free, kstack, sz, pgdir, shmpgs, loc, lost, broken>>

(* wait reaps the first ZOMBIE child of the table. *)
Wait(p) ==
    LET Z == {c \in Slots \ {0} : state[c] = "ZOMBIE" /\ parent[c] = p}
        c == Lowest(Z)
    IN  /\ InUser(p) /\ Z # {}
        /\ free' = free \cup FramesOf(pgdir[c]) \cup {kstack[c]}
        /\ broken' = Freeing(FramesOf(pgdir[c]) \cup {kstack[c]})
        /\ kstack' = [kstack EXCEPT ![c] = 0]
        /\ pgdir' = [pgdir EXCEPT ![c] = NoDir]
        /\ state' = [state EXCEPT ![c] = "UNUSED"]
        /\ parent' = [parent EXCEPT ![c] = 0]
        /\ UNCHANGED <<sz, shmpgs, shmtable, loc, lost>>

----------------------------------------------------------------------------
Entries(n) == {k \in DOMAIN shmtable : shmtable[k].name = n}

(* Both cases of shmget map the page above the process and ignore the      *)
(* result of mappages: without a page table the address space has a hole,  *)
(* and at KERNBASE the kernel's own mapping is in the way.                 *)
MapShared(p, f, pa) ==
    LET v == PgUp(sz[p])
        m == mappages(Mem(f, pgdir[p]), v, pa, TRUE)
    IN  IF v \notin Pages THEN [Mem(f, pgdir[p]) EXCEPT !.panic = "shared page at KERNBASE"]
        ELSE IF ~m.ok THEN [m EXCEPT !.panic = "hole"] ELSE m

Attach(p, m) ==
    /\ free' = m.free
    /\ pgdir' = [pgdir EXCEPT ![p] = m.dir]
    /\ sz' = [sz EXCEPT ![p] = @ + PGSIZE]

(* shmget of a name in the table. *)
ShmGetOld(p, n) ==
    /\ Runs(p) /\ Entries(n) # {}
    /\ LET k == Lowest(Entries(n))
           m == MapShared(p, free, shmtable[k].pa)
       IN  /\ Attach(p, m)
           /\ broken' = m.panic
           /\ shmtable' = [shmtable EXCEPT ![k].ref = @ + 1]
           /\ shmpgs' = [shmpgs EXCEPT ![p] = @ \cup {k}]
    /\ UNCHANGED <<state, parent, kstack, loc, lost>>

(* shmget of a new name.  pg_num has run past the end of shmpgs, so the    *)
(* pointer lands in word k of the next slot (its size, page table or       *)
(* stack), or behind the table in the run queue; a slot not in use sets    *)
(* these three words again.  kalloc's result is not looked at.             *)
ShmGetNew(p, n) ==
    /\ Runs(p) /\ Entries(n) = {} /\ Entries(0) # {}
    /\ LET k == Lowest(Entries(0))
           f == Kalloc(Mem(free, NoDir))
           m == MapShared(p, f.free, f.mem)
       IN  /\ Attach(p, m)
           /\ broken' = IF ~f.ok THEN "shared page not allocated"
                        ELSE IF p + 1 \notin Slots \/ k > 2 \/ state[(p + 1) % NPROC] # "UNUSED"
                             THEN "next slot overwritten" ELSE m.panic
           /\ shmtable' = [shmtable EXCEPT ![k] = [name |-> n, pa |-> f.mem, ref |-> 1]]
    /\ UNCHANGED <<state, parent, kstack, shmpgs, loc, lost>>

(* shmrem: whoever calls it gives up a reference, and the last one frees   *)
(* the page, which stays mapped.                                           *)
ShmRem(p, n) ==
    /\ Runs(p) /\ Entries(n) # {}
    /\ LET k == Lowest(Entries(n))
           last == Dec(shmtable[k].ref) = 0
       IN  /\ shmtable' = [shmtable EXCEPT ![k] =
                             IF last THEN [name |-> 0, pa |-> 0, ref |-> 0]
                             ELSE [@ EXCEPT !.ref = Dec(@)]]
           /\ shmpgs' = IF last THEN [shmpgs EXCEPT ![p] = @ \ {k}] ELSE shmpgs
           /\ free' = IF last THEN free \cup {shmtable[k].pa} ELSE free
           /\ broken' = IF last THEN "shared page freed" ELSE broken
    /\ UNCHANGED <<state, parent, kstack, sz, pgdir, loc, lost>>

----------------------------------------------------------------------------
Next == \E p \in Slots :
    \/ \E n \in SbrkArgs : Grow(p, n) \/ Shrink(p, n)
    \/ Undo(p) \/ Fork(p) \/ UnFork(p)
    \/ \E img \in Images, args \in ArgSizes : Exec(p, img, args)
    \/ ExecCommit(p) \/ ExecBad(p) \/ Exit(p) \/ Wait(p)
    \/ \E n \in Names : ShmGetOld(p, n) \/ ShmGetNew(p, n) \/ ShmRem(p, n)

Spec == Init /\ [][Next]_vars

----------------------------------------------------------------------------
(* What can break the kernel because of shared pages. *)
ShmDefects == {"next slot overwritten", "shared page not allocated", "hole", "null shmpgs",
               "shared page at KERNBASE", "shared page freed"}

(* Only programs that use shared pages break the kernel: without them no   *)
(* order of sbrk, fork, exec, exit and wait, out of memory or not, reaches *)
(* the panics of mappages ("remap"), copyuvm, loaduvm and clearpteu or     *)
(* frees a page twice.                                                     *)
NoPanic == broken \in {"no"} \cup ShmDefects

(* The places that hold the page f. *)
Places(f) ==
    {<<"free", 0>> : x \in free \cap {f}} \cup {<<"lost", 0>> : x \in lost \cap {f}}
    \cup {<<"shared", k>> : k \in {k \in DOMAIN shmtable : shmtable[k].pa = f}}
    \cup {<<"stack", p>> : p \in {p \in Slots : kstack[p] = f}}
    \cup {<<"spare", p>> : p \in {p \in Slots : loc[p].mem = f}}
    \cup UNION {{<<"dir", p>> : x \in {d.frame} \cap {f}}
                \cup {<<"table", p, i>> : i \in {i \in DOMAIN d.tab : d.tab[i] = f}}
                \cup {<<"page", p, v>> : v \in {v \in Pages : d.pte[v].pa = f
                                                              /\ f \notin SharedPages}}
                : <<p, d>> \in {<<q, pgdir[q]>> : q \in Slots}
                               \cup {<<q + NPROC, loc[q].dir>> : q \in Slots}}

(* Every page is in exactly one place: on the free list or in one use.     *)
(* Whatever fails half way gives back what it took, once, except the page  *)
(* copyuvm has just allocated when there is none left for the page table   *)
(* (vm.c:330 goes to bad without freeing it).                              *)
PagesAccounted == broken = "no" => \A f \in Frames : Cardinality(Places(f)) = 1

(* In user mode exactly the pages below sz are mapped: the size and the    *)
(* page table, which fork, sbrk and shmget read separately, agree.  The    *)
(* exception is a process that has just freed all its memory.              *)
SizeMatchesPages ==
    broken = "no" => \A p \in Slots : Runs(p) =>
        \A v \in Pages : pgdir[p].pte[v].pa # 0 <=> v < PgUp(sz[p])
=============================================================================
