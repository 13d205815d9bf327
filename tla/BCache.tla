------------------------------- MODULE BCache -------------------------------
(***************************************************************************)
(* The buffer cache (bio.c), its sleep locks (sleeplock.c) and the disk    *)
(* driver's queue (ide.c).                                                 *)
(*                                                                         *)
(* A critical section of bcache.lock, of a sleep lock's spin lock or of    *)
(* idelock is one step.  A process holds one buffer at a time; it changes  *)
(* its data together with the log_write or bwrite that every change is     *)
(* followed by.  kill() may wake any sleeper.  The disk makes no errors.   *)
(***************************************************************************)
EXTENDS Integers, Sequences, FiniteSets

CONSTANTS Procs,
          NBUF,
          Blocks,
          Values,       \* contents of a block
          MaxPinned,    \* blocks the log keeps B_DIRTY at once
          Nobody,
          NoBlock       \* what binit leaves: device 0 is not used

ASSUME BCacheAssumption ==
    /\ NBUF \in Nat /\ MaxPinned \in Nat
    /\ IsFiniteSet(Procs)
    /\ NoBlock \notin Blocks /\ Nobody \notin Procs

Bufs == 1 .. NBUF

VARIABLES blockno, valid, dirty, refcnt, data,   \* of each buffer
          locked,       \* b->lock.locked
          lru,          \* the buffers, the most recently used first
          idequeue,
          sent,         \* the data idestart sent for the head of idequeue
          disk,
          pc, mine, want     \* where a process stands, its b, its blockno

bufs == <<blockno, valid, dirty, refcnt, data, locked, lru>>
vars == <<bufs, idequeue, sent, disk, pc, mine, want>>

Labels == {"idle",
           "lock",      \* in acquiresleep
           "lsleep",    \* asleep in acquiresleep
           "locked",    \* bread, about to look at B_VALID
           "rw",        \* in iderw, not queued yet
           "io",        \* asleep in iderw
           "woken",     \* iderw, about to look at the flags again
           "held",      \* bread or bwrite has returned
           "release",   \* brelse, lock released, refcnt not yet decremented
           "panic"}     \* bget has panicked, and holds bcache.lock for good

TypeOK ==
    /\ blockno \in [Bufs -> Blocks \cup {NoBlock}]
    /\ valid \in [Bufs -> BOOLEAN] /\ dirty \in [Bufs -> BOOLEAN]
    /\ refcnt \in [Bufs -> Nat]
    /\ data \in [Bufs -> Values]
    /\ locked \in [Bufs -> BOOLEAN]
    /\ lru \in Seq(Bufs)
    /\ idequeue \in Seq(Bufs)
    /\ sent \in Values
    /\ disk \in [Blocks -> Values]
    /\ pc \in [Procs -> Labels]
    /\ mine \in [Procs -> Bufs \cup {0}]
    /\ want \in [Procs -> Blocks \cup {NoBlock}]

(* binit puts each buffer in front of the ones before it. *)
Init ==
    /\ blockno = [b \in Bufs |-> NoBlock]
    /\ valid = [b \in Bufs |-> FALSE] /\ dirty = [b \in Bufs |-> FALSE]
    /\ refcnt = [b \in Bufs |-> 0]
    /\ disk \in [Blocks -> Values]
    /\ sent \in Values
    /\ data = [b \in Bufs |-> sent]
    /\ locked = [b \in Bufs |-> FALSE]
    /\ lru = [i \in Bufs |-> NBUF + 1 - i]
    /\ idequeue = <<>>
    /\ pc = [p \in Procs |-> "idle"]
    /\ mine = [p \in Procs |-> 0]
    /\ want = [p \in Procs |-> NoBlock]

Goto(p, l) == pc' = [pc EXCEPT ![p] = l]

----------------------------------------------------------------------------
(* bget, under bcache.lock *)

(* bcache.lock can be acquired. *)
Unlocked == \A p \in Procs : pc[p] # "panic"

(* Where the block is. *)
Cached(k) == {b \in Bufs : blockno[b] = k}

(* What may be recycled (mutants: also what is referenced, what is dirty). *)
FreeReferenced(b) == ~dirty[b]
FreeDirty(b) == refcnt[b] = 0
Free(b) == refcnt[b] = 0 /\ ~dirty[b]

(* The least recently used of the free buffers. *)
Victim(b) ==
    \E i \in 1 .. Len(lru) :
        /\ lru[i] = b /\ Free(b)
        /\ \A j \in i + 1 .. Len(lru) : ~Free(lru[j])

BgetHit(p, k, b) ==
    /\ Unlocked /\ pc[p] = "idle" /\ b \in Cached(k)
    /\ refcnt' = [refcnt EXCEPT ![b] = @ + 1]
    /\ mine' = [mine EXCEPT ![p] = b]
    /\ want' = [want EXCEPT ![p] = k]
    /\ Goto(p, "lock")
    /\ UNCHANGED <<blockno, valid, dirty, data, locked, lru, idequeue, sent, disk>>

(* "Not cached; recycle an unused buffer." *)
BgetRecycle(p, k, b) ==
    /\ Unlocked /\ pc[p] = "idle" /\ Cached(k) = {} /\ Victim(b)
    /\ blockno' = [blockno EXCEPT ![b] = k]
    /\ valid' = [valid EXCEPT ![b] = FALSE]
    /\ dirty' = [dirty EXCEPT ![b] = FALSE]
    /\ refcnt' = [refcnt EXCEPT ![b] = 1]
    /\ mine' = [mine EXCEPT ![p] = b]
    /\ want' = [want EXCEPT ![p] = k]
    /\ Goto(p, "lock")
    /\ UNCHANGED <<data, locked, lru, idequeue, sent, disk>>

(* "bget: no buffers" *)
BgetPanic(p, k) ==
    /\ Unlocked /\ pc[p] = "idle" /\ Cached(k) = {} /\ \A b \in Bufs : ~Victim(b)
    /\ Goto(p, "panic")
    /\ UNCHANGED <<bufs, idequeue, sent, disk, mine, want>>

----------------------------------------------------------------------------
(* acquiresleep, and bread's look at B_VALID *)

AcquireSleep(p) ==
    /\ pc[p] = "lock"
    /\ IF locked[mine[p]]
       THEN Goto(p, "lsleep") /\ UNCHANGED locked
       ELSE Goto(p, "locked") /\ locked' = [locked EXCEPT ![mine[p]] = TRUE]
    /\ UNCHANGED <<blockno, valid, dirty, refcnt, data, lru, idequeue, sent, disk,
                   mine, want>>

Bread(p) ==
    /\ pc[p] = "locked"
    /\ Goto(p, IF valid[mine[p]] THEN "held" ELSE "rw")
    /\ UNCHANGED <<bufs, idequeue, sent, disk, mine, want>>

----------------------------------------------------------------------------
(* What the holder does *)

(* The buffers log_write keeps in the cache: dirty, and not being written. *)
Pinned ==
    {b \in Bufs : dirty[b] /\ \A p \in Procs : mine[p] = b => pc[p] \notin {"rw", "io", "woken"}}

LogWrite(p, v) ==
    /\ pc[p] = "held"
    /\ Cardinality(Pinned \cup {mine[p]}) <= MaxPinned
    /\ data' = [data EXCEPT ![mine[p]] = v]
    /\ dirty' = [dirty EXCEPT ![mine[p]] = TRUE]
    /\ UNCHANGED <<blockno, valid, refcnt, locked, lru, idequeue, sent, disk, pc,
                   mine, want>>

Bwrite(p, v) ==
    /\ pc[p] = "held"
    /\ data' = [data EXCEPT ![mine[p]] = v]
    /\ dirty' = [dirty EXCEPT ![mine[p]] = TRUE]
    /\ Goto(p, "rw")
    /\ UNCHANGED <<blockno, valid, refcnt, locked, lru, idequeue, sent, disk, mine,
                   want>>

(* wakeup of the sleepers on buffer b or on its lock (mutant: nobody). *)
WakeNone(l, b, to) == pc
Wake(l, b, to) == [q \in Procs |-> IF pc[q] = l /\ mine[q] = b THEN to ELSE pc[q]]

(* brelse: releasesleep, then the count under bcache.lock. *)
BrelseUnlock(p) ==
    /\ pc[p] = "held"
    /\ locked' = [locked EXCEPT ![mine[p]] = FALSE]
    /\ pc' = [Wake("lsleep", mine[p], "lock") EXCEPT ![p] = "release"]
    /\ UNCHANGED <<blockno, valid, dirty, refcnt, data, lru, idequeue, sent, disk,
                   mine, want>>

(* Unlinked and put in front: what was before it moves one back. *)
Front(b) ==
    LET at == CHOOSE i \in 1 .. Len(lru) : lru[i] = b
    IN  [j \in 1 .. Len(lru) |-> IF j = 1 THEN b ELSE IF j <= at THEN lru[j - 1] ELSE lru[j]]

(* The reference brelse drops. *)
Dropped(b) == [refcnt EXCEPT ![b] = @ - 1]

BrelseDrop(p) ==
    /\ Unlocked /\ pc[p] = "release"
    /\ refcnt' = Dropped(mine[p])
    /\ lru' = IF refcnt'[mine[p]] = 0 THEN Front(mine[p]) ELSE lru
    /\ mine' = [mine EXCEPT ![p] = 0]
    /\ want' = [want EXCEPT ![p] = NoBlock]
    /\ Goto(p, "idle")
    /\ UNCHANGED <<blockno, valid, dirty, data, locked, idequeue, sent, disk>>

----------------------------------------------------------------------------
(* The disk driver *)

(* idestart sends the data of a write. *)
Started(q, d) == IF q # <<>> /\ dirty[Head(q)] THEN d[Head(q)] ELSE sent

(* iderw queues the buffer, starts the disk if it was idle, and sleeps. *)
Iderw(p) ==
    /\ pc[p] = "rw"
    /\ idequeue' = Append(idequeue, mine[p])
    /\ sent' = IF idequeue = <<>> THEN Started(idequeue', data) ELSE sent
    /\ Goto(p, "io")
    /\ UNCHANGED <<bufs, disk, mine, want>>

(* iderw's loop. *)
Unfinished(b) == ~valid[b] \/ dirty[b]

IderwLoop(p) ==
    /\ pc[p] = "woken"
    /\ Goto(p, IF Unfinished(mine[p]) THEN "io" ELSE "held")
    /\ UNCHANGED <<bufs, idequeue, sent, disk, mine, want>>

(* ideintr starts the next request (mutant: the one that was done again). *)
NextRequestStale(q) == Started(idequeue, data)
NextRequest(q) == Started(q, data)

(* The interrupt that ends the request at the head of the queue. *)
Ideintr ==
    /\ idequeue # <<>>
    /\ LET b == Head(idequeue) IN
        /\ IF dirty[b]
           THEN disk' = [disk EXCEPT ![blockno[b]] = sent] /\ UNCHANGED data
           ELSE data' = [data EXCEPT ![b] = disk[blockno[b]]] /\ UNCHANGED disk
        /\ valid' = [valid EXCEPT ![b] = TRUE]
        /\ dirty' = [dirty EXCEPT ![b] = FALSE]
        /\ pc' = Wake("io", b, "woken")
    /\ idequeue' = Tail(idequeue)
    /\ sent' = NextRequest(Tail(idequeue))
    /\ UNCHANGED <<blockno, refcnt, locked, lru, mine, want>>

(* kill() makes a sleeper RUNNABLE; both loops look again. *)
KillWakes(p) ==
    /\ pc[p] \in {"lsleep", "io"}
    /\ Goto(p, IF pc[p] = "io" THEN "woken" ELSE "lock")
    /\ UNCHANGED <<bufs, idequeue, sent, disk, mine, want>>

(* After a panic the others go no further than to bcache.lock. *)
Halted == ~Unlocked /\ UNCHANGED vars

----------------------------------------------------------------------------
Next ==
    \/ \E p \in Procs :
        \/ \E k \in Blocks, b \in Bufs : BgetHit(p, k, b) \/ BgetRecycle(p, k, b)
        \/ \E k \in Blocks : BgetPanic(p, k)
        \/ AcquireSleep(p) \/ Bread(p)
        \/ \E v \in Values : LogWrite(p, v) \/ Bwrite(p, v)
        \/ BrelseUnlock(p) \/ BrelseDrop(p)
        \/ Iderw(p) \/ IderwLoop(p) \/ KillWakes(p)
    \/ Ideintr \/ Halted

Spec == Init /\ [][Next]_vars

----------------------------------------------------------------------------
Using(p) == pc[p] \notin {"idle", "panic"}
Has(p, b) == mine[p] = b /\ Using(p)
Holds(p) == pc[p] \in {"locked", "rw", "io", "woken", "held"}

(* A block is in one buffer at most, so that two processes that look for   *)
(* it get the same copy (bget), and the buffer a process waits for or      *)
(* works on is not recycled under it, because every such process is        *)
(* counted in refcnt.                                                      *)
OneBufferKept ==
    /\ \A b, c \in Bufs : blockno[b] = blockno[c] /\ blockno[b] # NoBlock => b = c
    /\ \A b \in Bufs : refcnt[b] = Cardinality({p \in Procs : Has(p, b)})
    /\ \A p \in Procs : Using(p) => blockno[mine[p]] = want[p]

(* A process asleep for a buffer's lock sleeps while the lock is held, and *)
(* one asleep in iderw while its request is queued, once: no wakeup is     *)
(* missed.  And bget panics "no buffers" (bio.c:92) only when each buffer  *)
(* is in another process's hands or pinned by the log: a buffer that       *)
(* nobody has any more is found again.                                     *)
NobodyStuck ==
    /\ \A p \in Procs :
        /\ pc[p] = "lsleep" => locked[mine[p]]
        /\ pc[p] = "io" => Cardinality({i \in 1 .. Len(idequeue) : idequeue[i] = mine[p]}) = 1
    /\ ~Unlocked => \A b \in Bufs : b \in Pinned \/ \E p \in Procs : Has(p, b)

(* "If not found, allocate a buffer.  In either case, return locked        *)
(* buffer" (bio.c:58-60): whoever looks for a block gets a buffer.  It     *)
(* fails where the log may pin as many blocks as there are buffers, as     *)
(* param.h has it (LOGSIZE and NBUF are both MAXOPBLOCKS * 3).             *)
BuffersSuffice == \A p \in Procs : pc[p] # "panic"

(* The contents of a block as the cache presents it. *)
Contents ==
    [k \in Blocks |->
        IF \E b \in Cached(k) : valid[b]
        THEN data[CHOOSE b \in Cached(k) : valid[b]] ELSE disk[k]]
Holder ==
    [k \in Blocks |->
        IF \E p \in Procs : Holds(p) /\ want[p] = k
        THEN CHOOSE p \in Procs : Holds(p) /\ want[p] = k ELSE Nobody]

BS == INSTANCE BlockStore WITH store <- Contents, holder <- Holder

(* The cache is a store of blocks with one holder each: recycling, reading *)
(* and writing buffers never changes what a process reads, and nobody      *)
(* changes a block it does not hold (bread, bwrite, brelse, ideintr).      *)
Coherent == BS!Spec
=============================================================================
