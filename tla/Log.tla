-------------------------------- MODULE Log --------------------------------
(***************************************************************************)
(* The file system's redo log (log.c) over a disk that writes one block at *)
(* a time, with crashes at any moment, also during recovery.               *)
(*                                                                         *)
(* A critical section of log.lock is one step, and so is one disk write;   *)
(* commit and recovery are a step per block they write.  The buffer cache  *)
(* is what the system calls see of a block; module BCache is about how     *)
(* buffers are found and recycled.  mkfs makes NLOG = LOGSIZE, with the    *)
(* header among them, so one block fewer fits on disk than begin_op and    *)
(* log.lh.block count on: log_write may then panic, and write_log may      *)
(* write past the log, onto the inodes.  Either stops the model: what is   *)
(* on disk after an overrun is not followed further.                       *)
(***************************************************************************)
EXTENDS Integers, Sequences, FiniteSets

CONSTANTS Ops,          \* processes inside FS system calls
          Blocks,       \* home blocks of the file system
          Values,       \* contents of a block
          MAXOPBLOCKS,
          LOGSIZE,
          NLOG,         \* sb.nlog: blocks of the on-disk log, header included
          OpBlocks      \* distinct blocks a system call really writes

ASSUME LogAssumption ==
    /\ MAXOPBLOCKS \in Nat \ {0} /\ LOGSIZE \in Nat /\ NLOG \in Nat
    /\ OpBlocks \in Nat \ {0}
    /\ IsFiniteSet(Ops)

VARIABLES disk,         \* home blocks on disk
          dlog,         \* log blocks on disk
          dhead,        \* the header on disk: block[0 .. n-1]
          cache,        \* the block as the buffer cache holds it
          dirty,        \* B_DIRTY: blocks pinned in the cache
          lh,           \* log.lh
          outstanding,
          committing,
          pc,           \* where a process stands
          wrote,        \* the blocks a process's system call has written
          phase,        \* where commit or recovery stands
          tail          \* blocks already copied by its loop

vars == <<disk, dlog, dhead, cache, dirty, lh, outstanding, committing, pc,
          wrote, phase, tail>>
mem == <<outstanding, committing, pc, wrote>>

Phases == {"none", "write_log", "install", "recover", "panic", "overrun"}

TypeOK ==
    /\ disk \in [Blocks -> Values]
    /\ dlog \in [1 .. LOGSIZE -> Values]
    /\ dhead \in Seq(Blocks) /\ Len(dhead) <= LOGSIZE
    /\ cache \in [Blocks -> Values]
    /\ dirty \subseteq Blocks
    /\ lh \in Seq(Blocks) /\ Len(lh) <= LOGSIZE
    /\ outstanding \in Nat
    /\ committing \in BOOLEAN
    /\ pc \in [Ops -> {"idle", "begin", "asleep", "op", "write", "end"}]
    /\ wrote \in [Ops -> SUBSET Blocks]
    /\ phase \in Phases
    /\ tail \in 0 .. LOGSIZE

(* mkfs leaves a clean log. *)
Init ==
    /\ disk \in [Blocks -> Values]
    /\ dlog \in [1 .. LOGSIZE -> Values]
    /\ dhead = <<>>
    /\ cache = disk
    /\ dirty = {}
    /\ lh = <<>>
    /\ outstanding = 0
    /\ committing = FALSE
    /\ pc = [o \in Ops |-> "idle"]
    /\ wrote = [o \in Ops |-> {}]
    /\ phase = "recover"
    /\ tail = 0

Up == phase # "recover"
Stopped == phase \in {"panic", "overrun"}
Exec(o, l) == pc[o] = l /\ ~Stopped

(* wakeup(&log) (mutant: nobody is woken). *)
WokenNone == pc
Woken == [o \in Ops |-> IF pc[o] = "asleep" THEN "begin" ELSE pc[o]]

----------------------------------------------------------------------------
(* begin_op, log_write, end_op *)

Call(o) ==
    /\ Up /\ Exec(o, "idle")
    /\ pc' = [pc EXCEPT ![o] = "begin"]
    /\ UNCHANGED <<disk, dlog, dhead, cache, dirty, lh, outstanding, committing,
                   wrote, phase, tail>>

(* begin_op's test for log space (mutant: it forgets the caller). *)
MightExhaustOthersOnly == Len(lh) + outstanding * MAXOPBLOCKS > LOGSIZE
MightExhaust == Len(lh) + (outstanding + 1) * MAXOPBLOCKS > LOGSIZE
MustWait == committing \/ MightExhaust

BeginSleep(o) ==
    /\ Exec(o, "begin") /\ MustWait
    /\ pc' = [pc EXCEPT ![o] = "asleep"]
    /\ UNCHANGED <<disk, dlog, dhead, cache, dirty, lh, outstanding, committing,
                   wrote, phase, tail>>

BeginOp(o) ==
    /\ Exec(o, "begin") /\ ~MustWait
    /\ outstanding' = outstanding + 1
    /\ pc' = [pc EXCEPT ![o] = "op"]
    /\ wrote' = [wrote EXCEPT ![o] = {}]
    /\ UNCHANGED <<disk, dlog, dhead, cache, dirty, lh, committing, phase, tail>>

Members(s) == {s[i] : i \in 1 .. Len(s)}

(* log_write's record of a block, absorbed if it is there already, and its *)
(* pin of the buffer (mutant: forgotten).                                  *)
Logged(b) == IF b \in Members(lh) THEN lh ELSE Append(lh, b)
NotPinned(b) == dirty
Pinned(b) == dirty \cup {b}

(* log_write's checks come before acquire(&log.lock), and before it looks  *)
(* whether the block is there already.                                     *)
TooBig == Len(lh) >= LOGSIZE \/ Len(lh) >= NLOG - 1

(* panic("too big a transaction"): nothing goes on until a reboot. *)
LogPanic(o) ==
    /\ Exec(o, "op")
    /\ TooBig
    /\ phase' = "panic"
    /\ UNCHANGED <<disk, dlog, dhead, cache, dirty, lh, outstanding, committing,
                   pc, wrote, tail>>

LogCheck(o) ==
    /\ Exec(o, "op")
    /\ ~TooBig
    /\ pc' = [pc EXCEPT ![o] = "write"]
    /\ UNCHANGED <<disk, dlog, dhead, cache, dirty, lh, outstanding, committing,
                   wrote, phase, tail>>

(* A system call writes a block: bread, modify, log_write, brelse. *)
LogWrite(o, b, v) ==
    /\ Exec(o, "write")
    /\ Cardinality(wrote[o] \cup {b}) <= OpBlocks
    /\ cache' = [cache EXCEPT ![b] = v]
    /\ lh' = Logged(b)
    /\ dirty' = Pinned(b)
    /\ wrote' = [wrote EXCEPT ![o] = @ \cup {b}]
    /\ pc' = [pc EXCEPT ![o] = "op"]
    /\ UNCHANGED <<disk, dlog, dhead, outstanding, committing, phase, tail>>

(* end_op's count. *)
Ended == outstanding - 1

(* end_op: the last outstanding system call starts the commit (mutant:     *)
(* every one does).                                                        *)
StartsCommitAlways == TRUE
StartsCommit == Ended = 0

EndOp(o) ==
    /\ Exec(o, "op")
    /\ outstanding' = Ended
    /\ IF StartsCommit
       THEN /\ committing' = TRUE
            /\ pc' = [pc EXCEPT ![o] = "end"]
            /\ phase' = IF lh # <<>> THEN "write_log" ELSE "none"
       ELSE /\ pc' = [Woken EXCEPT ![o] = "idle"]
            /\ UNCHANGED <<committing, phase>>
    /\ tail' = 0
    /\ UNCHANGED <<disk, dlog, dhead, cache, dirty, lh, wrote>>

(* end_op after commit(). *)
EndCommit(o) ==
    /\ pc[o] = "end" /\ phase = "none"
    /\ committing' = FALSE
    /\ pc' = [Woken EXCEPT ![o] = "idle"]
    /\ UNCHANGED <<disk, dlog, dhead, cache, dirty, lh, outstanding, wrote,
                   phase, tail>>

----------------------------------------------------------------------------
(* commit and recovery *)

(* write_log: the next block from the cache to the log. *)
WriteLog ==
    /\ phase = "write_log" /\ tail < Len(lh) /\ tail + 1 < NLOG
    /\ dlog' = [dlog EXCEPT ![tail + 1] = cache[lh[tail + 1]]]
    /\ tail' = tail + 1
    /\ UNCHANGED <<disk, dhead, cache, dirty, lh, phase, mem>>

(* ... to log.start + tail + 1, whatever is there. *)
WritePast ==
    /\ phase = "write_log" /\ tail < Len(lh) /\ tail + 1 >= NLOG
    /\ phase' = "overrun"
    /\ UNCHANGED <<disk, dlog, dhead, cache, dirty, lh, tail, mem>>

(* commit's order (mutant: the header goes first). *)
HeadReadyEarly == phase = "write_log" /\ tail = 0
HeadReady == phase = "write_log" /\ tail = Len(lh)

(* write_head: the real commit. *)
CommitHead ==
    /\ HeadReady
    /\ dhead' = lh
    /\ phase' = "install"
    /\ tail' = 0
    /\ UNCHANGED <<disk, dlog, cache, dirty, lh, mem>>

(* install_trans: the next block from the log to its home, through the     *)
(* cache; the write clears B_DIRTY.                                        *)
Install ==
    /\ phase \in {"install", "recover"} /\ tail < Len(lh)
    /\ LET b == lh[tail + 1] IN
        /\ cache' = [cache EXCEPT ![b] = dlog[tail + 1]]
        /\ disk' = [disk EXCEPT ![b] = dlog[tail + 1]]
        /\ dirty' = dirty \ {b}
    /\ tail' = tail + 1
    /\ UNCHANGED <<dlog, dhead, lh, phase, mem>>

(* The log is cleared after the installation (mutant: before it ends). *)
InstalledEarly == phase \in {"install", "recover"}
Installed == phase \in {"install", "recover"} /\ tail = Len(lh)

(* lh.n = 0 and write_head: erase the transaction from the log. *)
ClearHead ==
    /\ Installed
    /\ lh' = <<>>
    /\ dhead' = <<>>
    /\ phase' = "none"
    /\ tail' = 0
    /\ UNCHANGED <<disk, dlog, cache, dirty, mem>>

(* The machine stops; initlog's read_head after the restart. *)
Reboot ==
    /\ phase # "overrun"
    /\ cache' = disk
    /\ dirty' = {}
    /\ lh' = dhead
    /\ outstanding' = 0
    /\ committing' = FALSE
    /\ pc' = [o \in Ops |-> "idle"]
    /\ wrote' = [o \in Ops |-> {}]
    /\ phase' = "recover"
    /\ tail' = 0
    /\ UNCHANGED <<disk, dlog, dhead>>

Halted == Stopped /\ UNCHANGED vars

Next ==
    \/ \E o \in Ops :
        \/ Call(o) \/ BeginSleep(o) \/ BeginOp(o) \/ EndOp(o) \/ EndCommit(o)
        \/ LogCheck(o) \/ LogPanic(o)
        \/ \E b \in Blocks, v \in Values : LogWrite(o, b, v)
    \/ WriteLog \/ WritePast \/ CommitHead \/ Install \/ ClearHead
    \/ Reboot \/ Halted

Spec == Init /\ [][Next]_vars

(* A process in a system call goes on, writes a finite number of blocks    *)
(* and comes to its end, and the disk completes its writes.                *)
Fairness ==
    /\ \A o \in Ops :
        /\ WF_vars(BeginSleep(o) \/ BeginOp(o) \/ EndCommit(o))
        /\ WF_vars(\E b \in Blocks, v \in Values : LogWrite(o, b, v))
        /\ SF_vars(EndOp(o))
    /\ WF_vars(WriteLog \/ WritePast \/ CommitHead \/ Install \/ ClearHead)

FairSpec == Spec /\ Fairness

----------------------------------------------------------------------------
(* The disk after recovery: the logged copy of a block the header names,   *)
(* or else the home block.                                                 *)
Recovered ==
    [b \in Blocks |->
        IF b \in Members(dhead) THEN dlog[CHOOSE i \in 1 .. Len(dhead) : dhead[i] = b]
                              ELSE disk[b]]

LA == INSTANCE LogAbs WITH current <- IF Up THEN cache ELSE Recovered,
                           durable <- Recovered,
                           active <- outstanding

(* FS system calls are atomic across crashes: what recovery finds is the   *)
(* state at a moment when no system call was in progress, and neither the  *)
(* copies of commit nor those of recovery, repeated or cut short by        *)
(* crashes, change it (write_log, write_head, install_trans,               *)
(* recover_from_log).                                                      *)
Atomic == LA!Spec

(* A block the cache may drop is the same on disk: log_write pins what is  *)
(* not installed yet ("prevent eviction", log.c:226).                      *)
CleanMatchesDisk == \A b \in Blocks \ dirty : cache[b] = disk[b]

(* Whoever sleeps in begin_op is woken, unless the kernel stops before:    *)
(* the end of a system call or of a commit wakes it (end_op).              *)
SleeperWoken == \A o \in Ops : pc[o] = "asleep" ~> (pc[o] # "asleep" \/ Stopped)

(* begin_op's reservation keeps its promise whatever the others write: a   *)
(* system call that has not written MAXOPBLOCKS blocks yet, whether before *)
(* log_write's check or past it and waiting for the lock, finds a place in *)
(* log.lh.block (log.c:36, 131, 216-225).                                  *)
ReservationKept ==
    \A o \in Ops : (pc[o] \in {"op", "write"} /\ Cardinality(wrote[o]) < MAXOPBLOCKS)
                     => Len(lh) < LOGSIZE

----------------------------------------------------------------------------
(* What the comments say, and fails for the log that mkfs makes.           *)

(* "this op might exhaust log space; wait for commit" (log.c:132): a       *)
(* system call that begin_op admitted and that has not written its         *)
(* MAXOPBLOCKS blocks finds room on disk for the next one, so log_write    *)
(* does not panic "too big a transaction".                                 *)
AdmittedFits ==
    \A o \in Ops : pc[o] = "op" /\ Cardinality(wrote[o]) < MAXOPBLOCKS => ~TooBig

(* "Copy modified blocks from cache to log" (log.c:174): write_log writes  *)
(* blocks of the log.                                                      *)
WritesTheLog == phase # "overrun"
=============================================================================
