-------------------------------- MODULE Pipe --------------------------------
(***************************************************************************)
(* One pipe (pipe.c) between processes that share its two ends.            *)
(*                                                                         *)
(* A critical section of p->lock is one step: what pipewrite and piperead  *)
(* do between acquire, or the return of sleep, and the next sleep or       *)
(* release.  The counters wrap at UINT, 2^32 in C.                         *)
(***************************************************************************)
EXTENDS Integers, Sequences, FiniteSets

CONSTANTS Readers, Writers,   \* the processes that hold the ends
          Bytes,
          PIPESIZE,
          UINT,
          MaxCount            \* bound: the largest n of a read or write

ASSUME PipeAssumption ==
    /\ PIPESIZE \in Nat \ {0}
    /\ UINT \in Nat /\ UINT > PIPESIZE /\ UINT % PIPESIZE = 0
    /\ MaxCount \in Nat
    /\ Readers \cap Writers = {}

Procs == Readers \cup Writers

VARIABLES data, nread, nwrite,
          open,       \* processes that have their end open (f->ref)
          freed,      \* the page has been given back
          pc,         \* "idle", in the kernel ("run") or "asleep"
          left,       \* bytes still to read or write: n - i
          killed,
          out,        \* what the last read returned
          aborted     \* a killed writer left pipewrite in the middle

vars == <<data, nread, nwrite, open, freed, pc, left, killed, out, aborted>>

readopen == open \cap Readers # {}
writeopen == open \cap Writers # {}

Count == (nwrite - nread) % UINT
Space == PIPESIZE - Count

TypeOK ==
    /\ data \in [0 .. PIPESIZE - 1 -> Bytes]
    /\ nread \in 0 .. UINT - 1 /\ nwrite \in 0 .. UINT - 1
    /\ open \subseteq Procs
    /\ freed \in BOOLEAN /\ aborted \in BOOLEAN
    /\ pc \in [Procs -> {"idle", "run", "asleep"}]
    /\ left \in [Procs -> 0 .. MaxCount]
    /\ killed \in [Procs -> BOOLEAN]
    /\ out \in Seq(Bytes)

(* pipealloc; the ends are passed on by fork.  The page is not cleared. *)
Init ==
    /\ data \in [0 .. PIPESIZE - 1 -> Bytes]
    /\ nread = 0 /\ nwrite = 0
    /\ open = Procs
    /\ freed = FALSE
    /\ pc = [p \in Procs |-> "idle"]
    /\ left = [p \in Procs |-> 0]
    /\ killed = [p \in Procs |-> FALSE]
    /\ out = <<>>
    /\ aborted = FALSE

(* wakeup(&p->nread) wakes readers, wakeup(&p->nwrite) writers (mutant:    *)
(* nobody).                                                                *)
WakeNone(P) == pc
Wake(P) == [p \in Procs |-> IF p \in P /\ pc[p] = "asleep" THEN "run" ELSE pc[p]]

----------------------------------------------------------------------------
Call(p, n) ==
    /\ pc[p] = "idle" /\ p \in open /\ ~killed[p]
    /\ pc' = [pc EXCEPT ![p] = "run"]
    /\ left' = [left EXCEPT ![p] = n]
    /\ UNCHANGED <<data, nread, nwrite, open, freed, killed, out, aborted>>

(* The ring's slot of the i-th byte after counter c. *)
Slot(c, i) == (c + i - 1) % PIPESIZE

Lesser(a, b) == IF a < b THEN a ELSE b

(* The ring after the bytes bs are stored. *)
Stored(bs) ==
    [s \in 0 .. PIPESIZE - 1 |->
        IF \E i \in 1 .. Len(bs) : Slot(nwrite, i) = s
        THEN bs[CHOOSE i \in 1 .. Len(bs) : Slot(nwrite, i) = s]
        ELSE data[s]]

(* The number of bytes pipewrite stores before it ends or finds the pipe   *)
(* full (mutant: one byte past full).                                      *)
ChunkPastFull(p) == Lesser(left[p], Space + 1)
Chunk(p) == Lesser(left[p], Space)

(* pipewrite up to its end, its next sleep or its failure. *)
PipeWrite(p, bs) ==
    /\ p \in Writers /\ pc[p] = "run"
    /\ Len(bs) = Chunk(p)
    /\ data' = Stored(bs)
    /\ nwrite' = (nwrite + Len(bs)) % UINT
    /\ \/ /\ left[p] = Len(bs)
          /\ pc' = [Wake(Readers) EXCEPT ![p] = "idle"]
          /\ left' = [left EXCEPT ![p] = 0]
          /\ UNCHANGED aborted
       \/ /\ left[p] > Len(bs) /\ (~readopen \/ killed[p])
          /\ pc' = [pc EXCEPT ![p] = "idle"]
          /\ left' = [left EXCEPT ![p] = 0]
          /\ aborted' = (aborted \/ killed[p])
       \/ /\ left[p] > Len(bs) /\ readopen /\ ~killed[p]
          /\ pc' = [Wake(Readers) EXCEPT ![p] = "asleep"]
          /\ left' = [left EXCEPT ![p] = @ - Len(bs)]
          /\ UNCHANGED aborted
    /\ UNCHANGED <<nread, open, freed, killed, out>>

(* Whether piperead waits (mutant: although the writers are gone). *)
MustWaitAlways == nread = nwrite
MustWait == nread = nwrite /\ writeopen

ReadSleep(p) ==
    /\ p \in Readers /\ pc[p] = "run"
    /\ MustWait
    /\ pc' = [pc EXCEPT ![p] = IF killed[p] THEN "idle" ELSE "asleep"]
    /\ left' = [left EXCEPT ![p] = IF killed[p] THEN 0 ELSE @]
    /\ UNCHANGED <<data, nread, nwrite, open, freed, killed, out, aborted>>

(* The bytes piperead copies (mutant: off by one in the ring). *)
CopiedLate(n) == [i \in 1 .. n |-> data[Slot(nread, i + 1)]]
Copied(n) == [i \in 1 .. n |-> data[Slot(nread, i)]]

PipeRead(p) ==
    /\ p \in Readers /\ pc[p] = "run"
    /\ ~MustWait
    /\ LET n == Lesser(left[p], Count) IN
        /\ out' = Copied(n)
        /\ nread' = (nread + n) % UINT
    /\ pc' = [Wake(Writers) EXCEPT ![p] = "idle"]
    /\ left' = [left EXCEPT ![p] = 0]
    /\ UNCHANGED <<data, nwrite, open, freed, killed, aborted>>

(* The last close of an end wakes the other side (mutant: no). *)
ClosedSilently(p) == pc
Closed(p) ==
    IF open \cap Readers = {p} THEN Wake(Writers)
    ELSE IF open \cap Writers = {p} THEN Wake(Readers) ELSE pc

(* A process closes its end between two calls, never inside one. *)
MayClose(p) == pc[p] = "idle"

(* fileclose, and pipeclose when it was the last of its end. *)
Close(p) ==
    /\ p \in open /\ MayClose(p)
    /\ open' = open \ {p}
    /\ pc' = Closed(p)
    /\ freed' = (open' = {})
    /\ UNCHANGED <<data, nread, nwrite, left, killed, out, aborted>>

(* kill(): the process is marked, and woken if it sleeps. *)
Kill(p) ==
    /\ ~killed[p] /\ p \in open
    /\ killed' = [killed EXCEPT ![p] = TRUE]
    /\ pc' = [pc EXCEPT ![p] = IF @ = "asleep" THEN "run" ELSE @]
    /\ UNCHANGED <<data, nread, nwrite, open, freed, left, out, aborted>>

Next ==
    \E p \in Procs :
        \/ \E n \in 1 .. MaxCount : Call(p, n)
        \/ \E n \in 0 .. PIPESIZE : \E bs \in [1 .. n -> Bytes] : PipeWrite(p, bs)
        \/ ReadSleep(p) \/ PipeRead(p) \/ Close(p) \/ Kill(p)

(* Everybody has closed the pipe. *)
Done == open = {} /\ UNCHANGED vars

Spec == Init /\ [][Next \/ Done]_vars

(* A process in a call goes on; its sleep ends only by a wakeup. *)
FairSpec ==
    /\ Spec
    /\ \A p \in Procs :
        WF_vars(ReadSleep(p) \/ PipeRead(p)
                \/ \E n \in 0 .. PIPESIZE : \E bs \in [1 .. n -> Bytes] : PipeWrite(p, bs))

----------------------------------------------------------------------------
Unread == [i \in 1 .. Count |-> data[Slot(nread, i)]]

PA == INSTANCE PipeAbs WITH stream <- Unread

(* Readers get the bytes in the order in which they were written, none     *)
(* lost, repeated or overwritten, also when the counters wrap              *)
(* (pipewrite, piperead).                                                  *)
Stream == PA!Spec

(* A writer sleeps only while the pipe is full and has a reader, and a     *)
(* reader only while it is empty and has a writer: no read, write, close   *)
(* or kill is missed ("pipewrite-sleep" and "piperead-sleep", pipe.c:86,   *)
(* 106).  A writer that was killed returns without its wakeup (pipe.c:81), *)
(* and then a reader sleeps on although there is something to read; but    *)
(* even so a reader and a writer never sleep at the same time.             *)
SleepersHaveCause ==
    /\ \A p \in Writers : pc[p] = "asleep" => Space = 0 /\ readopen /\ ~killed[p]
    /\ \A p \in Readers :
        pc[p] = "asleep" => writeopen /\ ~killed[p] /\ (Count = 0 \/ aborted)
    /\ ~ \E r \in Readers, w \in Writers : pc[r] = "asleep" /\ pc[w] = "asleep"

(* A read of a pipe without writers returns. *)
EndOfFile ==
    \A p \in Readers : (pc[p] # "idle" /\ ~writeopen) ~> pc[p] = "idle"
=============================================================================
