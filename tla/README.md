# Verification of the xv6 container kernel

TLA+ models of the kernel in this repository (xv6 for x86 with a priority
scheduler, mutexes, condition variables and shared pages added), the TLC runs
that check them on small instances, and TLAPS proofs of what matters most for
every size. The user's side is there too where it is hard: the shell and its parser.
`PROJECT.json` lists the runs, the source lines behind each
definition, the hazards and the theorems in machine-readable form.

## 1. The system

| Part | Source | State | Operations | Module |
|---|---|---|---|---|
| run queue | `proc.c` (pq_enqueue, pq_dequeue), `proc.h` | one ring of process pointers per priority | enqueue, dequeue | `PQueueAbs`, `PQueue`, `PQueueProofs` |
| processes and scheduler | `proc.c`, `sysproc.c` (prio_set), `trap.c` | `ptable.proc`, `cpus[].proc`, `nextpid` | scheduler, yield, sleep, wakeup, fork, exit, wait, kill, prio_set | `Proc`, `MCProc`, `ProcProofs` |
| start of the scheduler | `main.c`, `proc.c` (userinit, scheduler) | `first_time`, CPUs that are up | startothers, userinit, the first pass over the table | `Boot` (extends `Proc`), `ProcProofs` |
| mutexes, condition variables | `sysproc.c`, `proc.c` (fork, exit) | `MUTEXES`, `wqueue`, `mux_ptrs` | mcreate, mdelete, mlock, munlock, waitcv, signalcv | `Mutex`, `MutexProofs` |
| log | `log.c` | `log.lh`, outstanding, committing; header and blocks on disk | begin_op, log_write, end_op, commit, recovery | `LogAbs`, `Log`, `LogProofs` |
| buffer cache, sleep locks, disk driver | `bio.c`, `sleeplock.c`, `ide.c` | `bcache`, `idequeue` | bget, bread, bwrite, brelse, acquiresleep, releasesleep, iderw, ideintr | `BlockStore`, `BCache`, `MCBCache`, `BCacheProofs` |
| pipes | `pipe.c` | `struct pipe` | pipewrite, piperead, pipeclose | `PipeAbs`, `Pipe`, `PipeProofs` |
| inodes, directories, open files, file system calls | `fs.c`, `file.c`, `sysfile.c` | `icache`, `ftable`, `ofile`, `cwd`; dinodes, directories and bitmap on disk | open, create, mkdir, mknod, link, unlink, chdir, close, dup, read, write, and the iget, ilock, iput, ialloc, balloc, bfree and namex under them | `Inode`, `MCInode`, `InodeProofs` |
| page allocator, virtual memory, shared pages, exec | `kalloc.c`, `vm.c`, `exec.c`, `shm.h`, `proc.c` (growproc, fork, exit, wait) | free list, page tables, `p->sz`, `kstack`, `shmtable`, `shmpgs` | sbrk, fork, exec, exit, wait, shmget, shmrem over kalloc, kfree, allocuvm, deallocuvm, copyuvm, freevm | `Vm`, `MCVm` |
| spin locks, console, keyboard, serial line | `spinlock.c`, `console.c`, `kbd.c`, `uart.c`, `proc.c` (sched), `trap.c` | `ncli`, `intena` and the interrupt flag of each CPU; `cons.lock`, `input`, the cursor, `shift` | acquire, release, consoleintr, consoleread, consolewrite, kbdgetc, the timer's yield, sleep and wakeup | `Spinlock`, `Kbd`, `ConsoleAbs`, `Console`, `MCConsole`, `ConsoleProofs` |
| shell | `sh.c` | the command tree; processes, their descriptors and pipes | getcmd, parsecmd, runcmd | `ShParse`, `Shell`, `MCShell` |
| traps, other drivers, boot code, other user programs | the rest | | | not modelled |

How they interact: everything that blocks calls `sleep` and is woken by
`wakeup`, which change `p->state` and the run queue under `ptable.lock`. The
mutexes do not: they change both themselves. File system calls run between
`begin_op` and `end_op` and touch blocks through the buffer cache, whose dirty
buffers the log pins; the cache reads and writes through the disk driver's
queue, which the interrupt handler drains. `fork` and `exit` touch every part:
files, the mutex pointers, shared pages. Interrupt handlers take the same spin
locks as system calls, which is why a lock turns interrupts off on its CPU. The
shell sees of all this fork, wait, pipes and descriptors.

What is hard: every CPU runs the scheduler and takes processes from one queue;
the scheduler resumes what it dequeues without a look at its state, so that
every enqueue in the kernel carries a proof obligation. Sleeping must not miss
wakeups; a crash can happen between any two disk writes. An inode is freed by
whoever drops its last reference, with names, open files and lookups of others
coming and going; every system call takes several inode locks and references
and has several ways to fail half way, and so does every call that allocates
memory. Interrupts arrive between any two instructions outside a lock, and a
kernel thread may resume on another CPU than the one it left.

## 2. How the code is modelled

A critical section of a spin lock is one step (that spin locks give that is what
`Console` is about: there acquire and release are steps of their own). What a process does between two
of them is a label (`pc`), so that the other CPUs and interrupts interleave
exactly where the code lets them. A process that sleeps leaves its CPU in the
same step in which it goes to sleep when the code does both under one lock
(`sleep`), and in a later one when it does not (`mlock`, `waitcv`). Reads and
writes made without a lock (`prio_set`'s check, `log_write`'s size test,
`fork`'s late copies, `mdelete`'s scan) are steps of their own. Definitions
whose names end a comment with "mutant" (`PoppedNot`, `WakeNone`, ...) are not
part of the model: each is the variant of the definition below it that a
plausible slip in the code would make, kept to show that a property notices.

**PQueue** has the ring indices of `head_tail` and C's remainder (`CRem`), and
`Contents` maps a ring to the sequence of `PQueueAbs`. `MaxQueued` bounds how
many entries the callers put in one queue.

**Proc** has one variable per field of `struct proc` the scheduler uses,
`cpu` for `cpus[].proc`, and `ptlock`: `swtch` hands `ptable.lock` from the
scheduler to the process it resumes, which releases it in a later step
(`Resume`) or scans the table again with it (`wait`). `fork` is four steps
(allocproc, failure or publication, late inheritance of the priority), `exit`
two, `wait` a call and one of three scans, `prio_set` a check without lock and
its effect. Bounds: `MaxPid` pids are handed out, `KillPids` and `PrioArgs` are
the arguments used. The run queue is the abstract one, which `PQueue`
implements while a queue holds fewer than `QSIZE` entries: `QueuedIffRunnable`
(a process is queued at most once) and NPROC = 64 < QSIZE = 100 discharge that.

**Boot** extends `Proc` with the race for `first_time`: the CPUs `startothers`
starts are in `scheduler()` before `userinit` has made the first process
RUNNABLE, and the first of them to hold `ptable.lock` looks through the table.

**Mutex** has the run queue and CPUs again, reduced to one priority, because
`mlock` and the wakeups of `munlock` and `signalcv` bypass `sleep` and `wakeup`.
Any process calls anything with any mutex it has a pointer to, as `tester.c`
does: the guards are the code's own tests, of the pointer and of `state == 1`.
`holds` and `spoiled` are history: which mutexes a process has locked and not
unlocked, and which were released, freed, deleted or lost under somebody who
uses them (an unlock by another, `exit`, `mdelete` by the holder, `fork`'s late
copy). `stopped` is set where the kernel does not go on: the panic of `acquire`
in `waitcv`, its return with `ptable.lock` held, a stray pointer in `signalcv`,
and a process that a second CPU runs on the stack it is still using.

**Log** has the home blocks, log blocks and header on disk, the cached blocks,
and a step for every single disk write of `commit` and of recovery. The look at
the size in `log_write` is a step before the one with the lock. `Reboot` may
happen at any moment and any number of times. Where the kernel panics ("too big
a transaction") the phase is "panic" until a reboot; where `write_log` writes its
last block past the log, which overwrites an inode block, it is "overrun" and
the behaviour ends. `LogAbs` is the promise: a crash leaves the blocks of the
last commit, and a commit happens when no system call is in progress.

**BCache** has the buffers with their flags, count and sleep lock, the LRU
list, and the disk queue with the data sent for the request in progress. Every
sleeper may be woken by `kill` at any time. `MaxPinned` bounds the blocks the log
pins, and may be as many as the buffers: `bget` then panics (`BgetPanic`), and
everybody stops. `BlockStore` is the promise.

**Pipe** has the ring with its wrapping counters (`UINT` stands for 2^32), and
any number of processes at both ends, which close, and are killed, when the
code allows it. `PipeAbs` is a bounded stream.

**Inode** has the dinodes, the directory entries and the bitmap on disk, the
cache with its counts, locks and copies, the table of open files, and for each
process (`loc`) where it stands in its system call and the inodes it points to
(`dp`, `ip`, and `tgt` for the one it is putting). A lock that the code takes
and releases around accesses to what it protects, with one access to something
else at most, is one step; a lock it keeps is a field of the entry, and who
needs it waits. `iput` is split where others can come in: the look at the
counts, `bfree`, the free dinode, `valid = 0` with the unlock, `ref--`. `Put`
followed by a label is the call and its return. `Requests` are the system calls
the processes make, over and over. `begin_op` and `end_op` are where a process
leaves and comes back to "idle"; that what happens in between is atomic on disk
is `Log`'s promise. Not kept: file contents, sizes and offsets beyond one block
per inode, access modes, processes that come and go.

**Vm** has for each process the directory's page, the page tables' and the user
entries, in units of which `PGSIZE` make a page, so that sizes end in the middle
of pages. The functions of `vm.c` are operators on a record of the free list
and the address space being built; a call takes its pages in one step and gives
back what it took, when it fails, in another (`Undo`, `UnFork`, `ExecBad`), so
that others meet empty memory in between. A panic, and a write through a pointer
that was never set, is noted in `broken`, and the behaviour ends there.
`Images` are what exec may find: one program, and one for each way to fail.

**Console** has two CPUs with their interrupt flags and spin locks (`Spinlock`),
schedulers, and processes that read and write. acquire is two steps, pushcli
with its check and the exchange; the thread that is switched to releases the
lock that another took. The handler runs on the CPU that gets the interrupts.
Which of the RUNNABLE processes runs next is left open. `Kbd` is the keyboard
driver, one scan code at a time; `ConsoleAbs` is the promise: a line being
edited, and the characters that are ready. The keyboard's or the line's
character sequence is arbitrary (`Keys`, `Setups`). procdump prints one line, and
the clock's own lock and tick count are left out of the timer interrupt.

**ShParse** is the parser, function by function, over a line's characters, and
beside it the grammar as the set of trees of a token sequence. **Shell** runs
the tree: every system call of `runcmd` and `main` that another process can
notice is a step, and `MaxFails` of them may fail. What the shell's processes
see of the kernel is modelled by what `fdalloc`, `fork`, `exit` and `wait` do; a
program either ends at once or reads its input to the end and writes until
nobody reads.

## 3. The runs

| Run | Instance | What it shows |
|---|---|---|
| `pqueue_fifo` | 2 priorities, rings of 3, at most 2 queued | the rings are strict-priority FIFOs (`RefinesAbs`), never report full (`NoFullPanic`), wrap correctly |
| `proc_lifecycle` | 3 slots, 2 CPUs, 2 priorities, 3 forks, a kill, prio_set within and beyond the range | a process is queued exactly when RUNNABLE and runs on one CPU (`QueuedIffRunnable`, `RunningOnOneCpu`); no missed wakeup in wait (`WaiterMissesNothing`); every process has a live parent (`ParentAlive`); pids are unique (`PidsDistinct`) |
| `proc_liveness` | 3 slots, 1 CPU, 1 priority | a RUNNABLE process runs (`RunnableRuns`); a wait with a ZOMBIE child returns (`WaitReturns`) |
| `boot_race` | 1 or 2 CPUs, 2 slots | whoever wins, the first process runs (`InitRuns`); a pass before userinit is harmless, and on one CPU it leaves one stale entry at most, of a process that never dies (`QueueAfterSweep`) |
| `mutex` | 2 processes, 2 CPUs, 2 mutexes with their condition variables, every call open to everybody | exclusion for a mutex that is not spoiled (`MutualExclusion`); the gap between list and sleep loses no wakeup (`SleeperNotForgotten`); the shared wait queue does not stall while nothing is spoiled (`QueueMoves`) |
| `log` | 2 system calls of 1 block each over 3 blocks, LOGSIZE = NLOG = 3 (header included, as mkfs has it), any number of crashes | system calls are atomic across crashes, also during recovery (`Atomic`); what may be dropped from the cache is on disk (`CleanMatchesDisk`); an admitted call finds its reserved places in the header (`ReservationKept`); sleepers are woken unless the kernel stops (`SleeperWoken`) |
| `bcache` | 3 processes, 2 buffers, 3 blocks, up to 2 pinned (NBUF = LOGSIZE, as `param.h` has it) | the cache is a store of blocks (`Coherent`); one buffer per block, none recycled in use (`OneBufferKept`); no missed wakeup, and `bget` panics only when every buffer is pinned or in use (`NobodyStuck`) |
| `inode` | 2 processes, 3 inodes, 3 blocks, 1 file, 2 descriptors each, the name a in /, /a and /a/a, and `..`; constraint `Careful` | references, names and blocks are counted in every interleaving and on every error path (`RefsCounted`, `NamesCounted`, `BlocksOwned`); nobody meets a free inode (`InodeAlive`) |
| `pipe` | 2 writers, 1 reader, ring of 2, counters modulo 4 | the stream in order (`Stream`); nobody sleeps for nothing (`SleepersHaveCause`); a read without writers returns (`EndOfFile`) |
| `vm` | 2 processes, 15 pages, pages of 2 units, 2 user page tables of 2 entries, 1 shared page | every page is in exactly one place, whatever fails half way (`PagesAccounted`); size and page table agree (`SizeMatchesPages`); no panic and no page freed twice except where shared pages are used (`NoPanic`) |
| `console` | 2 CPUs, buffer of 2 with indices modulo 4, screen of 2 by 2; two processes, one that may be killed, or a keyboard of five keys | no lock or sched panic, the cursor stays on the screen (`NoPanic`); interrupts are off exactly when they should be (`InterruptsMatch`); ready lines are read whole, in order, and end of file is seen (`LineDiscipline`); no reader sleeps on a ready line (`NoReaderForgotten`); no modifier sticks (`NoStuckModifier`) |
| `shell` | all lines of up to 3 characters and 13 longer ones, 6 processes, 1 failing call | the parser finds the grammar's only tree or refuses (`ParsesGrammar`); a list goes on, and the prompt returns, only after the foreground has ended (`Sequenced`); programs have exactly their descriptors (`Wired`); the prompt always comes back (`PromptsAgain`) |

Why the bounds are enough. Two CPUs and three slots allow init, a parent and a
child in any combination of states, a reparented ZOMBIE, and a slot that is
reused; three forks wrap the table. Two processes and two mutexes on two CPUs
allow an unlock in the gap of an `mlock`, an unlock of one mutex that wakes the
waiter of the other, and every misuse; `MutexThree.cfg` is the same question for
three processes and one mutex (2.2 million states, no violation), where a second
waiter and one that comes in between are there, and three processes with two
mutexes are beyond five minutes. In `log` the two calls can pass the size test
together, fill the header and run past the log, and a commit has two blocks.
Three blocks on two buffers force recycling with one buffer pinned and one in
use, and the panic with both. Three inodes are the root, a directory and a file
in it, a directory in a directory, or two that are freed and allocated in turns;
with one name in each directory every call meets the others' half-done work, and one file and two
descriptors make `open` fail for want of either. Two writers and counters modulo 4 allow
interleaved chunks and several wraps.
Fifteen pages are two processes and one exec's new image less a few, so that
every allocation fails in some behaviour; two page tables of two entries make a
process need a second one. A buffer of two with indices modulo 4 fills, wraps
and empties. The lines of the shell nest each construct in each other.
Deadlock is not checked in `mutex`, where all processes may wait on a condition
nobody signals; in `inode`, where the lock cycle
described below and the panics for want of inodes stop it; in `vm`, where
`broken` ends a behaviour; and in `shell`, which ends with its input. The `VIEW` of
`MCInode` takes states as one that differ in the slots of the cache or in fields
that are written before they are read; that of `MCVm` which page is which; that
of `MCConsole` cells and saved flags that are written before they are read.

Fairness. `proc_liveness`: the scheduler's loop, a resumed process and the
timer interrupt are weakly fair, and the scan of `wait` strongly: a process
that gets the CPU again and again executes instructions between two timer
interrupts. `boot_race`: CPUs come up and their loops go round. `log`: a
process in a system call comes to its end and the disk completes its writes.
`pipe`: a process that is not asleep goes on. `shell`: while some process can
run the scheduler runs one; a program that reads the console comes to an end. No fairness is assumed of users.

## 4. What is proved

`PQueueProofs`: for every QSIZE, PRIO_MAX and set of processes, types, that the
full test never holds below the bound, and that the rings refine `PQueueAbs`.
The argument is a lemma on how `Contents` changes when head or tail moves, by
cases on the wrap.

`ProcProofs`: for every number of slots, CPUs and priorities and every set of
non-negative `prio_set` arguments (a negative one leads out of the model's
queues, see section 5), `TypeOK`, `QueuedIffRunnable` and `RunningOnOneCpu`, from
one inductive invariant. The conjuncts need each other: that a dequeued process
is RUNNABLE needs the queue to hold nothing else; that a yielding process is not queued
already needs RUNNING and the CPUs to agree; that fork's enqueue is the first
needs its slot to be an EMBRYO of its own.

On top of it `TreeInv` gives `ParentAlive`, `WaiterMissesNothing` and
`PidsDistinct`. A waiter misses nothing because scan and sleep are one critical
section, and because exit wakes the parent it leaves a ZOMBIE to before and
after reparenting.

Its last part is about `Boot`: `QueueAfterSweep`, with the same hypothesis on
`prio_set`. `BootInv` says what each phase of the start has. Before `userinit`
is done the first process is an EMBRYO at most, every other slot is UNUSED
(`Unborn`, `AtRest`) and no step of a process is possible; a pass that
began then finds nothing, and from its end on the invariant above holds. A pass
that begins after it runs the first process without taking it from the queue.
While that process runs, nobody else is in the kernel and it can only release
the lock, and come back by the timer or by a sleep: what makes its entry stale
happens once. From the end of that pass on the invariant is a weaker one
(`StaleInv`): every RUNNABLE process is queued, nothing else is, and no process
twice, except the first one, which may be queued once more than its state says
and which never exits.

`PipeProofs`: for every ring size, every width of the counters that it divides
(256 divides 2^32) and any number of processes, `SleepersHaveCause` and the
refinement of the stream. `PipeInv` has that at most PIPESIZE bytes are in the
pipe, which the sleepers need (a writer sleeps on a full pipe, and full is an
equality), and that who is in a call has its end open. The refinement is a lemma
on how the bytes between the two counters change when one of them moves, by
cases on the wrap.

`LogProofs`: for every number of system calls, blocks and crashes, every LOGSIZE
and every size of the log on disk, under the hypothesis that a call writes at
most MAXOPBLOCKS blocks (`param.h:10`: "max # of blocks any FS op writes";
`filewrite` does not keep it, see section 5): `CleanMatchesDisk`,
`ReservationKept`, and `Atomic`, the refinement of `LogAbs`, the last up to the
step at which `write_log` leaves the log. `LogInv` counts what each admitted
call may still write and shows that with the blocks logged it fits LOGSIZE
(`Reserved`), that one process commits and nobody is in a call meanwhile
(`OneCommit`), that in each phase of commit and recovery the header, the log's
blocks and the home blocks are what that phase leaves (`LogOnDisk`), and that the
pinned blocks are the logged ones (`PinnedLogged`). Reservations are needed for
atomicity too: a call that is not counted could write during a commit.

`BCacheProofs`: for every number of processes, buffers, blocks and pinned
blocks: `OneBufferKept`, `NobodyStuck` and `Coherent`, the refinement of
`BlockStore`. `CacheInv` has besides that all buffers stay listed, that a sleep
lock is held by who works on the buffer, that the disk's queue has exactly the
requests of those who wait for it, that a buffer that is clean and valid is
the block on disk, and that `bget` has panicked only with no buffer free
(`Exhausted`): a buffer that neither a count nor a pin holds is found.

`MutexProofs`: for every number of processes, CPUs and mutexes and without any
hypothesis on who calls what: `MutualExclusion`, `SleeperNotForgotten` and
`QueueMoves`. Two invariants carry them. `Sound` says of each mutex that it is
spoiled or `Owned`: its holder is one, has a pointer to it and finds it locked,
it is locked by somebody, nobody is in a call on it without a pointer, and who
is about to delete it is its only user. `Going` says that the kernel has stopped
or tickets are right. A process that joined a list and has not slept yet may be
made RUNNABLE and queued by an unlock although it runs, so that neither "queued
exactly when RUNNABLE" nor "on a list exactly when asleep" holds. What does hold
is that the places a process has on the wait queue, on a condition variable, in
the hands of a waker, in the run queue and on a CPU are one, and two between list
and sleep (`Ticketed`, `Placed`); the second CPU that dispatches such a process
is the step that stops the kernel. No ticket lost is no wakeup lost. `QueueMoves`
needs both: a sleeper on the queue saw its mutex locked, and who unlocked it
since then took a process off the queue.

`ConsoleProofs`: for every number of CPUs and processes, every buffer size and
index width that it divides, every screen of two rows or more: `InterruptsMatch`,
`NoPanic`, `NoReaderForgotten` and `LineDiscipline`, the refinement of
`ConsoleAbs`, without hypotheses beyond the modules' assumptions. `LocksInv` says
for each CPU that nesting depth, interrupt flag, `intena` and the locks it has are
those of the place its thread or its handler is at (`CpuOK`), and for each process
that it runs on one CPU at most and, off its CPU, is where `sched` leaves it with
its `intena` saved (`RecOK`): a thread that resumes elsewhere finds there what it
left. The panics of acquire, release, popcli and sched are excluded by that
alone. `ReadersInv` adds that the buffer's indices are in order and that who is
on its way to sleep, with the console's lock, has found nothing to read; the
cursor's panic is excluded by its place above the last row, which every character
keeps. For the refinement the buffer is seen as a function from the read index
on: a typed character changes one cell beyond those in use, a newline never waits
in the line being edited (or ^U would stop at it), and reading shifts it.

`InodeProofs`: for every number of processes, inodes, cache entries, files and
descriptors and every set of requests, `RefsCounted`: the counts of the inode
cache and of the file table are the pointers to them, in every interleaving and
on every error path. The invariant has which of `dp`, `ip`, `tgt` and `num` a
process has at each label, or at the label it returns to from `iput` (`Holds`),
and that what is counted has an inode (`Used`). A step is then two
small facts: how many pointers to an entry the process gains (`Gains`), and that
the cache has grown by exactly that reference (`Grown`, `Same`). `iget` needs the
count to be zero only for entries nobody points to, which is what the invariant
says. This part takes `nlink` as an integer; that it is not negative on disk
follows from the next.

The rest of `InodeProofs` is about what is alive. `InodeLive` proves `LiveInv` on
top of `RefInv`, and from it come `NamesCounted`, `BlocksOwned` and `InodeAlive`.
All three are about behaviours in which processes are `Careful`, `[]Careful` in the
theorems: nobody looks `..` up in a directory that has no name any more and whose
parent has none either. Directories are made, entered, removed and walked at any
depth. The hypothesis cannot be dropped: `unlink` stops counting the `..` of the
directory it removes (`sysfile.c:203`) though a process may still stand in it, so
that the parent can be removed, freed and allocated again (section 5). `LiveInv`
has

- `Fit`, per process: which locks it has at each label, that its pointers lead to
  inodes that are born (`Born`: allocated, and named at least once; an inode
  belongs to the process in `create` until then), that what it is about to erase
  is still the entry it has looked up, and that what it is about to free has one
  reference and no links;
- `CacheInv`: an inode has one entry in the cache, a lock is held by a process
  that keeps it, and a valid copy is what is on disk, except while `iput` has freed
  the inode and not yet marked its entry invalid;
- `DiskInv`: at most one process bears an inode, an inode without a name is
  blank, names lead to born inodes, the dots of a directory are there, the `..`
  of a named directory leads to a born one (`Up`), and `nlink` is at least the
  names together with those that are counted and not there (`Pending`: `link`
  counts before it enters the name, `unlink` after it has erased it);
- `KeptAlive` and `BlockInv`: files and current directories refer to born inodes,
  and a block has one owner.

The conjuncts need each other. `iput` may free an inode because no name and no
debt is left when `nlink` is 0, and because its reference is the only pointer
(`Sole`, from `RefsCounted`); no lookup can find the inode again because names are
counted; and the counts on disk stay right because the copy that `iupdate` writes
is coherent, which takes the lock. Each action is then shown to change the cache
in a way that the others do not see (`CacheStep`, `Reads`) and the counts by as
much as the names (`GrowBy`).

`TypeOK` and the inductive invariants are proved and not checked by a run of
their own.

Only model-checked:

- liveness (`RunnableRuns`, `WaitReturns`, `InitRuns`, `SleeperWoken`,
  `EndOfFile`, `PromptsAgain`), which is out of the prover's reach;
- the parser and with it `Shell`, whose recursion is out of its reach;
- `NoStuckModifier`, which is about the scan codes of the run's five keys;
- `NoPanic`, `PagesAccounted` and `SizeMatchesPages` of `Vm`, whose operations go
  through page tables page by page: what they do is an induction over data.

## 5. What the code does not keep

Seen while modelling. The properties and theorems above state what holds beside
these defects, and that means that each defect is left outside them somewhere.
Where a comment of the code promises the contrary, the promise is a definition
that TLC refutes with a configuration of its own (`tlc -config X.cfg M`; these are
not among the runs of `PROJECT.json`).

| Defect | Where the model has it | Where the properties leave it out | Refuted promise |
|---|---|---|---|
| one wait queue for all mutexes | `MUnlockPop` | `QueueMoves` asks that some mutex is locked, not the waiter's own | `WaiterUnblocked`, `MutexOneQueue.cfg` |
| a mutex released or freed under its users | `Exit`, `MUnlock`, `MDelete`, `ForkCopy` | `spoiled` | `OnlyHolderReleases`, `MutexHolder.cfg`; `EmptyIsUnused`, `MutexEmpty.cfg` |
| a waiter that still runs is run by a second CPU | `Dispatch` | `stopped`: the model ends there | `RunsOnce`, `MutexCpus.cfg` |
| `waitcv` panics or returns with `ptable.lock` | `WaitCvStop` | `stopped` | |
| negative priorities | `ToUint`, `PrioCheck` | `PrioArgs` of the runs, hypothesis of `ProcProofs` | `PriorityInRange`, `ProcPrio.cfg` |
| the log on disk is one block short | `LogPanic` | `ReservationKept` is about the header in memory; phase "panic" | `AdmittedFits`, `LogAdmit.cfg` |
| two calls pass the size test together | `LogCheck`, `WritePast` | phase "overrun": the model ends there | `WritesTheLog`, `LogPast.cfg` |
| a call writes more than its reservation | | `OpBlocks <= MAXOPBLOCKS` in the run and in `LogProofs` | |
| the log pins every buffer | `BgetPanic` | `NobodyStuck` allows the panic then | `BuffersSuffice`, `BCacheFull.cfg` |
| `..` of a removed directory | `Walk`, `Namex` | `Careful` | `IlockFindsType`, `InodeUp.cfg` |
| lock cycle of `create` and `unlink` | the run reaches it | no property; deadlock is not checked | |
| a killed writer wakes no reader | `aborted` in `Pipe` | excepted in `SleepersHaveCause` | |
| `copyuvm` loses a page | `lost` in `Vm` | excepted in `PagesAccounted` | |
| shared pages freed under their users | `broken` in `Vm` | `NoPanic` admits `ShmDefects`, and the model ends there | |
| the first process run while still queued | `SweepRun` in `Boot` | `QueueAfterSweep` does not speak of a late pass with two CPUs | |
| `sys_testpqeq`, `sys_testpqdq` | not modelled | | |

Scheduling, mutexes:

- with two mutexes `munlock` can wake a waiter of the other one, which queues up
  again, while a process sleeps on for a mutex that is free. The comment at
  `proc.h:110` says "wait queue used for unblocking processes waiting to take a
  mutex".
- `munlock` and `signalcv` check that the mutex is locked, not by whom, though
  the comments at `sysproc.c:219` and 306 say "make sure proc is currently holding
  this mutex". `exit` frees every mutex it has a pointer to, and `mcreate` hands
  it out again while others use it. `tester.c` does both. `mdelete` looks for
  other users without a lock: two last users at once both leave it to the other.
  `kill` leaves its target on the wait queue, where a later unlock finds it
  (nobody is killed in `Mutex`).
- `waitcv` panics in `acquire` when any process waits for any mutex, and without a
  locked mutex it returns with `ptable.lock` held.
- on several CPUs an unlock can queue a waiter that still runs, and the second CPU
  then runs it too, on the same kernel stack.
- `prio_set`'s check and its effect are two steps: a caller whose priority an
  ancestor lowers in between raises it again. Its walk up the parents reads
  through a null pointer for pid 1. `kill(0)` marks a free slot.
- a first pass of `scheduler()` that begins after `userinit` runs the first
  process and leaves it in the queue. On one CPU that is one stale entry, which
  `QueueAfterSweep` bounds. On two CPUs the other one may take the entry while
  the process runs, or sleeps on the disk, and resume it: the model allows it,
  and of that case only `InitRuns` is claimed.
- `sys_testpqeq` (`sysproc.c:403-420`) queues the process that calls it, which is
  RUNNING, and `sys_testpqdq` (`sysproc.c:422-446`) takes processes off the queue
  without `ptable.lock` and runs none of them. They are test calls and not
  modelled: a program that uses them breaks `QueuedIffRunnable`.
- `pq_enqueue`'s full test never holds with head = 0 (C's remainder of -1), so
  the 100th entry would empty the queue; 64 processes queued once stay below.
- `fork` queues the child before it copies priority and mutex pointers; a child
  that made a mutex before loses it.

File system:

- `create` and `unlink` can deadlock: `iput` takes the inode's lock whether or
  not it will free the inode, and both call it for the directory while they
  hold the file's lock; a concurrent unlink of that file takes the directory's
  lock in between and waits for the file's, inside a transaction. The comment
  at `usertests.c:850` speaks of a test "to look for deadlocks".
- two processes that `iput` an unlinked inode at once both see two references,
  and nobody frees it; nor is a file freed whose name was entered in a directory
  that has been removed.
- a process that stands in a removed directory and looks `..` up after the parent
  was removed and freed makes `ilock` panic "no type", or finds whatever the inode
  has become.
- `link` to an existing `.` puts the directory it has locked itself.
- `begin_op` reserves against LOGSIZE data blocks and mkfs makes LOGSIZE blocks
  with the header, one less: `log_write` panics in an admitted call, or, when two
  pass its test before either takes the lock, `write_log` writes the first inode
  block. `filewrite` splits by LOGSIZE although a call has MAXOPBLOCKS reserved.
- NBUF = LOGSIZE: the log alone can pin every buffer, and `bget` panics.
- a killed writer leaves a pipe full without waking the readers.
- a disk read error leaves a valid buffer with old data.

Memory:

- `copyuvm` loses a page when there is none left for the page table (`lost`).
- `sbrk(-sz)` frees every page, reports failure and leaves `sz` as it was.
- `shmget` of a new name stores its pointer beyond `shmpgs`, since `pg_num` is
  not reset between its two loops, and so in the next process's slot; it looks
  neither at the result of `kalloc` nor of `mappages` and not at KERNBASE.
- names of shared pages are compared as user pointers.
- `shmrem` of the last reference frees a page that stays mapped, `freevm` frees
  shared pages like any other, `fork` writes through the child's null (or stale)
  `shmpgs`, and `exec` forgets them even when it fails. In `Vm` each of these
  sets `broken` to one of `ShmDefects`.

Console:

- with both shift keys down, the release of one clears SHIFT.
- a reader that is killed returns -1 and loses the bytes it had taken.

## 6. Not modelled, and what is left

Not modelled: device registers, assembly, number formatting, argument fetching
and the dispatch of system calls (no state of their own, or pure data), `mkfs`
beyond the root directory, user programs besides the shell, `nulterminate`, the
characters of the key maps beyond three keys, the test calls `sys_testpqeq` and
`sys_testpqdq`. Disk errors, kill in `Mutex`, more than one buffer per process in
`BCache`, and the clock's tick lock are left out.

Next, in this order:

1. more of the file system: fork and exit with open files, sizes and indirect
   blocks (`bmap`, `readi`, `writei`) as pure operators, `filewrite`'s split at the real constants;
2. `umalloc`'s free list.
