------------------------------- MODULE Inode -------------------------------
(***************************************************************************)
(* Inodes, directories and open files: the inode cache, the allocation of  *)
(* inodes and blocks, path lookup (fs.c), the table of open files (file.c) *)
(* and the system calls on them (sysfile.c).                               *)
(*                                                                         *)
(* A sleep lock that is taken and released around accesses to what it      *)
(* protects, with at most one access to anything else, is one step; a lock *)
(* that is kept over several steps is in the entry's "lock", and a step    *)
(* that needs it waits.  The cache is write-through, so a change of an     *)
(* inode comes with its iupdate.  An inode has at most one content block;  *)
(* the names in a directory are in `entry'.  Nothing tells inodes, or      *)
(* blocks, from each other but their use, so that any free one stands for  *)
(* the first.  A panic is a step that cannot be taken.                     *)
(***************************************************************************)
EXTENDS Integers, Sequences, FiniteSets

CONSTANTS Procs,
          Inums,       \* the numbers of the inodes on disk
          ROOTINO,
          NINODE,      \* entries of the inode cache
          Blocks,      \* content blocks
          RootBlock,   \* the one mkfs gives the root directory
          NFILE,       \* entries of the file table
          NOFILE,      \* descriptors of a process
          Names,       \* names other than . and ..
          Requests,    \* the calls processes make: [call, path, new]
          Nobody

Entries == 1 .. NINODE
Files == 1 .. NFILE
Fds == 1 .. NOFILE
DirNames == Names \cup {".", ".."}

Calls == {"open", "creat", "mkdir", "mknod", "link", "unlink", "chdir"}

(* A path: absolute or not, and its elements (skipelem). *)
Path == [abs : BOOLEAN, elems : Seq(DirNames)]

ASSUME InodeAssumption ==
    /\ ROOTINO \in Inums /\ RootBlock \in Blocks
    /\ 0 \notin Inums /\ 0 \notin Blocks
    /\ NINODE \in Nat \ {0} /\ NFILE \in Nat /\ NOFILE \in Nat
    /\ Nobody \notin Procs
    /\ IsFiniteSet(Procs) /\ IsFiniteSet(Inums) /\ IsFiniteSet(Names)
    /\ "." \notin Names /\ ".." \notin Names
    /\ \A r \in Requests :
          r.call \in Calls /\ r.path \in Path /\ r.new \in Path

VARIABLES dinode,     \* struct dinode: type, nlink, addrs
          entry,      \* the contents of a directory
          bitmap,     \* the blocks in use
          icache,     \* struct inode: inum, ref, lock, valid, copy of dinode
          fref, fip,  \* struct file
          ofile, cwd, \* of a process
          loc         \* where a process stands in a system call

disk == <<dinode, entry, bitmap>>
files == <<fref, fip, ofile, cwd>>
vars == <<disk, icache, files, loc>>

Dinode == [type : {"none", "file", "dir", "dev"}, nlink : Nat,
           addr : Blocks \cup {0}]

Labels == {"idle",
           "walk", "found", "parent",          \* namex and its two results
           "exists", "ialloc", "iget", "enter", "file",       \* create, open
           "unlink", "unlinked", "linkbad",
           "put", "trunc", "free", "invalidate", "drop",      \* iput
           "putip", "putdp"}                   \* iunlockput, after an iput

NoPath == [abs |-> TRUE, elems |-> <<>>]
Idle == [pc |-> "idle", call |-> "open", path |-> <<>>, new |-> NoPath,
         dp |-> 0, ip |-> 0, tgt |-> 0, num |-> 0, then |-> "idle"]

TypeOK ==
    /\ dinode \in [Inums -> Dinode]
    /\ entry \in [Inums -> [DirNames -> Inums \cup {0}]]
    /\ bitmap \subseteq Blocks
    /\ icache \in [Entries -> [inum : Inums \cup {0}, ref : Nat,
                               lock : Procs \cup {Nobody}, valid : BOOLEAN,
                               copy : Dinode]]
    /\ fref \in [Files -> Nat] /\ fip \in [Files -> Entries \cup {0}]
    /\ ofile \in [Procs -> [Fds -> Files \cup {0}]]
    /\ cwd \in [Procs -> Entries]
    /\ \A p \in Procs :
          /\ loc[p].pc \in Labels /\ loc[p].then \in Labels
          /\ {loc[p].dp, loc[p].ip, loc[p].tgt} \subseteq Entries \cup {0}
          /\ loc[p].num \in Inums \cup {0}

NoInode == [type |-> "none", nlink |-> 0, addr |-> 0]
NoNames == [n \in DirNames |-> 0]

(* mkfs: the root directory, which every process has as its cwd. *)
Init ==
    /\ dinode = [i \in Inums |->
                    IF i = ROOTINO THEN [type |-> "dir", nlink |-> 1, addr |-> RootBlock]
                                   ELSE NoInode]
    /\ entry = [i \in Inums |->
                   IF i = ROOTINO THEN [n \in DirNames |->
                                           IF n \in Names THEN 0 ELSE ROOTINO]
                                  ELSE NoNames]
    /\ bitmap = {RootBlock}
    /\ icache = [e \in Entries |->
                    [inum |-> IF e = 1 THEN ROOTINO ELSE 0,
                     ref |-> IF e = 1 THEN Cardinality(Procs) ELSE 0,
                     lock |-> Nobody, valid |-> FALSE, copy |-> NoInode]]
    /\ fref = [f \in Files |-> 0] /\ fip = [f \in Files |-> 0]
    /\ ofile = [p \in Procs |-> [d \in Fds |-> 0]]
    /\ cwd = [p \in Procs |-> 1]
    /\ loc = [p \in Procs |-> Idle]

Lowest(S) == {x \in S : \A y \in S : x <= y}

----------------------------------------------------------------------------
(* The inode cache.  Each operator gives the cache after the operation. *)

(* iget: the entry of inode i, or the first without references. *)
Slot(i) ==
    LET hit == {e \in Entries : icache[e].ref > 0 /\ icache[e].inum = i}
    IN  IF hit # {} THEN hit
                    ELSE Lowest({e \in Entries : icache[e].ref = 0})

Iget(ic, e, i) ==
    IF ic[e].ref > 0
    THEN [ic EXCEPT ![e].ref = @ + 1]
    ELSE [ic EXCEPT ![e].inum = i, ![e].ref = 1, ![e].valid = FALSE]

Unlocked(e) == icache[e].lock = Nobody

(* ilock, once it has the lock *)
Ilock(ic, e) ==
    IF ic[e].valid THEN ic
    ELSE [ic EXCEPT ![e].valid = TRUE, ![e].copy = dinode[ic[e].inum]]

Hold(ic, e, p) == [ic EXCEPT ![e].lock = p]
Iunlock(ic, e, p) == IF e # 0 /\ ic[e].lock = p
                     THEN [ic EXCEPT ![e].lock = Nobody] ELSE ic

(* A change of the copy and iupdate: the cache and the disk after it. *)
Change(ic, e, d) == [ic EXCEPT ![e].copy = d]
Iupdate(di, e, d) == [di EXCEPT ![icache[e].inum] = d]

Type(ic, e) == ic[e].copy.type
Links(d, k) == [d EXCEPT !.nlink = @ + k]

(* What link does before it enters the name (mutant: it counts afterwards, *)
(* if at all).                                                             *)
OneMoreNot(d) == d
OneMore(d) == Links(d, 1)

(* balloc takes a free block; bfree, which panics when the block is free   *)
(* already (mutant: the block stays marked); bmap.                         *)
Balloc(b) == b \notin bitmap
BfreeNot(b) == bitmap
Bfree(b) == bitmap \ {b}
Bmap(d, b) == [d EXCEPT !.addr = b]

(* dirlookup and dirlink *)
Dir(e) == icache[e].inum
Lookup(e, n) == entry[Dir(e)][n]
Dirlink(e, n, i) == [entry EXCEPT ![Dir(e)][n] = i]

----------------------------------------------------------------------------
(* Where a process goes. *)

At(p, l) == loc[p].pc = l
InCall(p, l, c) == loc[p].pc = l /\ loc[p].call = c

Goto(p, l) == loc' = [loc EXCEPT ![p].pc = l]

(* iput of the entry in field f of r, then on at label t; the last iput of *)
(* a system call needs none of its other variables.                        *)
Put(r, f, t) ==
    IF t = "idle" THEN [Idle EXCEPT !.pc = "put", !.tgt = r[f]]
    ELSE [r EXCEPT !.pc = "put", !.tgt = r[f], ![f] = 0, !.then = t]

(* A link that has counted the new name takes it back. *)
Counted(r) == r.call = "link" /\ r.ip # 0
Failed(r) == IF Counted(r) THEN "linkbad" ELSE "idle"

(* nameiparent rather than namei *)
Parent(r) == r.call \in {"creat", "mkdir", "mknod", "unlink"} \/ Counted(r)
Name(p) == Head(loc[p].path)

(* namex starts at the root (iget) or at the cwd (idup). *)
Start(p, ic, path) ==
    IF path.abs
    THEN {<<Iget(ic, e, ROOTINO), e>> : e \in Slot(ROOTINO)}
    ELSE {<<[ic EXCEPT ![cwd[p]].ref = @ + 1], cwd[p]>>}

----------------------------------------------------------------------------
(* namex *)

(* The loop at inode e, for a process with variables r.  A path without    *)
(* elements (the root) has no parent.                                      *)
Namex(r, e, elems) ==
    LET at == [r EXCEPT !.dp = e, !.path = elems]
    IN  CASE elems # <<>> -> [at EXCEPT !.pc = "walk"]
          [] elems = <<>> /\ Parent(r) -> Put(at, "dp", Failed(r))
          [] elems = <<>> /\ ~Parent(r) -> [at EXCEPT !.pc = "found"]

(* begin_op, and namex up to its loop *)
Begin(p, q) ==
    /\ At(p, "idle")
    /\ \E s \in Start(p, icache, q.path) :
          /\ icache' = s[1]
          /\ loc' = [loc EXCEPT ![p] =
                        Namex([@ EXCEPT !.call = q.call, !.new = q.new], s[2], q.path.elems)]
    /\ UNCHANGED <<disk, files>>

(* One round of the loop: ilock, the lookup, iunlock. *)
Walk(p) ==
    LET e == loc[p].dp
        ic == Ilock(icache, e)
        i == Lookup(e, Name(p))
        rest == Tail(loc[p].path)
        dir == Type(ic, e) = "dir"
        last == Parent(loc[p]) /\ rest = <<>>
    IN  /\ At(p, "walk") /\ Unlocked(e)
        /\ \/ /\ ~dir \/ (~last /\ i = 0)
              /\ icache' = ic
              /\ loc' = [loc EXCEPT ![p] = Put(@, "dp", Failed(@))]
           \/ /\ dir /\ last
              /\ icache' = ic
              /\ Goto(p, "parent")
           \/ /\ dir /\ ~last /\ i # 0
              /\ \E x \in Slot(i) :
                    /\ icache' = Iget(ic, x, i)
                    /\ loc' = [loc EXCEPT
                          ![p] = [Put(@, "dp", IF rest = <<>> THEN "found" ELSE "walk")
                                    EXCEPT !.dp = x, !.path = rest]]
        /\ UNCHANGED <<disk, files>>

----------------------------------------------------------------------------
(* iput *)

(* "inode has no links and no other references" *)
LastRef(e) == icache[e].valid /\ icache[e].copy.nlink = 0 /\ icache[e].ref = 1

PutTest(p) ==
    LET e == loc[p].tgt
    IN  /\ At(p, "put") /\ Unlocked(e)
        /\ \/ /\ LastRef(e)
              /\ icache' = Hold(icache, e, p)
              /\ Goto(p, "trunc")
           \/ /\ ~LastRef(e)
              /\ Goto(p, "drop")
              /\ UNCHANGED icache
        /\ UNCHANGED <<disk, files>>

(* bfree in itrunc *)
Trunc(p) ==
    LET b == icache[loc[p].tgt].copy.addr
    IN  /\ At(p, "trunc")
        /\ b # 0 => b \in bitmap
        /\ bitmap' = Bfree(b)
        /\ Goto(p, "free")
        /\ UNCHANGED <<dinode, entry, icache, files>>

(* The rest of itrunc, type = 0, iupdate. *)
Free(p) ==
    LET e == loc[p].tgt
        d == [icache[e].copy EXCEPT !.type = "none", !.addr = 0]
    IN  /\ At(p, "free")
        /\ dinode' = Iupdate(dinode, e, d)
        /\ entry' = [entry EXCEPT ![Dir(e)] = NoNames]
        /\ icache' = Change(icache, e, d)
        /\ Goto(p, "invalidate")
        /\ UNCHANGED <<bitmap, files>>

(* valid = 0, since the entry may have got another reference from ialloc   *)
(* (mutant: it keeps what it knows of the freed inode).                    *)
InvalidNot(ic, e) == ic
Invalid(ic, e) == [ic EXCEPT ![e].valid = FALSE]
Invalidate(p) ==
    LET e == loc[p].tgt
    IN  /\ At(p, "invalidate")
        /\ icache' = Iunlock(Invalid(icache, e), e, p)
        /\ Goto(p, "drop")
        /\ UNCHANGED <<disk, files>>

(* ref--, and back to the caller: end_op, or iunlockput of another inode. *)
Drop(p) ==
    LET l == loc[p]
        ic == [icache EXCEPT ![l.tgt].ref = @ - 1]
    IN  /\ At(p, "drop")
        /\ \/ /\ l.then \notin {"idle", "putip", "putdp"}
              /\ icache' = ic
              /\ loc' = [loc EXCEPT ![p].pc = l.then, ![p].tgt = 0]
           \/ /\ l.then = "idle"
              /\ icache' = ic
              /\ loc' = [loc EXCEPT ![p] = Idle]
           \/ /\ l.then = "putip"
              /\ icache' = Iunlock(ic, l.ip, p)
              /\ loc' = [loc EXCEPT ![p] = Put(@, "ip", "idle")]
           \/ /\ l.then = "putdp"
              /\ icache' = Iunlock(ic, l.dp, p)
              /\ loc' = [loc EXCEPT ![p] = Put(@, "dp", Failed(@))]
        /\ UNCHANGED <<disk, files>>

----------------------------------------------------------------------------
(* create *)

(* ilock(dp) and dirlookup: dp is kept locked when the name is new. *)
CreateLook(p) ==
    LET e == loc[p].dp
        ic == Ilock(icache, e)
        i == Lookup(e, Name(p))
    IN  /\ At(p, "parent") /\ loc[p].call \in {"creat", "mkdir", "mknod"}
        /\ Unlocked(e)
        /\ \/ /\ i # 0
              /\ \E x \in Slot(i) :
                    /\ icache' = Iget(ic, x, i)
                    /\ loc' = [loc EXCEPT ![p] = [Put(@, "dp", "exists") EXCEPT !.ip = x]]
           \/ /\ i = 0
              /\ icache' = Hold(ic, e, p)
              /\ Goto(p, "ialloc")
        /\ UNCHANGED <<disk, files>>

(* Only open of an existing regular file goes on with it. *)
Exists(p) ==
    LET e == loc[p].ip
        ic == Ilock(icache, e)
        file == loc[p].call = "creat" /\ Type(ic, e) = "file"
    IN  /\ At(p, "exists") /\ Unlocked(e)
        /\ \/ file /\ icache' = Hold(ic, e, p) /\ Goto(p, "file")
           \/ ~file /\ icache' = ic /\ loc' = [loc EXCEPT ![p] = Put(@, "ip", "idle")]
        /\ UNCHANGED <<disk, files>>

NewType(c) == CASE c = "creat" -> "file" [] c = "mkdir" -> "dir" [] OTHER -> "dev"

(* ialloc: the inode on disk, and then its entry in the cache *)
Ialloc(p) ==
    /\ At(p, "ialloc")
    /\ \E i \in {j \in Inums : dinode[j].type = "none"} :
          /\ dinode' = [dinode EXCEPT
                          ![i] = [NoInode EXCEPT !.type = NewType(loc[p].call)]]
          /\ loc' = [loc EXCEPT ![p].pc = "iget", ![p].num = i]
    /\ UNCHANGED <<entry, bitmap, icache, files>>

IallocGet(p) ==
    /\ At(p, "iget")
    /\ \E x \in Slot(loc[p].num) :
          /\ icache' = Iget(icache, x, loc[p].num)
          /\ loc' = [loc EXCEPT ![p].pc = "enter", ![p].ip = x, ![p].num = 0]
    /\ UNCHANGED <<disk, files>>

(* ilock(ip), nlink = 1, for a directory . and .. and the parent's link,   *)
(* dirlink(dp), iunlock(dp).  ip is kept locked over iput(dp).             *)
Enter(p) ==
    LET l == loc[p]
        ic == Ilock(icache, l.ip)
        i == Dir(l.ip)
        parent == Links(icache[l.dp].copy, 1)
        new(b) == Bmap([ic[l.ip].copy EXCEPT !.nlink = 1], b)
        dots == [NoNames EXCEPT !["."] = i, ![".."] = Dir(l.dp)]
        named == Dirlink(l.dp, Name(p), i)
        kept(ch) == Hold(Iunlock(ch, l.dp, p), l.ip, p)
    IN  /\ At(p, "enter") /\ Unlocked(l.ip)
        /\ \/ /\ l.call = "mkdir"
              /\ \E b \in Blocks :
                    /\ Balloc(b) /\ bitmap' = bitmap \cup {b}
                    /\ dinode' = Iupdate(Iupdate(dinode, l.ip, new(b)), l.dp, parent)
                    /\ icache' = kept(Change(Change(ic, l.ip, new(b)), l.dp, parent))
              /\ entry' = [named EXCEPT ![i] = dots]
           \/ /\ l.call # "mkdir"
              /\ dinode' = Iupdate(dinode, l.ip, new(0))
              /\ icache' = kept(Change(ic, l.ip, new(0)))
              /\ entry' = named
              /\ UNCHANGED bitmap
        /\ loc' = [loc EXCEPT ![p] = Put(@, "dp", IF l.call = "creat" THEN "file" ELSE "putip")]
        /\ UNCHANGED files

----------------------------------------------------------------------------
(* sys_open, after create or namei *)

(* ilock(ip); a directory may only be opened for reading. *)
OpenLock(p) ==
    LET e == loc[p].dp
        ic == Ilock(icache, e)
    IN  /\ InCall(p, "found", "open") /\ Unlocked(e)
        /\ \/ /\ icache' = Hold(ic, e, p)
              /\ loc' = [loc EXCEPT ![p].pc = "file", ![p].ip = e, ![p].dp = 0]
           \/ /\ Type(ic, e) = "dir"
              /\ icache' = ic
              /\ loc' = [loc EXCEPT ![p] = Put(@, "dp", "idle")]
        /\ UNCHANGED <<disk, files>>

FreeFds(p) == Lowest({d \in Fds : ofile[p][d] = 0})
FreeFiles == Lowest({f \in Files : fref[f] = 0})

(* filealloc and fdalloc, iunlock, end_op, and the file's fields *)
OpenFile(p) ==
    /\ At(p, "file")
    /\ \E f \in FreeFiles, d \in FreeFds(p) :
          /\ fref' = [fref EXCEPT ![f] = 1]
          /\ fip' = [fip EXCEPT ![f] = loc[p].ip]
          /\ ofile' = [ofile EXCEPT ![p][d] = f]
    /\ icache' = Iunlock(icache, loc[p].ip, p)
    /\ loc' = [loc EXCEPT ![p] = Idle]
    /\ UNCHANGED <<disk, cwd>>

(* How open gives up its inode (mutant: it only unlocks it). *)
GiveUpUnlocked(r) == Idle
GiveUp(r) == Put(r, "ip", "idle")

(* Without a file or a descriptor: fileclose, iunlockput(ip), end_op. *)
OpenFails(p) ==
    /\ At(p, "file") /\ (FreeFiles = {} \/ FreeFds(p) = {})
    /\ icache' = Iunlock(icache, loc[p].ip, p)
    /\ loc' = [loc EXCEPT ![p] = GiveUp(@)]
    /\ UNCHANGED <<disk, files>>

----------------------------------------------------------------------------
(* sys_unlink *)

UnlinkLook(p) ==
    LET e == loc[p].dp
        ic == Ilock(icache, e)
        i == Lookup(e, Name(p))
        bad == Name(p) \in {".", ".."} \/ i = 0
    IN  /\ InCall(p, "parent", "unlink") /\ Unlocked(e)
        /\ \/ /\ bad
              /\ icache' = ic
              /\ loc' = [loc EXCEPT ![p] = Put(@, "dp", "idle")]
           \/ /\ ~bad
              /\ \E x \in Slot(i) :
                    /\ icache' = Hold(Iget(ic, x, i), e, p)
                    /\ loc' = [loc EXCEPT ![p].pc = "unlink", ![p].ip = x]
        /\ UNCHANGED <<disk, files>>

IsDirEmpty(i) == \A n \in Names : entry[i][n] = 0

(* ilock(ip) with dp locked; the entry is cleared and dp unlocked, ip is   *)
(* kept locked over iput(dp).  nlink < 1 is a panic.                       *)
Unlink(p) ==
    LET l == loc[p]
        ic == Ilock(icache, l.ip)
        dir == Type(ic, l.ip) = "dir"
        full == dir /\ ~IsDirEmpty(Dir(l.ip))
        parent == Links(icache[l.dp].copy, IF dir THEN -1 ELSE 0)
    IN  /\ At(p, "unlink") /\ Unlocked(l.ip)
        /\ ic[l.ip].copy.nlink >= 1
        /\ \/ /\ full
              /\ icache' = ic
              /\ loc' = [loc EXCEPT ![p] = Put(@, "ip", "putdp")]
              /\ UNCHANGED disk
           \/ /\ ~full
              /\ entry' = Dirlink(l.dp, Name(p), 0)
              /\ dinode' = Iupdate(dinode, l.dp, parent)
              /\ icache' = Hold(Iunlock(Change(ic, l.dp, parent), l.dp, p), l.ip, p)
              /\ loc' = [loc EXCEPT ![p] = Put(@, "dp", "unlinked")]
              /\ UNCHANGED bitmap
        /\ UNCHANGED files

Unlinked(p) ==
    LET e == loc[p].ip
        d == Links(icache[e].copy, -1)
    IN  /\ At(p, "unlinked")
        /\ dinode' = Iupdate(dinode, e, d)
        /\ icache' = Iunlock(Change(icache, e, d), e, p)
        /\ loc' = [loc EXCEPT ![p] = Put(@, "ip", "idle")]
        /\ UNCHANGED <<entry, bitmap, files>>

----------------------------------------------------------------------------
(* sys_link *)

(* The new name is counted first, and then looked for a place. *)
LinkCount(p) ==
    LET e == loc[p].dp
        ic == Ilock(icache, e)
        d == OneMore(ic[e].copy)
    IN  /\ InCall(p, "found", "link") /\ Unlocked(e)
        /\ \/ /\ Type(ic, e) = "dir"
              /\ icache' = ic
              /\ loc' = [loc EXCEPT ![p] = Put(@, "dp", "idle")]
              /\ UNCHANGED disk
           \/ /\ Type(ic, e) # "dir"
              /\ dinode' = Iupdate(dinode, e, d)
              /\ \E s \in Start(p, Change(ic, e, d), loc[p].new) :
                    /\ icache' = s[1]
                    /\ loc' = [loc EXCEPT ![p] =
                                  Namex([@ EXCEPT !.ip = e, !.new = NoPath], s[2], @.new.elems)]
              /\ UNCHANGED <<entry, bitmap>>
        /\ UNCHANGED files

(* ilock(dp), dirlink; the name that is there already is put with dp locked. *)
LinkEnter(p) ==
    LET l == loc[p]
        ic == Ilock(icache, l.dp)
        i == Lookup(l.dp, Name(p))
    IN  /\ InCall(p, "parent", "link") /\ Unlocked(l.dp)
        /\ \/ /\ i # 0
              /\ \E x \in Slot(i) :
                    /\ icache' = Hold(Iget(ic, x, i), l.dp, p)
                    /\ loc' = [loc EXCEPT ![p].pc = "put", ![p].tgt = x, ![p].then = "putdp"]
              /\ UNCHANGED entry
           \/ /\ i = 0
              /\ icache' = ic
              /\ entry' = Dirlink(l.dp, Name(p), Dir(l.ip))
              /\ loc' = [loc EXCEPT ![p] = Put(@, "dp", "putip")]
        /\ UNCHANGED <<dinode, bitmap, files>>

(* bad: *)
LinkBad(p) ==
    LET e == loc[p].ip
        ic == Ilock(icache, e)
        d == Links(ic[e].copy, -1)
    IN  /\ At(p, "linkbad") /\ Unlocked(e)
        /\ dinode' = Iupdate(dinode, e, d)
        /\ icache' = Change(ic, e, d)
        /\ loc' = [loc EXCEPT ![p] = Put(@, "ip", "idle")]
        /\ UNCHANGED <<entry, bitmap, files>>

----------------------------------------------------------------------------
(* sys_chdir, sys_close, sys_dup, sys_read, sys_write *)

(* cwd is read by its own process only. *)
Chdir(p) ==
    LET e == loc[p].dp
        ic == Ilock(icache, e)
    IN  /\ InCall(p, "found", "chdir") /\ Unlocked(e)
        /\ icache' = ic
        /\ \/ /\ Type(ic, e) # "dir"
              /\ loc' = [loc EXCEPT ![p] = Put(@, "dp", "idle")]
              /\ UNCHANGED cwd
           \/ /\ Type(ic, e) = "dir"
              /\ cwd' = [cwd EXCEPT ![p] = e]
              /\ loc' = [loc EXCEPT ![p] = Put([@ EXCEPT !.dp = cwd[p]], "dp", "idle")]
        /\ UNCHANGED <<disk, fref, fip, ofile>>

(* fileclose: after the last close iput, in a transaction of its own *)
Close(p, d) ==
    LET f == ofile[p][d]
    IN  /\ At(p, "idle") /\ f # 0
        /\ ofile' = [ofile EXCEPT ![p][d] = 0]
        /\ fref' = [fref EXCEPT ![f] = @ - 1]
        /\ \/ fref[f] > 1 /\ UNCHANGED loc
           \/ /\ fref[f] = 1
              /\ loc' = [loc EXCEPT ![p] = Put([@ EXCEPT !.ip = fip[f]], "ip", "idle")]
        /\ UNCHANGED <<disk, icache, fip, cwd>>

Filedup(f) == [fref EXCEPT ![f] = @ + 1]
Dup(p, d) ==
    /\ At(p, "idle") /\ ofile[p][d] # 0
    /\ \E x \in FreeFds(p) : ofile' = [ofile EXCEPT ![p][x] = ofile[p][d]]
    /\ fref' = Filedup(ofile[p][d])
    /\ UNCHANGED <<disk, icache, fip, cwd, loc>>

(* fileread and filestat, not in a transaction; ilock panics on a free inode. *)
Read(p, d) ==
    /\ At(p, "idle") /\ ofile[p][d] # 0
    /\ LET e == fip[ofile[p][d]]
       IN  Unlocked(e) /\ icache' = Ilock(icache, e)
    /\ UNCHANGED <<disk, files, loc>>

(* filewrite: bmap allocates the block of a file that has none. *)
Write(p, d) ==
    /\ At(p, "idle") /\ ofile[p][d] # 0
    /\ LET e == fip[ofile[p][d]]
           ic == Ilock(icache, e)
           new(b) == Bmap(ic[e].copy, b)
       IN  /\ Unlocked(e) /\ Type(ic, e) = "file" /\ ic[e].copy.addr = 0
           /\ \E b \in Blocks :
                 /\ Balloc(b) /\ bitmap' = bitmap \cup {b}
                 /\ dinode' = Iupdate(dinode, e, new(b))
                 /\ icache' = Change(ic, e, new(b))
    /\ UNCHANGED <<entry, files, loc>>

----------------------------------------------------------------------------
Next ==
    \E p \in Procs :
        \/ \E r \in Requests : Begin(p, r)
        \/ Walk(p)
        \/ PutTest(p) \/ Trunc(p) \/ Free(p) \/ Invalidate(p) \/ Drop(p)
        \/ CreateLook(p) \/ Exists(p) \/ Ialloc(p) \/ IallocGet(p) \/ Enter(p)
        \/ OpenLock(p) \/ OpenFile(p) \/ OpenFails(p)
        \/ UnlinkLook(p) \/ Unlink(p) \/ Unlinked(p)
        \/ LinkCount(p) \/ LinkEnter(p) \/ LinkBad(p)
        \/ Chdir(p)
        \/ \E d \in Fds : Close(p, d) \/ Dup(p, d) \/ Read(p, d) \/ Write(p, d)

Spec == Init /\ [][Next]_vars

----------------------------------------------------------------------------
(* Properties *)

(* The pointers to entry e: open files, current directories, and the       *)
(* variables of the system calls that are under way.                       *)
Pointers(e) ==
    Cardinality({f \in Files : fref[f] > 0 /\ fip[f] = e})
    + Cardinality({p \in Procs : cwd[p] = e})
    + Cardinality({x \in Procs \X {"dp", "ip", "tgt"} : loc[x[1]][x[2]] = e})

(* No reference is lost or dropped twice, whichever way a system call ends: *)
(* "ip->ref tracks the number of in-memory pointers to the entry", and a    *)
(* file's ref the number of its descriptors.                                *)
RefsCounted ==
    /\ \A e \in Entries : icache[e].ref = Pointers(e)
    /\ \A f \in Files : fref[f] = Cardinality({x \in Procs \X Fds : ofile[x[1]][x[2]] = f})

(* Inode i has a name. *)
HasName(i) == i = ROOTINO \/ \E j \in Inums, n \in Names : entry[j][n] = i

(* Nobody meets a free inode ("ilock: no type"): an inode that a pointer    *)
(* refers to is allocated, but for the pointer of the process that has just *)
(* freed it, and so is the inode of every name, and of the .. of every      *)
(* directory that has a name.  The .. of a directory that was removed under *)
(* a process (sysfile.c:203-204) is not counted any more: this holds as     *)
(* long as processes are Careful, and fails for others (IlockFindsType).    *)
InodeAlive ==
    /\ \A i \in Inums, n \in DirNames :
          entry[i][n] # 0 /\ (n = ".." => HasName(i)) => dinode[entry[i][n]].type # "none"
    /\ \A e \in Entries :
          icache[e].ref > 0 =>
             \/ dinode[icache[e].inum].type # "none"
             \/ \E p \in Procs : loc[p].tgt = e /\ loc[p].pc \in {"invalidate", "drop"}

(* Who looks .. up does so in a directory that has a name, or whose parent  *)
(* has one.                                                                 *)
Careful ==
    \A p \in Procs :
        loc[p].pc \in {"walk", "parent"} /\ Name(p) = ".." =>
            HasName(Dir(loc[p].dp)) \/ HasName(Lookup(loc[p].dp, ".."))

(* What namex has found is an inode in use: ilock does not panic "no type"  *)
(* (fs.c:306).  It fails for a process in a directory that was removed and  *)
(* whose parent was removed after it: ..  leads to the freed parent.        *)
IlockFindsType ==
    \A p \in Procs :
        loc[p].pc \in {"walk", "found"} => dinode[Dir(loc[p].dp)].type # "none"

(* The names of inode i, the root's own included, and for a directory the  *)
(* .. of its subdirectories.                                               *)
NamesOf(i) ==
    Cardinality({x \in Inums \X Names : entry[x[1]][x[2]] = i})
    + Cardinality({n \in Names : entry[i][n] # 0 /\ dinode[entry[i][n]].type = "dir"})
    + (IF i = ROOTINO THEN 1 ELSE 0)

(* A file that still has a name is never freed: link counts a name before   *)
(* it exists, unlink after it has gone, so nlink is never less than the     *)
(* names (and unlink never panics), whoever else is linking or unlinking.   *)
NamesCounted ==
    \A i \in Inums : dinode[i].type # "none" => NamesOf(i) <= dinode[i].nlink

(* A block belongs to one inode, and is marked in the bitmap exactly when   *)
(* it belongs to one; the inode being truncated has given up its block.     *)
BlocksOwned ==
    LET gone == {Dir(loc[p].tgt) : p \in {q \in Procs : At(q, "free")}}
        owner(b) == {i \in Inums \ gone : dinode[i].addr = b}
    IN  \A b \in Blocks : Cardinality(owner(b)) = IF b \in bitmap THEN 1 ELSE 0
============================================================================
