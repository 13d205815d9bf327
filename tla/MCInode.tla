------------------------------ MODULE MCInode ------------------------------
(* Model checking of Inode: the system calls of the runs. *)
EXTENDS Inode, TLC

Abs(s) == [abs |-> TRUE, elems |-> s]
Rel(s) == [abs |-> FALSE, elems |-> s]
Call(c, s) == [call |-> c, path |-> s, new |-> NoPath]
Link(s, t) == [call |-> "link", path |-> s, new |-> t]

(* What the processes call: the file or directory a in the current         *)
(* directory, which is / or /a or, while a directory lasts, /a/a; /a; and  *)
(* .. .                                                                    *)
MCRequests ==
    {Call("creat", Rel(<<"a">>)), Call("mkdir", Rel(<<"a">>)), Call("chdir", Rel(<<"a">>)),
     Call("unlink", Abs(<<"a", "a">>)), Call("unlink", Abs(<<"a">>)), Call("mknod", Rel(<<>>)),
     Call("open", Abs(<<"a">>)), Call("open", Rel(<<"..">>)), Link(Abs(<<"a">>), Rel(<<"a">>))}

(* States are one if they differ only in the slots of the cache that hold  *)
(* the inodes, in the numbers of descriptors, or in what iget, ilock and   *)
(* filealloc will overwrite.                                               *)
View ==
    LET num(e) == IF e = 0 THEN 0 ELSE icache[e].inum
        seen(e) == IF icache[e].valid THEN icache[e] ELSE [icache[e] EXCEPT !.copy = NoInode]
    IN  <<disk,
          {seen(e) : e \in {x \in Entries : icache[x].ref > 0}},
          fref, [f \in Files |-> IF fref[f] = 0 THEN 0 ELSE num(fip[f])],
          [p \in Procs |-> [f \in Files |-> Cardinality({d \in Fds : ofile[p][d] = f})]],
          [p \in Procs |-> num(cwd[p])],
          [p \in Procs |-> [loc[p] EXCEPT !.dp = num(@), !.ip = num(@), !.tgt = num(@)]]>>

Symmetry ==
    Permutations(Procs) \cup Permutations(Inums \ {ROOTINO})
                        \cup Permutations(Blocks \ {RootBlock})
=============================================================================
