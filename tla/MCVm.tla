-------------------------------- MODULE MCVm --------------------------------
(* Vm for TLC: what sbrk and exec are called with.  PGSIZE is 2 units.     *)
EXTENDS Vm

Sbrk == {3, -2}

Seg(va, mem, file, sh) == [vaddr |-> va, memsz |-> mem, filesz |-> file, short |-> sh]
Image(s) == [found |-> TRUE, elf |-> TRUE, segs |-> s]

(* One good program, and one for each way to fail on the way. *)
Programs ==
    {Image(<<Seg(0, 1, 1, FALSE)>>),
     Image(<<Seg(0, 3, 1, FALSE), Seg(2, 2, 2, TRUE)>>),
     Image(<<Seg(0, 1, 1, FALSE), Seg(1, 1, 1, FALSE)>>),
     Image(<<Seg(0, 1, 2, FALSE)>>),
     Image(<<Seg(0, 0, 0, FALSE)>>),
     Image(<<Seg(12, 6, 0, FALSE)>>),
     [found |-> FALSE, elf |-> FALSE, segs |-> <<>>]}

(* Pages are interchangeable: a state counts as seen when one with the     *)
(* same entries present, the same entries shared and the same numbers of   *)
(* free, lost and used pages has been.                                     *)
Shape(d) == <<d.frame # 0, [i \in DOMAIN d.tab |-> d.tab[i] # 0],
              [v \in Pages |-> <<d.pte[v].pa # 0, d.pte[v].pa \in SharedPages, d.pte[v].u>>]>>

View ==
    <<Cardinality(free), Cardinality(lost),
      Cardinality(UNION ({FramesOf(pgdir[p]) : p \in Slots}
                         \cup {FramesOf(loc[p].dir) : p \in Slots}
                         \cup {{kstack[p], loc[p].mem} : p \in Slots})),
      [p \in Slots |-> <<state[p], parent[p], kstack[p] # 0, sz[p], shmpgs[p], Shape(pgdir[p]),
                         loc[p].pc, loc[p].sz, loc[p].mem # 0, loc[p].child, Shape(loc[p].dir)>>],
      [k \in DOMAIN shmtable |-> <<shmtable[k].name, shmtable[k].ref, shmtable[k].pa # 0>>],
      broken>>
=============================================================================
