----------------------------- MODULE MCConsole -----------------------------
(* Console for TLC: two processes and a serial line, one process that may  *)
(* be killed, or a keyboard that nobody reads.                             *)
EXTENDS Console, TLC

Setup(procs, victims, uart, serial) ==
    [procs |-> procs, victims |-> victims, uart |-> uart, serial |-> serial]
MCSetups ==
    {Setup(Procs, {}, TRUE, {"a", "cr", "^D", "^U"}), Setup({}, {}, FALSE, {})}
    \cup {Setup({p}, {p}, TRUE, {"a", "cr", "^D", "^H", "^U", "^P"}) : p \in Procs}

(* States that differ only in what is never read again are one: cells      *)
(* outside the buffer's window, intena where interrupts are on, and the    *)
(* intena a process saved before it came back.  The cursor, on which       *)
(* nothing else depends, counts where there is at most one process.        *)
View ==
    <<[c \in CPUs |-> IF cpu[c].ncli = 0 THEN [cpu[c] EXCEPT !.intena = FALSE] ELSE cpu[c]],
      lock, cur, sch,
      [p \in Procs |-> IF proc[p].pc \in {"yielded", "slept"} THEN proc[p]
                       ELSE [proc[p] EXCEPT !.intena = FALSE]],
      hdl, Window(input, input.r, input.w), Window(input, input.w, input.e), input.r,
      setup, dev, shift, held, IF setup.procs = Procs THEN 0 ELSE pos, panicked>>

Symmetry == Permutations(Procs)

Key(make, break, mod) == [make |-> make, break |-> break, mod |-> mod]
MCKeys == {Key(<<\h2A>>, <<\hAA>>, {"SHIFT"}), Key(<<\h36>>, <<\hB6>>, {"SHIFT"}),
           Key(<<Escape, \h1D>>, <<Escape, \h9D>>, {"CTL"}), Key(<<\h3A>>, <<\hBA>>, {}),
           Key(<<KeyA>>, <<\h9E>>, {})}
=============================================================================
