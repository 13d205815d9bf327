------------------------------- MODULE Shell -------------------------------
(***************************************************************************)
(* The shell (sh.c): main's loop and runcmd, with the processes it forks,  *)
(* their descriptors and the pipes between them.                           *)
(*                                                                         *)
(* Of the kernel the model has what the shell's processes can see: fork    *)
(* copies the descriptors, open, dup and pipe take the lowest free one,    *)
(* exit closes all and leaves children to init, wait reaps any child.  Of  *)
(* a program only how it ends: "cat" reads its input to the end and writes *)
(* without bound, "true" does neither.                                     *)
(***************************************************************************)
EXTENDS ShParse
LOCAL INSTANCE SequencesExt

CONSTANTS NPROC,      \* processes besides init
          NOFILE,     \* descriptors of a process
          Input,      \* the lines a user may type
          MaxLines,   \* lines typed in one behaviour
          MaxFails    \* calls that fail in one behaviour

ASSUME ShellAssumption ==
    /\ NPROC \in Nat \ {0} /\ NOFILE \in Nat /\ NOFILE >= 5
    /\ MAXARGS \in Nat \ {0} /\ MaxLines \in Nat /\ MaxFails \in Nat

InitProc == 0
Sh == 1
Pids == 1 .. NPROC
Closed == <<"closed">>
Console == <<"console">>

VARIABLES proc,      \* the process in each slot
          line,      \* the line the shell has read
          tree,      \* its command
          started,   \* the programs (by their word's place) that have been run
          typed,     \* lines read so far
          fails      \* calls failed so far

vars == <<proc, line, tree, started, typed, fails>>

NoCmd == execcmd(<<>>)

(* init, or main's first loop, has opened 0, 1 and 2. *)
StdFds == [f \in 0 .. NOFILE - 1 |-> IF f <= 2 THEN Console ELSE Closed]
Process(pc, cmd, fds, parent) == [pc |-> pc, cmd |-> cmd, fds |-> fds, parent |-> parent]
NoProc == Process("free", NoCmd, [f \in 0 .. NOFILE - 1 |-> Closed], InitProc)

Init ==
    /\ proc = [p \in Pids |-> IF p = Sh THEN Process("getcmd", NoCmd, StdFds, InitProc) ELSE NoProc]
    /\ line = <<>> /\ tree = NoCmd
    /\ started = {} /\ typed = 0 /\ fails = 0

----------------------------------------------------------------------------
(* The kernel. *)
close(fds, f) == [fds EXCEPT ![f] = Closed]
fdalloc(fds, o) == [fds EXCEPT ![CHOOSE f \in DOMAIN fds :
                        fds[f] = Closed /\ \A g \in 0 .. f - 1 : fds[g] # Closed] = o]
FreePids == {p \in Pids : proc[p].pc = "free"}
Children(p) == {c \in Pids : proc[c].pc # "free" /\ proc[c].parent = p}
Zombies == {p \in Pids : proc[p].pc = "zombie"}
Holds(p, o) == \E f \in DOMAIN proc[p].fds : proc[p].fds[f] = o
Held(o) == \E p \in Pids : Holds(p, o)

(* p goes on as r; a child in the lowest free slot, as c. *)
Becomes(p, r) == proc' = [proc EXCEPT ![p] = r]
Forks(p, r, c) ==
    /\ FreePids # {}
    /\ LET np == CHOOSE q \in FreePids : \A x \in FreePids : q <= x
       IN  proc' = [proc EXCEPT ![p] = r, ![np] = c]

(* init reaps what it inherits. *)
Exits(p) ==
    proc' = [q \in Pids |->
        IF q = p THEN IF proc[p].parent = InitProc THEN NoProc
                      ELSE Process("zombie", NoCmd, NoProc.fds, proc[p].parent)
        ELSE IF proc[q].pc # "free" /\ proc[q].parent = p
             THEN IF q \in Zombies THEN NoProc ELSE [proc[q] EXCEPT !.parent = InitProc]
             ELSE proc[q]]

(* wait() returns: a child is reaped, or there is none. *)
WaitReturns(p, r) ==
    \/ \E z \in Children(p) \cap Zombies : proc' = [proc EXCEPT ![p] = r, ![z] = NoProc]
    \/ Children(p) = {} /\ Becomes(p, r)

----------------------------------------------------------------------------
At(p, pc) == proc[p].pc = pc
Goto(p, pc) == [proc[p] EXCEPT !.pc = pc]
Running(p, type) == At(p, "runcmd") /\ proc[p].cmd.type = type

(* A fork child of p that will run cmd. *)
Child(p, pc, cmd) == Process(pc, cmd, proc[p].fds, p)

(* getcmd reads a line; cd is for the shell itself. *)
Getcmd ==
    /\ At(Sh, "getcmd") /\ typed < MaxLines
    /\ \E s \in Input : /\ line' = s
                        /\ Becomes(Sh, Goto(Sh, IF IsPrefix(<<"c", "d", " ">>, s)
                                                THEN "chdir" ELSE "fork"))
    /\ typed' = typed + 1
    /\ tree' = NoCmd /\ started' = {}
    /\ UNCHANGED fails

Chdir ==
    /\ At(Sh, "chdir")
    /\ Becomes(Sh, Goto(Sh, "getcmd"))
    /\ UNCHANGED <<line, tree, started, typed, fails>>

GetcmdEof ==
    /\ At(Sh, "getcmd") /\ typed = MaxLines
    /\ Exits(Sh)
    /\ UNCHANGED <<line, tree, started, typed, fails>>

MainFork ==
    /\ At(Sh, "fork")
    /\ Forks(Sh, Goto(Sh, "wait"), Child(Sh, "parse", NoCmd))
    /\ UNCHANGED <<line, tree, started, typed, fails>>

MainWait ==
    /\ At(Sh, "wait")
    /\ WaitReturns(Sh, Goto(Sh, "getcmd"))
    /\ UNCHANGED <<line, tree, started, typed, fails>>

(* What parsecmd makes of every line. *)
Parses == {[line |-> s, res |-> parsecmd(s)] : s \in Input}

(* runcmd(parsecmd(buf)); a syntax error ends the child. *)
Parse(p) ==
    /\ At(p, "parse")
    /\ \E x \in Parses :
        /\ x.line = line
        /\ IF x.res.err THEN Exits(p) /\ UNCHANGED tree
           ELSE /\ Becomes(p, [proc[p] EXCEPT !.pc = "runcmd", !.cmd = x.res.cmd])
                /\ tree' = x.res.cmd
    /\ UNCHANGED <<line, started, typed, fails>>

(* EXEC: the program replaces the process. *)
Exec(p) ==
    /\ Running(p, "EXEC")
    /\ IF proc[p].cmd.argv = <<>> THEN Exits(p) /\ UNCHANGED started
       ELSE /\ \E prog \in {"cat", "true"} : Becomes(p, Goto(p, prog))
            /\ started' = started \cup {Head(proc[p].cmd.argv)}
    /\ UNCHANGED <<line, tree, typed, fails>>

(* REDIR: the descriptor is closed and open takes the lowest. *)
Redir(p) ==
    LET c == proc[p].cmd IN
    /\ Running(p, "REDIR")
    /\ Becomes(p, [proc[p] EXCEPT !.cmd = c.cmd,
                                  !.fds = fdalloc(close(@, c.fd), <<"file", c.file>>)])
    /\ UNCHANGED <<line, tree, started, typed, fails>>

ListFork(p) ==
    /\ Running(p, "LIST")
    /\ Forks(p, Goto(p, "listwait"), Child(p, "runcmd", proc[p].cmd.left))
    /\ UNCHANGED <<line, tree, started, typed, fails>>

(* What follows the left side of a list (mutant: it is not waited for). *)
ListGoesOn(p) == Becomes(p, [proc[p] EXCEPT !.pc = "runcmd", !.cmd = proc[p].cmd.right])
ListWaits(p) == WaitReturns(p, [proc[p] EXCEPT !.pc = "runcmd", !.cmd = proc[p].cmd.right])

ListWait(p) ==
    /\ At(p, "listwait")
    /\ ListWaits(p)
    /\ UNCHANGED <<line, tree, started, typed, fails>>

(* PIPE: pipe(p), then fork1 for the left side. *)
PipeMake(p) ==
    LET c == proc[p].cmd IN
    /\ Running(p, "PIPE")
    /\ Becomes(p, [proc[p] EXCEPT !.pc = "pipeleft",
                                  !.fds = fdalloc(fdalloc(@, <<"r", c.at>>), <<"w", c.at>>)])
    /\ UNCHANGED <<line, tree, started, typed, fails>>

PipeForkLeft(p) ==
    /\ At(p, "pipeleft")
    /\ Forks(p, Goto(p, "piperight"), Child(p, "left", proc[p].cmd))
    /\ UNCHANGED <<line, tree, started, typed, fails>>

PipeForkRight(p) ==
    /\ At(p, "piperight")
    /\ Forks(p, Goto(p, "pipeclose"), Child(p, "right", proc[p].cmd))
    /\ UNCHANGED <<line, tree, started, typed, fails>>

(* The two ends of the pipe at c, closed. *)
FdOf(fds, o) == {f \in DOMAIN fds : fds[f] = o /\ f > 2}
CloseEnds(fds, c) ==
    [f \in DOMAIN fds |-> IF f \in FdOf(fds, <<"r", c.at>>) \cup FdOf(fds, <<"w", c.at>>)
                          THEN Closed ELSE fds[f]]

(* The descriptors of a side: its end of the pipe in place of 0 or 1, and  *)
(* no other (mutant: dup comes before close, and finds another place).     *)
DupFirst(fds, c, f, end) == CloseEnds(close(fdalloc(fds, <<end, c.at>>), f), c)
Plumb(fds, c, f, end) == CloseEnds(fdalloc(close(fds, f), <<end, c.at>>), c)

PipeLeft(p) ==
    LET c == proc[p].cmd IN
    /\ At(p, "left")
    /\ Becomes(p, [proc[p] EXCEPT !.pc = "runcmd", !.cmd = c.left, !.fds = Plumb(@, c, 1, "w")])
    /\ UNCHANGED <<line, tree, started, typed, fails>>

PipeRight(p) ==
    LET c == proc[p].cmd IN
    /\ At(p, "right")
    /\ Becomes(p, [proc[p] EXCEPT !.pc = "runcmd", !.cmd = c.right, !.fds = Plumb(@, c, 0, "r")])
    /\ UNCHANGED <<line, tree, started, typed, fails>>

(* The parent closes its ends and waits twice (mutant: it keeps the write  *)
(* end while it waits).                                                    *)
CloseReadEnd(fds, c) ==
    [f \in DOMAIN fds |-> IF f \in FdOf(fds, <<"r", c.at>>) THEN Closed ELSE fds[f]]
ParentEnds(fds, c) == CloseEnds(fds, c)

PipeClose(p) ==
    /\ At(p, "pipeclose")
    /\ Becomes(p, [proc[p] EXCEPT !.pc = "pipewait1", !.fds = ParentEnds(@, proc[p].cmd)])
    /\ UNCHANGED <<line, tree, started, typed, fails>>

PipeWait(p) ==
    /\ \/ At(p, "pipewait1") /\ WaitReturns(p, Goto(p, "pipewait2"))
       \/ At(p, "pipewait2") /\ WaitReturns(p, Goto(p, "exit"))
    /\ UNCHANGED <<line, tree, started, typed, fails>>

(* BACK: the child is left to init. *)
BackFork(p) ==
    /\ Running(p, "BACK")
    /\ Forks(p, Goto(p, "exit"), Child(p, "runcmd", proc[p].cmd.cmd))
    /\ UNCHANGED <<line, tree, started, typed, fails>>

(* The exit() at the end of runcmd. *)
Exit(p) ==
    /\ At(p, "exit")
    /\ Exits(p)
    /\ UNCHANGED <<line, tree, started, typed, fails>>

(* exec, open or pipe fails, or fork1 panics: the process exits, and the   *)
(* shell itself when it was the one.                                       *)
ForksNext(p) == \/ proc[p].pc \in {"fork", "pipeleft", "piperight"}
                \/ Running(p, "LIST") \/ Running(p, "BACK")
Fails(p) ==
    /\ \/ ForksNext(p) /\ (fails < MaxFails \/ FreePids = {})
       \/ fails < MaxFails /\ (Running(p, "EXEC") \/ Running(p, "REDIR") \/ Running(p, "PIPE"))
    /\ Exits(p)
    /\ fails' = fails + 1
    /\ UNCHANGED <<line, tree, started, typed>>

(* A program ends.  cat has seen the end of its input, and what it wrote   *)
(* has been read or has nobody left to read it.                            *)
Reads(p, at) == At(p, "cat") /\ proc[p].fds[0] = <<"r", at>>
Done(p) ==
    LET in == proc[p].fds[0]
        out == proc[p].fds[1]
    IN  \/ At(p, "true")
        \/ /\ At(p, "cat")
           /\ in[1] = "r" => ~Held(<<"w", in[2]>>)
           /\ out[1] = "w" => ~Held(<<"r", out[2]>>) \/ \E q \in Pids : Reads(q, out[2])
ProgramEnds(p) ==
    /\ Done(p)
    /\ Exits(p)
    /\ UNCHANGED <<line, tree, started, typed, fails>>

Step(p) ==
    \/ Parse(p) \/ Exec(p) \/ Redir(p)
    \/ ListFork(p) \/ ListWait(p)
    \/ PipeMake(p) \/ PipeForkLeft(p) \/ PipeForkRight(p)
    \/ PipeLeft(p) \/ PipeRight(p) \/ PipeClose(p) \/ PipeWait(p)
    \/ BackFork(p) \/ Exit(p) \/ Fails(p) \/ ProgramEnds(p)

Next ==
    \/ Getcmd \/ Chdir \/ GetcmdEof \/ MainFork \/ MainWait
    \/ \E p \in Pids : Step(p)

Spec == Init /\ [][Next]_vars

(* While some process can run, the scheduler runs one. *)
FairSpec == Spec /\ WF_vars(Next)

----------------------------------------------------------------------------
(* Programs of a command, and those its caller waits for. *)
RECURSIVE Programs(_)
Programs(c) ==
    CASE c.type = "EXEC" -> IF c.argv = <<>> THEN {} ELSE {Head(c.argv)}
      [] c.type \in {"REDIR", "BACK"} -> Programs(c.cmd)
      [] OTHER -> Programs(c.left) \cup Programs(c.right)

RECURSIVE Foreground(_)
Foreground(c) ==
    CASE c.type = "BACK" -> {}
      [] c.type = "EXEC" -> Programs(c)
      [] c.type = "REDIR" -> Foreground(c.cmd)
      [] OTHER -> Foreground(c.left) \cup Foreground(c.right)

(* Pairs of which the first must have ended when the second starts. *)
RECURSIVE Before(_)
Before(c) ==
    CASE c.type = "EXEC" -> {}
      [] c.type \in {"REDIR", "BACK"} -> Before(c.cmd)
      [] OTHER -> Before(c.left) \cup Before(c.right)
                  \cup (IF c.type = "LIST" THEN Foreground(c.left) \X Programs(c.right) ELSE {})

(* What a process runs, or has still to run itself. *)
Todo(p) ==
    LET c == proc[p].cmd IN
    CASE proc[p].pc \in {"runcmd", "pipeleft", "cat", "true"} -> Programs(c)
      [] proc[p].pc = "left" -> Programs(c.left)
      [] proc[p].pc \in {"right", "piperight", "listwait"} -> Programs(c.right)
      [] OTHER -> {}

(* The parser finds the one tree the grammar gives the line, and refuses a *)
(* line that has none (sh.c:314 parsecmd).                                 *)
ParsesGrammar ==
    [][\A p \in Pids : Parse(p) =>
         Derivations(line) = IF parsecmd(line).err THEN {} ELSE {tree'}]_vars

(* With no failed call a program after ";" starts, and the shell prompts,  *)
(* only when no foreground program before it runs or is still to run,      *)
(* however deep in pipelines and blocks it is and whoever waits for it.    *)
Sequenced ==
    fails = 0 =>
        /\ \A b \in Before(tree) : b[2] \in started => \A p \in Pids : b[1] \notin Todo(p)
        /\ At(Sh, "getcmd") => \A p \in Pids : Todo(p) \cap Foreground(tree) = {}

(* Input and output of the programs of c, given c's own. *)
RECURSIVE Wires(_, _, _)
Wires(c, in, out) ==
    CASE c.type = "EXEC" -> {<<a, in, out>> : a \in Programs(c)}
      [] c.type = "REDIR" -> IF c.fd = 0 THEN Wires(c.cmd, <<"file", c.file>>, out)
                             ELSE Wires(c.cmd, in, <<"file", c.file>>)
      [] c.type = "PIPE" -> Wires(c.left, in, <<"w", c.at>>) \cup Wires(c.right, <<"r", c.at>>, out)
      [] c.type = "LIST" -> Wires(c.left, in, out) \cup Wires(c.right, in, out)
      [] c.type = "BACK" -> Wires(c.cmd, in, out)

(* A program runs with the input and the output its place in the command   *)
(* gives it, the console as 2, and no other descriptor: nobody keeps a     *)
(* pipe open that is not his.                                              *)
Wired ==
    \A p \in Pids : proc[p].pc \in {"cat", "true"} /\ typed = 1 =>
        \E w \in Wires(tree, Console, Console) :
            /\ w[1] \in Programs(proc[p].cmd)
            /\ proc[p].fds = [f \in 0 .. NOFILE - 1 |->
                CASE f = 0 -> w[2] [] f = 1 -> w[3] [] f = 2 -> Console [] OTHER -> Closed]

(* The shell always comes back to its prompt or ends: no pipeline waits    *)
(* for an end of file that cannot come.                                    *)
PromptsAgain == []<>(proc[Sh].pc \in {"getcmd", "free"})
=============================================================================
