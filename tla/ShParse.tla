------------------------------ MODULE ShParse ------------------------------
(***************************************************************************)
(* The parser of the shell (sh.c): recursive descent over the characters   *)
(* of a line.  A word is known by where it starts; what it spells matters  *)
(* to nobody but exec and open, so one letter stands for all of them.      *)
(* Below it, the grammar the parser is meant for, as the set of trees that *)
(* derive a sequence of tokens.                                            *)
(***************************************************************************)
EXTENDS Integers, Sequences, FiniteSets
LOCAL INSTANCE SequencesExt

CONSTANT MAXARGS      \* size of argv; its last entry is the terminator

(* Commands; at is where the word or the operator stands in the line. *)
execcmd(argv) == [type |-> "EXEC", argv |-> argv]
redircmd(c, r) == [type |-> "REDIR", cmd |-> c, fd |-> r.fd, file |-> r.file]
pipecmd(l, r, at) == [type |-> "PIPE", left |-> l, right |-> r, at |-> at]
listcmd(l, r) == [type |-> "LIST", left |-> l, right |-> r]
backcmd(c) == [type |-> "BACK", cmd |-> c]

Char(s, i) == IF i \in DOMAIN s THEN s[i] ELSE "nul"
Whitespace == {" "}
Symbols == {"<", "|", ">", "&", ";", "(", ")"}

(* The first position from i on whose character is not in C. *)
Past(s, i, C) == CHOOSE j \in i .. Len(s) + 1 :
                    Char(s, j) \notin C /\ \A k \in i .. j - 1 : Char(s, k) \in C

(* A token: its kind, where it starts and where the next one may start. *)
gettoken(s, i) ==
    LET q == Past(s, i, Whitespace)
        c == Char(s, q)
        append == c = ">" /\ Char(s, q + 1) = ">"
        letters == {Char(s, k) : k \in DOMAIN s} \ (Whitespace \cup Symbols)
        eq == IF c = "nul" THEN q
              ELSE IF append THEN q + 2
              ELSE IF c \in Symbols THEN q + 1 ELSE Past(s, q, letters)
    IN  [tok |-> IF append THEN "+" ELSE IF c \in Symbols \cup {"nul"} THEN c ELSE "a",
         q |-> q, i |-> Past(s, eq, Whitespace)]

peek(s, i, toks) == Char(s, Past(s, i, Whitespace)) \in toks

Parsed(c, i) == [cmd |-> c, i |-> i, err |-> FALSE]
Panic == [cmd |-> execcmd(<<>>), i |-> 0, err |-> TRUE]

(* "<" opens on descriptor 0, ">" and ">>" alike on 1. *)
Redirection(tok, file) == [fd |-> IF tok = "<" THEN 0 ELSE 1, file |-> file]

(* Redirections in the order they are read; a later one is the outer node  *)
(* (mutant: the inner one).                                                *)
WrapReversed(c, rs) == FoldRight(LAMBDA r, d : redircmd(d, r), rs, c)
Wrap(c, rs) == FoldLeft(redircmd, c, rs)

(* Parsing goes on with a result, unless it has failed. *)
Then(r, F(_)) == IF r.err THEN Panic ELSE F(r)

(* The next token, skipped. *)
Skip(s, i) == gettoken(s, i).i

RECURSIVE parseredirs(_, _, _)
RedirectTo(s, rs, tok, f) ==
    IF f.tok # "a" THEN Panic ELSE parseredirs(s, f.i, Append(rs, Redirection(tok, f.q)))
parseredirs(s, i, rs) ==
    IF ~peek(s, i, {"<", ">"}) THEN [rs |-> rs, i |-> i, err |-> FALSE]
    ELSE RedirectTo(s, rs, gettoken(s, i).tok, gettoken(s, Skip(s, i)))

(* The loop of parseexec. *)
RECURSIVE parseargs(_, _, _, _)
Argument(s, t, argv, rs) ==
    IF t.tok = "nul" THEN Parsed(Wrap(execcmd(argv), rs), t.i)
    ELSE IF t.tok # "a" \/ Len(argv) + 1 >= MAXARGS THEN Panic
    ELSE Then(parseredirs(s, t.i, rs), LAMBDA r : parseargs(s, r.i, Append(argv, t.q), r.rs))
parseargs(s, i, argv, rs) ==
    IF peek(s, i, {"|", ")", "&", ";"}) THEN Parsed(Wrap(execcmd(argv), rs), i)
    ELSE Argument(s, gettoken(s, i), argv, rs)

RECURSIVE parseline(_, _)
Close(s, l) ==
    IF ~peek(s, l.i, {")"}) THEN Panic
    ELSE Then(parseredirs(s, Skip(s, l.i), <<>>), LAMBDA r : Parsed(Wrap(l.cmd, r.rs), r.i))
parseblock(s, i) == Then(parseline(s, Skip(s, i)), LAMBDA l : Close(s, l))

parseexec(s, i) ==
    IF peek(s, i, {"("}) THEN parseblock(s, i)
    ELSE Then(parseredirs(s, i, <<>>), LAMBDA r : parseargs(s, r.i, <<>>, r.rs))

RECURSIVE parsepipe(_, _)
PipeTo(s, l, t) == Then(parsepipe(s, t.i), LAMBDA r : Parsed(pipecmd(l.cmd, r.cmd, t.q), r.i))
parsepipe(s, i) ==
    Then(parseexec(s, i),
         LAMBDA l : IF peek(s, l.i, {"|"}) THEN PipeTo(s, l, gettoken(s, l.i)) ELSE l)

RECURSIVE parseback(_, _)
parseback(s, p) ==
    IF peek(s, p.i, {"&"}) THEN parseback(s, Parsed(backcmd(p.cmd), Skip(s, p.i))) ELSE p

ListOf(s, b) ==
    IF peek(s, b.i, {";"})
    THEN Then(parseline(s, Skip(s, b.i)), LAMBDA r : Parsed(listcmd(b.cmd, r.cmd), r.i))
    ELSE b
parseline(s, i) == Then(parsepipe(s, i), LAMBDA p : ListOf(s, parseback(s, p)))

(* parsecmd panics when something is left over. *)
parsecmd(s) ==
    Then(parseline(s, 1),
         LAMBDA l : IF Past(s, l.i, Whitespace) <= Len(s) THEN Panic ELSE l)

----------------------------------------------------------------------------
(* The grammar.
     line ::= pipe "&"* [";" line]      pipe ::= exec ["|" pipe]
     exec ::= "(" line ")" redir*  |  (word | redir)*     redir ::= op word  *)
RECURSIVE Lex(_, _)
Lex(s, i) ==
    LET t == gettoken(s, i) IN
    IF t.tok = "nul" THEN <<>> ELSE <<[tok |-> t.tok, q |-> t.q]>> \o Lex(s, t.i)

Ops == {"<", ">", "+"}

(* Words and redirections in any order, each operator before its file. *)
IsSimple(t) ==
    \A i \in DOMAIN t : \/ t[i].tok = "a"
                        \/ /\ t[i].tok \in Ops
                           /\ i < Len(t) /\ t[i + 1].tok = "a"

(* Indices of t in increasing order that satisfy P. *)
Where(t, P(_)) == SelectSeq([i \in DOMAIN t |-> i], P)

Redirs(t) == LET w == Where(t, LAMBDA i : t[i].tok \in Ops)
             IN  [k \in DOMAIN w |-> [fd |-> IF t[w[k]].tok = "<" THEN 0 ELSE 1,
                                      file |-> t[w[k] + 1].q]]

RECURSIVE Nest(_, _)
Nest(c, rs) == IF rs = <<>> THEN c
               ELSE [type |-> "REDIR", cmd |-> Nest(c, Front(rs)),
                     fd |-> Last(rs).fd, file |-> Last(rs).file]

Args(t) == LET w == Where(t, LAMBDA i : t[i].tok = "a" /\ (i = 1 \/ t[i - 1].tok \notin Ops))
           IN  [k \in DOMAIN w |-> t[w[k]].q]

RECURSIVE Lines(_)
Blocks(t) ==
    {Nest(c, Redirs(SubSeq(t, j + 1, Len(t)))) : <<j, c>> \in UNION
        {{j} \X Lines(SubSeq(t, 2, j - 1)) :
            j \in {j \in 2 .. Len(t) :
                     /\ t[1].tok = "(" /\ t[j].tok = ")"
                     /\ Args(SubSeq(t, j + 1, Len(t))) = <<>>
                     /\ IsSimple(SubSeq(t, j + 1, Len(t)))}}}
Execs(t) == Blocks(t) \cup (IF IsSimple(t) /\ Len(Args(t)) < MAXARGS
                            THEN {Nest(execcmd(Args(t)), Redirs(t))} ELSE {})

RECURSIVE Pipes(_)
Pipes(t) ==
    Execs(t) \cup UNION
        {{pipecmd(l, r, t[i].q) : l \in Execs(SubSeq(t, 1, i - 1)),
                                  r \in Pipes(SubSeq(t, i + 1, Len(t)))} :
            i \in {i \in DOMAIN t : t[i].tok = "|"}}

RECURSIVE Backs(_)
Backs(t) == Pipes(t) \cup (IF t # <<>> /\ Last(t).tok = "&"
                           THEN {backcmd(c) : c \in Backs(Front(t))} ELSE {})

Lines(t) ==
    Backs(t) \cup UNION
        {{listcmd(l, r) : l \in Backs(SubSeq(t, 1, i - 1)), r \in Lines(SubSeq(t, i + 1, Len(t)))} :
            i \in {i \in DOMAIN t : t[i].tok = ";"}}

(* The trees of a line: the parser must find the only one, or fail. *)
Derivations(s) == Lines(Lex(s, 1))
=============================================================================
