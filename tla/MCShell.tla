------------------------------ MODULE MCShell ------------------------------
(* Shell for TLC: every line of up to three characters (of which one is a  *)
(* word), and some longer ones that nest pipelines, lists and blocks.      *)
EXTENDS Shell

Alphabet == {"a", "<", ">", "|", ";", "&", "(", ")"}

Typed ==
    UNION {[1 .. n -> Alphabet] : n \in 0 .. 3}
    \cup {<<"a", "|", "a", "|", "a">>, <<"a", ";", "a", "|", "a">>,
          <<"(", "a", "|", "a", ")", ";", "a">>, <<"(", "a", ";", "a", ")", "|", "a">>,
          <<"a", "|", "(", "a", ";", "a", ")">>, <<"a", "&", ";", "a">>,
          <<"(", "a", "|", "a", ")", "&", ";", "a">>, <<"a", "<", "a", ">", "a">>,
          <<"a", ">", "a", ">", ">", "a">>, <<"a", "<", "a", "|", "a", ">", "a">>,
          <<"a", " ", "a">>, <<"a", " ", "a", " ", "a">>, <<"c", "d", " ", "a">>}
=============================================================================
