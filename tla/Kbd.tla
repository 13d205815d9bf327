-------------------------------- MODULE Kbd --------------------------------
(***************************************************************************)
(* The keyboard driver (kbd.c, kbd.h): one scan code at a time, with the   *)
(* modifiers that hold as a set.  Three keys stand for all that have a     *)
(* character: A, U and Enter.                                              *)
(***************************************************************************)
EXTENDS Integers

KeyA == \h1E
KeyU == \h16
Enter == \h1C
Escape == \hE0

(* Modifiers by scan code, and those that a key toggles. *)
shiftcode(d) ==
    CASE d \in {\h1D, \h9D} -> {"CTL"}
      [] d \in {\h2A, \h36} -> {"SHIFT"}
      [] d \in {\h38, \hB8} -> {"ALT"}
      [] OTHER -> {}
togglecode(d) ==
    CASE d = \h3A -> {"CAPSLOCK"}
      [] d = \h45 -> {"NUMLOCK"}
      [] d = \h46 -> {"SCROLLLOCK"}
      [] OTHER -> {}

normalmap(d) == CASE d = KeyA -> "a" [] d = KeyU -> "u" [] d = Enter -> "nl" [] OTHER -> "0"
shiftmap(d) == CASE d = KeyA -> "A" [] d = KeyU -> "U" [] d = Enter -> "nl" [] OTHER -> "0"
ctlmap(d) == CASE d = KeyA -> "^A" [] d = KeyU -> "^U" [] d = Enter -> "cr" [] OTHER -> "0"

charcode(shift, d) ==
    IF "CTL" \in shift THEN ctlmap(d)
    ELSE IF "SHIFT" \in shift THEN shiftmap(d) ELSE normalmap(d)

(* Caps lock exchanges the cases. *)
Swapcase(c) == CASE c = "a" -> "A" [] c = "u" -> "U" [] c = "A" -> "a" [] c = "U" -> "u"
                 [] OTHER -> c

(* The code a released key is known by (mutant: the release bit stays). *)
ReleasedRaw(shift, d) == d
ReleasedKey(shift, d) == IF "E0ESC" \in shift THEN d ELSE d % \h80

(* What a scan code does to the modifiers, and the character it gives; "0" *)
(* is none.                                                                *)
kbdgetc(shift, data) ==
    IF data = Escape THEN [shift |-> shift \cup {"E0ESC"}, c |-> "0"]
    ELSE IF data >= \h80
    THEN [shift |-> shift \ (shiftcode(ReleasedKey(shift, data)) \cup {"E0ESC"}), c |-> "0"]
    ELSE LET d == IF "E0ESC" \in shift THEN data + \h80 ELSE data
             on == (shift \ {"E0ESC"}) \cup shiftcode(d)
             t == togglecode(d)
             s == (on \ t) \cup (t \ on)
             c == charcode(s, d)
         IN  [shift |-> s, c |-> IF "CAPSLOCK" \in s THEN Swapcase(c) ELSE c]
=============================================================================
