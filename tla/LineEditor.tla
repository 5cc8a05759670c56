----------------------------- MODULE LineEditor -----------------------------
(***************************************************************************)
(* What the shell's input promises, without buffer, index or terminator: a *)
(* line of at most Limit characters that grows and shrinks at its end, and *)
(* that is handed over, as it stands, when it is submitted.                *)
(***************************************************************************)
EXTENDS Naturals, Sequences

CONSTANTS Chars, Limit

VARIABLES
  line,        \* the line being edited
  submitted    \* << the line the last step submitted >>, or << >>

vars == << line, submitted >>

Init == line = << >> /\ submitted = << >>

Type(c) == Len(line) < Limit /\ line' = Append(line, c) /\ submitted' = << >>

Erase == line # << >> /\ line' = SubSeq(line, 1, Len(line) - 1) /\ submitted' = << >>

Submit == submitted' = << line >> /\ line' = << >>

Next == (\E c \in Chars : Type(c)) \/ Erase \/ Submit

Spec == Init /\ [][Next]_vars
=============================================================================
