---------------------------- MODULE EnrollConfig -----------------------------
(***************************************************************************)
(* `limine enroll-config`: the options, the search for the signature in an *)
(* executable and the checksum written behind it.                          *)
(***************************************************************************)
EXTENDS Integers, Sequences, SequencesExt

CONSTANTS
  SIGNATURE_B2SUM,      \* CONFIG_B2SUM_SIGNATURE, as cells
  SUM_SIZE              \* the cells of a checksum (128)

ASSUME EnrollConfigAssumption ==
  SIGNATURE_B2SUM \in Seq(Nat) /\ SIGNATURE_B2SUM # << >> /\ SUM_SIZE \in Nat \ {0}

Checksum == [k \in 1 .. SUM_SIZE |-> 9]     \* the one on the command line
Zeros    == [k \in 1 .. SUM_SIZE |-> 0]
-----------------------------------------------------------------------------
(* An option is removed from the list the loop runs over, and the loop     *)
(* then goes on behind the argument that has taken its place.              *)
EnrollParsed(argv) ==
  FoldLeft(LAMBDA s, arg :
      CASE s.help            -> s
        [] s.skip            -> [s EXCEPT !.skip = FALSE, !.args = Append(@, arg)]
        [] arg = "--help"    -> [s EXCEPT !.help = TRUE]
        [] arg = "--quiet"   -> [s EXCEPT !.skip = TRUE]
        [] arg = "--reset"   -> [s EXCEPT !.skip = TRUE, !.reset = TRUE]
        [] OTHER             -> [s EXCEPT !.args = Append(@, arg)],
    [help |-> FALSE, skip |-> FALSE, reset |-> FALSE, args |-> << >>], argv)

(* The search, by one character: one that does not fit starts it over,     *)
(* behind that character.                                                  *)
NoReset_SearchStep(s, file, i) ==
  IF s.loc # 0 \/ file[i] # SIGNATURE_B2SUM[s.checked + 1] THEN s
  ELSE [checked |-> s.checked + 1, loc |-> IF s.checked + 1 = Len(SIGNATURE_B2SUM) THEN i + 1 ELSE 0]
SearchStep(s, file, i) ==
  IF s.loc # 0 THEN s
  ELSE IF file[i] # SIGNATURE_B2SUM[s.checked + 1] THEN [s EXCEPT !.checked = 0]
  ELSE [checked |-> s.checked + 1, loc |-> IF s.checked + 1 = Len(SIGNATURE_B2SUM) THEN i + 1 ELSE 0]

(* What the search returns is the place behind the signature, or 0.        *)
SignatureEnd(file) ==
  LET last == Len(file) - (Len(SIGNATURE_B2SUM) + SUM_SIZE) + 1
      search[i \in 0 .. last] == IF i = 0 THEN [checked |-> 0, loc |-> 0] ELSE SearchStep(search[i - 1], file, i)
  IN  search[last].loc

Patched(file, loc, sum) ==
  [i \in DOMAIN file |-> IF i \in loc .. loc + SUM_SIZE - 1 THEN sum[i - loc + 1] ELSE file[i]]

(* The file when the writing of new over it has ended after k cells.       *)
CutOff(file, new, k) == [i \in DOMAIN file |-> IF i <= k THEN new[i] ELSE file[i]]
=============================================================================
