----------------------------- MODULE ShellText ------------------------------
(***************************************************************************)
(* What the shell does to text: C strings in a buffer, the split of a line *)
(* into arguments, the byte a number stands for, and the line of the       *)
(* console that is being written.  A character is its ASCII code.          *)
(***************************************************************************)
EXTENDS Integers, Sequences, SequencesExt

NUL == 0
BS  == 8
LF  == 10
SP  == 32

(* Every reader of a C string stops at the first NUL.                      *)
FirstNul(buf) ==
  CHOOSE i \in DOMAIN buf : buf[i] = NUL /\ \A j \in DOMAIN buf : j < i => buf[j] # NUL

Prefix(buf, n) == [i \in 1 .. n |-> buf[i - 1]]
CString(buf)   == Prefix(buf, FirstNul(buf))
-----------------------------------------------------------------------------
(* parseAndExecuteCmd: the first argument starts the line.  The first      *)
(* space behind an argument ends it and starts another one, which is empty *)
(* at the end of the line; the spaces after that one are skipped.  (The    *)
(* bound on argc, one argument per character of the buffer, is never met.) *)
Split(line) ==
  LET args[n \in 0 .. Len(line)] ==            \* of the first n characters
        IF n = 0 THEN << << >> >>
        ELSE LET before == args[n - 1]
             IN  IF line[n] # SP THEN [before EXCEPT ![Len(before)] = Append(@, line[n])]
                 ELSE IF n > 1 /\ line[n - 1] = SP THEN before
                 ELSE Append(before, << >>)
  IN  args[Len(line)]

(* tolower(c) is c | 32, for letters and for everything else.              *)
ToLower(c) == IF (c \div 32) % 2 = 1 THEN c ELSE c + 32
Lower(arg) == [i \in DOMAIN arg |-> ToLower(arg[i])]

(* The arguments with one space between two of them, or after each.        *)
Joined(args) == FlattenSeq([k \in DOMAIN args |-> IF k = 1 THEN args[k] ELSE << SP >> \o args[k]])
Spaced(args) == FlattenSeq([k \in DOMAIN args |-> args[k] \o << SP >>])

(* stringToInt of the digits an argument starts with, as the uint8_t it is *)
(* assigned to keeps it.                                                   *)
Digits(arg) ==
  LET stop == SelectInSeq(arg, LAMBDA c : c \notin 48 .. 57)
  IN  SubSeq(arg, 1, IF stop = 0 THEN Len(arg) ELSE stop - 1)

ByteOf(arg) == FoldLeft(LAMBDA n, c : (n * 10 + (c - 48)) % 256, 0, Digits(arg))

Clamp(v, lo, hi) ==
  LET atLeast == IF v > lo THEN v ELSE lo
  IN  IF atLeast < hi THEN atLeast ELSE hi
-----------------------------------------------------------------------------
(* What printf leaves on the last line of the console.                     *)
LastLine(text, breaks) ==
  SubSeq(text, SelectLastInSeq(text, LAMBDA c : c \in breaks) + 1, Len(text))
=============================================================================
