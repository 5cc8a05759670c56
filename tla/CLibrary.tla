------------------------------ MODULE CLibrary -------------------------------
(***************************************************************************)
(* What the kernel has for a C library: printf.c and util.c side by side.  *)
(* Neither calls the other and neither keeps state between two calls, so   *)
(* that a behaviour is one call into one of them.                          *)
(***************************************************************************)
EXTENDS Printf, Util

NoPrintf == [fct |-> "none", null |-> FALSE, count |-> 0, format |-> <<>>, args |-> <<>>]
NoOperation == [fct |-> "none", dst |-> 0, src |-> 0, count |-> 0]

utilIdle ==
  /\ initial = [p \in {0} |-> 0] /\ memory = initial /\ operation = NoOperation
  /\ pos = 0 /\ acc = <<>> /\ result = <<>>

printfIdle ==
  /\ call = NoPrintf /\ out = "none" /\ format = 1 /\ va = <<>> /\ idx = 0
  /\ buffer = [k \in 0 .. Cells - 1 |-> Untouched] /\ console = <<>>
  /\ ret = NONE /\ sent = <<>> /\ field = {}

LibraryInit == (Init /\ utilIdle) \/ (printfIdle /\ utilInit)
LibraryNext == (Next /\ UNCHANGED utilVars) \/ (utilNext /\ UNCHANGED vars)
LibrarySpec == LibraryInit /\ [][LibraryNext]_<<vars, utilVars>>
-----------------------------------------------------------------------------
(* Type invariant of the two: the parser of a format never leaves it, the  *)
(* index counts what was produced, and a number parsed stays an int.       *)
LibraryTypeOK == TypeOK /\ UtilTypeOK
=============================================================================
