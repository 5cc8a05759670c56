------------------------------ MODULE MCConsole ------------------------------
(* Constants of the TLC runs of Console. *)
EXTENDS Console

MC_Plain    == {"x", " "}
MC_WithEsc  == {"x", "esc"}
MC_Coloured == {TRUE}
=============================================================================
