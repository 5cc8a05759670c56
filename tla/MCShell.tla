------------------------------ MODULE MCShell -------------------------------
(* Constants of the TLC run of Shell.  'F', '0' and space are typed: every   *)
(* command, under a name made of 'f' and '0', with up to three arguments.    *)
EXTENDS Shell

MC_Two == {70, 48, 32}
MC_TwoNames ==
  [fbinfo |-> << 102, 102 >>, help |-> << 48, 48 >>, clear |-> << 102, 48 >>, echo |-> << 48, 102 >>,
   fgcolor |-> << 102 >>, bgcolor |-> << 48 >>, prompt |-> << 48, 48, 48 >>]

MC_Prompt == << 62, 32 >>
MC_Fg == << 205, 214, 244 >>
MC_Bg == << 0, 0, 0 >>
=============================================================================
