--------------------------- MODULE MCInterruptPath ---------------------------
(* Constants of the TLC runs of InterruptPath. *)
EXTENDS InterruptPath, TLC

MC_A     == {30}            \* the key of 'a'
MC_Keys  == {30, 42, 58}    \* 'a', Left Shift, Caps Lock
MC_Two   == {42, 54}        \* the two Shift keys
MC_Timer == {0}             \* the PIT
MC_Mask  == 0 .. 15         \* Limine masks every line
=============================================================================
