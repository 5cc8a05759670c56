------------------------------- MODULE MCBoot -------------------------------
(* Boot for TLC. *)
EXTENDS Boot

AllAnswers == [revision : BOOLEAN, memmap : {"NULL", "empty", "entries"},
               framebuffer : {"no response", "NULL", "framebuffer"}]
AllMasked == [c \in Chips |-> Lines]
TimerOpen == [AllMasked EXCEPT !["MASTER"] = Lines \ {0}]
Masks == {AllMasked, TimerOpen}
ThreeCommands == <<"fbinfo", "help", "clear">>
Functions_ == {<<"picMask", 1>>, <<"picUnmask", 2>>, <<"picUnmask", 9>>,
               <<"picGetIRR">>, <<"picGetISR">>, <<"picDisable">>, <<"disableKb">>,
               <<"kbDeregisterKeyCallback">>}
\* The slave's line and the one it asks the master through.
SlaveOpen == {<<"picUnmask", 2>>, <<"picUnmask", 9>>}
OnlyMasked == {AllMasked}
GoodAnswers == {[revision |-> TRUE, memmap |-> "entries", framebuffer |-> "framebuffer"]}
=============================================================================
