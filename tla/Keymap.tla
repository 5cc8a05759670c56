------------------------------- MODULE Keymap -------------------------------
(***************************************************************************)
(* The two translation tables of include/skiOS/keymap.h: what character a  *)
(* set-1 scancode stands for with and without Shift or Caps Lock.  A       *)
(* character is named by the string that shows it; NoKey is the 0 of the   *)
(* unused entries.                                                         *)
(***************************************************************************)
EXTENDS Naturals, Sequences

NoKey     == "none"
Enter     == "enter"
Backspace == "backspace"

(* The entries the two initialisers write out, from scancode 0 on; the C   *)
(* compiler fills the rest of the 128 entries with 0.                      *)
LowerKeys ==
  << NoKey, "esc", "1", "2", "3", "4", "5", "6", "7", "8", "9", "0", "-", "=", Backspace,
     "tab", "q", "w", "e", "r", "t", "y", "u", "i", "o", "p", "[", "]", Enter,
     NoKey, "a", "s", "d", "f", "g", "h", "j", "k", "l", ";", "apostrophe", "backquote", NoKey,
     "backslash", "z", "x", "c", "v", "b", "n", "m", ",", ".", "/", NoKey, "star", NoKey, " " >>

UpperKeys ==
  << NoKey, "esc", "!", "@", "#", "$", "%", "^", "&", "star", "lparen", "rparen", "_", "+", Backspace,
     "tab", "Q", "W", "E", "R", "T", "Y", "U", "I", "O", "P", "{", "}", Enter,
     NoKey, "A", "S", "D", "F", "G", "H", "J", "K", "L", ":", "quote", "~", NoKey,
     "|", "Z", "X", "C", "V", "B", "N", "M", "<", ">", "?", NoKey, "star", NoKey, " " >>

Scancode == 0 .. 127

Entry(keys, sc) == IF sc < Len(keys) THEN keys[sc + 1] ELSE NoKey

asciiMapLower == [sc \in Scancode |-> Entry(LowerKeys, sc)]
asciiMapUpper == [sc \in Scancode |-> Entry(UpperKeys, sc)]
=============================================================================
