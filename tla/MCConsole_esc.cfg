CONSTANTS
  W = 6
  H = 4
  GW = 2
  GH = 2
  WORD = 256
  Chars <- MC_WithEsc
  Backgrounds <- MC_Coloured
  MaxTyped = 3
SPECIFICATION Spec
INVARIANTS NoOverrun
