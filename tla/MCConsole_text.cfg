CONSTANTS
  W = 6
  H = 7
  GW = 2
  GH = 2
  WORD = 256
  Chars <- MC_Plain
  Backgrounds <- MC_Coloured
  MaxTyped = 10
SPECIFICATION Spec
INVARIANTS TypeOK NoOverrun NoStrayCursor ScreenShowsText
