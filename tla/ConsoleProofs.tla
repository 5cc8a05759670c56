---------------------------- MODULE ConsoleProofs ----------------------------
(***************************************************************************)
(* Proofs about Console, for every framebuffer that holds at least one     *)
(* glyph, every glyph size and every line length.                          *)
(*                                                                         *)
(* As long as no glyph is wider than the driver assumes (there is no "esc" *)
(* among the characters):                                                  *)
(*   - the cursor stays where drawRect can clip (Inv), so that nothing is  *)
(*     drawn outside the framebuffer;                                      *)
(*   - all the variables keep their types (TypeInv);                       *)
(*   - no cursor but the driver's own is on the screen (CursorInv), when   *)
(*     moreover the background colour is not 0, so that the box of a glyph *)
(*     wipes what was under it;                                            *)
(*   - the screen shows exactly the text that was printed and not erased   *)
(*     (TextInv), when moreover the width of the screen is a multiple of   *)
(*     the width of a glyph, so that a backspace at the left edge goes     *)
(*     back to where the last glyph of the line above is.                  *)
(***************************************************************************)
EXTENDS Console, SequenceTheorems, TLAPS

Colors == {"bg", "ink", "cursor"}

(* The characters whose glyphs are as wide as the driver assumes, and a    *)
(* character that shows nothing.                                           *)
Plain == {"x", " "}
Empty(t) == t.ch = " "

(* Plain characters are as wide as the driver assumes, and without an escape *)
(* every character is one.                                                 *)
LEMMA PlainChars ==
  /\ " " \in Plain
  /\ "esc" \notin Chars => Chars \subseteq Plain
  /\ \A ch \in Plain : Advance(ch) = GW
  /\ Backgrounds \subseteq BOOLEAN
BY InputAssumption, Zenon DEF Plain, Advance

(* The driver's state with the cursor, and the place where it was drawn,   *)
(* inside the screen or just past its edges, and no overrun so far.        *)
Good ==
  [x : 0 .. W, y : 0 .. H, lastX : 0 .. W, lastY : 0 .. H, pix : [Pixels -> Colors],
   opaque : BOOLEAN, cleared : BOOLEAN, overrun : {FALSE}]

Inv == con \in Good

(* The size_t subtraction of the code is a plain one when nothing wraps.   *)
LEMMA SubSmall ==
  ASSUME NEW a \in Nat, NEW b \in 0 .. a, a < WORD
  PROVE  Sub(a, b) = a - b
BY SizeAssumption DEF Sub

(* A painted rectangle leaves the framebuffer a framebuffer.               *)
LEMMA PaintType ==
  ASSUME NEW pix \in [Pixels -> Colors], NEW x, NEW y, NEW w, NEW h, NEW color \in Colors
  PROVE  Paint(pix, x, y, w, h, color) \in [Pixels -> Colors]
BY DEF Paint

(* Inside the screen the clipping of drawRect is exact: it changes pixels  *)
(* of the framebuffer and nothing else.                                    *)
LEMMA DrawRectInside ==
  ASSUME NEW c \in Good, NEW x \in 0 .. W, NEW y \in 0 .. H,
         NEW width \in Nat, NEW height \in Nat, NEW color \in Colors
  PROVE  /\ drawRect(c, x, y, width, height, color) \in Good
         /\ drawRect(c, x, y, width, height, color).x = c.x
         /\ drawRect(c, x, y, width, height, color).y = c.y
<1> DEFINE w == IF x + width > W THEN Sub(W, x) ELSE width
           h == IF y + height > H THEN Sub(H, y) ELSE height
           new == [c EXCEPT !.pix = Paint(@, x, y, w, h, color)]
<1>1. w \in Nat /\ x + w <= W
  BY SizeAssumption, SubSmall
<1>2. h \in Nat /\ y + h <= H
  BY SizeAssumption, SubSmall
<1>3. drawRect(c, x, y, width, height, color) = new
  <2> HIDE DEF new
  <2>1. ~(w > 0 /\ h > 0 /\ (x + w > W \/ y + h > H))
    <3> HIDE DEF w, h
    <3> QED
      BY <1>1, <1>2, SizeAssumption
  <2> QED
    BY <2>1 DEF drawRect, new
<1>4. Paint(c.pix, x, y, w, h, color) \in [Pixels -> Colors]
  BY PaintType DEF Good
<1>5. new \in Good /\ new.x = c.x /\ new.y = c.y
  <2> HIDE DEF w, h
  <2> QED
    BY <1>4 DEF Good
<1> QED
  BY <1>3, <1>5

(* The top left corner is on the screen.                                   *)
LEMMA Origin == 0 \in 0 .. W /\ 0 \in 0 .. H /\ W \in Nat /\ H \in Nat /\ GW \in Nat /\ GH \in Nat
BY SizeAssumption

(* The screen is at least a glyph wide.                                    *)
LEMMA GlyphFits == ~(0 + GW > W)
<1>1. W \in Nat /\ GW \in Nat /\ GW <= W
  BY SizeAssumption
<1> QED
  BY <1>1

(* Where a glyph fits, the cursor ends up inside again.                    *)
LEMMA GlyphEnds ==
  ASSUME NEW a \in 0 .. W, ~(a + GW > W)
  PROVE  a + GW \in 0 .. W
<1>1. W \in Nat /\ GW \in Nat
  BY SizeAssumption
<1> QED
  BY <1>1

(* eraseCursor stays on the screen and leaves the cursor where it is.      *)
LEMMA EraseCursorGood ==
  ASSUME NEW c \in Good
  PROVE  EraseCursor(c) \in Good /\ EraseCursor(c).x = c.x /\ EraseCursor(c).y = c.y
<1>1. c.lastX \in 0 .. W /\ c.lastY \in 0 .. H /\ GH \in Nat /\ "bg" \in Colors
  BY SizeAssumption DEF Good, Colors
<1> QED
  BY <1>1, DrawRectInside DEF EraseCursor

(* showCursor stays on the screen and leaves the cursor where it is.       *)
LEMMA ShowCursorGood ==
  ASSUME NEW c \in Good
  PROVE  ShowCursor(c) \in Good /\ ShowCursor(c).x = c.x /\ ShowCursor(c).y = c.y
<1> DEFINE d == drawRect(c, c.x, c.y, 1, GH, "cursor")
<1>1. c.x \in 0 .. W /\ c.y \in 0 .. H /\ GH \in Nat /\ "cursor" \in Colors
  BY SizeAssumption DEF Good, Colors
<1>2. d \in Good /\ d.x = c.x /\ d.y = c.y
  BY <1>1, DrawRectInside
<1> HIDE DEF d
<1> QED
  BY <1>1, <1>2 DEF ShowCursor, Good, d

(* resetScreen leaves the cursor in the corner.                            *)
LEMMA ResetScreenGood ==
  ASSUME NEW c \in Good
  PROVE  resetScreen(c) \in Good /\ resetScreen(c).x = 0 /\ resetScreen(c).y = 0
<1> DEFINE home == [c EXCEPT !.x = 0, !.y = 0]
           d == drawRect(home, 0, 0, W, H, "bg")
<1>1. home \in Good /\ home.x = 0 /\ home.y = 0
  BY Origin DEF Good
<1> HIDE DEF home
<1>2. d \in Good /\ d.x = 0 /\ d.y = 0
  <2>1. "bg" \in Colors
    BY DEF Colors
  <2> QED
    BY <1>1, <2>1, DrawRectInside, Origin
<1> HIDE DEF d
<1> QED
  BY <1>2 DEF resetScreen, Good, d, home

(* A new line stays on the screen, or clears it.                           *)
LEMMA PutNewlineGood ==
  ASSUME NEW c \in Good
  PROVE  PutNewline(c) \in Good /\ PutNewline(c).x = 0
<1>1. PICK e \in Good : e = EraseCursor(c)
  BY EraseCursorGood
<1>2. Newline(e) \in Good /\ Newline(e).x = 0
  <2>1. CASE e.y + GH > H
    BY <2>1, ResetScreenGood DEF Newline
  <2>2. CASE ~(e.y + GH > H)
    <3>1. e.y + GH \in 0 .. H
      BY <2>2, Origin DEF Good
    <3>2. Newline(e) = [e EXCEPT !.x = 0, !.y = e.y + GH]
      BY <2>2 DEF Newline
    <3> QED
      BY <3>1, <3>2, Origin DEF Good
  <2> QED
    BY <2>1, <2>2
<1> QED
  BY <1>1, <1>2, ShowCursorGood DEF PutNewline

(* A glyph that fits its line leaves the cursor on the screen.             *)
LEMMA GlyphGood ==
  ASSUME NEW c \in Good, ~(c.x + GW > W), NEW ch \in Plain
  PROVE  ssfn_putc(c, ch) \in Good
<1> DEFINE box == IF c.opaque THEN Paint(c.pix, c.x, c.y, Advance(ch), GH, "bg")
                                 ELSE c.pix
           drawn == [p \in Pixels |-> IF p \in Ink(ch, c.x, c.y) THEN "ink" ELSE box[p]]
<1>1. box \in [Pixels -> Colors]
  BY PaintType DEF Good, Colors
<1>2. drawn \in [Pixels -> Colors]
  <2> HIDE DEF box
  <2> QED
    BY <1>1 DEF Colors
<1>3. Advance(ch) = GW
  BY PlainChars
<1>4. ssfn_putc(c, ch) = [c EXCEPT !.pix = drawn, !.x = c.x + GW]
  BY <1>3 DEF ssfn_putc
<1>5. c.x + GW \in 0 .. W
  <2>1. c.x \in 0 .. W
    BY DEF Good
  <2> QED
    BY <2>1, GlyphEnds
<1> HIDE DEF drawn
<1> QED
  BY <1>2, <1>4, <1>5 DEF Good

(* A glyph as wide as the driver assumes stays on the screen.              *)
LEMMA PutGlyphGood ==
  ASSUME NEW c \in Good, NEW ch \in Plain
  PROVE  PutGlyph(c, ch) \in Good
<1>1. PICK e \in Good : e = EraseCursor(c)
  BY EraseCursorGood
<1>2. PICK wrapped \in Good : /\ wrapped = IF Wraps(e) THEN PutNewline(e) ELSE e
                             /\ ~(wrapped.x + GW > W)
  <2>1. CASE Wraps(e)
    <3>1. PutNewline(e) \in Good /\ PutNewline(e).x = 0
      BY PutNewlineGood
    <3> QED
      BY <2>1, <3>1, GlyphFits
  <2>2. CASE ~Wraps(e)
    BY <2>2 DEF Wraps
  <2> QED
    BY <2>1, <2>2
<1>3. PICK fits \in Good : /\ fits = IF wrapped.y + GH > H THEN resetScreen(wrapped) ELSE wrapped
                          /\ ~(fits.x + GW > W)
  <2>1. CASE wrapped.y + GH > H
    <3>1. /\ resetScreen(wrapped) \in Good
          /\ resetScreen(wrapped).x = 0
      BY ResetScreenGood
    <3> QED
      BY <2>1, <3>1, GlyphFits
  <2>2. CASE ~(wrapped.y + GH > H)
    BY <1>2, <2>2
  <2> QED
    BY <2>1, <2>2
<1>4. ssfn_putc(fits, ch) \in Good
  BY <1>3, GlyphGood
<1>5. PutGlyph(c, ch) = ShowCursor(ssfn_putc(fits, ch))
  BY <1>1, <1>2, <1>3 DEF PutGlyph
<1> QED
  BY <1>4, <1>5, ShowCursorGood

(* A tab stays on the screen.                                              *)
LEMMA PutTabGood ==
  ASSUME NEW c \in Good
  PROVE  PutTab(c) \in Good
<1>1. ASSUME NEW d \in Good PROVE TwoSpaces(d) \in Good
  <2>1. PICK ch \in Plain : TwoSpaces(d) = PutGlyph(PutGlyph(d, ch), ch)
    BY PlainChars, Zenon DEF TwoSpaces
  <2>2. PICK one \in Good : one = PutGlyph(d, ch)
    BY PutGlyphGood
  <2> QED
    BY <2>1, <2>2, PutGlyphGood
<1>2. PICK e \in Good : e = EraseCursor(c)
  BY EraseCursorGood
<1>3. TwoSpaces(TwoSpaces(e)) \in Good
  BY <1>1
<1> QED
  BY <1>2, <1>3, ShowCursorGood DEF PutTab

(* A backspace moves the cursor, on the screen, and paints nothing yet.    *)
LEMMA MoveBackGood ==
  ASSUME NEW c \in Good
  PROVE  MoveBack(c) \in Good /\ MoveBack(c).pix = c.pix /\ MoveBack(c).opaque = c.opaque
<1>1. c.x \in 0 .. W /\ c.y \in 0 .. H
  BY DEF Good
<1>2. CASE c.x >= GW
  <2>1. c.x - GW \in 0 .. W
    BY <1>1, <1>2, Origin
  <2>2. MoveBack(c) = [c EXCEPT !.x = c.x - GW]
    BY <1>2 DEF MoveBack
  <2> QED
    BY <2>1, <2>2 DEF Good
<1>3. CASE ~(c.x >= GW) /\ c.y >= GH
  <2>1. W - GW \in 0 .. W /\ c.y - GH \in 0 .. H
    BY <1>1, <1>3, SizeAssumption
  <2>2. MoveBack(c) = [c EXCEPT !.x = W - GW, !.y = c.y - GH]
    BY <1>3 DEF MoveBack
  <2> QED
    BY <2>1, <2>2 DEF Good
<1>4. CASE ~(c.x >= GW) /\ ~(c.y >= GH)
  BY <1>4 DEF MoveBack
<1> QED
  BY <1>2, <1>3, <1>4

(* A backspace stays on the screen.                                        *)
LEMMA PutBackspaceGood ==
  ASSUME NEW c \in Good
  PROVE  PutBackspace(c) \in Good
<1>1. PICK e \in Good : e = EraseCursor(c)
  BY EraseCursorGood
<1>2. PICK back \in Good : back = MoveBack(e)
  BY MoveBackGood
<1>3. back.x \in 0 .. W /\ back.y \in 0 .. H /\ GW \in Nat /\ GH \in Nat /\ "bg" \in Colors
  BY SizeAssumption DEF Good, Colors
<1>4. drawRect(back, back.x, back.y, GW, GH, "bg") \in Good
  BY <1>3, DrawRectInside
<1> QED
  BY <1>1, <1>2, <1>4, ShowCursorGood DEF PutBackspace
-----------------------------------------------------------------------------
(* videoInit puts the cursor inside the screen.                            *)
LEMMA InitInv == Init => Inv
BY SizeAssumption DEF Init, Inv, Start, Good, Blank, Colors

(* No operation takes the cursor to where drawRect cannot clip.            *)
LEMMA NextInv ==
  ASSUME "esc" \notin Chars
  PROVE  Inv /\ [Next]_vars => Inv'
<1> SUFFICES ASSUME Inv, [Next]_vars PROVE con' \in Good
  BY DEF Inv
<1>1. con \in Good /\ Fresh \in Good
  BY DEF Inv, Fresh, Good
<1>2. ASSUME NEW ch \in Chars, Type(ch) PROVE con' \in Good
  BY <1>1, <1>2, PutGlyphGood, PlainChars DEF Type
<1>3. CASE Erase
  BY <1>1, <1>3, PutBackspaceGood DEF Erase
<1>4. CASE EndLine
  BY <1>1, <1>4, PutNewlineGood DEF EndLine
<1>5. CASE PrintTab
  BY <1>1, <1>5, PutTabGood DEF PrintTab
<1>6. CASE Clear
  BY <1>1, <1>6, ResetScreenGood DEF Clear
<1>7. ASSUME NEW opaque \in Backgrounds, SetBackground(opaque) PROVE con' \in Good
  <2>1. [con EXCEPT !.opaque = opaque] \in Good
    BY <1>1, PlainChars DEF Good
  <2> QED
    BY <2>1, <1>7, ResetScreenGood DEF SetBackground
<1>8. CASE UNCHANGED vars
  BY <1>1, <1>8 DEF vars
<1> QED
  BY <1>2, <1>3, <1>4, <1>5, <1>6, <1>7, <1>8 DEF Next

(* For every size of framebuffer and glyphs: with glyphs of the width the  *)
(* driver assumes, drawRect never leaves the framebuffer, for any sequence *)
(* of characters, wraps, tabs, backspaces and clears, in any background.   *)
THEOREM NeverOverruns == ASSUME "esc" \notin Chars PROVE Spec => []NoOverrun
<1>1. Inv => NoOverrun
  BY DEF Inv, Good, NoOverrun
<1> QED
  BY <1>1, InitInv, NextInv, PTL DEF Spec

(* And the cursor never goes further than just past the right and lower    *)
(* edges, from where the next character brings it back.                    *)
THEOREM CursorStaysInside == ASSUME "esc" \notin Chars PROVE Spec => []CursorInside
<1>1. Inv => CursorInside
  BY DEF Inv, Good, CursorInside
<1> QED
  BY <1>1, InitInv, NextInv, PTL DEF Spec
-----------------------------------------------------------------------------
(* Inside the screen a rectangle is painted as it was asked for: what the  *)
(* clipping takes off has no pixels.                                       *)
LEMMA DrawRectPaints ==
  ASSUME NEW c \in Good, NEW x \in 0 .. W, NEW y \in 0 .. H,
         NEW width \in Nat, NEW height \in Nat, NEW color \in Colors
  PROVE  drawRect(c, x, y, width, height, color)
           = [c EXCEPT !.pix = Paint(c.pix, x, y, width, height, color)]
<1> DEFINE w == IF x + width > W THEN Sub(W, x) ELSE width
           h == IF y + height > H THEN Sub(H, y) ELSE height
           new == [c EXCEPT !.pix = Paint(@, x, y, w, h, color)]
<1>0. W \in Nat /\ H \in Nat /\ x \in Nat /\ y \in Nat /\ W < WORD /\ H < WORD
  BY SizeAssumption
<1>a. Sub(W, x) = W - x /\ Sub(H, y) = H - y
  BY <1>0, SubSmall
<1>1. w \in Nat /\ x + w <= W /\ (w = width \/ (x + w = W /\ x + width > W))
  BY <1>0, <1>a
<1>2. h \in Nat /\ y + h <= H /\ (h = height \/ (y + h = H /\ y + height > H))
  BY <1>0, <1>a
<1>3. drawRect(c, x, y, width, height, color) = new
  <2> HIDE DEF new
  <2>1. ~(w > 0 /\ h > 0 /\ (x + w > W \/ y + h > H))
    <3> HIDE DEF w, h
    <3> QED
      BY <1>0, <1>1, <1>2
  <2> QED
    BY <2>1 DEF drawRect, new
<1>4. Paint(c.pix, x, y, w, h, color) = Paint(c.pix, x, y, width, height, color)
  <2> HIDE DEF w, h
  <2>1. ASSUME NEW p \in Pixels
        PROVE  (p[1] \in x .. x + w - 1 /\ p[2] \in y .. y + h - 1)
                 = (p[1] \in x .. x + width - 1 /\ p[2] \in y .. y + height - 1)
    <3>1. p[1] \in 0 .. W - 1 /\ p[2] \in 0 .. H - 1
      BY DEF Pixels
    <3> QED
      BY <1>0, <1>1, <1>2, <3>1
  <2> QED
    BY <2>1 DEF Paint
<1> HIDE DEF w, h
<1> QED
  BY <1>3, <1>4

(* The fields of a driver state, one by one.                               *)
LEMMA GoodFields ==
  ASSUME NEW c \in Good
  PROVE  /\ c.x \in 0 .. W /\ c.y \in 0 .. H /\ c.lastX \in 0 .. W /\ c.lastY \in 0 .. H
         /\ c.x \in Nat /\ c.y \in Nat /\ c.lastX \in Nat /\ c.lastY \in Nat
         /\ W \in Nat /\ H \in Nat /\ GW \in Nat /\ GH \in Nat /\ GW > 0 /\ GH > 0
<1>1. c.x \in 0 .. W /\ c.y \in 0 .. H /\ c.lastX \in 0 .. W /\ c.lastY \in 0 .. H
  BY DEF Good
<1>2. W \in Nat /\ H \in Nat /\ GW \in Nat /\ GH \in Nat /\ GW > 0 /\ GH > 0
  BY SizeAssumption
<1> QED
  BY <1>1, <1>2

(* The two coordinates of a pixel.                                         *)
LEMMA PixelFields ==
  ASSUME NEW p \in Pixels
  PROVE  p[1] \in 0 .. W - 1 /\ p[2] \in 0 .. H - 1 /\ p[1] \in Int /\ p[2] \in Int
BY Origin DEF Pixels

(* Arithmetic of columns.                                                  *)
LEMMA OwnColumn == \A a \in Nat : a \in a .. a + GW - 1
BY SizeAssumption

(* A glyph that fits ends on the screen.                                   *)
LEMMA EndOfGlyph ==
  ASSUME NEW i \in Int, NEW j \in Int, NEW a \in Nat, NEW b \in Nat,
         j < b \/ (j = b /\ i < a) \/ (i \in a .. a + GW - 1 /\ j = b)
  PROVE  j < b \/ (j = b /\ i < a + GW)
<1>1. GW \in Nat
  BY SizeAssumption
<1> QED
  BY <1>1

(* One glyph to the right and one to the left is where one was.            *)
LEMMA BackAgain == \A a \in 0 .. W : (a + GW) - GW = a
<1>1. GW \in Nat /\ W \in Nat
  BY SizeAssumption
<1> QED
  BY <1>1

(* The bound on the length of a line.                                      *)
LEMMA LineBound == MaxTyped \in Nat /\ 0 <= MaxTyped
<1>1. MaxTyped \in Nat
  BY InputAssumption, Zenon
<1> QED
  BY <1>1

(* The bar of a cursor, and the pixels of a colour.                        *)
Bar(x, y) == {p \in Pixels : p[1] = x /\ p[2] \in y .. y + GH - 1}
Coloured(c, color) == {p \in Pixels : c.pix[p] = color}

(* What the two halves of _putchar do, as one assignment each.             *)
LEMMA EraseCursorPaints ==
  ASSUME NEW c \in Good
  PROVE  EraseCursor(c)
           = [c EXCEPT !.pix = [p \in Pixels |-> IF p \in Bar(c.lastX, c.lastY) THEN "bg" ELSE c.pix[p]]]
<1>1. c.lastX \in 0 .. W /\ c.lastY \in 0 .. H /\ GH \in Nat /\ 1 \in Nat /\ "bg" \in Colors
  BY GoodFields DEF Colors
<1>2. EraseCursor(c) = [c EXCEPT !.pix = Paint(c.pix, c.lastX, c.lastY, 1, GH, "bg")]
  <2>1. PICK x \in 0 .. W, y \in 0 .. H, w \in Nat, h \in Nat, color \in Colors :
          x = c.lastX /\ y = c.lastY /\ w = 1 /\ h = GH /\ color = "bg"
    BY <1>1
  <2>2. drawRect(c, x, y, w, h, color) = [c EXCEPT !.pix = Paint(c.pix, x, y, w, h, color)]
    BY DrawRectPaints
  <2> QED
    BY <2>1, <2>2, Zenon DEF EraseCursor
<1>3. \A p \in Pixels : p \in Bar(c.lastX, c.lastY)
                          <=> (p[1] \in c.lastX .. c.lastX + 1 - 1 /\ p[2] \in c.lastY .. c.lastY + GH - 1)
  BY <1>1 DEF Bar, Pixels
<1>4. Paint(c.pix, c.lastX, c.lastY, 1, GH, "bg")
        = [p \in Pixels |-> IF p \in Bar(c.lastX, c.lastY) THEN "bg" ELSE c.pix[p]]
  BY <1>3 DEF Paint
<1> QED
  BY <1>2, <1>4

(* The pixels after showCursor.                                            *)
LEMMA ShowCursorPaints ==
  ASSUME NEW c \in Good
  PROVE  ShowCursor(c)
           = [c EXCEPT !.pix = [p \in Pixels |-> IF p \in Bar(c.x, c.y) THEN "cursor" ELSE c.pix[p]],
                       !.lastX = c.x, !.lastY = c.y]
<1>1. c.x \in 0 .. W /\ c.y \in 0 .. H /\ GH \in Nat /\ 1 \in Nat /\ "cursor" \in Colors
  BY GoodFields DEF Colors
<1>2. drawRect(c, c.x, c.y, 1, GH, "cursor") = [c EXCEPT !.pix = Paint(c.pix, c.x, c.y, 1, GH, "cursor")]
  <2>1. PICK x \in 0 .. W, y \in 0 .. H, w \in Nat, h \in Nat, color \in Colors :
          x = c.x /\ y = c.y /\ w = 1 /\ h = GH /\ color = "cursor"
    BY <1>1
  <2>2. drawRect(c, x, y, w, h, color) = [c EXCEPT !.pix = Paint(c.pix, x, y, w, h, color)]
    BY DrawRectPaints
  <2> QED
    BY <2>1, <2>2, Zenon
<1>3. \A p \in Pixels : p \in Bar(c.x, c.y)
                          <=> (p[1] \in c.x .. c.x + 1 - 1 /\ p[2] \in c.y .. c.y + GH - 1)
  BY <1>1 DEF Bar, Pixels
<1>4. Paint(c.pix, c.x, c.y, 1, GH, "cursor")
        = [p \in Pixels |-> IF p \in Bar(c.x, c.y) THEN "cursor" ELSE c.pix[p]]
  BY <1>3 DEF Paint
<1> QED
  BY <1>2, <1>4 DEF ShowCursor, Good

(* The pixels after resetScreen.                                           *)
LEMMA ResetScreenPaints ==
  ASSUME NEW c \in Good
  PROVE  resetScreen(c) = [c EXCEPT !.x = 0, !.y = 0, !.pix = Blank, !.cleared = TRUE]
<1> DEFINE home == [c EXCEPT !.x = 0, !.y = 0]
<1>1. home \in Good
  BY Origin DEF Good
<1>2. "bg" \in Colors
  BY DEF Colors
<1>3. drawRect(home, 0, 0, W, H, "bg") = [home EXCEPT !.pix = Paint(home.pix, 0, 0, W, H, "bg")]
  <2> HIDE DEF home
  <2> QED
    BY <1>1, <1>2, Origin, DrawRectPaints
<1>4. Paint(home.pix, 0, 0, W, H, "bg") = Blank
  <2>1. \A p \in Pixels : p[1] \in 0 .. 0 + W - 1 /\ p[2] \in 0 .. 0 + H - 1
    BY Origin DEF Pixels
  <2> QED
    BY <2>1 DEF Paint, Blank
<1> QED
  BY <1>3, <1>4 DEF resetScreen, Good
-----------------------------------------------------------------------------
(* The cursor.  It is the only one there is, where it was last drawn; and  *)
(* what _putchar has drawn is drawn where the next character goes.         *)
Tidy(c)  == Coloured(c, "cursor") \subseteq Bar(c.lastX, c.lastY)
Shown(c) == Coloured(c, "cursor") \subseteq Bar(c.x, c.y)
Bare(c)  == Coloured(c, "cursor") = {}

(* eraseCursor wipes the only bar there is.                                *)
LEMMA EraseCursorBare ==
  ASSUME NEW c \in Good, Tidy(c)
  PROVE  Bare(EraseCursor(c)) /\ EraseCursor(c).opaque = c.opaque
<1> DEFINE erased == [p \in Pixels |-> IF p \in Bar(c.lastX, c.lastY) THEN "bg" ELSE c.pix[p]]
<1>1. EraseCursor(c) = [c EXCEPT !.pix = erased]
  BY EraseCursorPaints
<1>2. EraseCursor(c).pix = erased /\ EraseCursor(c).opaque = c.opaque
  <2> HIDE DEF erased
  <2> QED
    BY <1>1 DEF Good
<1>3. \A p \in Pixels : erased[p] # "cursor"
  BY DEF Tidy, Coloured
<1> QED
  BY <1>2, <1>3 DEF Bare, Coloured

(* showCursor draws the only bar there is.                                 *)
LEMMA ShowCursorTidy ==
  ASSUME NEW c \in Good, Shown(c)
  PROVE  /\ Tidy(ShowCursor(c)) /\ Shown(ShowCursor(c))
         /\ ShowCursor(c).opaque = c.opaque
<1> DEFINE shown == [p \in Pixels |-> IF p \in Bar(c.x, c.y) THEN "cursor" ELSE c.pix[p]]
           d == ShowCursor(c)
<1>1. d = [c EXCEPT !.pix = shown, !.lastX = c.x, !.lastY = c.y]
  BY ShowCursorPaints
<1>2. d.pix = shown /\ d.opaque = c.opaque /\ d.x = c.x /\ d.y = c.y /\ d.lastX = c.x /\ d.lastY = c.y
  <2> HIDE DEF shown, d
  <2> QED
    BY <1>1 DEF Good
<1>3. \A p \in Pixels : shown[p] = "cursor" => p \in Bar(c.x, c.y)
  BY DEF Shown, Coloured
<1> HIDE DEF d
<1>4. Coloured(d, "cursor") \subseteq Bar(c.x, c.y)
  BY <1>2, <1>3 DEF Coloured
<1>5. Tidy(d) /\ Shown(d)
  BY <1>2, <1>4 DEF Tidy, Shown
<1> QED
  BY <1>2, <1>5 DEF d

(* A screen without a bar has none where it should not be.                 *)
LEMMA BareIsShown == ASSUME NEW c, Bare(c) PROVE Tidy(c) /\ Shown(c)
BY DEF Bare, Shown, Tidy

(* resetScreen leaves no bar.                                              *)
LEMMA ResetScreenBare ==
  ASSUME NEW c \in Good
  PROVE  Bare(resetScreen(c)) /\ resetScreen(c).opaque = c.opaque
<1>1. resetScreen(c).pix = Blank /\ resetScreen(c).opaque = c.opaque
  BY ResetScreenPaints DEF Good
<1> QED
  BY <1>1 DEF Bare, Coloured, Blank

(* A new line keeps one bar at most.                                       *)
LEMMA PutNewlineTidy ==
  ASSUME NEW c \in Good, Tidy(c)
  PROVE  /\ Tidy(PutNewline(c)) /\ Shown(PutNewline(c))
         /\ PutNewline(c).opaque = c.opaque
<1>1. PICK e \in Good : e = EraseCursor(c) /\ Bare(e) /\ e.opaque = c.opaque
  BY EraseCursorGood, EraseCursorBare
<1>2. PICK n : n = Newline(e)
  OBVIOUS
<1>3. n \in Good /\ Bare(n) /\ n.opaque = e.opaque
  <2>1. CASE e.y + GH > H
    BY <1>2, <2>1, ResetScreenGood, ResetScreenBare DEF Newline
  <2>2. CASE ~(e.y + GH > H)
    <3>1. e.y + GH \in 0 .. H
      BY <2>2, Origin DEF Good
    <3>2. n = [e EXCEPT !.x = 0, !.y = e.y + GH]
      BY <1>2, <2>2 DEF Newline
    <3>3. n \in Good /\ n.pix = e.pix /\ n.opaque = e.opaque
      BY <3>1, <3>2, Origin DEF Good
    <3> QED
      BY <1>1, <3>3 DEF Bare, Coloured
  <2> QED
    BY <2>1, <2>2
<1> QED
  BY <1>1, <1>2, <1>3, ShowCursorTidy, BareIsShown DEF PutNewline

(* The box of a glyph covers the cursor that a wrap has left there, in     *)
(* front of a background colour other than 0.                              *)
LEMMA GlyphCoversCursor ==
  ASSUME NEW c \in Good, Shown(c), c.opaque, NEW ch \in Plain
  PROVE  Bare(ssfn_putc(c, ch)) /\ ssfn_putc(c, ch).opaque = c.opaque
<1> DEFINE box == Paint(c.pix, c.x, c.y, GW, GH, "bg")
           drawn == [p \in Pixels |-> IF p \in Ink(ch, c.x, c.y) THEN "ink" ELSE box[p]]
<1>1. Advance(ch) = GW
  BY PlainChars
<1>2. ssfn_putc(c, ch) = [c EXCEPT !.pix = drawn, !.x = c.x + GW]
  BY <1>1 DEF ssfn_putc
<1>3. ssfn_putc(c, ch).pix = drawn /\ ssfn_putc(c, ch).opaque = c.opaque
  <2> HIDE DEF drawn
  <2> QED
    BY <1>2 DEF Good
<1>4. \A p \in Pixels : box[p] # "cursor"
  <2> SUFFICES ASSUME NEW p \in Pixels, box[p] = "cursor" PROVE FALSE
    OBVIOUS
  <2>1. box[p] = IF p[1] \in c.x .. c.x + GW - 1 /\ p[2] \in c.y .. c.y + GH - 1 THEN "bg" ELSE c.pix[p]
    BY DEF Paint
  <2>2. ~(p[1] \in c.x .. c.x + GW - 1 /\ p[2] \in c.y .. c.y + GH - 1) /\ c.pix[p] = "cursor"
    <3> HIDE DEF box
    <3> QED
      BY <2>1
  <2>3. p[1] = c.x /\ p[2] \in c.y .. c.y + GH - 1
    BY <2>2 DEF Shown, Coloured, Bar
  <2>4. c.x \in c.x .. c.x + GW - 1
    <3>1. PICK a \in Nat : a = c.x
      BY GoodFields
    <3>2. a \in a .. a + GW - 1
      BY OwnColumn, Zenon
    <3> QED
      BY <3>1, <3>2, Zenon
  <2> QED
    BY <2>2, <2>3, <2>4
<1>5. \A p \in Pixels : drawn[p] # "cursor"
  <2> HIDE DEF box
  <2> QED
    BY <1>4
<1> QED
  BY <1>3, <1>5 DEF Bare, Coloured

(* A glyph keeps one bar at most.                                          *)
LEMMA PutGlyphTidy ==
  ASSUME NEW c \in Good, Tidy(c), c.opaque, NEW ch \in Plain
  PROVE  Tidy(PutGlyph(c, ch)) /\ Shown(PutGlyph(c, ch)) /\ PutGlyph(c, ch).opaque
<1>1. PICK e \in Good : e = EraseCursor(c) /\ Bare(e) /\ e.opaque
  BY EraseCursorGood, EraseCursorBare
<1>2. PICK wrapped \in Good : /\ wrapped = IF Wraps(e) THEN PutNewline(e) ELSE e
                             /\ Shown(wrapped) /\ wrapped.opaque /\ ~(wrapped.x + GW > W)
  <2>1. CASE Wraps(e)
    <3>1. /\ PutNewline(e) \in Good /\ PutNewline(e).x = 0
          /\ Shown(PutNewline(e)) /\ PutNewline(e).opaque = e.opaque
      BY <1>1, PutNewlineGood, PutNewlineTidy, BareIsShown
    <3> QED
      BY <1>1, <2>1, <3>1, GlyphFits
  <2>2. CASE ~Wraps(e)
    BY <1>1, <2>2, BareIsShown DEF Wraps
  <2> QED
    BY <2>1, <2>2
<1>3. PICK fits \in Good : /\ fits = IF wrapped.y + GH > H THEN resetScreen(wrapped) ELSE wrapped
                          /\ Shown(fits) /\ fits.opaque /\ ~(fits.x + GW > W)
  <2>1. CASE wrapped.y + GH > H
    <3>1. /\ resetScreen(wrapped) \in Good /\ resetScreen(wrapped).x = 0
          /\ Shown(resetScreen(wrapped)) /\ resetScreen(wrapped).opaque = wrapped.opaque
      BY ResetScreenGood, ResetScreenBare, BareIsShown
    <3> QED
      BY <1>2, <2>1, <3>1, GlyphFits
  <2>2. CASE ~(wrapped.y + GH > H)
    BY <1>2, <2>2
  <2> QED
    BY <2>1, <2>2
<1>4. PICK glyph \in Good : glyph = ssfn_putc(fits, ch) /\ Shown(glyph) /\ glyph.opaque
  BY <1>3, GlyphGood, GlyphCoversCursor, BareIsShown
<1>5. PutGlyph(c, ch) = ShowCursor(glyph)
  BY <1>1, <1>2, <1>3, <1>4 DEF PutGlyph
<1> QED
  BY <1>4, <1>5, ShowCursorTidy

(* A tab keeps one bar at most.                                            *)
LEMMA PutTabTidy ==
  ASSUME NEW c \in Good, Tidy(c), c.opaque
  PROVE  Tidy(PutTab(c)) /\ PutTab(c).opaque
<1>1. ASSUME NEW d \in Good, Tidy(d), d.opaque
      PROVE  /\ TwoSpaces(d) \in Good /\ Tidy(TwoSpaces(d))
             /\ Shown(TwoSpaces(d)) /\ TwoSpaces(d).opaque
  <2>1. PICK ch \in Plain : TwoSpaces(d) = PutGlyph(PutGlyph(d, ch), ch)
    BY PlainChars, Zenon DEF TwoSpaces
  <2>2. PICK one \in Good : one = PutGlyph(d, ch) /\ Tidy(one) /\ one.opaque
    BY <1>1, PutGlyphGood, PutGlyphTidy
  <2> QED
    BY <2>1, <2>2, PutGlyphGood, PutGlyphTidy
<1>2. PICK e \in Good : e = EraseCursor(c) /\ Tidy(e) /\ e.opaque
  BY EraseCursorGood, EraseCursorBare, BareIsShown
<1>3. PICK two \in Good : two = TwoSpaces(e) /\ Tidy(two) /\ two.opaque
  BY <1>1, <1>2
<1>4. PICK four \in Good : four = TwoSpaces(two) /\ Shown(four) /\ four.opaque
  BY <1>1, <1>3
<1> QED
  BY <1>2, <1>3, <1>4, ShowCursorTidy DEF PutTab

(* A backspace keeps one bar at most.                                      *)
LEMMA PutBackspaceTidy ==
  ASSUME NEW c \in Good, Tidy(c), c.opaque
  PROVE  Tidy(PutBackspace(c)) /\ PutBackspace(c).opaque
<1>1. PICK e \in Good : e = EraseCursor(c) /\ Bare(e) /\ e.opaque
  BY EraseCursorGood, EraseCursorBare
<1>2. PICK back \in Good : back = MoveBack(e) /\ back.pix = e.pix /\ back.opaque
  BY <1>1, MoveBackGood
<1>3. PICK wiped : wiped = drawRect(back, back.x, back.y, GW, GH, "bg")
  OBVIOUS
<1>4. wiped \in Good /\ wiped = [back EXCEPT !.pix = Paint(back.pix, back.x, back.y, GW, GH, "bg")]
  <2>1. back.x \in 0 .. W /\ back.y \in 0 .. H /\ GW \in Nat /\ GH \in Nat /\ "bg" \in Colors
    BY SizeAssumption DEF Good, Colors
  <2> QED
    BY <1>3, <2>1, DrawRectInside, DrawRectPaints
<1>5. wiped.pix = Paint(back.pix, back.x, back.y, GW, GH, "bg") /\ wiped.opaque
  BY <1>2, <1>4 DEF Good
<1>6. Bare(wiped)
  BY <1>1, <1>2, <1>5 DEF Bare, Coloured, Paint
<1> QED
  BY <1>1, <1>2, <1>3, <1>4, <1>5, <1>6, ShowCursorTidy, BareIsShown DEF PutBackspace
-----------------------------------------------------------------------------
(* Cursors are drawn on backgrounds other than 0, and there is one.        *)
CursorInv == Inv /\ con.opaque /\ Tidy(con)

(* The screen starts without a bar, or with the one of the cursor.         *)
LEMMA InitCursorInv == Init => CursorInv
BY InitInv DEF Init, CursorInv, Start, Tidy, Coloured, Blank

(* Every operation leaves at most the bar of the cursor.                   *)
LEMMA NextCursorInv ==
  ASSUME "esc" \notin Chars, Backgrounds \subseteq {TRUE}
  PROVE  CursorInv /\ [Next]_vars => CursorInv'
<1> SUFFICES ASSUME CursorInv, [Next]_vars PROVE CursorInv'
  OBVIOUS
<1>0. Inv'
  BY NextInv DEF CursorInv
<1>1. con \in Good /\ con.opaque /\ Tidy(con)
  BY DEF CursorInv, Inv
<1>2. PICK f \in Good : f = Fresh /\ f.opaque /\ Tidy(f)
  <2>1. Fresh \in Good /\ Fresh.opaque = con.opaque /\ Fresh.pix = con.pix
        /\ Fresh.lastX = con.lastX /\ Fresh.lastY = con.lastY
    BY <1>1 DEF Fresh, Good
  <2> QED
    BY <1>1, <2>1 DEF Tidy, Coloured
<1>3. PICK d : d = con'
  OBVIOUS
<1>4. SUFFICES d.opaque /\ Tidy(d)
  BY <1>0, <1>3 DEF CursorInv, Tidy, Coloured
<1>5. ASSUME NEW ch \in Chars, Type(ch) PROVE d.opaque /\ Tidy(d)
  BY <1>2, <1>3, <1>5, PutGlyphTidy, PlainChars DEF Type
<1>6. CASE Erase
  BY <1>2, <1>3, <1>6, PutBackspaceTidy DEF Erase
<1>7. CASE EndLine
  BY <1>2, <1>3, <1>7, PutNewlineTidy DEF EndLine
<1>8. CASE PrintTab
  BY <1>2, <1>3, <1>8, PutTabTidy DEF PrintTab
<1>9. CASE Clear
  BY <1>1, <1>3, <1>9, ResetScreenBare, BareIsShown DEF Clear
<1>10. ASSUME NEW opaque \in Backgrounds, SetBackground(opaque) PROVE d.opaque /\ Tidy(d)
  <2>1. [con EXCEPT !.opaque = opaque] \in Good /\ [con EXCEPT !.opaque = opaque].opaque
    BY <1>1, <1>10 DEF Good
  <2> QED
    BY <1>3, <2>1, <1>10, ResetScreenBare, BareIsShown DEF SetBackground
<1>11. CASE UNCHANGED vars
  BY <1>1, <1>3, <1>11 DEF vars
<1> QED
  BY <1>5, <1>6, <1>7, <1>8, <1>9, <1>10, <1>11 DEF Next

(* No sequence of characters, wraps, tabs, backspaces and clears leaves a  *)
(* cursor behind, for every size of framebuffer and glyphs, in front of    *)
(* background colours other than 0.                                        *)
THEOREM OneCursorAtMost ==
  ASSUME "esc" \notin Chars, Backgrounds \subseteq {TRUE}
  PROVE  Spec => []NoStrayCursor
<1>1. CursorInv => NoStrayCursor
  BY DEF CursorInv, Tidy, Coloured, Bar, NoStrayCursor
<1> QED
  BY <1>1, InitCursorInv, NextCursorInv, PTL DEF Spec
-----------------------------------------------------------------------------
(* The types, and the history of what was typed.                           *)
Glyphs == [ch : Plain, x : 0 .. W, y : 0 .. H]

TypeInv ==
  /\ Inv
  /\ typed \in Seq(Glyphs) /\ Len(typed) <= MaxTyped
  /\ old \subseteq Pixels

(* Where a character ends up, and that it has a place on the screen.       *)
LEMMA PutGlyphPlace ==
  ASSUME NEW c \in Good, NEW ch \in Plain
  PROVE  PutGlyph(c, ch).x - GW \in 0 .. W /\ PutGlyph(c, ch).y \in 0 .. H
<1>1. PICK e \in Good : e = EraseCursor(c)
  BY EraseCursorGood
<1>2. PICK wrapped \in Good : /\ wrapped = IF Wraps(e) THEN PutNewline(e) ELSE e
                             /\ ~(wrapped.x + GW > W)
  BY PutNewlineGood, GlyphFits DEF Wraps
<1>3. PICK fits \in Good : /\ fits = IF wrapped.y + GH > H THEN resetScreen(wrapped) ELSE wrapped
                          /\ ~(fits.x + GW > W)
  BY <1>2, ResetScreenGood, GlyphFits
<1>4. PICK glyph \in Good : glyph = ssfn_putc(fits, ch)
  BY <1>3, GlyphGood
<1>5. glyph.x = fits.x + GW
  BY <1>4, PlainChars DEF ssfn_putc, Good
<1>6. PICK d \in Good : d = ShowCursor(glyph) /\ d.x = glyph.x
  BY <1>4, ShowCursorGood
<1>7. PutGlyph(c, ch) = d
  BY <1>1, <1>2, <1>3, <1>4, <1>6 DEF PutGlyph
<1>8. fits.x \in 0 .. W /\ d.y \in 0 .. H /\ W \in Nat /\ GW \in Nat
  BY GoodFields
<1>9. PICK a \in 0 .. W : a = fits.x
  BY <1>8
<1>10. d.x = a + GW /\ (a + GW) - GW = a
  BY <1>5, <1>6, <1>9, BackAgain, Zenon
<1> QED
  BY <1>7, <1>8, <1>10

(* What a clear makes of a glyph is a glyph that shows nothing.            *)
LEMMA GoneGlyph == \A t \in Glyphs : Gone(t) \in Glyphs /\ Empty(Gone(t))
<1>1. ASSUME NEW t \in Glyphs, NEW ch \in Plain
      PROVE  [t EXCEPT !.ch = ch] \in Glyphs /\ [t EXCEPT !.ch = ch].ch = ch
  BY DEF Glyphs
<1> QED
  BY <1>1, PlainChars, Zenon DEF Gone, Empty

(* The line that a clear keeps is a line.                                  *)
LEMMA KeptType ==
  ASSUME NEW ts \in Seq(Glyphs)
  PROVE  Kept(ts) \in Seq(Glyphs) /\ Len(Kept(ts)) = Len(ts)
<1>1. DOMAIN ts = 1 .. Len(ts) /\ Len(ts) \in Nat
  OBVIOUS
<1>2. \A t \in Glyphs : Gone(t) \in Glyphs
  BY GoneGlyph
<1>3. \A i \in 1 .. Len(ts) : ts[i] \in Glyphs
  OBVIOUS
<1> QED
  BY <1>1, <1>2, <1>3 DEF Kept

(* The types of the initial state.                                         *)
LEMMA InitTypeInv == Init => TypeInv
<1> SUFFICES ASSUME Init PROVE TypeInv
  OBVIOUS
<1>1. typed = << >> /\ old = {} /\ Inv
  BY InitInv DEF Init
<1>2. << >> \in Seq(Glyphs) /\ Len(<< >>) = 0
  OBVIOUS
<1>3. MaxTyped \in Nat /\ 0 <= MaxTyped
  BY LineBound
<1> QED
  BY <1>1, <1>2, <1>3 DEF TypeInv

(* Every operation keeps the types.                                        *)
LEMMA NextTypeInv ==
  ASSUME "esc" \notin Chars
  PROVE  TypeInv /\ [Next]_vars => TypeInv'
<1> SUFFICES ASSUME TypeInv, [Next]_vars PROVE TypeInv'
  OBVIOUS
<1>1. Inv' /\ Inv
  BY NextInv DEF TypeInv
<1>2. typed \in Seq(Glyphs) /\ Len(typed) <= MaxTyped /\ old \subseteq Pixels /\ MaxTyped \in Nat
  BY LineBound DEF TypeInv
<1>3. SUFFICES typed' \in Seq(Glyphs) /\ Len(typed') <= MaxTyped /\ old' \subseteq Pixels
  BY <1>1 DEF TypeInv
<1>4. Fresh \in Good
  BY <1>1 DEF Inv, Fresh, Good
<1>5. InkSet' \subseteq Pixels
  BY DEF InkSet
<1>6. ASSUME NEW ch \in Chars, Type(ch)
      PROVE  typed' \in Seq(Glyphs) /\ Len(typed') <= MaxTyped /\ old' \subseteq Pixels
  <2>1. ch \in Plain /\ Advance(ch) = GW
    BY <1>6, PlainChars
  <2>2. con'.x - Advance(ch) \in 0 .. W /\ con'.y \in 0 .. H
    BY <1>4, <1>6, <2>1, PutGlyphPlace DEF Type
  <2>3. PICK t \in Glyphs : t = [ch |-> ch, x |-> con'.x - Advance(ch), y |-> con'.y]
    BY <2>1, <2>2 DEF Glyphs
  <2>4. PICK kept \in Seq(Glyphs) : kept = Kept(typed) /\ Len(kept) = Len(typed)
    BY <1>2, KeptType
  <2>5. typed' = Append(kept, t) /\ Len(typed) < MaxTyped /\ old' \subseteq old
    BY <1>6, <2>3, <2>4 DEF Type
  <2> QED
    BY <1>2, <2>4, <2>5
<1>7. CASE Erase
  <2>1. typed' = SubSeq(typed, 1, Len(typed) - 1) /\ old' = old /\ Len(typed) \in Nat \ {0}
    BY <1>2, <1>7 DEF Erase
  <2> QED
    BY <1>2, <2>1
<1>8. CASE EndLine
  BY <1>2, <1>5, <1>8 DEF EndLine
<1>9. CASE PrintTab
  BY <1>2, <1>5, <1>9 DEF PrintTab
<1>10. CASE Clear
  BY <1>2, <1>10 DEF Clear
<1>11. ASSUME NEW opaque \in Backgrounds, SetBackground(opaque)
       PROVE  typed' \in Seq(Glyphs) /\ Len(typed') <= MaxTyped /\ old' \subseteq Pixels
  BY <1>2, <1>11 DEF SetBackground
<1>12. CASE UNCHANGED vars
  BY <1>2, <1>12 DEF vars
<1> QED
  BY <1>6, <1>7, <1>8, <1>9, <1>10, <1>11, <1>12 DEF Next

(* The driver's state, the framebuffer and the history keep their types,   *)
(* for every size of them.                                                 *)
THEOREM ConsoleTypes == ASSUME "esc" \notin Chars PROVE Spec => []TypeOK
<1>1. TypeInv => TypeOK
  BY DEF TypeInv, Inv, Good, Colors, TypeOK, CursorInside
<1> QED
  BY <1>1, InitTypeInv, NextTypeInv, PTL DEF Spec
-----------------------------------------------------------------------------
(* The text.  Glyphs start at multiples of their width, and the screen is  *)
(* a whole number of them wide.                                            *)
Cols == {GW * k : k \in Nat}

(* The columns of glyphs: multiples of the glyph width, closed under the   *)
(* moves of the cursor.                                                    *)
LEMMA ColsProperties ==
  /\ Cols \subseteq Nat /\ 0 \in Cols
  /\ \A a \in Cols : a + GW \in Cols
  /\ \A a, b \in Cols : a < b => a + GW <= b
  /\ \A a \in Cols : a >= GW => a - GW \in Cols
<1>0. GW \in Nat /\ GW > 0
  BY SizeAssumption
<1>1. Cols \subseteq Nat /\ 0 \in Cols
  <2>1. GW * 0 = 0 /\ \A k \in Nat : GW * k \in Nat
    BY <1>0
  <2> QED
    BY <2>1 DEF Cols
<1>2. \A i, j \in Nat : i < j => GW * (i + 1) <= GW * j
  BY <1>0
<1>3. \A i \in Nat : GW * (i + 1) = GW * i + GW
  BY <1>0
<1>4. ASSUME NEW a \in Cols PROVE a + GW \in Cols
  BY <1>3 DEF Cols
<1>5. ASSUME NEW a \in Cols, NEW b \in Cols, a < b PROVE a + GW <= b
  <2>1. PICK i \in Nat, j \in Nat : a = GW * i /\ b = GW * j
    BY DEF Cols
  <2>2. i < j
    <3> SUFFICES ASSUME ~(i < j) PROVE FALSE
      OBVIOUS
    <3>1. i >= j
      OBVIOUS
    <3>2. GW * i >= GW * j
      BY <1>0, <3>1
    <3>3. GW * i \in Int /\ GW * j \in Int
      BY <1>0
    <3> QED
      BY <1>5, <2>1, <3>2, <3>3
  <2> QED
    BY <1>2, <1>3, <2>1, <2>2
<1>6. ASSUME NEW a \in Cols, a >= GW PROVE a - GW \in Cols
  <2>1. PICK i \in Nat : a = GW * i
    BY DEF Cols
  <2>2. i # 0
    BY <1>0, <1>6, <2>1
  <2>3. i - 1 \in Nat /\ (i - 1) + 1 = i
    BY <2>2
  <2>4. GW * i = GW * (i - 1) + GW
    BY <1>3, <2>3
  <2>5. a - GW = GW * (i - 1)
    BY <1>0, <2>1, <2>3, <2>4
  <2> QED
    BY <2>3, <2>5 DEF Cols
<1> QED
  BY <1>1, <1>4, <1>5, <1>6

(* p is in front of the place (x, y), in reading order.                    *)
Before(p, x, y) == p[2] < y \/ (p[2] = y /\ p[1] < x)

InkOf(c) == Coloured(c, "ink")

(* There is ink only in front of the cursor, and of where it was drawn.    *)
Written(c) == \A p \in InkOf(c) : Before(p, c.x, c.y)
Drawn(c)   == Written(c) /\ \A p \in InkOf(c) : Before(p, c.lastX, c.lastY)

(* What is drawn before a place is not under the bar at that place.        *)
LEMMA BeforeBar ==
  ASSUME NEW p \in Pixels, NEW x \in Nat, NEW y \in Nat, Before(p, x, y)
  PROVE  p \notin Bar(x, y) /\ ~(p[1] \in x .. x + GW - 1 /\ p[2] \in y .. y + GH - 1)
<1>1. p[1] \in Int /\ p[2] \in Int /\ GW \in Nat /\ GH \in Nat
  BY Origin DEF Pixels
<1> QED
  BY <1>1 DEF Before, Bar

(* eraseCursor takes away no ink.                                          *)
LEMMA EraseCursorInk ==
  ASSUME NEW c \in Good, Drawn(c)
  PROVE  /\ InkOf(EraseCursor(c)) = InkOf(c) /\ Drawn(EraseCursor(c))
         /\ EraseCursor(c).x = c.x /\ EraseCursor(c).y = c.y
         /\ EraseCursor(c).cleared = c.cleared
<1> DEFINE erased == [p \in Pixels |-> IF p \in Bar(c.lastX, c.lastY) THEN "bg" ELSE c.pix[p]]
<1>1. PICK d : d = EraseCursor(c)
  OBVIOUS
<1>2. d = [c EXCEPT !.pix = erased]
  BY <1>1, EraseCursorPaints
<1>3. /\ d.pix = erased /\ d.x = c.x /\ d.y = c.y /\ d.cleared = c.cleared
      /\ d.lastX = c.lastX /\ d.lastY = c.lastY
  <2> HIDE DEF erased
  <2> QED
    BY <1>2 DEF Good
<1>4. c.lastX \in Nat /\ c.lastY \in Nat
  BY Origin DEF Good
<1>5. \A p \in Pixels : erased[p] = "ink" <=> c.pix[p] = "ink"
  BY <1>4, BeforeBar DEF Drawn, InkOf, Coloured
<1>6. InkOf(d) = InkOf(c)
  <2> HIDE DEF erased
  <2> QED
    BY <1>3, <1>5 DEF InkOf, Coloured
<1> QED
  BY <1>1, <1>3, <1>6 DEF Drawn, Written

(* showCursor takes away no ink when all of it is before the cursor.       *)
LEMMA ShowCursorInk ==
  ASSUME NEW c \in Good, Written(c)
  PROVE  /\ InkOf(ShowCursor(c)) = InkOf(c) /\ Drawn(ShowCursor(c))
         /\ ShowCursor(c).x = c.x /\ ShowCursor(c).y = c.y
         /\ ShowCursor(c).cleared = c.cleared
<1> DEFINE shown == [p \in Pixels |-> IF p \in Bar(c.x, c.y) THEN "cursor" ELSE c.pix[p]]
<1>1. PICK d : d = ShowCursor(c)
  OBVIOUS
<1>2. d = [c EXCEPT !.pix = shown, !.lastX = c.x, !.lastY = c.y]
  BY <1>1, ShowCursorPaints
<1>3. /\ d.pix = shown /\ d.x = c.x /\ d.y = c.y /\ d.cleared = c.cleared
      /\ d.lastX = c.x /\ d.lastY = c.y
  <2> HIDE DEF shown
  <2> QED
    BY <1>2 DEF Good
<1>4. c.x \in Nat /\ c.y \in Nat
  BY Origin DEF Good
<1>5. \A p \in Pixels : shown[p] = "ink" <=> c.pix[p] = "ink"
  BY <1>4, BeforeBar DEF Written, InkOf, Coloured
<1>6. InkOf(d) = InkOf(c)
  <2> HIDE DEF shown
  <2> QED
    BY <1>3, <1>5 DEF InkOf, Coloured
<1> QED
  BY <1>1, <1>3, <1>6 DEF Drawn, Written

(* resetScreen takes away all the ink.                                     *)
LEMMA ResetScreenInk ==
  ASSUME NEW c \in Good
  PROVE  /\ InkOf(resetScreen(c)) = {} /\ Drawn(resetScreen(c)) /\ resetScreen(c).cleared
         /\ resetScreen(c).x = 0 /\ resetScreen(c).y = 0
<1>1. PICK d : d = resetScreen(c)
  OBVIOUS
<1>2. d.pix = Blank /\ d.cleared /\ d.x = 0 /\ d.y = 0
  BY <1>1, ResetScreenPaints DEF Good
<1>3. InkOf(d) = {}
  BY <1>2 DEF InkOf, Coloured, Blank
<1> QED
  BY <1>1, <1>2, <1>3 DEF Drawn, Written

(* A new line: the ink stays, or the screen is cleared.                    *)
LEMMA PutNewlineInk ==
  ASSUME NEW c \in Good, Drawn(c)
  PROVE  /\ Drawn(PutNewline(c)) /\ PutNewline(c).x = 0
         /\ \/ PutNewline(c).cleared /\ InkOf(PutNewline(c)) = {} /\ PutNewline(c).y = 0
            \/ /\ PutNewline(c).cleared = c.cleared /\ InkOf(PutNewline(c)) = InkOf(c)
               /\ PutNewline(c).y = c.y + GH
<1>1. PICK e \in Good : /\ e = EraseCursor(c) /\ InkOf(e) = InkOf(c) /\ Drawn(e)
                       /\ e.x = c.x /\ e.y = c.y /\ e.cleared = c.cleared
  BY EraseCursorGood, EraseCursorInk
<1>2. PICK n : n = Newline(e)
  OBVIOUS
<1>3. /\ n \in Good /\ Written(n) /\ n.x = 0
      /\ \/ n.cleared /\ InkOf(n) = {} /\ n.y = 0
         \/ n.cleared = c.cleared /\ InkOf(n) = InkOf(c) /\ n.y = c.y + GH
  <2>1. CASE e.y + GH > H
    BY <1>2, <2>1, ResetScreenGood, ResetScreenInk DEF Newline, Drawn
  <2>2. CASE ~(e.y + GH > H)
    <3>1. e.y + GH \in 0 .. H
      BY <2>2, Origin DEF Good
    <3>2. n = [e EXCEPT !.x = 0, !.y = e.y + GH]
      BY <1>2, <2>2 DEF Newline
    <3>3. n \in Good /\ n.pix = e.pix /\ n.cleared = e.cleared /\ n.x = 0 /\ n.y = e.y + GH
      BY <3>1, <3>2, Origin DEF Good
    <3>4. InkOf(n) = InkOf(e)
      BY <3>3 DEF InkOf, Coloured
    <3>5. ASSUME NEW p \in InkOf(n) PROVE Before(p, n.x, n.y)
      <4>1. p \in Pixels /\ Before(p, e.x, e.y)
        BY <1>1, <3>4, <3>5 DEF Drawn, Written, InkOf, Coloured
      <4>2. p[2] \in Int /\ e.y \in Nat /\ GH \in Nat /\ GH > 0
        BY <4>1, GoodFields, PixelFields
      <4> QED
        BY <3>3, <4>1, <4>2 DEF Before
    <3> QED
      BY <1>1, <3>3, <3>4, <3>5 DEF Written
  <2> QED
    BY <2>1, <2>2
<1> QED
  BY <1>1, <1>2, <1>3, ShowCursorInk DEF PutNewline

(* A glyph adds its ink at the cursor, in front of the place it moves to.  *)
LEMMA GlyphInk ==
  ASSUME NEW c \in Good, Written(c), NEW ch \in Plain
  PROVE  /\ InkOf(ssfn_putc(c, ch)) = InkOf(c) \cup Ink(ch, c.x, c.y)
         /\ Written(ssfn_putc(c, ch))
         /\ ssfn_putc(c, ch).x = c.x + GW /\ ssfn_putc(c, ch).y = c.y
         /\ ssfn_putc(c, ch).cleared = c.cleared
<1> DEFINE box == IF c.opaque THEN Paint(c.pix, c.x, c.y, GW, GH, "bg") ELSE c.pix
           drawn == [p \in Pixels |-> IF p \in Ink(ch, c.x, c.y) THEN "ink" ELSE box[p]]
<1>1. Advance(ch) = GW
  BY PlainChars
<1>2. PICK d : d = ssfn_putc(c, ch)
  OBVIOUS
<1>3. d = [c EXCEPT !.pix = drawn, !.x = c.x + GW]
  BY <1>1, <1>2 DEF ssfn_putc
<1>4. d.pix = drawn /\ d.x = c.x + GW /\ d.y = c.y /\ d.cleared = c.cleared
  <2> HIDE DEF drawn
  <2> QED
    BY <1>3 DEF Good
<1>5. c.x \in Nat /\ c.y \in Nat /\ GW \in Nat
  BY GoodFields
<1>6. \A p \in Pixels : box[p] = "ink" <=> c.pix[p] = "ink"
  BY <1>5, BeforeBar DEF Written, InkOf, Coloured, Paint
<1>7. Ink(ch, c.x, c.y) \subseteq {p \in Pixels : p[1] \in c.x .. c.x + GW - 1 /\ p[2] = c.y}
  BY <1>1 DEF Ink
<1>8. InkOf(d) = InkOf(c) \cup Ink(ch, c.x, c.y)
  <2>1. \A p \in Pixels : drawn[p] = "ink" <=> (c.pix[p] = "ink" \/ p \in Ink(ch, c.x, c.y))
    <3> HIDE DEF box
    <3> QED
      BY <1>6
  <2> HIDE DEF drawn
  <2> QED
    BY <1>4, <1>7, <2>1 DEF InkOf, Coloured
<1>9. ASSUME NEW p \in InkOf(d) PROVE Before(p, d.x, d.y)
  <2>1. p \in Pixels /\ p[1] \in Int /\ p[2] \in Int
    <3>1. p \in Pixels
      BY <1>9 DEF InkOf, Coloured
    <3> QED
      BY <3>1, PixelFields
  <2>2. Before(p, c.x, c.y) \/ (p[1] \in c.x .. c.x + GW - 1 /\ p[2] = c.y)
    BY <1>7, <1>8, <1>9 DEF Written
  <2>3. PICK i \in Int, j \in Int, a \in Nat, b \in Nat : i = p[1] /\ j = p[2] /\ a = c.x /\ b = c.y
    BY <1>5, <2>1
  <2>4. j < b \/ (j = b /\ i < a) \/ (i \in a .. a + GW - 1 /\ j = b)
    BY <2>2, <2>3 DEF Before
  <2>5. j < b \/ (j = b /\ i < a + GW)
    BY <2>4, EndOfGlyph, Zenon
  <2>6. d.x = a + GW /\ d.y = b
    BY <1>4, <2>3
  <2> QED
    BY <2>3, <2>5, <2>6 DEF Before
<1> QED
  BY <1>2, <1>4, <1>8, <1>9 DEF Written

(* Where _putchar puts a character, and what of the screen is left.        *)
LEMMA PutGlyphInk ==
  ASSUME NEW c \in Good, Drawn(c), NEW ch \in Plain
  PROVE  \E x \in 0 .. W, y \in 0 .. H :
           /\ PutGlyph(c, ch).x = x + GW /\ PutGlyph(c, ch).y = y
           /\ Drawn(PutGlyph(c, ch))
           /\ \/ /\ PutGlyph(c, ch).cleared /\ x = 0 /\ y = 0
                 /\ InkOf(PutGlyph(c, ch)) = Ink(ch, x, y)
              \/ /\ PutGlyph(c, ch).cleared = c.cleared
                 /\ IF Wraps(c) THEN x = 0 /\ y = c.y + GH ELSE x = c.x /\ y = c.y
                 /\ InkOf(PutGlyph(c, ch)) = InkOf(c) \cup Ink(ch, x, y)
<1>1. PICK e \in Good : /\ e = EraseCursor(c) /\ InkOf(e) = InkOf(c) /\ Drawn(e)
                       /\ e.x = c.x /\ e.y = c.y /\ e.cleared = c.cleared
  BY EraseCursorGood, EraseCursorInk
<1> DEFINE Kept1(d) == /\ d.cleared = c.cleared /\ InkOf(d) = InkOf(c)
                       /\ IF Wraps(c) THEN d.x = 0 /\ d.y = c.y + GH ELSE d.x = c.x /\ d.y = c.y
           Cleared1(d) == d.cleared /\ InkOf(d) = {} /\ d.x = 0 /\ d.y = 0
<1>2. PICK wrapped \in Good : /\ wrapped = IF Wraps(e) THEN PutNewline(e) ELSE e
                             /\ Drawn(wrapped) /\ (Cleared1(wrapped) \/ Kept1(wrapped))
                             /\ ~(wrapped.x + GW > W)
  <2>1. Wraps(e) <=> Wraps(c)
    BY <1>1 DEF Wraps
  <2>2. CASE Wraps(e)
    <3>1. PICK n \in Good : n = PutNewline(e)
      BY PutNewlineGood
    <3>2. /\ Drawn(n) /\ n.x = 0
          /\ \/ n.cleared /\ InkOf(n) = {} /\ n.y = 0
             \/ n.cleared = e.cleared /\ InkOf(n) = InkOf(e) /\ n.y = e.y + GH
      BY <1>1, <3>1, PutNewlineInk
    <3>3. n = IF Wraps(e) THEN PutNewline(e) ELSE e
      BY <2>2, <3>1
    <3>4. Cleared1(n) \/ Kept1(n)
      BY <1>1, <2>1, <2>2, <3>2
    <3> QED
      BY <3>2, <3>3, <3>4, GlyphFits
  <2>3. CASE ~Wraps(e)
    <3>1. Kept1(e)
      BY <1>1, <2>1, <2>3
    <3>2. ~(e.x + GW > W)
      BY <2>3 DEF Wraps
    <3> QED
      BY <1>1, <2>3, <3>1, <3>2
  <2> QED
    BY <2>2, <2>3
<1>3. PICK fits \in Good : /\ fits = IF wrapped.y + GH > H THEN resetScreen(wrapped) ELSE wrapped
                          /\ Written(fits) /\ (Cleared1(fits) \/ Kept1(fits))
                          /\ ~(fits.x + GW > W)
  <2>1. CASE wrapped.y + GH > H
    <3>1. PICK r \in Good : r = resetScreen(wrapped)
      BY ResetScreenGood
    <3>2. Drawn(r) /\ Cleared1(r)
      BY <3>1, ResetScreenInk
    <3>3. r.x = 0
      BY <3>2
    <3> HIDE DEF Cleared1, Kept1
    <3> QED
      BY <2>1, <3>1, <3>2, <3>3, GlyphFits DEF Drawn
  <2>2. CASE ~(wrapped.y + GH > H)
    BY <1>2, <2>2 DEF Drawn
  <2> QED
    BY <2>1, <2>2
<1>4. PICK glyph \in Good : glyph = ssfn_putc(fits, ch)
  BY <1>3, GlyphGood
<1>5. /\ InkOf(glyph) = InkOf(fits) \cup Ink(ch, fits.x, fits.y) /\ Written(glyph)
      /\ glyph.x = fits.x + GW /\ glyph.y = fits.y /\ glyph.cleared = fits.cleared
  BY <1>3, <1>4, GlyphInk
<1>6. PICK d : d = ShowCursor(glyph) /\ d = PutGlyph(c, ch)
  BY <1>1, <1>2, <1>3, <1>4 DEF PutGlyph
<1>7. /\ InkOf(d) = InkOf(glyph) /\ Drawn(d) /\ d.x = glyph.x /\ d.y = glyph.y
      /\ d.cleared = glyph.cleared
  BY <1>5, <1>6, ShowCursorInk
<1>8. PICK x \in 0 .. W, y \in 0 .. H : x = fits.x /\ y = fits.y
  BY DEF Good
<1>9. /\ d.x = x + GW /\ d.y = y
      /\ \/ d.cleared /\ x = 0 /\ y = 0 /\ InkOf(d) = Ink(ch, x, y)
         \/ /\ d.cleared = c.cleared
            /\ IF Wraps(c) THEN x = 0 /\ y = c.y + GH ELSE x = c.x /\ y = c.y
            /\ InkOf(d) = InkOf(c) \cup Ink(ch, x, y)
  BY <1>3, <1>5, <1>7, <1>8
<1> QED
  BY <1>6, <1>7, <1>9

(* A blank moves the cursor and leaves no ink.                             *)
LEMMA BlankInk ==
  ASSUME NEW c \in Good, Drawn(c), c.x \in Cols, NEW ch \in Plain
  PROVE  PutGlyph(c, ch) \in Good /\ Drawn(PutGlyph(c, ch)) /\ PutGlyph(c, ch).x \in Cols
<1>1. PICK d \in Good : d = PutGlyph(c, ch)
  BY PutGlyphGood
<1>2. PICK x \in 0 .. W : d.x = x + GW /\ Drawn(d) /\ (x = 0 \/ x = c.x)
  BY <1>1, PutGlyphInk
<1>3. x \in Cols
  BY <1>2, ColsProperties
<1> QED
  BY <1>1, <1>2, <1>3, ColsProperties

(* A tab draws nothing, and clears everything or nothing.                  *)
LEMMA PutTabInk ==
  ASSUME NEW c \in Good, Drawn(c), c.x \in Cols
  PROVE  Drawn(PutTab(c)) /\ PutTab(c).x \in Cols
<1>1. ASSUME NEW d \in Good, Drawn(d), d.x \in Cols
      PROVE  TwoSpaces(d) \in Good /\ Drawn(TwoSpaces(d)) /\ TwoSpaces(d).x \in Cols
  <2>1. PICK ch \in Plain : TwoSpaces(d) = PutGlyph(PutGlyph(d, ch), ch)
    BY PlainChars, Zenon DEF TwoSpaces
  <2>2. PICK one \in Good : one = PutGlyph(d, ch) /\ Drawn(one) /\ one.x \in Cols
    BY <1>1, BlankInk
  <2> QED
    BY <2>1, <2>2, BlankInk
<1>2. PICK e \in Good : e = EraseCursor(c) /\ Drawn(e) /\ e.x \in Cols
  BY EraseCursorGood, EraseCursorInk
<1>3. PICK two \in Good : two = TwoSpaces(e) /\ Drawn(two) /\ two.x \in Cols
  BY <1>1, <1>2
<1>4. PICK four \in Good : four = TwoSpaces(two) /\ Drawn(four) /\ four.x \in Cols
  BY <1>1, <1>3
<1>5. Drawn(ShowCursor(four)) /\ ShowCursor(four).x = four.x
  BY <1>4, ShowCursorInk DEF Drawn
<1> QED
  BY <1>2, <1>3, <1>4, <1>5 DEF PutTab

(* Where a backspace goes back to.                                         *)
LEMMA MoveBackTo ==
  ASSUME NEW c \in Good
  PROVE  /\ MoveBack(c).x = IF c.x >= GW THEN c.x - GW ELSE IF c.y >= GH THEN W - GW ELSE c.x
         /\ MoveBack(c).y = IF c.x >= GW THEN c.y ELSE IF c.y >= GH THEN c.y - GH ELSE c.y
         /\ MoveBack(c).cleared = c.cleared
BY DEF MoveBack, Good

(* A backspace wipes the cell it goes back to: what was drawn before stays *)
(* when all the rest is in that cell.                                      *)
LEMMA PutBackspaceInk ==
  ASSUME NEW c \in Good, Drawn(c), NEW x \in 0 .. W, NEW y \in 0 .. H,
         MoveBack(c).x = x, MoveBack(c).y = y, NEW S \in SUBSET Pixels,
         \A p \in S : Before(p, x, y),
         \A p \in InkOf(c) \ S : p[1] \in x .. x + GW - 1 /\ p[2] \in y .. y + GH - 1,
         S \subseteq InkOf(c)
  PROVE  /\ InkOf(PutBackspace(c)) = S /\ Drawn(PutBackspace(c))
         /\ PutBackspace(c).x = x /\ PutBackspace(c).y = y
         /\ PutBackspace(c).cleared = c.cleared
<1>1. PICK e \in Good : /\ e = EraseCursor(c) /\ InkOf(e) = InkOf(c)
                       /\ e.x = c.x /\ e.y = c.y /\ e.cleared = c.cleared
  BY EraseCursorGood, EraseCursorInk
<1>2. PICK back \in Good : back = MoveBack(e) /\ back.pix = e.pix
  BY MoveBackGood
<1>3. back.x = x /\ back.y = y /\ back.cleared = c.cleared
  BY <1>1, <1>2, MoveBackTo
<1>4. PICK wiped : wiped = drawRect(back, back.x, back.y, GW, GH, "bg")
  OBVIOUS
<1>5. wiped \in Good /\ wiped = [back EXCEPT !.pix = Paint(back.pix, x, y, GW, GH, "bg")]
  <2>1. GW \in Nat /\ GH \in Nat /\ "bg" \in Colors
    BY Origin DEF Colors
  <2> QED
    BY <1>3, <1>4, <2>1, DrawRectInside, DrawRectPaints
<1>6. /\ wiped.pix = Paint(e.pix, x, y, GW, GH, "bg") /\ wiped.x = x /\ wiped.y = y
      /\ wiped.cleared = c.cleared
  BY <1>2, <1>3, <1>5 DEF Good
<1>7. InkOf(wiped) = S
  <2>1. \A p \in Pixels : e.pix[p] = "ink" <=> p \in InkOf(c)
    BY <1>1 DEF InkOf, Coloured
  <2>2. \A p \in S : p \in Pixels /\ ~(p[1] \in x .. x + GW - 1 /\ p[2] \in y .. y + GH - 1)
    <3>1. x \in Nat /\ y \in Nat
      BY Origin
    <3> QED
      BY <3>1, BeforeBar
  <2>3. \A p \in Pixels : wiped.pix[p] = "ink" <=> p \in S
    BY <1>6, <2>1, <2>2 DEF Paint
  <2> QED
    BY <2>3 DEF InkOf, Coloured
<1>8. Written(wiped)
  BY <1>6, <1>7 DEF Written
<1>9. PutBackspace(c) = ShowCursor(wiped)
  BY <1>1, <1>2, <1>4 DEF PutBackspace
<1> QED
  BY <1>5, <1>6, <1>7, <1>8, <1>9, ShowCursorInk
-----------------------------------------------------------------------------
(* Where the characters of the line are: each in front of the next one, a  *)
(* cell or an end of line away, and the last one in front of the cursor.   *)
(* The first g of them were cleared away; what is left of the line then    *)
(* starts in the corner of the screen.                                     *)
InFront(t, u) == t.y < u.y \/ (t.y = u.y /\ t.x + GW <= u.x)
Follows(t, x, y) == (x = t.x + GW /\ y = t.y) \/ (t.x + GW = W /\ x = 0 /\ y = t.y + GH)

Placed(g, ts, ink, x, y) ==
  /\ \A i \in 1 .. g : Empty(ts[i])
  /\ g > 0 => ink = {}
  /\ g > 0 /\ g = Len(ts) => x = 0 /\ y = 0
  /\ g > 0 /\ g < Len(ts) => ts[g + 1].x = 0 /\ ts[g + 1].y = 0
  /\ g < Len(ts) => Follows(ts[Len(ts)], x, y)
  /\ \A i \in g + 1 .. Len(ts) : \A p \in ink : Before(p, ts[i].x, ts[i].y)
  /\ \A i \in g + 1 .. Len(ts) - 1 : Follows(ts[i], ts[i + 1].x, ts[i + 1].y)
  /\ \A i, j \in g + 1 .. Len(ts) : i < j => InFront(ts[i], ts[j])

TextInk(ts) == {p \in Pixels : \E i \in 1 .. Len(ts) : p \in Ink(ts[i].ch, ts[i].x, ts[i].y)}

(* The fields of a glyph on the line.                                      *)
LEMMA GlyphFields ==
  ASSUME NEW t \in Glyphs
  PROVE  /\ t.ch \in Plain /\ t.x \in 0 .. W /\ t.y \in 0 .. H /\ t.x \in Nat /\ t.y \in Nat
         /\ W \in Nat /\ H \in Nat /\ GW \in Nat /\ GH \in Nat /\ GW > 0 /\ GH > 0 /\ GW <= W
<1>1. t.ch \in Plain /\ t.x \in 0 .. W /\ t.y \in 0 .. H
  BY DEF Glyphs
<1>2. W \in Nat /\ H \in Nat /\ GW \in Nat /\ GH \in Nat /\ GW > 0 /\ GH > 0 /\ GW <= W
  BY SizeAssumption
<1>3. t.x \in Nat /\ t.y \in Nat
  BY <1>1, <1>2
<1> QED
  BY <1>1, <1>2, <1>3, Zenon

(* What is before a glyph is before whatever follows that glyph.           *)
LEMMA InFrontTransitive ==
  ASSUME NEW t \in Glyphs, NEW u \in Glyphs, NEW v \in Glyphs, InFront(t, u), InFront(u, v)
  PROVE  InFront(t, v)
<1>1. /\ t.x \in Nat /\ t.y \in Nat /\ u.x \in Nat /\ u.y \in Nat /\ v.x \in Nat /\ v.y \in Nat
      /\ GW \in Nat
  BY GlyphFields
<1> QED
  BY <1>1 DEF InFront

(* A character that is typed goes to the cursor, or to the next line.      *)
LEMMA TypedPlaced ==
  ASSUME W \in Cols, NEW ts \in Seq(Glyphs), NEW ink \in SUBSET Pixels, NEW g \in 0 .. Len(ts),
         NEW cx \in 0 .. W, cx \in Cols, NEW cy \in 0 .. H, Placed(g, ts, ink, cx, cy),
         \A p \in ink : Before(p, cx, cy), NEW t \in Glyphs,
         IF cx + GW > W THEN t.x = 0 /\ t.y = cy + GH ELSE t.x = cx /\ t.y = cy
  PROVE  Placed(g, Append(ts, t), ink, t.x + GW, t.y)
<1>0. /\ Len(ts) \in Nat /\ GW \in Nat /\ GH \in Nat /\ GW > 0 /\ GH > 0 /\ W \in Nat /\ H \in Nat
      /\ GW <= W /\ t.x \in Nat /\ t.y \in Nat /\ g \in Nat /\ g <= Len(ts)
  <2>1. Len(ts) \in Nat /\ g \in Nat /\ g <= Len(ts)
    OBVIOUS
  <2> QED
    BY <2>1, GlyphFields
<1>1. PICK n \in Nat : n = Len(ts)
  BY <1>0
<1>2. PICK us : us = Append(ts, t)
  OBVIOUS
<1>3. /\ us \in Seq(Glyphs) /\ Len(us) = n + 1 /\ us[n + 1] = t
      /\ \A i \in 1 .. n : us[i] = ts[i]
  BY <1>1, <1>2, AppendProperties
<1>4. cx + GW > W => cx = W
  BY <1>0, ColsProperties
<1>5. \A p \in ink : Before(p, t.x, t.y)
  <2> SUFFICES ASSUME NEW p \in ink PROVE Before(p, t.x, t.y)
    OBVIOUS
  <2>1. p[1] \in Int /\ p[2] \in Int /\ Before(p, cx, cy)
    BY DEF Pixels
  <2> QED
    BY <1>0, <2>1 DEF Before
<1>6. g < n => Follows(ts[n], t.x, t.y) /\ InFront(ts[n], t)
  <2> SUFFICES ASSUME g < n PROVE Follows(ts[n], t.x, t.y) /\ InFront(ts[n], t)
    OBVIOUS
  <2>1. PICK u \in Glyphs : u = ts[n]
    BY <1>0, <1>1
  <2>2. u.x \in 0 .. W /\ u.y \in 0 .. H /\ Follows(u, cx, cy)
    BY <1>1, <2>1 DEF Glyphs, Placed
  <2>3. Follows(u, t.x, t.y)
    <3>1. CASE cx + GW > W
      BY <1>0, <1>4, <2>2, <3>1 DEF Follows
    <3>2. CASE ~(cx + GW > W)
      BY <1>0, <2>2, <3>2 DEF Follows
    <3> QED
      BY <3>1, <3>2
  <2>4. InFront(u, t)
    BY <1>0, <2>2, <2>3 DEF Follows, InFront
  <2> QED
    BY <2>1, <2>3, <2>4
<1>7. \A i \in g + 1 .. n : InFront(ts[i], t)
  <2> SUFFICES ASSUME NEW i \in g + 1 .. n PROVE InFront(ts[i], t)
    OBVIOUS
  <2>1. i \in 1 .. n /\ n \in 1 .. n /\ n \in g + 1 .. n /\ g < n
    BY <1>0
  <2>2. ts[i] \in Glyphs /\ ts[n] \in Glyphs
    BY <1>1, <2>1
  <2>3. CASE i = n
    BY <1>6, <2>1, <2>3
  <2>4. CASE i < n
    <3>1. InFront(ts[i], ts[n])
      BY <1>1, <2>1, <2>4 DEF Placed
    <3> QED
      BY <1>6, <2>1, <2>2, <3>1, InFrontTransitive
  <2> QED
    BY <1>0, <2>1, <2>3, <2>4
<1>8. \A i \in 1 .. g : Empty(us[i])
  <2>1. \A i \in 1 .. g : i \in 1 .. n
    BY <1>0, <1>1
  <2> QED
    BY <1>3, <2>1 DEF Placed
<1>9. g > 0 => us[g + 1].x = 0 /\ us[g + 1].y = 0
  <2>1. CASE g = n
    <3>1. g > 0 => cx = 0 /\ cy = 0
      BY <1>1, <2>1 DEF Placed
    <3> QED
      BY <1>0, <1>3, <2>1, <3>1
  <2>2. CASE g < n
    <3>1. g + 1 \in 1 .. n
      BY <1>0, <1>1, <2>2
    <3> QED
      BY <1>1, <1>3, <2>2, <3>1 DEF Placed
  <2> QED
    BY <1>0, <1>1, <2>1, <2>2
<1>10. \A i \in g + 1 .. n + 1 : \A p \in ink : Before(p, us[i].x, us[i].y)
  <2>1. \A i \in g + 1 .. n + 1 : i = n + 1 \/ (i \in g + 1 .. n /\ i \in 1 .. n)
    BY <1>0
  <2> QED
    BY <1>1, <1>3, <1>5, <2>1 DEF Placed
<1>11. \A i \in g + 1 .. n : Follows(us[i], us[i + 1].x, us[i + 1].y)
  <2> SUFFICES ASSUME NEW i \in g + 1 .. n PROVE Follows(us[i], us[i + 1].x, us[i + 1].y)
    OBVIOUS
  <2>1. CASE i = n
    <3>1. n \in 1 .. n /\ g < n
      BY <1>0, <2>1
    <3> QED
      BY <1>3, <1>6, <2>1, <3>1
  <2>2. CASE i < n
    <3>1. i \in g + 1 .. n - 1 /\ i \in 1 .. n /\ i + 1 \in 1 .. n
      BY <1>0, <2>2
    <3> QED
      BY <1>1, <1>3, <3>1 DEF Placed
  <2> QED
    BY <1>0, <2>1, <2>2
<1>12. \A i, j \in g + 1 .. n + 1 : i < j => InFront(us[i], us[j])
  <2> SUFFICES ASSUME NEW i \in g + 1 .. n + 1, NEW j \in g + 1 .. n + 1, i < j
               PROVE  InFront(us[i], us[j])
    OBVIOUS
  <2>1. i \in g + 1 .. n /\ i \in 1 .. n
    BY <1>0
  <2>2. CASE j = n + 1
    BY <1>3, <1>7, <2>1, <2>2
  <2>3. CASE j # n + 1
    <3>1. j \in g + 1 .. n /\ j \in 1 .. n
      BY <1>0, <2>3
    <3> QED
      BY <1>1, <1>3, <2>1, <3>1 DEF Placed
  <2> QED
    BY <2>2, <2>3
<1>13. Follows(us[n + 1], t.x + GW, t.y)
  BY <1>3 DEF Follows
<1>14. g < n + 1 /\ ~(g = n + 1)
  BY <1>0, <1>1
<1>15. Placed(g, us, ink, t.x + GW, t.y)
  <2>1. n + 1 - 1 = n
    OBVIOUS
  <2>2. g > 0 => ink = {}
    BY DEF Placed
  <2> HIDE DEF Follows, InFront, Before
  <2> QED
    BY <1>3, <1>8, <1>9, <1>10, <1>11, <1>12, <1>13, <1>14, <2>1, <2>2 DEF Placed
<1> QED
  BY <1>2, <1>15

(* Where a backspace leaves the cursor: behind the characters that are     *)
(* left, and with all of their ink, and the old ink unless it is out of    *)
(* sight, before it; at the erased character when that one was on screen.  *)
ErasedTo(ts, ink, g, c, h, x, y) ==
  /\ MoveBack(c).x = x /\ MoveBack(c).y = y
  /\ Placed(h, SubSeq(ts, 1, Len(ts) - 1), ink, x, y)
  /\ \A p \in ink : g = 0 => Before(p, x, y)
  /\ \A i \in g + 1 .. Len(ts) - 1 : InFront(ts[i], [x |-> x, y |-> y])
  /\ g < Len(ts) => x = ts[Len(ts)].x /\ y = ts[Len(ts)].y

(* A backspace goes back to the place of the last character, or stays in   *)
(* the corner when that one was cleared away.                              *)
LEMMA ErasedPlaced ==
  ASSUME NEW ts \in Seq(Glyphs), ts # << >>, NEW ink \in SUBSET Pixels, NEW g \in 0 .. Len(ts),
         NEW c \in Good, Placed(g, ts, ink, c.x, c.y)
  PROVE  \E h \in 0 .. Len(ts) - 1, x \in 0 .. W, y \in 0 .. H : ErasedTo(ts, ink, g, c, h, x, y)
<1>0. /\ Len(ts) \in Nat \ {0} /\ GW \in Nat \ {0} /\ GH \in Nat \ {0} /\ W \in Nat /\ H \in Nat
      /\ GW <= W /\ g \in Nat /\ g <= Len(ts) /\ c.x \in 0 .. W /\ c.y \in 0 .. H
  BY SizeAssumption DEF Good
<1>1. PICK n \in Nat : n = Len(ts) /\ n > 0
  BY <1>0
<1>2. PICK us : us = SubSeq(ts, 1, n - 1)
  OBVIOUS
<1>3. Len(us) = n - 1 /\ \A i \in 1 .. n - 1 : us[i] = ts[i]
  BY <1>1, <1>2
<1>4. \A i \in 1 .. g : i < n => Empty(us[i])
  <2>1. \A i \in 1 .. g : i < n => i \in 1 .. n - 1
    BY <1>0, <1>1
  <2> QED
    BY <1>3, <2>1 DEF Placed
<1>5. CASE g = n
  <2>1. c.x = 0 /\ c.y = 0 /\ ink = {} /\ g > 0
    BY <1>1, <1>5 DEF Placed
  <2>2. MoveBack(c).x = 0 /\ MoveBack(c).y = 0
    <3>1. ~(c.x >= GW) /\ ~(c.y >= GH)
      BY <1>0, <2>1
    <3> QED
      BY <2>1, <3>1, MoveBackTo
  <2>3. Placed(n - 1, us, ink, 0, 0)
    <3>1. \A i \in 1 .. n - 1 : Empty(us[i])
      <4>1. \A i \in 1 .. n - 1 : i \in 1 .. g /\ i < n
        BY <1>5
      <4> QED
        BY <1>4, <4>1
    <3>2. \A i \in (n - 1) + 1 .. n - 1 : FALSE
      BY <1>0
    <3>3. \A i \in (n - 1) + 1 .. (n - 1) - 1 : FALSE
      BY <1>0
    <3>4. ~(n - 1 < n - 1)
      BY <1>0
    <3> QED
      BY <1>3, <2>1, <3>1, <3>2, <3>3, <3>4 DEF Placed
  <2>4. n - 1 \in 0 .. Len(ts) - 1 /\ 0 \in 0 .. W /\ 0 \in 0 .. H
    BY <1>0, <1>1
  <2>5. \A i \in g + 1 .. Len(ts) - 1 : FALSE
    BY <1>0, <1>1, <1>5
  <2>6. ~(g < Len(ts))
    BY <1>1, <1>5
  <2>7. ErasedTo(ts, ink, g, c, n - 1, 0, 0)
    <3> HIDE DEF Placed, Before, InFront
    <3> QED
      BY <1>1, <1>2, <2>1, <2>2, <2>3, <2>4, <2>5, <2>6 DEF ErasedTo
  <2> HIDE DEF ErasedTo
  <2> QED
    BY <2>4, <2>7
<1>6. CASE g < n
  <2>1. PICK t \in Glyphs : t = ts[n]
    BY <1>0, <1>1
  <2>2. t.x \in 0 .. W /\ t.y \in 0 .. H /\ Follows(t, c.x, c.y)
    BY <1>1, <1>6, <2>1 DEF Glyphs, Placed
  <2>3. MoveBack(c).x = t.x /\ MoveBack(c).y = t.y
    <3>1. CASE c.x = t.x + GW /\ c.y = t.y
      <4>1. c.x >= GW /\ c.x - GW = t.x
        BY <1>0, <2>2, <3>1
      <4> QED
        BY <3>1, <4>1, MoveBackTo
    <3>2. CASE t.x + GW = W /\ c.x = 0 /\ c.y = t.y + GH
      <4>1. ~(c.x >= GW) /\ c.y >= GH /\ W - GW = t.x /\ c.y - GH = t.y
        BY SMTT(30), <1>0, <2>2, <3>2
      <4> QED
        BY <4>1, MoveBackTo
    <3> QED
      BY <2>2, <3>1, <3>2 DEF Follows
  <2>4. \A i \in g + 1 .. n - 1 : i \in g + 1 .. n /\ i < n /\ us[i] = ts[i] /\ n \in g + 1 .. n
    BY <1>0, <1>3
  <2>5. n \in g + 1 .. n
    BY <1>0, <1>6
  <2>6. \A p \in ink : Before(p, t.x, t.y)
    BY <1>1, <2>1, <2>5 DEF Placed
  <2>7. \A i \in g + 1 .. n - 1 : InFront(ts[i], t)
    BY <1>1, <2>1, <2>4 DEF Placed
  <2>8. Placed(g, us, ink, t.x, t.y)
    <3>1. \A i \in 1 .. g : Empty(us[i])
      <4>1. \A i \in 1 .. g : i < n
        BY <1>0, <1>6
      <4> QED
        BY <1>4, <4>1
    <3>2. g > 0 /\ g = n - 1 => t.x = 0 /\ t.y = 0
      <4>1. g = n - 1 => g + 1 = n
        BY <1>0
      <4> QED
        BY <1>1, <1>6, <2>1, <4>1 DEF Placed
    <3>3. g > 0 /\ g < n - 1 => us[g + 1].x = 0 /\ us[g + 1].y = 0
      <4>1. g < n - 1 => g + 1 \in 1 .. n - 1
        BY <1>0
      <4> QED
        BY <1>1, <1>3, <1>6, <4>1 DEF Placed
    <3>4. \A i \in g + 1 .. (n - 1) - 1 : i \in g + 1 .. n - 1 /\ us[i] = ts[i] /\ us[i + 1] = ts[i + 1]
      BY <1>0, <1>3
    <3>5. \A i \in g + 1 .. (n - 1) - 1 : Follows(us[i], us[i + 1].x, us[i + 1].y)
      BY <1>1, <3>4 DEF Placed
    <3>6. g < n - 1 => Follows(us[n - 1], t.x, t.y)
      <4>1. g < n - 1 => n - 1 \in g + 1 .. n - 1 /\ (n - 1) + 1 = n
        BY <1>0
      <4>2. g < n - 1 => us[n - 1] = ts[n - 1]
        BY <2>4, <4>1
      <4> QED
        BY <1>1, <2>1, <4>1, <4>2 DEF Placed
    <3>7. \A i \in g + 1 .. n - 1 : \A p \in ink : Before(p, us[i].x, us[i].y)
      BY <1>1, <2>4 DEF Placed
    <3>8. \A i, j \in g + 1 .. n - 1 : i < j => InFront(us[i], us[j])
      BY <1>1, <2>4 DEF Placed
    <3>9. g > 0 => ink = {}
      BY DEF Placed
    <3> HIDE DEF Follows, InFront, Before
    <3> QED
      BY <1>3, <3>1, <3>2, <3>3, <3>5, <3>6, <3>7, <3>8, <3>9 DEF Placed
  <2>9. g \in 0 .. Len(ts) - 1
    BY <1>0, <1>1, <1>6
  <2>10. \A i \in g + 1 .. Len(ts) - 1 : InFront(ts[i], [x |-> t.x, y |-> t.y])
    BY <1>1, <2>7 DEF InFront
  <2>11. ErasedTo(ts, ink, g, c, g, t.x, t.y)
    <3> HIDE DEF Placed, Before, InFront
    <3> QED
      BY <1>1, <1>2, <2>1, <2>3, <2>6, <2>8, <2>10 DEF ErasedTo
  <2> HIDE DEF ErasedTo
  <2> QED
    BY <2>2, <2>9, <2>11
<1>7. g = n \/ g < n
  BY <1>0, <1>1
<1> HIDE DEF ErasedTo
<1> QED
  BY <1>5, <1>6, <1>7

-----------------------------------------------------------------------------
(* The screen holds the ink of the finished lines and of the line, whose   *)
(* characters are in their places.                                         *)
TextInv ==
  /\ TypeInv
  /\ Drawn(con) /\ con.x \in Cols
  /\ InkOf(con) = old \cup TextInk(typed)
  /\ \E g \in 0 .. Len(typed) : Placed(g, typed, old, con.x, con.y)

(* An empty line is in its place.                                          *)
LEMMA EmptyPlaced ==
  ASSUME NEW ink, NEW x, NEW y
  PROVE  Placed(0, << >>, ink, x, y) /\ TextInk(<< >>) = {}
<1>1. Len(<< >>) = 0 /\ ~(0 > 0) /\ ~(0 < 0)
  OBVIOUS
<1>2. \A i \in 0 + 1 .. 0 : FALSE
  OBVIOUS
<1>3. \A i \in 0 + 1 .. 0 - 1 : FALSE
  OBVIOUS
<1>4. \A i \in 1 .. 0 : FALSE
  OBVIOUS
<1> QED
  BY <1>1, <1>2, <1>3, <1>4 DEF Placed, TextInk

(* The ink of a glyph is in the top row of its cell.                       *)
LEMMA InkInRow ==
  ASSUME NEW t \in Glyphs
  PROVE  /\ Ink(t.ch, t.x, t.y) \subseteq {p \in Pixels : p[1] \in t.x .. t.x + GW - 1 /\ p[2] = t.y}
         /\ Empty(t) => Ink(t.ch, t.x, t.y) = {}
<1>1. Advance(t.ch) = GW
  <2>1. t.ch \in Plain
    BY DEF Glyphs
  <2> QED
    BY <2>1, PlainChars
<1>2. Empty(t) => Ink(t.ch, t.x, t.y) = {}
  BY Zenon DEF Empty, Ink
<1>3. Ink(t.ch, t.x, t.y) \subseteq {p \in Pixels : p[1] \in t.x .. t.x + Advance(t.ch) - 1 /\ p[2] = t.y}
  BY Zenon DEF Ink
<1> QED
  BY <1>1, <1>2, <1>3

(* The ink of a line that grows by a glyph.                                *)
LEMMA AppendTextInk ==
  ASSUME NEW ts \in Seq(Glyphs), NEW t \in Glyphs
  PROVE  TextInk(Append(ts, t)) = TextInk(ts) \cup Ink(t.ch, t.x, t.y)
<1>1. PICK n \in Nat : n = Len(ts)
  OBVIOUS
<1>2. PICK us : us = Append(ts, t)
  OBVIOUS
<1>3. Len(us) = n + 1 /\ us[n + 1] = t /\ \A i \in 1 .. n : us[i] = ts[i]
  BY <1>1, <1>2
<1>4. 1 .. n + 1 = 1 .. n \cup {n + 1}
  OBVIOUS
<1>5. Ink(t.ch, t.x, t.y) \subseteq Pixels
  BY DEF Ink
<1> QED
  BY <1>1, <1>2, <1>3, <1>4, <1>5 DEF TextInk

(* A line that a clear took from the screen has no ink.                    *)
LEMMA GoneTextInk ==
  ASSUME NEW ts \in Seq(Glyphs)
  PROVE  TextInk([i \in DOMAIN ts |-> Gone(ts[i])]) = {}
<1>1. DOMAIN ts = 1 .. Len(ts) /\ Len([i \in DOMAIN ts |-> Gone(ts[i])]) = Len(ts)
  OBVIOUS
<1>2. \A t \in Glyphs : Empty(Gone(t))
  BY GoneGlyph
<1>3. \A i \in 1 .. Len(ts) : Empty(Gone(ts[i]))
  BY <1>2, ElementOfSeq
<1>4. ASSUME NEW u, Empty(u) PROVE Ink(u.ch, u.x, u.y) = {}
  BY <1>4, Zenon DEF Empty, Ink
<1>5. PICK us : us = [i \in DOMAIN ts |-> Gone(ts[i])]
  OBVIOUS
<1>6. \A i \in 1 .. Len(us) : Ink(us[i].ch, us[i].x, us[i].y) = {}
  BY <1>1, <1>3, <1>4, <1>5
<1> QED
  BY <1>5, <1>6 DEF TextInk

(* The glyph that is typed is behind all the others.                       *)
LEMMA OneBehind ==
  ASSUME NEW n \in Nat
  PROVE  /\ \A i, j \in n + 1 .. n + 1 : ~(i < j)
         /\ \A i \in n + 1 .. (n + 1) - 1 : FALSE
         /\ n < n + 1 /\ n # n + 1
OBVIOUS

(* A glyph in the corner ends one glyph to the right.                      *)
LEMMA NoOffset == GW = 0 + GW
BY SizeAssumption

(* The text behind a clear of the screen: the new character is in the      *)
(* corner, and those before it are gone.                                   *)
LEMMA ClearedPlaced ==
  ASSUME NEW ts \in Seq(Glyphs), NEW t \in Glyphs, t.x = 0, t.y = 0,
         \A i \in 1 .. Len(ts) : Empty(ts[i])
  PROVE  Placed(Len(ts), Append(ts, t), {}, GW, 0)
<1>1. PICK n \in Nat : n = Len(ts)
  BY LenProperties, Zenon
<1>2. PICK us : us = Append(ts, t)
  OBVIOUS
<1>3. Len(us) = n + 1 /\ us[n + 1] = t /\ \A i \in 1 .. n : us[i] = ts[i]
  BY <1>1, <1>2, AppendProperties
<1>4. /\ \A i, j \in n + 1 .. n + 1 : ~(i < j)
      /\ \A i \in n + 1 .. (n + 1) - 1 : FALSE
      /\ n < n + 1 /\ n # n + 1
  BY OneBehind
<1>5. Follows(t, GW, 0)
  BY Origin, NoOffset, Zenon DEF Follows
<1>6. \A i \in 1 .. n : Empty(us[i])
  BY <1>1, <1>3, Zenon
<1> HIDE DEF Follows, InFront
<1> QED
  BY <1>1, <1>2, <1>3, <1>4, <1>5, <1>6, Zenon DEF Placed

(* The first screen shows the empty line.                                  *)
LEMMA InitTextInv == Init => TextInv
<1> SUFFICES ASSUME Init PROVE TextInv
  OBVIOUS
<1>1. typed = << >> /\ old = {} /\ con = Start
  BY DEF Init
<1>2. con.x = 0 /\ InkOf(con) = {}
  BY <1>1 DEF Start, InkOf, Coloured, Blank
<1>3. Drawn(con)
  BY <1>2 DEF Drawn, Written
<1>4. 0 \in 0 .. Len(typed)
  BY <1>1
<1> QED
  BY <1>1, <1>2, <1>3, <1>4, InitTypeInv, EmptyPlaced, ColsProperties DEF TextInv

(* A character is typed.                                                   *)
LEMMA TypeText ==
  ASSUME W \in Cols, "esc" \notin Chars, TextInv, NEW ch \in Chars, Type(ch)
  PROVE  /\ Drawn(con') /\ con'.x \in Cols
         /\ InkOf(con') = old' \cup TextInk(typed')
         /\ \E g \in 0 .. Len(typed') : Placed(g, typed', old', con'.x, con'.y)
<1>1. PICK ts \in Seq(Glyphs), o \in SUBSET Pixels : ts = typed /\ o = old
  BY DEF TextInv, TypeInv
<1>2. PICK f \in Good : /\ f = Fresh /\ f.x = con.x /\ f.y = con.y /\ InkOf(f) = InkOf(con)
                       /\ Drawn(f) /\ f.cleared = FALSE
  <2>1. con \in Good /\ Drawn(con)
    BY DEF TextInv, TypeInv, Inv
  <2>2. /\ Fresh \in Good /\ Fresh.x = con.x /\ Fresh.y = con.y /\ Fresh.pix = con.pix
        /\ Fresh.lastX = con.lastX /\ Fresh.lastY = con.lastY /\ Fresh.cleared = FALSE
    BY <2>1 DEF Fresh, Good
  <2> QED
    BY <2>1, <2>2 DEF InkOf, Coloured, Drawn, Written
<1>3. ch \in Plain /\ Advance(ch) = GW
  BY PlainChars
<1>4. PICK d : d = con' /\ d = PutGlyph(f, ch)
  BY <1>2 DEF Type
<1>5. PICK x \in 0 .. W, y \in 0 .. H :
        /\ d.x = x + GW /\ d.y = y /\ Drawn(d)
        /\ \/ d.cleared /\ x = 0 /\ y = 0 /\ InkOf(d) = Ink(ch, x, y)
           \/ /\ d.cleared = f.cleared
              /\ IF Wraps(f) THEN x = 0 /\ y = f.y + GH ELSE x = f.x /\ y = f.y
              /\ InkOf(d) = InkOf(f) \cup Ink(ch, x, y)
  BY <1>2, <1>3, <1>4, PutGlyphInk
<1>6. x \in Nat /\ y \in Nat /\ GW \in Nat /\ f.x \in 0 .. W /\ f.y \in 0 .. H /\ f.x \in Cols
  BY <1>2, Origin DEF Good, TextInv
<1>7. PICK t \in Glyphs : t = [ch |-> ch, x |-> x, y |-> y]
  BY <1>3 DEF Glyphs
<1>8. typed' = Append(Kept(ts), t)
  <2>1. con'.x - Advance(ch) = x /\ con'.y = y
    BY <1>3, <1>4, <1>5, <1>6
  <2> QED
    BY <1>1, <1>7, <2>1 DEF Type
<1>9. t.x = x /\ t.y = y /\ t.ch = ch
  BY <1>7
<1>10. d.x \in Cols
  BY <1>5, <1>6, ColsProperties
<1>11. CASE d.cleared
  <2>1. x = 0 /\ y = 0 /\ InkOf(d) = Ink(ch, x, y)
    BY <1>2, <1>5, <1>11
  <2>2. PICK us : us = [i \in DOMAIN ts |-> Gone(ts[i])]
    OBVIOUS
  <2>3. us = Kept(ts)
    BY <1>4, <1>11, <2>2 DEF Kept
  <2>4. us \in Seq(Glyphs) /\ Len(us) = Len(ts)
    BY <2>3, KeptType
  <2>5. typed' = Append(us, t) /\ old' = {}
    BY <1>4, <1>8, <1>11, <2>3 DEF Type
  <2>6. \A i \in 1 .. Len(us) : Empty(us[i])
    <3>1. \A v \in Glyphs : Empty(Gone(v))
      BY GoneGlyph
    <3>2. \A i \in 1 .. Len(ts) : ts[i] \in Glyphs /\ us[i] = Gone(ts[i])
      BY <2>2
    <3> QED
      BY <2>4, <3>1, <3>2
  <2>7. Placed(Len(us), Append(us, t), {}, GW, 0)
    BY <1>9, <2>1, <2>4, <2>6, ClearedPlaced
  <2>8. d.x = GW /\ d.y = 0
    BY <1>5, <1>6, <2>1
  <2>9. Len(us) \in 0 .. Len(Append(us, t))
    BY <2>4
  <2>10. InkOf(d) = {} \cup TextInk(Append(us, t))
    <3>1. TextInk(us) = {}
      BY <2>2, GoneTextInk
    <3>2. TextInk(Append(us, t)) = TextInk(us) \cup Ink(t.ch, t.x, t.y)
      BY <2>4, AppendTextInk
    <3> QED
      BY <1>9, <2>1, <3>1, <3>2
  <2> QED
    BY <1>4, <1>5, <1>10, <2>5, <2>7, <2>8, <2>9, <2>10
<1>12. CASE ~d.cleared
  <2>1. /\ IF Wraps(f) THEN x = 0 /\ y = f.y + GH ELSE x = f.x /\ y = f.y
        /\ InkOf(d) = InkOf(f) \cup Ink(ch, x, y)
    BY <1>5, <1>12
  <2>2. Kept(ts) = ts
    BY <1>4, <1>12 DEF Kept
  <2>3. typed' = Append(ts, t) /\ old' = o
    BY <1>1, <1>4, <1>8, <1>12, <2>2 DEF Type
  <2>4. InkOf(f) = o \cup TextInk(ts)
    BY <1>1, <1>2 DEF TextInv
  <2>5. InkOf(d) = o \cup TextInk(Append(ts, t))
    <3>1. TextInk(Append(ts, t)) = TextInk(ts) \cup Ink(t.ch, t.x, t.y)
      BY AppendTextInk
    <3> QED
      BY <1>9, <2>1, <2>4, <3>1
  <2>6. PICK g \in 0 .. Len(ts) : Placed(g, ts, o, f.x, f.y)
    BY <1>1, <1>2 DEF TextInv
  <2>7. \A p \in o : Before(p, f.x, f.y)
    BY <1>2, <2>4 DEF Drawn, Written
  <2>8. Placed(g, Append(ts, t), o, t.x + GW, t.y)
    <3>1. IF f.x + GW > W THEN t.x = 0 /\ t.y = f.y + GH ELSE t.x = f.x /\ t.y = f.y
      BY <1>9, <2>1 DEF Wraps
    <3>2. PICK cx \in 0 .. W, cy \in 0 .. H : cx = f.x /\ cy = f.y
      BY <1>6
    <3> HIDE DEF Placed, Before
    <3> QED
      BY <1>6, <2>6, <2>7, <3>1, <3>2, TypedPlaced
  <2>9. g \in 0 .. Len(Append(ts, t))
    OBVIOUS
  <2> HIDE DEF Placed
  <2> QED
    BY <1>4, <1>5, <1>9, <1>10, <2>3, <2>5, <2>8, <2>9
<1> QED
  BY <1>11, <1>12

(* A character is erased.                                                  *)
LEMMA EraseText ==
  ASSUME W \in Cols, TextInv, Erase
  PROVE  /\ Drawn(con') /\ con'.x \in Cols
         /\ InkOf(con') = old' \cup TextInk(typed')
         /\ \E g \in 0 .. Len(typed') : Placed(g, typed', old', con'.x, con'.y)
<1>1. PICK ts \in Seq(Glyphs), o \in SUBSET Pixels : ts = typed /\ o = old /\ ts # << >>
  BY DEF TextInv, TypeInv, Erase
<1>2. PICK f \in Good : /\ f = Fresh /\ f.x = con.x /\ f.y = con.y /\ InkOf(f) = InkOf(con) /\ Drawn(f)
  <2>1. con \in Good /\ Drawn(con)
    BY DEF TextInv, TypeInv, Inv
  <2>2. /\ Fresh \in Good /\ Fresh.x = con.x /\ Fresh.y = con.y /\ Fresh.pix = con.pix
        /\ Fresh.lastX = con.lastX /\ Fresh.lastY = con.lastY
    BY <2>1 DEF Fresh, Good
  <2> QED
    BY <2>1, <2>2 DEF InkOf, Coloured, Drawn, Written
<1>3. PICK d : d = con' /\ d = PutBackspace(f)
  BY <1>2 DEF Erase
<1>4. PICK n \in Nat : n = Len(ts) /\ n > 0
  BY <1>1
<1>5. PICK us : us = SubSeq(ts, 1, n - 1)
  OBVIOUS
<1>6. /\ typed' = us /\ old' = o /\ us \in Seq(Glyphs) /\ Len(us) = n - 1
      /\ \A i \in 1 .. n - 1 : us[i] = ts[i]
  BY <1>1, <1>4, <1>5 DEF Erase
<1>7. PICK g \in 0 .. n : Placed(g, ts, o, f.x, f.y)
  BY <1>1, <1>2, <1>4 DEF TextInv
<1>7a. PICK h \in 0 .. n - 1, x \in 0 .. W, y \in 0 .. H : ErasedTo(ts, o, g, f, h, x, y)
  <2>1. g \in 0 .. Len(ts) /\ Placed(g, ts, o, f.x, f.y)
    BY <1>4, <1>7
  <2>2. \E h \in 0 .. Len(ts) - 1, x \in 0 .. W, y \in 0 .. H : ErasedTo(ts, o, g, f, h, x, y)
    <3> HIDE DEF Placed, ErasedTo
    <3> QED
      BY <1>1, <2>1, ErasedPlaced, Zenon
  <2> HIDE DEF ErasedTo
  <2> QED
    BY <1>4, <2>2, Zenon
<1>8. /\ MoveBack(f).x = x /\ MoveBack(f).y = y
      /\ Placed(h, us, o, x, y)
      /\ \A p \in o : g = 0 => Before(p, x, y)
      /\ \A i \in g + 1 .. n - 1 : InFront(ts[i], [x |-> x, y |-> y])
      /\ g < n => x = ts[n].x /\ y = ts[n].y
  BY <1>4, <1>5, <1>7a DEF ErasedTo
<1>9. InkOf(f) = o \cup TextInk(ts)
  BY <1>1, <1>2 DEF TextInv
<1>10. PICK S \in SUBSET Pixels : S = o \cup TextInk(us)
  BY DEF TextInk
<1>11. GW \in Nat /\ GH \in Nat \ {0} /\ W \in Nat /\ H \in Nat
  BY SizeAssumption
<1>12. S \subseteq InkOf(f)
  <2>1. \A i \in 1 .. n - 1 : i \in 1 .. n
    BY <1>4
  <2>2. TextInk(us) \subseteq TextInk(ts)
    BY <1>4, <1>6, <2>1 DEF TextInk
  <2> QED
    BY <1>9, <1>10, <2>2
<1>13. \A p \in S : Before(p, x, y)
  <2>1. ASSUME NEW p \in o PROVE Before(p, x, y)
    <3>1. g = 0
      BY <1>7, <2>1 DEF Placed
    <3> QED
      BY <1>8, <2>1, <3>1
  <2>2. ASSUME NEW p \in TextInk(us) PROVE Before(p, x, y)
    <3>1. PICK i \in 1 .. n - 1 : p \in Pixels /\ p \in Ink(us[i].ch, us[i].x, us[i].y)
      BY <1>6, <2>2 DEF TextInk
    <3>2. PICK t \in Glyphs : t = us[i] /\ t = ts[i]
      BY <1>6, <3>1
    <3>3. p[1] \in t.x .. t.x + GW - 1 /\ p[2] = t.y /\ ~Empty(t)
      BY <3>1, <3>2, InkInRow
    <3>4. i \in g + 1 .. n - 1
      <4>1. i \notin 1 .. g
        BY <1>7, <3>2, <3>3 DEF Placed
      <4> QED
        BY <3>1, <4>1
    <3>5. InFront(t, [x |-> x, y |-> y])
      BY <1>8, <3>2, <3>4
    <3>6. t.x \in Nat /\ t.y \in Nat /\ x \in Nat /\ y \in Nat
      BY <1>11 DEF Glyphs
    <3> QED
      BY <1>11, <3>3, <3>5, <3>6 DEF InFront, Before
  <2> QED
    BY <1>10, <2>1, <2>2
<1>14. \A p \in InkOf(f) \ S : p[1] \in x .. x + GW - 1 /\ p[2] \in y .. y + GH - 1
  <2> SUFFICES ASSUME NEW p \in TextInk(ts) \ TextInk(us)
               PROVE  p[1] \in x .. x + GW - 1 /\ p[2] \in y .. y + GH - 1
    BY <1>9, <1>10
  <2>1. PICK i \in 1 .. n : p \in Pixels /\ p \in Ink(ts[i].ch, ts[i].x, ts[i].y)
    BY <1>4 DEF TextInk
  <2>2. i = n
    <3> SUFFICES ASSUME i # n PROVE p \in TextInk(us)
      OBVIOUS
    <3>1. i \in 1 .. n - 1
      OBVIOUS
    <3> QED
      BY <1>6, <2>1, <3>1 DEF TextInk
  <2>3. PICK t \in Glyphs : t = ts[n]
    BY <1>4
  <2>4. p[1] \in t.x .. t.x + GW - 1 /\ p[2] = t.y /\ ~Empty(t)
    BY <2>1, <2>2, <2>3, InkInRow
  <2>5. g < n
    <3>1. n \notin 1 .. g
      BY <1>7, <2>3, <2>4 DEF Placed
    <3> QED
      BY <1>4, <3>1
  <2>6. t.x = x /\ t.y = y
    BY <1>8, <2>3, <2>5
  <2> QED
    BY <1>11, <2>4, <2>6
<1>15. InkOf(d) = S /\ Drawn(d) /\ d.x = x /\ d.y = y
  <2>1. f \in Good /\ Drawn(f) /\ MoveBack(f).x = x /\ MoveBack(f).y = y
    BY <1>2, <1>8
  <2>2. /\ InkOf(PutBackspace(f)) = S /\ Drawn(PutBackspace(f))
        /\ PutBackspace(f).x = x /\ PutBackspace(f).y = y
    <3> HIDE DEF Before, Drawn, InkOf, MoveBack, PutBackspace
    <3> QED
      BY ZenonT(40), <2>1, <1>12, <1>13, <1>14, PutBackspaceInk
  <2> QED
    BY <1>3, <2>2
<1>16. x \in Cols
  <2>1. f.x \in Cols /\ f.x \in 0 .. W
    BY <1>2 DEF TextInv, Good
  <2>2. W >= GW
    BY SizeAssumption
  <2>3. x = IF f.x >= GW THEN f.x - GW ELSE IF f.y >= GH THEN W - GW ELSE f.x
    BY <1>8, MoveBackTo
  <2> QED
    BY <2>1, <2>2, <2>3, ColsProperties
<1>17. h \in 0 .. Len(us)
  BY <1>4, <1>6
<1> HIDE DEF Placed
<1> QED
  BY <1>3, <1>6, <1>8, <1>10, <1>15, <1>16, <1>17

(* Lines that are finished, tabs, and clears: there is no line being typed *)
(* afterwards.                                                             *)
LEMMA EmptyText ==
  ASSUME typed' = << >>, Drawn(con'), con'.x \in Cols, old' = InkOf(con')
  PROVE  /\ Drawn(con') /\ con'.x \in Cols
         /\ InkOf(con') = old' \cup TextInk(typed')
         /\ \E g \in 0 .. Len(typed') : Placed(g, typed', old', con'.x, con'.y)
<1>1. PICK o, x, y : o = old' /\ x = con'.x /\ y = con'.y
  OBVIOUS
<1>2. Placed(0, << >>, o, x, y) /\ TextInk(<< >>) = {}
  BY EmptyPlaced
<1>3. 0 \in 0 .. Len(<< >>)
  OBVIOUS
<1> HIDE DEF Placed
<1> QED
  BY <1>1, <1>2, <1>3

(* Every operation keeps the characters of the line in their places.       *)
LEMMA NextTextInv ==
  ASSUME W \in Cols, "esc" \notin Chars
  PROVE  TextInv /\ [Next]_vars => TextInv'
<1> SUFFICES ASSUME TextInv, [Next]_vars PROVE TextInv'
  OBVIOUS
<1> DEFINE Goal == /\ Drawn(con') /\ con'.x \in Cols
                   /\ InkOf(con') = old' \cup TextInk(typed')
                   /\ \E g \in 0 .. Len(typed') : Placed(g, typed', old', con'.x, con'.y)
<1>1. TypeInv'
  BY NextTypeInv DEF TextInv
<1>2. con \in Good /\ Drawn(con) /\ con.x \in Cols
  BY DEF TextInv, TypeInv, Inv
<1>3. PICK f \in Good : f = Fresh /\ f.x = con.x /\ Drawn(f)
  <2>1. /\ Fresh \in Good /\ Fresh.x = con.x /\ Fresh.y = con.y /\ Fresh.pix = con.pix
        /\ Fresh.lastX = con.lastX /\ Fresh.lastY = con.lastY
    BY <1>2 DEF Fresh, Good
  <2> QED
    BY <1>2, <2>1 DEF InkOf, Coloured, Drawn, Written
<1>4. Goal
  <2>1. ASSUME NEW ch \in Chars, Type(ch) PROVE Goal
    BY <2>1, TypeText
  <2>2. CASE Erase
    BY <2>2, EraseText
  <2>3. ASSUME typed' = << >>, Drawn(con'), con'.x \in Cols, old' = InkOf(con') PROVE Goal
    BY <2>3, EmptyText
  <2> HIDE DEF Goal
  <2>4. CASE EndLine
    <3>1. PICK d : d = PutNewline(f) /\ d = con'
      BY <1>3, <2>4 DEF EndLine
    <3>2. Drawn(d) /\ d.x \in Cols
      BY <1>3, <3>1, PutNewlineInk, ColsProperties
    <3>3. typed' = << >> /\ old' = InkOf(con')
      BY <2>4 DEF EndLine, InkSet, InkOf, Coloured
    <3> QED
      BY <2>3, <3>1, <3>2, <3>3
  <2>5. CASE PrintTab
    <3>1. PICK d : d = PutTab(f) /\ d = con'
      BY <1>3, <2>5 DEF PrintTab
    <3>2. Drawn(d) /\ d.x \in Cols
      BY <1>2, <1>3, <3>1, PutTabInk
    <3>3. typed' = << >> /\ old' = InkOf(con')
      BY <2>5 DEF PrintTab, InkSet, InkOf, Coloured
    <3> QED
      BY <2>3, <3>1, <3>2, <3>3
  <2>6. ASSUME NEW c \in Good, con' = resetScreen(c), typed' = << >>, old' = {} PROVE Goal
    <3>1. PICK d : d = resetScreen(c) /\ d = con'
      BY <2>6
    <3>2. Drawn(d) /\ d.x \in Cols /\ InkOf(d) = {}
      BY <3>1, ResetScreenInk, ColsProperties
    <3> QED
      BY <2>3, <2>6, <3>1, <3>2
  <2>7. CASE Clear
    BY <1>2, <2>6, <2>7 DEF Clear
  <2>8. ASSUME NEW opaque \in Backgrounds, SetBackground(opaque) PROVE Goal
    <3>1. [con EXCEPT !.opaque = opaque] \in Good
      BY <1>2, PlainChars DEF Good
    <3> QED
      BY <2>6, <2>8, <3>1 DEF SetBackground
  <2>9. CASE UNCHANGED vars
    <3>1. con' = con /\ typed' = typed /\ old' = old
      BY <2>9 DEF vars
    <3>2. TextInv
      OBVIOUS
    <3> QED
      BY <3>1, <3>2 DEF Goal, TextInv
  <2> QED
    BY <2>1, <2>2, <2>4, <2>5, <2>7, <2>8, <2>9 DEF Next
<1> HIDE DEF Goal
<1> QED
  BY <1>1, <1>4 DEF Goal, TextInv

(* A screen with the characters in their places shows the text.            *)
LEMMA TextInvShows == TextInv => ScreenShowsText
<1> SUFFICES ASSUME TextInv PROVE ScreenShowsText
  OBVIOUS
<1>1. PICK ts \in Seq(Glyphs) : ts = typed
  BY DEF TextInv, TypeInv
<1>2. DOMAIN ts = 1 .. Len(ts)
  BY LenProperties
<1>3. \A i \in 1 .. Len(ts) : Ink(ts[i].ch, ts[i].x, ts[i].y) \subseteq Pixels
  BY Zenon DEF Ink
<1>4. TextInk(ts) = UNION {Ink(t.ch, t.x, t.y) : t \in Range(ts)}
  BY <1>2, <1>3, Zenon DEF TextInk, Range
<1> QED
  BY <1>1, <1>4 DEF TextInv, ScreenShowsText, InkSet, InkOf, Coloured

(* The screen shows the finished lines and what was typed and not erased:  *)
(* every backspace wipes the last character that is left, also back across *)
(* the end of a line, for every screen that is a whole number of glyphs    *)
(* wide, of any height, and every background.                              *)
THEOREM ScreenIsText ==
  ASSUME W \in Cols, "esc" \notin Chars
  PROVE  Spec => []ScreenShowsText
BY InitTextInv, NextTextInv, TextInvShows, PTL DEF Spec
=============================================================================
