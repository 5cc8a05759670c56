------------------------------- MODULE Console -------------------------------
(***************************************************************************)
(* The console of the video driver: _putchar moves a pixel cursor over the *)
(* framebuffer, wraps lines, clears the screen at the bottom, and draws    *)
(* glyphs and a cursor bar with drawRect and ssfn_putc.                    *)
(*                                                                         *)
(* The shell is its user: it types characters after one another, erases    *)
(* only what it typed on this line, ends the line, clears the screen.      *)
(***************************************************************************)
EXTENDS Integers, Sequences, Functions

CONSTANTS
  W, H,          \* fb->width, fb->height
  GW, GH,        \* glyphWidth, glyphHeight (8 and 16)
  WORD,          \* 2^64, what the arithmetic of drawRect wraps at
  Chars,         \* the characters that are typed
  Backgrounds,   \* whether a background colour that is set differs from 0
  MaxTyped       \* BOUND: characters on a line (the input buffer's size)

ASSUME SizeAssumption ==
  /\ W \in Nat /\ H \in Nat /\ GW \in Nat \ {0} /\ GH \in Nat \ {0}
  /\ GW <= W /\ GH <= H
  /\ WORD \in Nat /\ W + GW < WORD /\ H + GH < WORD
ASSUME InputAssumption ==
  Chars \subseteq {"x", " ", "esc"} /\ Backgrounds \subseteq BOOLEAN /\ MaxTyped \in Nat

Pixels == (0 .. W - 1) \X (0 .. H - 1)

VARIABLES
  con,     \* the driver's state and the framebuffer
  typed,   \* where the characters of the line are, as typed
  old      \* the ink of the lines before

vars == << con, typed, old >>

Blank == [p \in Pixels |-> "bg"]
Start == [x |-> 0, y |-> 0, lastX |-> 0, lastY |-> 0, pix |-> Blank, opaque |-> TRUE,
          cleared |-> FALSE, overrun |-> FALSE]

(* kmain sets a background colour and calls resetScreen.                   *)
Init == con = Start /\ typed = << >> /\ old = {}
-----------------------------------------------------------------------------
Sub(a, b) == (a - b) % WORD

Paint(pix, x, y, w, h, color) ==
  [p \in Pixels |-> IF p[1] \in x .. x + w - 1 /\ p[2] \in y .. y + h - 1 THEN color ELSE pix[p]]

(* A rectangle that is not inside the framebuffer after all overruns it.   *)
drawRect(c, x, y, width, height, color) ==
  LET w == IF x + width > W THEN Sub(W, x) ELSE width
      h == IF y + height > H THEN Sub(H, y) ELSE height
  IN  IF w > 0 /\ h > 0 /\ (x + w > W \/ y + h > H)
        THEN [c EXCEPT !.overrun = TRUE]
        ELSE [c EXCEPT !.pix = Paint(@, x, y, w, h, color)]

resetScreen(c) ==
  [drawRect([c EXCEPT !.x = 0, !.y = 0], 0, 0, W, H, "bg") EXCEPT !.cleared = TRUE]

(* ssfn_putc: the glyph as far as it is on the screen; in front of a       *)
(* background colour other than 0 it fills its whole box.  "x" stands for  *)
(* every glyph of the width the driver assumes, "esc" for the glyphs of    *)
(* the control characters, which are twice as wide in this font.  Their    *)
(* ink is their top row.                                                   *)
Advance(ch) == IF ch = "esc" THEN 2 * GW ELSE GW

Ink(ch, x, y) ==
  IF ch = " " THEN {} ELSE {p \in Pixels : p[1] \in x .. x + Advance(ch) - 1 /\ p[2] = y}

ssfn_putc(c, ch) ==
  LET box == IF c.opaque THEN Paint(c.pix, c.x, c.y, Advance(ch), GH, "bg") ELSE c.pix
  IN  [c EXCEPT !.pix = [p \in Pixels |-> IF p \in Ink(ch, c.x, c.y) THEN "ink" ELSE box[p]],
                !.x = @ + Advance(ch)]
-----------------------------------------------------------------------------
(***************************************************************************)
(* _putchar: erase the cursor, handle the character, show the cursor.      *)
(***************************************************************************)
NotErased_EraseCursor(c) == c
EraseCursor(c) == drawRect(c, c.lastX, c.lastY, 1, GH, "bg")

ShowCursor(c) == [drawRect(c, c.x, c.y, 1, GH, "cursor") EXCEPT !.lastX = c.x, !.lastY = c.y]

NotReset_Newline(c) ==
  IF c.y + GH > H THEN resetScreen(c) ELSE [c EXCEPT !.y = @ + GH]
Newline(c) ==
  IF c.y + GH > H THEN resetScreen(c) ELSE [c EXCEPT !.x = 0, !.y = @ + GH]

PutNewline(c) == ShowCursor(Newline(EraseCursor(c)))

NoWidth_Wraps(c) == c.x > W
Wraps(c) == c.x + GW > W

PutGlyph(c, ch) ==
  LET erased  == EraseCursor(c)
      wrapped == IF Wraps(erased) THEN PutNewline(erased) ELSE erased
      fits    == IF wrapped.y + GH > H THEN resetScreen(wrapped) ELSE wrapped
  IN  ShowCursor(ssfn_putc(fits, ch))

(* TAB_SPACES is 4.                                                        *)
TwoSpaces(c) == PutGlyph(PutGlyph(c, " "), " ")
PutTab(c) == ShowCursor(TwoSpaces(TwoSpaces(EraseCursor(c))))

NoCarry_MoveBack(c) == IF c.x >= GW THEN [c EXCEPT !.x = @ - GW] ELSE c
MoveBack(c) ==
  IF c.x >= GW THEN [c EXCEPT !.x = @ - GW]
  ELSE IF c.y >= GH THEN [c EXCEPT !.x = W - GW, !.y = @ - GH]
  ELSE c

PutBackspace(c) ==
  LET back == MoveBack(EraseCursor(c))
  IN  ShowCursor(drawRect(back, back.x, back.y, GW, GH, "bg"))
-----------------------------------------------------------------------------
(***************************************************************************)
(* What the shell does with it.                                            *)
(***************************************************************************)
Fresh == [con EXCEPT !.cleared = FALSE]
InkSet == {p \in Pixels : con.pix[p] = "ink"}

(* A character that was cleared away has no place on the screen.           *)
Gone(t) == [t EXCEPT !.ch = " "]
Kept(ts) == IF con'.cleared THEN [i \in DOMAIN ts |-> Gone(ts[i])] ELSE ts

Type(ch) ==
  /\ ~con.overrun /\ Len(typed) < MaxTyped
  /\ con' = PutGlyph(Fresh, ch)
  /\ typed' = Append(Kept(typed), [ch |-> ch, x |-> con'.x - Advance(ch), y |-> con'.y])
  /\ old' = IF con'.cleared THEN {} ELSE old

Erase ==
  /\ ~con.overrun /\ typed # << >>
  /\ con' = PutBackspace(Fresh)
  /\ typed' = SubSeq(typed, 1, Len(typed) - 1)
  /\ UNCHANGED old

EndLine ==
  /\ ~con.overrun
  /\ con' = PutNewline(Fresh)
  /\ typed' = << >>
  /\ old' = InkSet'

(* fbinfo prints tabs at the start of a line.                              *)
PrintTab ==
  /\ ~con.overrun /\ typed = << >>
  /\ con' = PutTab(Fresh)
  /\ old' = InkSet' /\ UNCHANGED typed

(* clear, and bgcolor: the screen is reset without _putchar, so no cursor  *)
(* is shown before the next character, and its place is remembered wrongly *)
(* until then.                                                             *)
Clear ==
  /\ ~con.overrun /\ typed = << >>
  /\ con' = resetScreen(con)
  /\ old' = {} /\ UNCHANGED typed

SetBackground(opaque) ==
  /\ ~con.overrun /\ typed = << >>
  /\ con' = resetScreen([con EXCEPT !.opaque = opaque])
  /\ old' = {} /\ UNCHANGED typed

Next ==
  \/ \E ch \in Chars : Type(ch)
  \/ Erase \/ EndLine \/ PrintTab \/ Clear
  \/ \E opaque \in Backgrounds : SetBackground(opaque)

Spec == Init /\ [][Next]_vars
-----------------------------------------------------------------------------
(***************************************************************************)
(* Properties.                                                             *)
(***************************************************************************)

(* The cursor stays on the screen or just past its right or lower edge,    *)
(* from where the next character brings it back.                           *)
CursorInside ==
  /\ con.x \in 0 .. W /\ con.y \in 0 .. H
  /\ con.lastX \in 0 .. W /\ con.lastY \in 0 .. H

(* Type invariant: driver state, framebuffer and ghost variables keep      *)
(* their types.                                                            *)
TypeOK ==
  /\ CursorInside
  /\ con.pix \in [Pixels -> {"bg", "ink", "cursor"}]
  /\ con.opaque \in BOOLEAN /\ con.cleared \in BOOLEAN /\ con.overrun \in BOOLEAN
  /\ Len(typed) <= MaxTyped /\ old \subseteq Pixels

(* drawRect never leaves the framebuffer ("Ensure that the rectangle is    *)
(* inside the framebuffer"): its subtractions never wrap, wherever text,   *)
(* wraps, backspaces and clears have taken the cursor.                     *)
NoOverrun == ~con.overrun

(* There is one cursor bar at most, where the driver remembers it: wrap,   *)
(* backspace and the nested calls of a tab leave none behind ("Delete the  *)
(* previous cursor before anything").                                      *)
NoStrayCursor ==
  \A p \in Pixels : con.pix[p] = "cursor" =>
    p[1] = con.lastX /\ p[2] \in con.lastY .. con.lastY + GH - 1

(* The screen shows the finished lines and what was typed and not erased,  *)
(* nothing else: every backspace erases the last character that is left    *)
(* ("Delete the previous character"), also across the end of a line.       *)
ScreenShowsText ==
  InkSet = old \cup UNION {Ink(t.ch, t.x, t.y) : t \in Range(typed)}
=============================================================================
