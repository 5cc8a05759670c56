---------------------------- MODULE PrintfProofs ----------------------------
(***************************************************************************)
(* Proofs about Printf, for every call, set of characters, size of the     *)
(* caller's buffer, width of the types and size of the conversion buffers: *)
(* that the parser stays in the format and every conversion yields text    *)
(* that fills its field; that snprintf writes no cell behind its count;    *)
(* that what the caller gets is the text or its beginning; and that the    *)
(* text of an integer conversion is the one the C standard gives.          *)
(***************************************************************************)
EXTENDS Printf, SequenceProofs

-----------------------------------------------------------------------------
(* Powers, which the model defines by recursion.                           *)

(* The powers of b, as they are defined.                                   *)
Powers(g, b, n) == g = [k \in 0 .. n |-> IF k = 0 THEN 1 ELSE b * g[k - 1]]

(* They exist, up to every n.                                              *)
LEMMA PowersExist ==
  ASSUME NEW b \in Int, NEW n \in Nat
  PROVE  \E g \in [0 .. n -> Int] : Powers(g, b, n)
<1> DEFINE F == [i \in Nat |-> [s \in Int |-> b * s]]
<1>1. \A i \in Nat, s \in Int : F[i][s] = b * s
  OBVIOUS
<1>2. \A s \in Int : b * s \in Int
  OBVIOUS
<1> HIDE DEF F
<1>3. Closed(F, Int)
  BY <1>1, <1>2 DEF Closed
<1>4. PICK f \in [0 .. n -> Int] : Recursion(f, F, 1, n)
  <2>1. 1 \in Int
    OBVIOUS
  <2> QED
    BY <1>3, <2>1, RecursionExists
<1>5. ASSUME NEW k \in 0 .. n PROVE f[k] = IF k = 0 THEN 1 ELSE b * f[k - 1]
  <2>1. CASE k = 0
    BY <1>4, <2>1 DEF Recursion
  <2>2. CASE k # 0
    <3>1. k \in 1 .. n /\ k \in Nat /\ k - 1 \in 0 .. n
      BY <2>2
    <3>2. f[k - 1] \in Int /\ f[k] = F[k][f[k - 1]]
      BY <1>4, <3>1 DEF Recursion
    <3>3. F[k][f[k - 1]] = b * f[k - 1]
      BY <1>1, <3>1, <3>2
    <3> QED
      BY <2>2, <3>2, <3>3
  <2> QED
    BY <2>1, <2>2
<1>6. f = [k \in 0 .. n |-> IF k = 0 THEN 1 ELSE b * f[k - 1]]
  BY <1>5
<1> QED
  BY <1>6 DEF Powers

(* There is one n-th power only, however far the table goes.               *)
LEMMA PowersAgree ==
  ASSUME NEW b, NEW n \in Nat, NEW m \in Nat, n <= m, NEW g, Powers(g, b, n), NEW h, Powers(h, b, m)
  PROVE  g[n] = h[n]
<1> DEFINE T == {k \in Nat : k <= n => g[k] = h[k]}
<1>1. 0 \in T
  BY DEF Powers
<1>2. ASSUME NEW k \in Nat, k \in T PROVE k + 1 \in T
  <2>1. CASE k + 1 <= n
    <3>1. k + 1 \in 0 .. n /\ k + 1 \in 0 .. m /\ k + 1 # 0 /\ (k + 1) - 1 = k /\ g[k] = h[k]
      BY <1>2, <2>1
    <3>2. g[k + 1] = b * g[(k + 1) - 1] /\ h[k + 1] = b * h[(k + 1) - 1]
      BY <3>1 DEF Powers
    <3>3. g[k + 1] = h[k + 1]
      BY <3>1, <3>2
    <3> QED
      BY <3>3
  <2> QED
    BY <2>1
<1>3. \A k \in Nat : k \in T
  <2> HIDE DEF T
  <2> QED
    BY <1>1, <1>2, SetInduction
<1> QED
  BY <1>3

(* A power is what any table of them says.                                 *)
LEMMA PowerIs ==
  ASSUME NEW b \in Int, NEW n \in Nat, NEW m \in Nat, n <= m, NEW h, Powers(h, b, m)
  PROVE  Power(b, n) = h[n]
<1>1. PICK f : Powers(f, b, n)
  BY PowersExist
<1> DEFINE g == CHOOSE g : Powers(g, b, n)
<1>2. Powers(g, b, n)
  BY <1>1, Zenon
<1>3. Power(b, n) = g[n]
  BY DEF Power, Powers
<1> HIDE DEF g
<1> QED
  BY <1>2, <1>3, PowersAgree

(* A power is an integer, and the next one is b times it.                  *)
LEMMA PowerStep ==
  ASSUME NEW b \in Int
  PROVE  Power(b, 0) = 1 /\ \A n \in Nat : Power(b, n) \in Int /\ Power(b, n + 1) = b * Power(b, n)
<1>1. ASSUME NEW n \in Nat PROVE Power(b, n) \in Int /\ Power(b, n + 1) = b * Power(b, n)
  <2>1. PICK m \in Nat : m = n + 1 /\ n <= m /\ m <= m /\ m # 0 /\ m - 1 = n /\ m \in 0 .. m /\ n \in 0 .. m
    OBVIOUS
  <2>2. PICK h \in [0 .. m -> Int] : Powers(h, b, m)
    BY PowersExist
  <2>3. Power(b, n) = h[n] /\ Power(b, m) = h[m]
    BY <2>1, <2>2, PowerIs
  <2>4. h[m] = b * h[m - 1]
    BY <2>1, <2>2 DEF Powers
  <2>5. h[n] \in Int
    BY <2>1, <2>2
  <2> QED
    BY <2>1, <2>3, <2>4, <2>5
<1>2. Power(b, 0) = 1
  <2>1. 0 \in Nat /\ 0 <= 0 /\ 0 \in 0 .. 0
    OBVIOUS
  <2>2. PICK h \in [0 .. 0 -> Int] : Powers(h, b, 0)
    BY <2>1, PowersExist
  <2>3. Power(b, 0) = h[0]
    BY <2>1, <2>2, PowerIs
  <2> QED
    BY <2>2, <2>3 DEF Powers
<1> QED
  BY <1>1, <1>2

(* Powers of a base are naturals other than 0, and above 1 they grow.      *)
LEMMA PowerPositive ==
  ASSUME NEW b \in Nat \ {0}, NEW n \in Nat
  PROVE  Power(b, n) \in Nat \ {0}
<1> DEFINE T == {k \in Nat : Power(b, k) > 0}
<1>1. 0 \in T
  BY PowerStep
<1>2. ASSUME NEW k \in Nat, k \in T PROVE k + 1 \in T
  <2>1. PICK p \in Int : p = Power(b, k) /\ p > 0 /\ Power(b, k + 1) = b * p
    BY <1>2, PowerStep
  <2>2. b * p > 0
    BY <2>1
  <2> QED
    BY <2>1, <2>2
<1>3. n \in T
  <2> HIDE DEF T
  <2> QED
    BY <1>1, <1>2, SetInduction
<1>4. Power(b, n) \in Int
  BY PowerStep
<1> QED
  BY <1>3, <1>4

(* A power of two or more outgrows its exponent, so that every number is   *)
(* below one.                                                              *)
LEMMA PowerGrows ==
  ASSUME NEW b \in Nat, b >= 2, NEW n \in Nat
  PROVE  Power(b, n) > n
<1> DEFINE T == {k \in Nat : Power(b, k) > k}
<1>1. 0 \in T
  BY PowerStep
<1>2. ASSUME NEW k \in Nat, k \in T PROVE k + 1 \in T
  <2>1. PICK p \in Int : p = Power(b, k) /\ p > k /\ Power(b, k + 1) = b * p
    BY <1>2, PowerStep
  <2>2. b * p >= 2 * p
    BY <2>1
  <2>3. b * p > k + 1
    BY <2>1, <2>2
  <2> QED
    BY <2>1, <2>3
<1>3. n \in T
  <2> HIDE DEF T
  <2> QED
    BY <1>1, <1>2, SetInduction
<1> QED
  BY <1>3

-----------------------------------------------------------------------------
(* Texts, and what the steps of a conversion do to them.                   *)

Texts == Seq(Characters)

(* The characters the conversions add of their own.                        *)
LEMMA OwnCharacters ==
  /\ \A i \in 1 .. 10 : Digits[i] \in Characters
  /\ NUL \in Characters /\ " " \in Characters /\ "+" \in Characters /\ "-" \in Characters /\ "." \in Characters
  /\ "x" \in Characters /\ "X" \in Characters /\ "n" \in Characters /\ "i" \in Characters
  /\ "a" \in Characters /\ "b" \in Characters /\ "c" \in Characters /\ "d" \in Characters /\ "e" \in Characters
  /\ "f" \in Characters /\ "A" \in Characters /\ "B" \in Characters /\ "C" \in Characters /\ "D" \in Characters
  /\ "E" \in Characters /\ "F" \in Characters /\ "0" \in Characters
<1>1. /\ \A i \in 1 .. 10 : Digits[i] \in _is_digit
      /\ "0" \in _is_digit
  <2>1. DOMAIN Digits = 1 .. 10 /\ Digits[1] = "0"
    BY DEF Digits
  <2> QED
    BY <2>1 DEF _is_digit, Range
<1> QED
  BY <1>1, CharactersAssumption

(* Texts put together, and texts of one character.                         *)
LEMMA TextLen == ASSUME NEW s \in Texts PROVE Len(s) \in Nat
BY DEF Texts

(* Two texts put together are a text, as long as both.                     *)
LEMMA Joined ==
  ASSUME NEW s \in Texts, NEW t \in Texts
  PROVE  s \o t \in Texts /\ Len(s \o t) = Len(s) + Len(t)
BY DEF Texts

(* The empty text.                                                         *)
LEMMA EmptyText == << >> \in Texts /\ Len(<< >>) = 0
BY DEF Texts

(* A text of one character.                                                *)
LEMMA OneCharacters == ASSUME NEW c \in Characters PROVE << c >> \in Texts /\ Len(<< c >>) = 1
BY DEF Texts

(* What a text holds are characters.                                       *)
LEMMA TextAt == ASSUME NEW s \in Texts, NEW i \in 1 .. Len(s) PROVE s[i] \in Characters
BY DEF Texts

(* A text of six characters.                                               *)
LEMMA SixCharacters ==
  ASSUME NEW a \in Characters, NEW b \in Characters, NEW c \in Characters,
         NEW d \in Characters, NEW e \in Characters, NEW f \in Characters
  PROVE  << a, b, c, d, e, f >> \in Texts /\ Len(<< a, b, c, d, e, f >>) = 6
BY DEF Texts

(* A function that gives n characters is a text of that length.            *)
LEMMA TextOf ==
  ASSUME NEW n \in Nat, NEW s \in [1 .. n -> Characters]
  PROVE  s \in Texts /\ Len(s) = n
BY DEF Texts

(* A character repeated, not at all for a number below one.                *)
LEMMA TimesText ==
  ASSUME NEW c \in Characters, NEW n \in Int
  PROVE  Times(n, c) \in Texts /\ Len(Times(n, c)) = IF n > 0 THEN n ELSE 0
<1>1. CASE n > 0
  <2>1. Times(n, c) \in [1 .. n -> Characters] /\ n \in Nat
    BY <1>1 DEF Times
  <2> QED
    BY <1>1, <2>1, TextOf
<1>2. CASE ~(n > 0)
  <2>1. 1 .. n = 1 .. 0
    BY <1>2
  <2>2. Times(n, c) \in [1 .. 0 -> Characters] /\ 0 \in Nat
    BY <2>1 DEF Times
  <2> QED
    BY <1>2, <2>2, TextOf
<1> QED
  BY <1>1, <1>2

(* A text read from its end.                                               *)
LEMMA ReverseText ==
  ASSUME NEW s \in Texts
  PROVE  Reverse(s) \in Texts /\ Len(Reverse(s)) = Len(s)
<1>1. PICK n \in Nat : n = Len(s)
  BY TextLen
<1>2. \A i \in 1 .. n : s[i] \in Characters
  BY <1>1 DEF Texts
<1>3. ASSUME NEW i \in 1 .. n PROVE s[(n - i) + 1] \in Characters
  <2>1. (n - i) + 1 \in 1 .. n
    OBVIOUS
  <2> QED
    BY <1>2, <2>1
<1>4. Reverse(s) = [i \in 1 .. n |-> s[(n - i) + 1]]
  BY <1>1 DEF Reverse
<1>5. Reverse(s) \in [1 .. n -> Characters]
  BY <1>3, <1>4
<1> QED
  BY <1>1, <1>5, TextOf

(* What leaves the conversion buffer fills the field, but for the padding  *)
(* that is left to zeros.                                                  *)
LEMMA OutRevText ==
  ASSUME NEW buf \in Texts, NEW width \in Int, NEW flags
  PROVE  /\ _out_rev(buf, width, flags) \in Texts
         /\ Len(_out_rev(buf, width, flags)) >= Len(buf)
         /\ "LEFT" \in flags \/ "ZEROPAD" \notin flags => Len(_out_rev(buf, width, flags)) >= width
<1>1. PICK n \in Nat : n = Len(buf)
  BY TextLen
<1>2. PICK r \in Texts : r = Reverse(buf) /\ Len(r) = n
  BY <1>1, ReverseText
<1>3. PICK pad \in Texts : pad = Times(width - Len(buf), " ") /\ Len(pad) = IF width - n > 0 THEN width - n ELSE 0
  <2>1. " " \in Characters
    BY OwnCharacters
  <2>2. width - n \in Int
    OBVIOUS
  <2>3. PICK space \in Characters : space = " "
    BY <2>1
  <2> QED
    BY <1>1, <2>2, <2>3, TimesText
<1>4. PICK a \in Texts : a = IF flags \cap {"LEFT", "ZEROPAD"} = {} THEN pad ELSE << >>
  BY EmptyText
<1>5. PICK b \in Texts : b = IF "LEFT" \in flags THEN pad ELSE << >>
  BY EmptyText
<1>6. _out_rev(buf, width, flags) = a \o r \o b
  BY <1>2, <1>3, <1>4, <1>5 DEF _out_rev
<1>7. a \o r \in Texts /\ Len(a \o r) = Len(a) + n
  BY <1>2, Joined
<1>8. (a \o r) \o b \in Texts /\ Len((a \o r) \o b) = (Len(a) + n) + Len(b)
  BY <1>7, Joined
<1>9. Len(a) \in Nat /\ Len(b) \in Nat
  BY TextLen
<1>10. "LEFT" \in flags \/ "ZEROPAD" \notin flags => a = pad \/ b = pad
  BY <1>4, <1>5
<1>11. PICK t \in Texts : t = (a \o r) \o b /\ Len(t) = (Len(a) + n) + Len(b)
  BY <1>8
<1>12. PICK la \in Nat, lb \in Nat, lt \in Nat, lp \in Nat : la = Len(a) /\ lb = Len(b) /\ lt = Len(t) /\ lp = Len(pad)
  BY TextLen
<1>13. lt = (la + n) + lb /\ lp = IF width - n > 0 THEN width - n ELSE 0
  BY <1>3, <1>11, <1>12
<1>14. lt >= n /\ (la = lp \/ lb = lp => lt >= width)
  BY <1>13
<1> QED
  BY <1>1, <1>6, <1>10, <1>11, <1>12, <1>14

(* A character more, and a character up to a length, as far as the buffer  *)
(* goes.                                                                   *)
LEMMA PutText ==
  ASSUME NEW buf \in Texts, NEW c \in Characters, NEW size \in Int
  PROVE  Put(buf, c, size) \in Texts /\ Len(Put(buf, c, size)) = IF Len(buf) < size THEN Len(buf) + 1 ELSE Len(buf)
BY DEF Put, Texts

(* A buffer is filled up to n characters, or to the size it has.           *)
LEMMA FillText ==
  ASSUME NEW buf \in Texts, NEW c \in Characters, NEW n \in Int, NEW size \in Int
  PROVE  /\ Fill(buf, c, n, size) \in Texts
         /\ Len(Fill(buf, c, n, size)) = IF Lesser(n, size) > Len(buf) THEN Lesser(n, size) ELSE Len(buf)
<1>1. PICK k \in Nat : k = Len(buf)
  BY TextLen
<1>2. PICK m \in Int : m = Lesser(n, size)
  BY DEF Lesser
<1>3. Times(m - k, c) \in Texts /\ Len(Times(m - k, c)) = IF m - k > 0 THEN m - k ELSE 0
  BY TimesText
<1>4. Fill(buf, c, n, size) = buf \o Times(m - k, c)
  BY <1>1, <1>2 DEF Fill
<1>5. Fill(buf, c, n, size) \in Texts /\ Len(Fill(buf, c, n, size)) = k + Len(Times(m - k, c))
  BY <1>1, <1>3, <1>4, Joined
<1> QED
  BY <1>1, <1>2, <1>3, <1>5

(* There are sixteen digits.                                               *)
LEMMA SixteenDigits ==
  ASSUME NEW flags, NEW i \in 1 .. 16
  PROVE  HexDigits(flags)[i] \in Characters
<1>1. PICK letters \in Texts : Len(letters) = 6 /\ HexDigits(flags) = Digits \o letters
  BY OwnCharacters, SixCharacters DEF HexDigits
<1>2. Digits \in Texts /\ Len(Digits) = 10
  <2>1. Len(Digits) = 10 /\ DOMAIN Digits = 1 .. 10 /\ Digits = [j \in 1 .. 10 |-> Digits[j]]
    BY DEF Digits
  <2>2. Digits \in [1 .. 10 -> Characters] /\ 10 \in Nat
    BY <2>1, OwnCharacters
  <2> QED
    BY <2>2, TextOf
<1>3. PICK digits \in Texts : digits = Digits /\ Len(digits) = 10
  BY <1>2
<1>4. PICK all \in Texts : all = digits \o letters /\ Len(all) = Len(digits) + Len(letters)
  BY Joined
<1>5. i \in 1 .. Len(all)
  BY <1>1, <1>3, <1>4
<1>6. all[i] \in Characters
  BY <1>5, TextAt
<1> QED
  BY <1>1, <1>3, <1>4, <1>6

(* How many digits a value has, or how many there is room for.             *)
Count(n, value, base, room) ==
  /\ n = room \/ value < Power(base, n)
  /\ \A j \in 1 .. n - 1 : value >= Power(base, j)

(* A number has so many digits, as the buffer has room for.                *)
LEMMA CountExists ==
  ASSUME NEW value \in Int, NEW base \in Nat, NEW room \in Nat \ {0}
  PROVE  \E n \in 1 .. room : Count(n, value, base, room)
<1> DEFINE T == {k \in 1 .. room : k = room \/ value < Power(base, k)}
<1>1. T \in SUBSET Nat /\ T # {}
  OBVIOUS
<1>2. PICK n \in T : \A k \in T : n <= k
  <2> HIDE DEF T
  <2> QED
    BY <1>1, LeastNatural
<1>3. ASSUME NEW j \in 1 .. n - 1 PROVE value >= Power(base, j)
  <2>1. j \in 1 .. room /\ j # room /\ j < n
    OBVIOUS
  <2>2. j \notin T
    BY <1>2, <2>1
  <2>3. Power(base, j) \in Int
    BY <2>1, PowerStep
  <2> QED
    BY <2>1, <2>2, <2>3
<1> QED
  BY <1>3 DEF Count

LastDigits(n, value, base, flags) ==
  [i \in 1 .. n |-> HexDigits(flags)[((value \div Power(base, i - 1)) % base) + 1]]

(* The digits the conversion writes are the last ones of the number.       *)
LEMMA ReversedIs ==
  ASSUME NEW value \in Int, NEW base \in Nat, NEW room \in Nat \ {0}, NEW flags
  PROVE  \E n \in 1 .. room :
           /\ Count(n, value, base, room)
           /\ Reversed(value, base, flags, room) = LastDigits(n, value, base, flags)
<1> DEFINE n == CHOOSE k \in 1 .. room : Count(k, value, base, room)
<1>1. n \in 1 .. room /\ Count(n, value, base, room)
  BY CountExists, Zenon
<1>2. Reversed(value, base, flags, room) = LastDigits(n, value, base, flags)
  BY DEF Reversed, Count, LastDigits
<1> HIDE DEF n
<1> QED
  BY <1>1, <1>2

(* They are a text that has at least one character and fits the room.      *)
LEMMA ReversedText ==
  ASSUME NEW value \in Int, NEW base \in 2 .. 16, NEW room \in Nat \ {0}, NEW flags
  PROVE  /\ Reversed(value, base, flags, room) \in Texts
         /\ Len(Reversed(value, base, flags, room)) \in 1 .. room
<1>0. base \in Nat /\ base \in Nat \ {0}
  OBVIOUS
<1>1. PICK n \in 1 .. room : Reversed(value, base, flags, room) = LastDigits(n, value, base, flags)
  BY <1>0, ReversedIs
<1>2. ASSUME NEW i \in 1 .. n PROVE HexDigits(flags)[((value \div Power(base, i - 1)) % base) + 1] \in Characters
  <2>1. i - 1 \in Nat
    OBVIOUS
  <2>2. PICK p \in Nat \ {0} : p = Power(base, i - 1)
    BY <1>0, <2>1, PowerPositive
  <2>3. PICK q \in Int : q = value \div p
    OBVIOUS
  <2>4. q % base \in 0 .. base - 1
    OBVIOUS
  <2>5. (q % base) + 1 \in 1 .. 16
    BY <2>4
  <2> QED
    BY <2>2, <2>3, <2>5, SixteenDigits
<1>3. Reversed(value, base, flags, room) \in [1 .. n -> Characters] /\ n \in Nat
  BY <1>1, <1>2 DEF LastDigits
<1> QED
  BY <1>3, TextOf

-----------------------------------------------------------------------------
(* The text of an integer.                                                 *)

(* The conversions have these sizes.                                       *)
LEMMA BufferSizes ==
  /\ PRINTF_NTOA_BUFFER_SIZE \in Nat \ {0} /\ PRINTF_NTOA_BUFFER_SIZE >= 4
  /\ PRINTF_FTOA_BUFFER_SIZE \in Nat \ {0}
BY PrintfAssumption

(* A sign is printed.                                                      *)
HasSign(negative, flags) == negative \/ "PLUS" \in flags \/ "SPACE" \in flags
ByZeros(flags) == "ZEROPAD" \in flags /\ "LEFT" \notin flags

(* The sign takes one character, if there is one.                          *)
LEMMA SignText ==
  ASSUME NEW buf \in Texts, NEW negative \in BOOLEAN, NEW flags, NEW size \in Int
  PROVE  /\ Sign(buf, negative, flags, size) \in Texts
         /\ Sign(buf, negative, flags, size) = buf
              \/ \E c \in Characters : Sign(buf, negative, flags, size) = Put(buf, c, size)
         /\ HasSign(negative, flags) => \E c \in Characters : Sign(buf, negative, flags, size) = Put(buf, c, size)
<1>1. "-" \in Characters /\ "+" \in Characters /\ " " \in Characters
  BY OwnCharacters
<1>2. CASE negative
  <2>1. Sign(buf, negative, flags, size) = Put(buf, "-", size)
    BY <1>2 DEF Sign
  <2> QED
    BY <1>1, <2>1, PutText
<1>3. CASE ~negative /\ "PLUS" \in flags
  <2>0. flags \cap {"PLUS", "SPACE"} # {"SPACE"}
    BY <1>3
  <2>1. Sign(buf, negative, flags, size) = Put(buf, "+", size)
    BY <1>3, <2>0 DEF Sign
  <2> QED
    BY <1>1, <2>1, PutText
<1>4. CASE ~negative /\ "PLUS" \notin flags /\ "SPACE" \in flags
  <2>1. flags \cap {"PLUS", "SPACE"} = {"SPACE"}
    BY <1>4
  <2>2. Sign(buf, negative, flags, size) = Put(buf, " ", size)
    BY <1>4, <2>1 DEF Sign
  <2> QED
    BY <1>1, <2>2, PutText
<1>5. CASE ~negative /\ "PLUS" \notin flags /\ "SPACE" \notin flags
  <2>1. flags \cap {"PLUS", "SPACE"} # {"SPACE"}
    BY <1>5
  <2>2. Sign(buf, negative, flags, size) = buf
    BY <1>5, <2>1 DEF Sign
  <2> QED
    BY <1>5, <2>2 DEF HasSign
<1> QED
  BY <1>2, <1>3, <1>4, <1>5

(* The width that zeros are to fill leaves a place for the sign.           *)
LEMMA SignedWidthIs ==
  ASSUME NEW width \in Nat, NEW negative \in BOOLEAN, NEW flags
  PROVE  /\ SignedWidth(width, negative, flags) \in Nat
         /\ SignedWidth(width, negative, flags) =
              IF width > 0 /\ ByZeros(flags) /\ HasSign(negative, flags) THEN width - 1 ELSE width
<1>1. ({"ZEROPAD"} = flags \cap {"ZEROPAD", "LEFT"}) <=> ByZeros(flags)
  BY DEF ByZeros
<1>2. (negative \/ flags \cap {"PLUS", "SPACE"} # {}) <=> HasSign(negative, flags)
  BY DEF HasSign
<1>3. SignedWidth(width, negative, flags) =
              IF width > 0 /\ ByZeros(flags) /\ HasSign(negative, flags) THEN width - 1 ELSE width
  BY <1>1, <1>2 DEF SignedWidth
<1> QED
  BY <1>3

(* The characters of a prefix, and how far they go.                        *)
LEMMA BasePrefixText ==
  ASSUME NEW buf \in Texts, NEW base, NEW flags, NEW size \in Int
  PROVE  /\ BasePrefix(buf, base, flags, size) \in Texts
         /\ Len(buf) < size => Len(BasePrefix(buf, base, flags, size)) > Len(buf)
         /\ Len(BasePrefix(buf, base, flags, size)) >= Len(buf)
         /\ Len(buf) <= size => Len(BasePrefix(buf, base, flags, size)) <= size
         /\ base = 16 /\ Len(buf) + 2 <= size => Len(BasePrefix(buf, base, flags, size)) = Len(buf) + 2
<1>1. "0" \in Characters /\ "x" \in Characters /\ "X" \in Characters /\ "b" \in Characters
  BY OwnCharacters
<1>2. PICK c \in Characters : c = IF "UPPERCASE" \in flags THEN "X" ELSE "x"
  BY <1>1
<1>3. PICK zero \in Characters, bin \in Characters : zero = "0" /\ bin = "b"
  BY <1>1
<1>4. PICK t \in Texts : /\ BasePrefix(buf, base, flags, size) = Put(t, zero, size)
                         /\ t = buf \/ t = Put(buf, c, size) \/ t = Put(buf, bin, size)
                         /\ base = 16 => t = Put(buf, c, size)
  <2>1. CASE base = 16
    <3>1. BasePrefix(buf, base, flags, size) = Put(Put(buf, c, size), zero, size)
      BY <1>2, <1>3, <2>1 DEF BasePrefix
    <3> QED
      BY <3>1, PutText
  <2>2. CASE base = 2
    <3>1. BasePrefix(buf, base, flags, size) = Put(Put(buf, bin, size), zero, size) /\ base # 16
      BY <1>3, <2>2 DEF BasePrefix
    <3> QED
      BY <3>1, PutText
  <2>3. CASE base # 16 /\ base # 2
    <3>1. BasePrefix(buf, base, flags, size) = Put(buf, zero, size)
      BY <1>3, <2>3 DEF BasePrefix
    <3> QED
      BY <2>3, <3>1
  <2> QED
    BY <2>1, <2>2, <2>3
<1>5. PICK n \in Nat, m \in Nat : n = Len(buf) /\ m = Len(t)
  BY TextLen
<1>6. /\ m = n \/ m = IF n < size THEN n + 1 ELSE n
      /\ base = 16 => m = IF n < size THEN n + 1 ELSE n
  BY <1>4, <1>5, PutText
<1>7. Put(t, zero, size) \in Texts /\ Len(Put(t, zero, size)) = IF m < size THEN m + 1 ELSE m
  BY <1>5, PutText
<1>8. PICK k \in Nat : k = Len(BasePrefix(buf, base, flags, size)) /\ k = IF m < size THEN m + 1 ELSE m
  BY <1>4, <1>7, TextLen
<1>9. /\ n < size => k > n
      /\ k >= n
      /\ n <= size => k <= size
      /\ base = 16 /\ n + 2 <= size => k = n + 2
  BY <1>6, <1>8
<1> QED
  BY <1>4, <1>5, <1>7, <1>8, <1>9

(* The beginning of a text.                                                *)
LEMMA Beginning ==
  ASSUME NEW s \in Texts, NEW n \in Nat, n <= Len(s)
  PROVE  SubSeq(s, 1, n) \in Texts /\ Len(SubSeq(s, 1, n)) = n
<1>1. PICK k \in Nat : k = Len(s)
  BY TextLen
<1>2. SubSeq(s, 1, n) = [i \in 1 .. n |-> s[i]]
  BY <1>1 DEF Texts
<1>3. \A i \in 1 .. n : s[i] \in Characters
  BY <1>1 DEF Texts
<1>4. SubSeq(s, 1, n) \in [1 .. n -> Characters]
  BY <1>2, <1>3
<1> QED
  BY <1>4, TextOf

(* The padding that a prefix replaces is no more than the prefix.          *)
LEMMA HashedText ==
  ASSUME NEW buf \in Texts, NEW base \in {2, 8, 10, 16}, NEW prec \in Nat, NEW width \in Nat, NEW flags,
         NEW size \in Nat, Len(buf) <= size
  PROVE  /\ Hashed(buf, base, prec, width, flags, size) \in Texts
         /\ Len(Hashed(buf, base, prec, width, flags, size)) \in Len(buf) .. size
<1>1. PICK n \in Nat : n = Len(buf) /\ n <= size
  BY TextLen
<1>2. PICK drop : drop = IF "PRECISION" \notin flags /\ Len(buf) \in {prec, width} \ {0}
                         THEN IF base = 16 /\ Len(buf) > 1 THEN 2 ELSE 1 ELSE 0
  OBVIOUS
<1>3. drop \in Nat /\ drop <= n /\ (drop = 0 \/ drop = 1 \/ (drop = 2 /\ base = 16))
  BY <1>1, <1>2
<1>4. PICK t \in Texts : t = SubSeq(buf, 1, n - drop) /\ Len(t) = n - drop
  <2>1. n - drop \in Nat /\ n - drop <= Len(buf)
    BY <1>1, <1>3
  <2> QED
    BY <2>1, Beginning
<1>5. Hashed(buf, base, prec, width, flags, size) = BasePrefix(t, base, flags, size)
  BY <1>1, <1>2, <1>4 DEF Hashed
<1>6. PICK k \in Nat, m \in Nat : m = Len(t) /\ k = Len(BasePrefix(t, base, flags, size))
  BY BasePrefixText, TextLen
<1>7. /\ m < size => k > m
      /\ k >= m
      /\ m <= size => k <= size
      /\ base = 16 /\ m + 2 <= size => k = m + 2
  BY <1>6, BasePrefixText
<1>8. m = n - drop
  BY <1>4, <1>6
<1>9. k >= n /\ k <= size
  BY <1>1, <1>3, <1>7, <1>8
<1> QED
  BY <1>1, <1>5, <1>6, <1>9, BasePrefixText

(* The text of a number with its sign, prefix and padding: it fills its    *)
(* field, if zeros that are to fill it fit the buffer.                     *)
LEMMA NtoaFormatText ==
  ASSUME NEW buf \in Texts, Len(buf) <= PRINTF_NTOA_BUFFER_SIZE, NEW negative \in BOOLEAN,
         NEW base \in {2, 8, 10, 16}, NEW prec \in Nat, NEW width \in Nat, NEW flags
  PROVE  /\ _ntoa_format(buf, negative, base, prec, width, flags) \in Texts
         /\ (ByZeros(flags) => width <= PRINTF_NTOA_BUFFER_SIZE)
              => Len(_ntoa_format(buf, negative, base, prec, width, flags)) >= width
<1>1. PICK size \in Nat : size = PRINTF_NTOA_BUFFER_SIZE
  BY BufferSizes
<1>2. PICK w \in Nat : /\ w = SignedWidth(width, negative, flags)
                       /\ w = IF width > 0 /\ ByZeros(flags) /\ HasSign(negative, flags) THEN width - 1 ELSE width
  BY SignedWidthIs
<1>3. PICK zeros \in Nat : zeros = IF "ZEROPAD" \in flags THEN w ELSE 0
  OBVIOUS
<1>4. PICK zero \in Characters : zero = "0"
  BY OwnCharacters
<1>5. PICK padded \in Texts : padded = IF "LEFT" \in flags THEN buf ELSE Fill(Fill(buf, "0", prec, size), "0", zeros, size)
  BY <1>4, FillText
<1>6. PICK n \in Nat, p \in Nat : n = Len(buf) /\ p = Len(padded) /\ n <= size
  BY <1>1, TextLen
<1>7. p <= size /\ (ByZeros(flags) /\ w <= size => p >= w)
  <2>1. CASE "LEFT" \in flags
    BY <1>5, <1>6, <2>1 DEF ByZeros
  <2>2. CASE "LEFT" \notin flags
    <3>1. PICK q \in Texts : q = Fill(buf, zero, prec, size)
      BY FillText
    <3>2. PICK k \in Nat : k = Len(q) /\ k = IF Lesser(prec, size) > n THEN Lesser(prec, size) ELSE n
      BY <1>6, <3>1, FillText, TextLen
    <3>3. p = IF Lesser(zeros, size) > k THEN Lesser(zeros, size) ELSE k
      BY <1>4, <1>5, <1>6, <2>2, <3>1, <3>2, FillText
    <3>4. k <= size
      BY <1>6, <3>2 DEF Lesser
    <3>5. p <= size /\ (zeros <= size => p >= zeros)
      BY <3>3, <3>4 DEF Lesser
    <3>6. ByZeros(flags) => zeros = w
      BY <1>3 DEF ByZeros
    <3> QED
      BY <3>5, <3>6
  <2> QED
    BY <2>1, <2>2
<1>8. PICK hashed \in Texts : /\ hashed = IF "HASH" \in flags THEN Hashed(padded, base, prec, w, flags, size) ELSE padded
                              /\ Len(hashed) \in p .. size
  BY <1>6, <1>7, HashedText
<1>9. PICK signed \in Texts : /\ signed = Sign(hashed, negative, flags, size)
                              /\ signed = hashed \/ \E c \in Characters : signed = Put(hashed, c, size)
                              /\ HasSign(negative, flags) => \E c \in Characters : signed = Put(hashed, c, size)
  BY SignText
<1>10. PICK h \in Nat, s \in Nat : h = Len(hashed) /\ s = Len(signed) /\ h >= p /\ h <= size
  BY <1>8, TextLen
<1>11. s >= h /\ (HasSign(negative, flags) => s = IF h < size THEN h + 1 ELSE h)
  <2>1. ASSUME NEW c \in Characters, signed = Put(hashed, c, size) PROVE s = IF h < size THEN h + 1 ELSE h
    BY <1>10, <2>1, PutText
  <2>2. signed = hashed => s = h
    BY <1>10
  <2>3. (IF h < size THEN h + 1 ELSE h) >= h
    OBVIOUS
  <2> QED
    BY <1>9, <2>1, <2>2, <2>3
<1>12. _ntoa_format(buf, negative, base, prec, width, flags) = _out_rev(signed, w, flags)
  BY <1>1, <1>2, <1>3, <1>5, <1>8, <1>9 DEF _ntoa_format
<1>13. PICK t \in Texts : /\ t = _out_rev(signed, w, flags) /\ Len(t) >= s
                          /\ "LEFT" \in flags \/ "ZEROPAD" \notin flags => Len(t) >= w
  BY <1>10, OutRevText
<1>14. PICK l \in Nat : l = Len(t)
  BY TextLen
<1>15. ASSUME ByZeros(flags) => width <= size PROVE l >= width
  <2>1. CASE ByZeros(flags)
    <3>1. w <= size /\ width <= size /\ (HasSign(negative, flags) => w = width - 1 \/ width = 0) /\ (~HasSign(negative, flags) => w = width)
      BY <1>2, <1>15, <2>1
    <3>2. h >= w
      BY <1>7, <1>10, <2>1, <3>1
    <3>3. s >= width
      BY <1>10, <1>11, <3>1, <3>2
    <3>4. l >= s
      BY <1>13, <1>14
    <3> QED
      BY <3>3, <3>4
  <2>2. CASE ~ByZeros(flags)
    <3>1. w = width
      BY <1>2, <2>2
    <3>2. "LEFT" \in flags \/ "ZEROPAD" \notin flags
      BY <2>2 DEF ByZeros
    <3> QED
      BY <1>13, <1>14, <3>1, <3>2
  <2> QED
    BY <2>1, <2>2
<1> QED
  BY <1>1, <1>12, <1>13, <1>14, <1>15

(* The text of an integer.                                                 *)
LEMMA NtoaText ==
  ASSUME NEW value \in Nat, NEW negative \in BOOLEAN,
         NEW base \in {2, 8, 10, 16}, NEW prec \in Nat, NEW width \in Nat, NEW flags
  PROVE  /\ _ntoa_long(value, negative, base, prec, width, flags) \in Texts
         /\ (ByZeros(flags) => width <= PRINTF_NTOA_BUFFER_SIZE)
              => Len(_ntoa_long(value, negative, base, prec, width, flags)) >= width
<1>1. PICK f : f = IF value = 0 THEN flags \ {"HASH"} ELSE flags
  OBVIOUS
<1>2. ByZeros(f) <=> ByZeros(flags)
  BY <1>1 DEF ByZeros
<1>3. PICK buf \in Texts : /\ buf = IF value = 0 /\ "PRECISION" \in flags THEN <<>>
                                    ELSE Reversed(value, base, flags, PRINTF_NTOA_BUFFER_SIZE)
                           /\ Len(buf) <= PRINTF_NTOA_BUFFER_SIZE
  <2>1. value \in Int /\ base \in 2 .. 16
    OBVIOUS
  <2>2. PICK size \in Nat \ {0} : size = PRINTF_NTOA_BUFFER_SIZE
    BY BufferSizes
  <2>3. PICK t \in Texts : t = Reversed(value, base, flags, size) /\ Len(t) \in 1 .. size
    BY <2>1, ReversedText
  <2>4. Len(t) <= size /\ 0 <= size
    BY <2>2, <2>3
  <2> QED
    BY <2>2, <2>3, <2>4, EmptyText
<1>4. _ntoa_long(value, negative, base, prec, width, flags) = _ntoa_format(buf, negative, base, prec, width, f)
  BY <1>1, <1>3 DEF _ntoa_long
<1>5. PICK t \in Texts : /\ t = _ntoa_format(buf, negative, base, prec, width, f)
                         /\ (ByZeros(f) => width <= PRINTF_NTOA_BUFFER_SIZE) => Len(t) >= width
  BY <1>3, NtoaFormatText
<1> QED
  BY <1>2, <1>4, <1>5

-----------------------------------------------------------------------------
(* The text of a floating point number.                                   *)

(* Fractions with a denominator, and without a sign.                       *)
Fractions == [n : Int, d : Nat \ {0}]
Magnitudes == [n : Nat, d : Nat \ {0}]

(* Without its sign, a fraction is not negative.                           *)
LEMMA MagnitudeIs == ASSUME NEW v \in Fractions PROVE Magnitude(v) \in Magnitudes
BY DEF Fractions, Magnitudes, Magnitude

(* Quotients and remainders of naturals are naturals,                      *)
LEMMA Quotient == ASSUME NEW x \in Nat, NEW y \in Nat \ {0} PROVE x \div y \in Nat /\ x % y \in Nat
OBVIOUS

(* and a number from p up to twice p holds p once.                         *)
LEMMA QuotientOne == ASSUME NEW x \in Nat, NEW p \in Nat \ {0}, p <= x, x < 2 * p PROVE x \div p = 1
<1>1. PICK q \in Nat, r \in 0 .. p - 1 : q = x \div p /\ x = p * q + r
  OBVIOUS
<1>2. CASE q = 0
  BY <1>1, <1>2
<1>3. CASE q >= 2
  <2>1. p * q >= 2 * p
    BY <1>3
  <2> QED
    BY <1>1, <2>1
<1> QED
  BY <1>1, <1>2, <1>3

(* The product as a double is a fraction.                                  *)
LEMMA DoubleIs ==
  ASSUME NEW a \in Nat, NEW b \in Nat \ {0}
  PROVE  Double(a, b) \in Magnitudes
<1> DEFINE last == DBL_MANT_DIG + 1
<1> DEFINE C(i) == i = last \/ (a * Power(2, i + 1)) \div b >= Power(2, DBL_MANT_DIG)
<1> DEFINE k == CHOOSE i \in 0 .. last : C(i)
<1>1. last \in Nat
  BY PrintfAssumption
<1>2. k \in 0 .. last
  <2>1. last \in 0 .. last /\ C(last)
    BY <1>1
  <2> HIDE DEF C
  <2> QED
    BY <2>1
<1>3. Double(a, b) = LET q == (a * Power(2, k)) \div b
                         twice == 2 * ((a * Power(2, k)) % b)
                     IN  [n |-> IF twice > b \/ (twice = b /\ q % 2 = 1) THEN q + 1 ELSE q, d |-> Power(2, k)]
  BY DEF Double
<1> HIDE DEF k
<1>4. PICK p \in Nat \ {0} : p = Power(2, k)
  <2>1. k \in Nat /\ 2 \in Nat \ {0}
    BY <1>1, <1>2
  <2> QED
    BY <2>1, PowerPositive
<1>5. PICK m \in Nat : m = a * p
  OBVIOUS
<1>6. PICK q \in Nat : q = m \div b
  BY Quotient
<1>7. PICK n : n = (IF 2 * (m % b) > b \/ (2 * (m % b) = b /\ q % 2 = 1) THEN q + 1 ELSE q)
  OBVIOUS
<1>8. n \in Nat
  BY <1>7
<1>9. Double(a, b) = [n |-> n, d |-> p]
  BY <1>3, <1>4, <1>5, <1>6, <1>7
<1> QED
  BY <1>8, <1>9 DEF Magnitudes

(* What is rounded has a fraction and a whole part.                        *)
Parts == [frac : Nat, whole : Nat]

(* Rounding up may carry into the whole part; both parts stay naturals.    *)
LEMMA CarriedIs ==
  ASSUME NEW v \in Magnitudes, NEW p \in Nat, NEW whole \in Nat, NEW tmp \in Magnitudes
  PROVE  Carried(v, p, whole, tmp) \in Parts
<1>1. PICK tn \in Nat, td \in Nat \ {0} : tn = tmp.n /\ td = tmp.d
  BY DEF Magnitudes
<1>2. PICK frac \in Nat : frac = tn \div td
  BY Quotient
<1>3. PICK over \in BOOLEAN : over <=> (2 * (tn % td) > td /\ frac + 1 >= Power(10, p))
  OBVIOUS
<1>4. PICK up \in BOOLEAN : up <=> (2 * (tn % td) > td \/ (2 * (tn % td) = td /\ (frac = 0 \/ frac % 2 = 1)))
  OBVIOUS
<1>5. PICK w \in Nat : w = IF over THEN whole + 1 ELSE whole
  OBVIOUS
<1>6. PICK x \in Nat : x = CASE over -> 0 [] up /\ ~over -> frac + 1 [] OTHER -> frac
  OBVIOUS
<1>7. PICK y \in Nat : y = IF p = 0 /\ 2 * (v.n - w * v.d) >= v.d /\ w % 2 = 1 THEN w + 1 ELSE w
  OBVIOUS
<1>8. Carried(v, p, whole, tmp) = [frac |-> x, whole |-> y]
  BY <1>1, <1>2, <1>3, <1>4, <1>5, <1>6, <1>7 DEF Carried
<1> QED
  BY <1>8 DEF Parts

(* So do they when there is nothing to carry.                              *)
LEMMA RoundedIs ==
  ASSUME NEW v \in Magnitudes, NEW p \in Nat
  PROVE  Rounded(v, p) \in Parts
<1>1. PICK n \in Nat, d \in Nat \ {0} : n = v.n /\ d = v.d
  BY DEF Magnitudes
<1>2. PICK whole \in Nat, rest \in Nat : whole = n \div d /\ rest = n % d
  BY Quotient
<1>3. PICK t \in Nat : t = Power(10, p)
  <2>1. 10 \in Nat \ {0}
    OBVIOUS
  <2> QED
    BY <2>1, PowerPositive
<1>4. PICK a \in Nat : a = rest * t
  OBVIOUS
<1>5. Rounded(v, p) = Carried(v, p, whole, Double(a, d))
  BY <1>1, <1>2, <1>3, <1>4 DEF Rounded
<1> QED
  BY <1>5, DoubleIs, CarriedIs

(* A number behind what is in the buffer.                                  *)
LEMMA DecimalText ==
  ASSUME NEW buf \in Texts, NEW value \in Nat, NEW size \in Nat, Len(buf) <= size
  PROVE  LET t == IF Len(buf) < size THEN buf \o Reversed(value, 10, {}, size - Len(buf)) ELSE buf
         IN  t \in Texts /\ Len(t) <= size /\ Len(t) >= Len(buf)
<1>1. PICK n \in Nat : n = Len(buf)
  BY TextLen
<1>2. CASE n < size
  <2>1. PICK room \in Nat \ {0} : room = size - n
    BY <1>2
  <2>2. value \in Int /\ 10 \in 2 .. 16
    OBVIOUS
  <2>3. PICK r \in Texts : r = Reversed(value, 10, {}, room) /\ Len(r) \in 1 .. room
    BY <2>2, ReversedText
  <2>4. buf \o r \in Texts /\ Len(buf \o r) = n + Len(r)
    BY <1>1, Joined
  <2> QED
    BY <1>1, <1>2, <2>1, <2>3, <2>4
<1>3. CASE ~(n < size)
  BY <1>1, <1>3
<1> QED
  BY <1>2, <1>3

(* The digits of a rounded number are a text that fits the conversion      *)
(* buffer.                                                                 *)
LEMMA FixedDigitsText ==
  ASSUME NEW r \in Parts, NEW p \in Nat, NEW size \in Nat, NEW extra \in Texts, Len(extra) <= size
  PROVE  FixedDigits(r, p, extra, size) \in Texts /\ Len(FixedDigits(r, p, extra, size)) <= size
<1> DEFINE Decimal(buf, value) == IF Len(buf) < size THEN buf \o Reversed(value, 10, {}, size - Len(buf)) ELSE buf
<1> DEFINE Zeros(digits) == Fill(digits, "0", IF Len(digits) - Len(extra) > p THEN size ELSE Len(extra) + p, size)
<1>1. FixedDigits(r, p, extra, size)
        = Decimal(IF p = 0 THEN extra ELSE Put(Zeros(Decimal(extra, r.frac)), ".", size), r.whole)
  BY DEF FixedDigits
<1>2. r.frac \in Nat /\ r.whole \in Nat
  BY DEF Parts
<1>3. ASSUME NEW buf \in Texts, NEW value \in Nat, Len(buf) <= size
      PROVE  Decimal(buf, value) \in Texts /\ Len(Decimal(buf, value)) <= size
  BY <1>3, DecimalText
<1>4. ASSUME NEW digits \in Texts, Len(digits) <= size
      PROVE  Zeros(digits) \in Texts /\ Len(Zeros(digits)) <= size
  <2>1. PICK n \in Nat, e \in Nat : n = Len(digits) /\ e = Len(extra)
    BY TextLen
  <2>2. PICK k \in Int : k = IF n - e > p THEN size ELSE e + p
    OBVIOUS
  <2>3. PICK zero \in Characters : zero = "0"
    BY OwnCharacters
  <2>4. Zeros(digits) = Fill(digits, zero, k, size)
    BY <2>1, <2>2, <2>3
  <2>5. /\ Fill(digits, zero, k, size) \in Texts
        /\ Len(Fill(digits, zero, k, size)) = IF Lesser(k, size) > n THEN Lesser(k, size) ELSE n
    BY <2>1, FillText
  <2>6. Lesser(k, size) <= size /\ n <= size
    BY <1>4, <2>1 DEF Lesser
  <2> HIDE DEF Zeros
  <2> QED
    BY <2>4, <2>5, <2>6
<1> HIDE DEF Decimal, Zeros
<1>5. PICK a \in Texts : a = Zeros(Decimal(extra, r.frac)) /\ Len(a) <= size
  BY <1>2, <1>3, <1>4
<1>6. PICK b \in Texts : b = Put(a, ".", size) /\ Len(b) <= size
  <2>1. PICK point \in Characters : point = "."
    BY OwnCharacters
  <2>2. PICK n \in Nat : n = Len(a) /\ n <= size
    BY <1>5, TextLen
  <2>3. Put(a, point, size) \in Texts /\ Len(Put(a, point, size)) = IF n < size THEN n + 1 ELSE n
    BY <2>2, PutText
  <2>4. (IF n < size THEN n + 1 ELSE n) <= size
    BY <2>2
  <2> QED
    BY <2>1, <2>3, <2>4
<1>7. PICK c \in Texts : c = (IF p = 0 THEN extra ELSE b) /\ Len(c) <= size
  BY <1>6
<1> QED
  BY <1>1, <1>2, <1>3, <1>5, <1>6, <1>7

(* A number with a fixed point fills its field, if zeros that are to fill  *)
(* it fit the buffer.                                                      *)
LEMMA FixedPointText ==
  ASSUME NEW v \in Fractions, NEW prec \in Nat, NEW width \in Nat, NEW flags
  PROVE  /\ FixedPoint(v, prec, width, flags) \in Texts
         /\ (ByZeros(flags) => width <= PRINTF_FTOA_BUFFER_SIZE) => Len(FixedPoint(v, prec, width, flags)) >= width
<1>1. PICK size \in Nat : size = PRINTF_FTOA_BUFFER_SIZE
  BY BufferSizes
<1>2. PICK wanted \in Nat : wanted = IF "PRECISION" \in flags THEN prec ELSE PRINTF_DEFAULT_FLOAT_PRECISION
  BY PrintfAssumption
<1>3. PICK zero \in Characters : zero = "0"
  BY OwnCharacters
<1>4. PICK k \in Int : k = wanted - FtoaDigits /\ k <= wanted
  BY PrintfAssumption
<1>5. PICK extra \in Texts : extra = Fill(<<>>, zero, k, size)
  BY EmptyText, FillText
<1>6. PICK e \in Nat : e = Len(extra) /\ e <= size /\ e <= wanted
  <2>1. Len(extra) = IF Lesser(k, size) > 0 THEN Lesser(k, size) ELSE 0
    BY <1>5, EmptyText, FillText
  <2>2. (IF Lesser(k, size) > 0 THEN Lesser(k, size) ELSE 0) \in Nat
    BY DEF Lesser
  <2>3. (IF Lesser(k, size) > 0 THEN Lesser(k, size) ELSE 0) <= size /\ (IF Lesser(k, size) > 0 THEN Lesser(k, size) ELSE 0) <= wanted
    BY <1>4 DEF Lesser
  <2> QED
    BY <2>1, <2>2, <2>3
<1>7. PICK p \in Nat : p = wanted - e
  BY <1>6
<1>8. PICK negative \in BOOLEAN : negative <=> v.n < 0
  OBVIOUS
<1>9. PICK w \in Nat : /\ w = SignedWidth(width, negative, flags)
                       /\ w = IF width > 0 /\ ByZeros(flags) /\ HasSign(negative, flags) THEN width - 1 ELSE width
  BY SignedWidthIs
<1>10. PICK zeros \in Nat : zeros = IF ByZeros(flags) THEN w ELSE 0
  OBVIOUS
<1>11. (flags \cap {"LEFT", "ZEROPAD"} = {"ZEROPAD"}) <=> ByZeros(flags)
  BY DEF ByZeros
<1>12. PICK digits \in Texts : digits = FixedDigits(Rounded(Magnitude(v), p), p, extra, size) /\ Len(digits) <= size
  <2>1. Rounded(Magnitude(v), p) \in Parts
    BY MagnitudeIs, RoundedIs
  <2> QED
    BY <1>6, <2>1, FixedDigitsText
<1>13. PICK n \in Nat : n = Len(digits) /\ n <= size
  BY <1>12, TextLen
<1>14. PICK padded \in Texts : /\ padded = Fill(digits, zero, zeros, size)
                               /\ Len(padded) = IF Lesser(zeros, size) > n THEN Lesser(zeros, size) ELSE n
  BY <1>13, FillText
<1>15. PICK h \in Nat : h = Len(padded) /\ h <= size /\ (zeros <= size => h >= zeros)
  <2>1. PICK h \in Nat : h = Len(padded)
    BY TextLen
  <2>2. h = IF Lesser(zeros, size) > n THEN Lesser(zeros, size) ELSE n
    BY <1>14, <2>1
  <2>3. h <= size /\ (zeros <= size => h >= zeros)
    BY <1>13, <2>2 DEF Lesser
  <2> QED
    BY <2>1, <2>3
<1>16. PICK signed \in Texts : /\ signed = Sign(padded, negative, flags, size)
                               /\ signed = padded \/ \E c \in Characters : signed = Put(padded, c, size)
                               /\ HasSign(negative, flags) => \E c \in Characters : signed = Put(padded, c, size)
  BY SignText
<1>17. PICK s \in Nat : s = Len(signed)
  BY TextLen
<1>18. s >= h /\ (HasSign(negative, flags) => s = IF h < size THEN h + 1 ELSE h)
  <2>1. ASSUME NEW c \in Characters, signed = Put(padded, c, size) PROVE s = IF h < size THEN h + 1 ELSE h
    BY <1>15, <1>17, <2>1, PutText
  <2>2. signed = padded => s = h
    BY <1>15, <1>17
  <2>3. (IF h < size THEN h + 1 ELSE h) >= h
    OBVIOUS
  <2> QED
    BY <1>16, <2>1, <2>2, <2>3
<1>19. FixedPoint(v, prec, width, flags) = _out_rev(signed, w, flags)
  <2>1. (v.n < 0) = negative
    BY <1>8
  <2> QED
    BY <2>1, <1>1, <1>2, <1>3, <1>4, <1>5, <1>6, <1>7, <1>9, <1>10, <1>11, <1>12, <1>14, <1>16 DEF FixedPoint
<1>20. PICK t \in Texts : /\ t = _out_rev(signed, w, flags) /\ Len(t) >= s
                          /\ "LEFT" \in flags \/ "ZEROPAD" \notin flags => Len(t) >= w
  BY <1>17, OutRevText
<1>21. PICK l \in Nat : l = Len(t)
  BY TextLen
<1>22. ASSUME ByZeros(flags) => width <= size PROVE l >= width
  <2>1. CASE ByZeros(flags)
    <3>1. w <= size /\ width <= size /\ (HasSign(negative, flags) => w = width - 1 \/ width = 0) /\ (~HasSign(negative, flags) => w = width)
      BY <1>9, <1>22, <2>1
    <3>2. h >= w
      BY <1>10, <1>15, <2>1, <3>1
    <3>3. s >= width
      BY <1>15, <1>18, <3>1, <3>2
    <3>4. l >= s
      BY <1>20, <1>21
    <3> QED
      BY <3>3, <3>4
  <2>2. CASE ~ByZeros(flags)
    <3>1. w = width
      BY <1>9, <2>2
    <3>2. "LEFT" \in flags \/ "ZEROPAD" \notin flags
      BY <2>2 DEF ByZeros
    <3> QED
      BY <1>20, <1>21, <3>1, <3>2
  <2> QED
    BY <2>1, <2>2
<1> QED
  BY <1>1, <1>19, <1>20, <1>21, <1>22

(* A number from 1 on lies between two neighbouring powers of 2.           *)
LEMMA PositiveExponent ==
  ASSUME NEW x \in Nat \ {0}
  PROVE  \E e \in 0 .. x : x \div Power(2, e) = 1
<1> DEFINE T == {e \in Nat : x < Power(2, e + 1)}
<1>1. x \in T
  <2>1. x + 1 \in Nat /\ 2 \in Nat /\ 2 >= 2
    OBVIOUS
  <2>2. Power(2, x + 1) > x + 1 /\ Power(2, x + 1) \in Int
    BY <2>1, PowerGrows, PowerStep
  <2> QED
    BY <2>2
<1>2. PICK m \in T : \A n \in T : m <= n
  BY <1>1, LeastNatural
<1>3. m \in 0 .. x
  BY <1>1, <1>2
<1>4. PICK p \in Nat \ {0} : p = Power(2, m) /\ Power(2, m + 1) = 2 * p
  <2>1. m \in Nat /\ 2 \in Nat \ {0} /\ 2 \in Int
    BY <1>2
  <2> QED
    BY <2>1, PowerPositive, PowerStep
<1>5. p <= x
  <2>1. CASE m = 0
    BY <1>4, <2>1, PowerStep
  <2>2. CASE m # 0
    <3>1. m - 1 \in Nat /\ ~(m <= m - 1) /\ (m - 1) + 1 = m
      BY <1>2, <2>2
    <3>2. ~(x < Power(2, (m - 1) + 1))
      BY <1>2, <3>1
    <3> QED
      BY <1>4, <3>1, <3>2
  <2> QED
    BY <2>1, <2>2
<1>6. x < 2 * p
  BY <1>2, <1>4
<1>7. x \div p = 1
  BY <1>5, <1>6, QuotientOne
<1> QED
  BY <1>3, <1>4, <1>7

(* A fraction below 1 times some power of 2 is between 1 and 2.            *)
LEMMA NegativeExponent ==
  ASSUME NEW n \in Nat \ {0}, NEW d \in Nat \ {0}, n < d
  PROVE  \E e \in 1 .. d : (n * Power(2, e)) \div d = 1
<1> DEFINE T == {e \in Nat : n * Power(2, e) >= d}
<1>1. d \in T
  <2>1. PICK p \in Nat : p = Power(2, d) /\ p > d
    BY PowerGrows, PowerPositive
  <2>2. n * p >= p
    BY <2>1
  <2> QED
    BY <2>1, <2>2
<1>2. PICK m \in T : \A e \in T : m <= e
  BY <1>1, LeastNatural
<1>3. m # 0
  <2>1. n * Power(2, 0) = n
    BY PowerStep
  <2> QED
    BY <1>2, <2>1
<1>4. m \in 1 .. d
  BY <1>1, <1>2, <1>3
<1>5. m - 1 \in Nat /\ (m - 1) + 1 = m /\ m - 1 \notin T
  BY <1>2, <1>3
<1>6. PICK p \in Nat \ {0} : p = Power(2, m - 1) /\ Power(2, m) = 2 * p
  BY <1>5, PowerPositive, PowerStep
<1>7. n * p < d
  BY <1>5, <1>6
<1>8. PICK x \in Nat : x = n * (2 * p) /\ x = n * Power(2, m)
  BY <1>6
<1>9. x >= d /\ x < 2 * d
  BY <1>2, <1>7, <1>8
<1>10. x \div d = 1
  BY <1>9, QuotientOne
<1> QED
  BY <1>4, <1>8, <1>10

(* The exponent read from the bits of a double is an integer: a number     *)
(* that is not zero lies between two powers of two.                        *)
LEMMA BinaryExponentIs ==
  ASSUME NEW v \in Magnitudes, v.n # 0
  PROVE  BinaryExponent(v) \in Int
<1>1. PICK n \in Nat \ {0}, d \in Nat \ {0} : n = v.n /\ d = v.d
  BY DEF Magnitudes
<1>2. CASE n >= d
  <2> DEFINE A(e) == (v.n \div v.d) \div Power(2, e) = 1
  <2>1. PICK x \in Nat \ {0} : x = n \div d /\ x <= n
    <3>1. PICK q \in Nat, r \in 0 .. d - 1 : q = n \div d /\ n = d * q + r
      OBVIOUS
    <3>2. q # 0
      BY <1>2, <3>1
    <3>3. d * q >= q
      BY <3>1
    <3> QED
      BY <3>1, <3>2, <3>3
  <2>2. PICK e \in 0 .. x : A(e)
    BY <1>1, <2>1, PositiveExponent
  <2>3. e \in 0 .. v.n
    BY <1>1, <2>1
  <2>4. BinaryExponent(v) = CHOOSE i \in 0 .. v.n : A(i)
    BY <1>1, <1>2 DEF BinaryExponent
  <2> HIDE DEF A
  <2>5. (CHOOSE i \in 0 .. v.n : A(i)) \in 0 .. v.n
    BY <2>2, <2>3
  <2> QED
    BY <1>1, <2>4, <2>5
<1>3. CASE ~(n >= d)
  <2> DEFINE B(e) == (v.n * Power(2, e)) \div v.d = 1
  <2>1. n < d
    BY <1>3
  <2>2. \E e \in 1 .. v.d : B(e)
    BY <1>1, <2>1, NegativeExponent
  <2>3. BinaryExponent(v) = -(CHOOSE e \in 1 .. v.d : B(e))
    BY <1>1, <1>3 DEF BinaryExponent
  <2> HIDE DEF B
  <2>4. (CHOOSE e \in 1 .. v.d : B(e)) \in 1 .. v.d
    BY <2>2
  <2>5. PICK i \in Int : i = CHOOSE e \in 1 .. v.d : B(e)
    BY <1>1, <2>4
  <2> QED
    BY <2>3, <2>5
<1> QED
  BY <1>2, <1>3

(* The decimal exponent is an integer.                                     *)
LEMMA ExponentIs ==
  ASSUME NEW v \in Magnitudes
  PROVE  Exponent(v) \in Int
<1>1. PICK n \in Nat, d \in Nat \ {0} : n = v.n /\ d = v.d
  BY DEF Magnitudes
<1>2. CASE n = 0
  BY <1>1, <1>2 DEF Exponent
<1>3. CASE n # 0
  <2> DEFINE e2 == BinaryExponent(v)
             m == IF e2 > 10 THEN (v.n \div v.d) \div Power(2, e2 - 10) ELSE (v.n * Power(2, 10 - e2)) \div v.d
             log == 1761 + ((e2 * 30103) \div 10) + ((2895 * (m - 1536)) \div 1024)
             e10 == IF log < 0 THEN -((-log) \div 10000) ELSE log \div 10000
             small == IF e10 < 0 THEN v.n * Power(10, -e10) < v.d ELSE v.n < v.d * Power(10, e10)
  <2>1. v.n # 0
    BY <1>1, <1>3
  <2>2. Exponent(v) = IF v.n = 0 THEN -308 ELSE IF small THEN e10 - 1 ELSE e10
    BY DEF Exponent
  <2>3. e2 \in Int
    BY <2>1, BinaryExponentIs
  <2> HIDE DEF e2
  <2>4. m \in Int
    <3>1. CASE e2 > 10
      <4>1. PICK p \in Nat \ {0} : p = Power(2, e2 - 10)
        <5>1. e2 - 10 \in Nat /\ 2 \in Nat \ {0}
          BY <2>3, <3>1
        <5> QED
          BY <5>1, PowerPositive
      <4>2. PICK q \in Nat : q = n \div d
        BY Quotient
      <4>3. q \div p \in Nat
        BY Quotient
      <4> QED
        BY <1>1, <3>1, <4>1, <4>2, <4>3
    <3>2. CASE ~(e2 > 10)
      <4>1. PICK p \in Nat \ {0} : p = Power(2, 10 - e2)
        <5>1. 10 - e2 \in Nat /\ 2 \in Nat \ {0}
          BY <2>3, <3>2
        <5> QED
          BY <5>1, PowerPositive
      <4>2. PICK q \in Nat : q = n * p
        OBVIOUS
      <4>3. q \div d \in Nat
        BY Quotient
      <4> QED
        BY <1>1, <3>2, <4>1, <4>2, <4>3
    <3> QED
      BY <3>1, <3>2
  <2> HIDE DEF m
  <2>5. log \in Int
    BY <2>3, <2>4
  <2> HIDE DEF log
  <2>6. e10 \in Int
    BY <2>5
  <2> HIDE DEF e10, small
  <2>7. Exponent(v) = e10 - 1 \/ Exponent(v) = e10
    BY <2>1, <2>2, Zenon
  <2> QED
    BY <2>6, <2>7
<1> QED
  BY <1>2, <1>3

(* A number taken by a power of 10 is a number.                            *)
LEMMA RescaledIs ==
  ASSUME NEW v \in Fractions, NEW e \in Int
  PROVE  Rescaled(v, e) \in Fractions
<1>1. PICK n \in Int, d \in Nat \ {0} : n = v.n /\ d = v.d /\ v = [n |-> n, d |-> d]
  BY DEF Fractions
<1>2. CASE n = 0
  BY <1>1, <1>2 DEF Rescaled
<1>3. CASE n # 0 /\ e >= 0
  <2>1. PICK p \in Nat \ {0} : p = Power(10, e)
    <3>1. e \in Nat /\ 10 \in Nat \ {0}
      BY <1>3
    <3> QED
      BY <3>1, PowerPositive
  <2>2. d * p \in Nat /\ d * p # 0
    OBVIOUS
  <2>3. Rescaled(v, e) = [n |-> n, d |-> d * p]
    BY <1>1, <1>3, <2>1 DEF Rescaled
  <2> QED
    BY <2>2, <2>3 DEF Fractions
<1>4. CASE n # 0 /\ ~(e >= 0)
  <2>1. PICK p \in Nat \ {0} : p = Power(10, -e)
    <3>1. -e \in Nat /\ 10 \in Nat \ {0}
      BY <1>4
    <3> QED
      BY <3>1, PowerPositive
  <2>2. n * p \in Int
    OBVIOUS
  <2>3. Rescaled(v, e) = [n |-> n * p, d |-> d]
    BY <1>1, <1>4, <2>1 DEF Rescaled
  <2> QED
    BY <2>2, <2>3 DEF Fractions
<1> QED
  BY <1>2, <1>3, <1>4

(* The text of what is no number.                                          *)
LEMMA SpecialIsText ==
  ASSUME NEW v, v.n \in Int, NEW width \in Nat, NEW flags
  PROVE  /\ SpecialText(v, width, flags) \in Texts
         /\ ~ByZeros(flags) => Len(SpecialText(v, width, flags)) >= width
<1>1. PICK n \in Characters, a \in Characters, f \in Characters, i \in Characters, m \in Characters, p \in Characters :
        n = "n" /\ a = "a" /\ f = "f" /\ i = "i" /\ m = "-" /\ p = "+"
  BY OwnCharacters
<1>2. <<n, a, n>> \in Texts /\ <<f, n, i, m>> \in Texts /\ <<f, n, i>> \in Texts /\ <<p>> \in Texts /\ << >> \in Texts
  BY DEF Texts
<1>3. <<f, n, i>> \o <<p>> \in Texts /\ <<f, n, i>> \o << >> \in Texts
  BY <1>2, Joined
<1>4. PICK t \in Texts : t = CASE v.n = 0 -> <<n, a, n>>
                               [] v.n < 0 -> <<f, n, i, m>>
                               [] v.n > 0 -> <<f, n, i>> \o IF "PLUS" \in flags THEN <<p>> ELSE <<>>
  <2>1. CASE v.n = 0
    BY <1>2, <2>1
  <2>2. CASE v.n < 0
    BY <1>2, <2>2
  <2>3. CASE v.n > 0
    BY <1>2, <1>3, <2>3
  <2>4. v.n = 0 \/ v.n < 0 \/ v.n > 0
    OBVIOUS
  <2> QED
    BY <2>1, <2>2, <2>3, <2>4, Zenon
<1>5. SpecialText(v, width, flags) = _out_rev(t, width, flags)
  BY <1>1, <1>4 DEF SpecialText
<1>6. /\ _out_rev(t, width, flags) \in Texts
      /\ "LEFT" \in flags \/ "ZEROPAD" \notin flags => Len(_out_rev(t, width, flags)) >= width
  BY OutRevText
<1> QED
  BY <1>5, <1>6 DEF ByZeros

(* Spaces behind the exponent fill the width, if the text is to stand      *)
(* left.                                                                   *)
LEMMA LeftPaddedText ==
  ASSUME NEW text \in Texts, NEW left \in BOOLEAN, NEW width \in Nat
  PROVE  /\ LeftPadded(text, left, width) \in Texts
         /\ Len(LeftPadded(text, left, width)) >= Len(text)
         /\ left => Len(LeftPadded(text, left, width)) >= width
<1>1. PICK n \in Nat : n = Len(text)
  BY TextLen
<1>2. PICK space \in Characters : space = " "
  BY OwnCharacters
<1>3. PICK t \in Texts : t = Times(width - n, space) /\ Len(t) = IF width - n > 0 THEN width - n ELSE 0
  BY TimesText
<1>4. text \o t \in Texts /\ Len(text \o t) = n + Len(t) /\ text \o << >> \in Texts /\ Len(text \o << >>) = n
  BY <1>1, Joined, EmptyText
<1>5. LeftPadded(text, left, width) = IF left THEN text \o t ELSE text \o << >>
  BY <1>1, <1>2, <1>3 DEF LeftPadded
<1> QED
  BY <1>1, <1>3, <1>4, <1>5

(* A number with its exponent.                                             *)
LEMMA ExponentialText ==
  ASSUME NEW v \in Fractions, NEW e \in Int, NEW prec \in Nat, NEW width \in Nat, NEW flags
  PROVE  /\ Exponential(v, e, prec, width, flags) \in Texts
         /\ (ByZeros(flags) => width <= PRINTF_FTOA_BUFFER_SIZE) => Len(Exponential(v, e, prec, width, flags)) >= width
<1>1. PICK size \in Nat : size = IF "PRECISION" \in flags THEN prec ELSE PRINTF_DEFAULT_FLOAT_PRECISION
  BY PrintfAssumption
<1>2. PICK plain \in BOOLEAN : plain <=> Plain(v, flags)
  OBVIOUS
<1>3. PICK w \in {4, 5} : w = ExponentWidth(e)
  BY DEF ExponentWidth
<1>4. PICK minwidth \in Nat : minwidth = IF plain THEN 0 ELSE w
  OBVIOUS
<1>5. PICK p \in Nat : p = CASE plain -> IF size > e THEN size - e - 1 ELSE 0
                             [] ~plain /\ {"ADAPT_EXP", "PRECISION"} \subseteq flags /\ size > 0 -> size - 1
                             [] OTHER -> size
  <2>1. CASE plain
    BY <2>1
  <2>2. CASE ~plain /\ {"ADAPT_EXP", "PRECISION"} \subseteq flags /\ size > 0
    BY <2>2
  <2>3. CASE ~plain /\ ~({"ADAPT_EXP", "PRECISION"} \subseteq flags /\ size > 0)
    BY <2>3
  <2> QED
    BY <2>1, <2>2, <2>3
<1>6. PICK left \in BOOLEAN : left <=> "LEFT" \in flags
  OBVIOUS
<1>7. PICK fwidth \in Nat : fwidth = IF width > minwidth /\ (left => minwidth = 0) THEN width - minwidth ELSE 0
  <2>1. PICK wide \in BOOLEAN : wide <=> (width > minwidth /\ (left => minwidth = 0))
    OBVIOUS
  <2>2. (IF wide THEN width - minwidth ELSE 0) \in Nat
    BY <2>1
  <2> QED
    BY <2>1, <2>2
<1>8. PICK rest : /\ rest = (flags \ {"ADAPT_EXP"}) \cup (IF plain THEN {"PRECISION"} ELSE {})
                  /\ ByZeros(rest) <=> ByZeros(flags)
  <2>1. PICK more : more = IF plain THEN {"PRECISION"} ELSE {}
    OBVIOUS
  <2>2. "ZEROPAD" \notin more /\ "LEFT" \notin more
    BY <2>1
  <2>3. PICK rest : rest = (flags \ {"ADAPT_EXP"}) \cup more
    OBVIOUS
  <2>4. ByZeros(rest) <=> ByZeros(flags)
    BY <2>2, <2>3 DEF ByZeros
  <2> QED
    BY <2>1, <2>3, <2>4
<1>9. PICK u \in Fractions : u = IF plain THEN v ELSE Rescaled(v, e)
  BY RescaledIs
<1>10. PICK number \in Texts : /\ number = FixedPoint(u, p, fwidth, rest)
                               /\ (ByZeros(rest) => fwidth <= PRINTF_FTOA_BUFFER_SIZE) => Len(number) >= fwidth
  BY FixedPointText
<1>11. PICK n \in Nat : n = Len(number) /\ ((ByZeros(flags) => width <= PRINTF_FTOA_BUFFER_SIZE) => n >= fwidth)
  <2>1. PICK n \in Nat : n = Len(number)
    BY TextLen
  <2>2. fwidth <= width
    BY <1>7
  <2>3. PRINTF_FTOA_BUFFER_SIZE \in Nat
    BY BufferSizes
  <2> QED
    BY <1>8, <1>10, <2>1, <2>2, <2>3
<1>12. CASE plain
  <2>1. Exponential(v, e, prec, width, flags) = number
    BY <1>1, <1>2, <1>3, <1>4, <1>5, <1>6, <1>7, <1>8, <1>9, <1>10, <1>12 DEF Exponential
  <2>2. fwidth = width
    BY <1>4, <1>7, <1>12
  <2> QED
    BY <1>11, <2>1, <2>2
<1>13. CASE ~plain
  <2>1. PICK x \in Nat : x = IF e < 0 THEN -e ELSE e
    OBVIOUS
  <2>2. PICK minus \in BOOLEAN : minus <=> e < 0
    OBVIOUS
  <2>3. PICK m \in Nat : m = minwidth - 1 /\ m <= PRINTF_NTOA_BUFFER_SIZE
    BY <1>3, <1>4, <1>13, BufferSizes
  <2>4. PICK digits \in Texts : /\ digits = _ntoa_long(x, minus, 10, 0, m, {"ZEROPAD", "PLUS"})
                                /\ Len(digits) >= m
    <3>1. 0 \in Nat /\ 10 \in {2, 8, 10, 16}
      OBVIOUS
    <3> QED
      BY <2>3, <3>1, NtoaText
  <2>5. PICK letter \in Texts : letter = (IF "UPPERCASE" \in flags THEN <<"E">> ELSE <<"e">>) /\ Len(letter) = 1
    <3>1. "E" \in Characters /\ "e" \in Characters
      BY OwnCharacters
    <3> QED
      BY <3>1, OneCharacters
  <2>6. PICK exponent \in Texts : exponent = letter \o digits /\ Len(exponent) = 1 + Len(digits)
    BY <2>5, Joined
  <2>7. PICK text \in Texts : text = number \o exponent /\ Len(text) = Len(number) + Len(exponent)
    BY Joined
  <2>8. Exponential(v, e, prec, width, flags) = LeftPadded(text, left, width)
    <3>1. (e < 0) = minus
      BY <2>2
    <3> QED
      BY <3>1, <1>1, <1>2, <1>3, <1>4, <1>5, <1>6, <1>7, <1>8, <1>9, <1>10, <1>13, <2>1, <2>3, <2>4, <2>5, <2>6, <2>7 DEF Exponential
  <2>9. PICK result \in Texts : /\ result = LeftPadded(text, left, width)
                                /\ Len(result) >= Len(text) /\ (left => Len(result) >= width)
    BY LeftPaddedText
  <2>10. PICK k \in Nat, l \in Nat, r \in Nat, t \in Nat :
           k = Len(digits) /\ l = Len(exponent) /\ r = Len(result) /\ t = Len(text)
    BY TextLen
  <2>11. k >= m /\ l = 1 + k /\ t = n + l /\ r >= t /\ (left => r >= width)
    BY <1>11, <2>4, <2>6, <2>7, <2>9, <2>10
  <2>12. minwidth = m + 1
    BY <1>4, <2>3
  <2>13. ASSUME ByZeros(flags) => width <= PRINTF_FTOA_BUFFER_SIZE PROVE r >= width
    <3>1. n >= fwidth
      BY <1>11, <2>13
    <3>2. ~left => fwidth + minwidth >= width
      BY <1>7
    <3> QED
      BY <2>11, <2>12, <3>1, <3>2
  <2> QED
    BY <2>8, <2>9, <2>10, <2>13
<1> QED
  BY <1>12, <1>13

(* What the functions of %e, %g and %f are given: a fraction, or with the  *)
(* denominator 0 what is no number.                                        *)
Doubles == [n : Int, d : Nat]

(* %e and %g yield text, for a number and for what is none, and fill the   *)
(* width unless zeros would have to fill more than the buffer holds.       *)
LEMMA EtoaText ==
  ASSUME NEW v \in Doubles, NEW prec \in Nat, NEW width \in Nat, NEW flags
  PROVE  /\ _etoa(v, prec, width, flags) \in Texts
         /\ (ByZeros(flags) => width <= PRINTF_FTOA_BUFFER_SIZE /\ ~Special(v))
              => Len(_etoa(v, prec, width, flags)) >= width
<1>1. CASE Special(v)
  <2>1. v.n \in Int
    BY DEF Doubles
  <2>2. _etoa(v, prec, width, flags) = SpecialText(v, width, flags)
    BY <1>1 DEF _etoa
  <2> QED
    BY <1>1, <2>1, <2>2, SpecialIsText
<1>2. CASE ~Special(v)
  <2>1. v \in Fractions
    BY <1>2 DEF Special, Doubles, Fractions
  <2>2. PICK e \in Int : e = Exponent(Magnitude(v))
    BY <2>1, MagnitudeIs, ExponentIs
  <2>3. _etoa(v, prec, width, flags) = Exponential(v, e, prec, width, flags)
    BY <1>2, <2>2 DEF _etoa
  <2> QED
    BY <1>2, <2>1, <2>3, ExponentialText
<1> QED
  BY <1>1, <1>2

(* So does %f.                                                             *)
LEMMA FtoaText ==
  ASSUME NEW v \in Doubles, NEW prec \in Nat, NEW width \in Nat, NEW flags
  PROVE  /\ _ftoa(v, prec, width, flags) \in Texts
         /\ (ByZeros(flags) => width <= PRINTF_FTOA_BUFFER_SIZE /\ ~Special(v))
              => Len(_ftoa(v, prec, width, flags)) >= width
<1>1. CASE Special(v)
  <2>1. v.n \in Int
    BY DEF Doubles
  <2>2. _ftoa(v, prec, width, flags) = SpecialText(v, width, flags)
    BY <1>1 DEF _ftoa
  <2> QED
    BY <1>1, <2>1, <2>2, SpecialIsText
<1>2. CASE ~Special(v) /\ Above(Magnitude(v), PRINTF_MAX_FLOAT)
  <2>1. _ftoa(v, prec, width, flags) = _etoa(v, prec, width, flags)
    BY <1>2 DEF _ftoa
  <2> QED
    BY <2>1, EtoaText
<1>3. CASE ~Special(v) /\ ~Above(Magnitude(v), PRINTF_MAX_FLOAT)
  <2>1. v \in Fractions
    BY <1>3 DEF Special, Doubles, Fractions
  <2>2. _ftoa(v, prec, width, flags) = FixedPoint(v, prec, width, flags)
    BY <1>3 DEF _ftoa
  <2> QED
    BY <1>3, <2>1, <2>2, FixedPointText
<1> QED
  BY <1>1, <1>2, <1>3

-----------------------------------------------------------------------------
(* The text of a directive for its argument.                              *)

(* What the parser of a directive hands to its conversion.                 *)
IntegerTypes == {"char", "short", "int", "long", "long long"}
IsDirective(d) == d.width \in Nat /\ d.precision \in Nat /\ d.type \in IntegerTypes

(* Every type has its number of bits.                                      *)
LEMMA TypeHasBits ==
  ASSUME NEW type, type \in IntegerTypes \/ type = "size_t"
  PROVE  \E b \in Nat : b = Bits[type]
<1> DEFINE Types == {"char", "short", "int", "long", "long long", "size_t"}
<1>1. Bits \in [Types -> Nat \ {0}]
  BY BitsAssumption
<1>2. type \in Types
  BY DEF IntegerTypes
<1> HIDE DEF Types
<1> QED
  BY <1>1, <1>2

(* There is a greatest size_t.                                             *)
LEMMA SizeIsNatural == Power(2, Bits["size_t"]) \in Nat \ {0}
<1>1. PICK b \in Nat : b = Bits["size_t"]
  BY TypeHasBits
<1>2. 2 \in Nat \ {0}
  OBVIOUS
<1>3. Power(2, b) \in Nat \ {0}
  BY <1>2, PowerPositive
<1> QED
  BY <1>1, <1>3

(* An argument of a type is an integer, and of an unsigned one a natural.  *)
LEMMA IntegerArgument ==
  ASSUME NEW arg \in Int, NEW type \in IntegerTypes
  PROVE  Unsigned(arg, type) \in Nat /\ Signed(arg, type) \in Int
<1>1. PICK b \in Nat : b = Bits[type]
  BY TypeHasBits
<1>2. PICK m \in Nat \ {0} : m = Power(2, b)
  <2>1. 2 \in Nat \ {0}
    OBVIOUS
  <2> QED
    BY <2>1, PowerPositive
<1>3. PICK u \in Nat : u = arg % m
  OBVIOUS
<1>4. Unsigned(arg, type) = u
  BY <1>1, <1>2, <1>3 DEF Unsigned
<1>5. Signed(arg, type) = IF 2 * u >= m THEN u - m ELSE u
  BY <1>1, <1>2, <1>4 DEF Signed
<1> QED
  BY <1>4, <1>5

(* The base is one of the four there are.                                  *)
LEMMA BaseIs == ASSUME NEW specifier PROVE Base(specifier) \in {2, 8, 10, 16}
<1>1. CASE specifier \in {"x", "X"}
  BY <1>1 DEF Base
<1>2. CASE specifier = "o"
  BY <1>2 DEF Base
<1>3. CASE specifier = "b"
  BY <1>3 DEF Base
<1>4. CASE specifier \notin {"x", "X", "o", "b"}
  BY <1>4 DEF Base
<1> QED
  BY <1>1, <1>2, <1>3, <1>4

(* The flags an integer is converted with ask for zeros only if the        *)
(* directive does.                                                         *)
LEMMA IntegerFlagsZeros == ASSUME NEW d PROVE ByZeros(IntegerFlags(d)) => ByZeros(d.flags)
<1>1. PICK more : more = IF d.specifier = "X" THEN {"UPPERCASE"} ELSE {}
  OBVIOUS
<1>2. "ZEROPAD" \notin more
  BY <1>1
<1>3. PICK hash : hash = IF Base(d.specifier) = 10 THEN {"HASH"} ELSE {}
  OBVIOUS
<1>4. PICK sign : sign = IF d.specifier \in {"i", "d"} THEN {} ELSE {"PLUS", "SPACE"}
  OBVIOUS
<1>5. PICK zero : zero = IF "PRECISION" \in d.flags THEN {"ZEROPAD"} ELSE {}
  OBVIOUS
<1>6. "LEFT" \notin hash /\ "LEFT" \notin sign /\ "LEFT" \notin zero
  BY <1>3, <1>4, <1>5
<1>7. IntegerFlags(d) = (d.flags \cup more) \ (hash \cup sign \cup zero)
  BY <1>1, <1>3, <1>4, <1>5 DEF IntegerFlags
<1> QED
  BY <1>2, <1>6, <1>7 DEF ByZeros

(* Every integer conversion yields text, which fills its field, if zeros   *)
(* that are to fill it fit the buffer.                                     *)
LEMMA IntegerTextIs ==
  ASSUME NEW d, IsDirective(d), NEW arg \in Int
  PROVE  /\ IntegerText(d, arg) \in Texts
         /\ (ByZeros(d.flags) => d.width <= PRINTF_NTOA_BUFFER_SIZE) => Len(IntegerText(d, arg)) >= d.width
<1>1. PICK prec \in Nat, width \in Nat : prec = d.precision /\ width = d.width
  BY DEF IsDirective
<1>2. PICK type \in IntegerTypes : type = d.type
  BY DEF IsDirective
<1>3. PICK v \in Int : v = IF d.specifier \in {"i", "d"} THEN Signed(arg, d.type) ELSE Unsigned(arg, d.type)
  BY <1>2, IntegerArgument
<1>4. PICK value \in Nat : value = IF v < 0 THEN Unsigned(0 - v, d.type) ELSE v
  <2>1. CASE v < 0
    <3>1. PICK w \in Int : w = 0 - v
      OBVIOUS
    <3>2. Unsigned(w, type) \in Nat
      BY IntegerArgument
    <3> QED
      BY <1>2, <2>1, <3>1, <3>2
  <2>2. CASE ~(v < 0)
    BY <2>2
  <2> QED
    BY <2>1, <2>2
<1>5. PICK negative \in BOOLEAN : negative <=> v < 0
  OBVIOUS
<1>6. PICK base \in {2, 8, 10, 16} : base = Base(d.specifier)
  BY BaseIs
<1>7. PICK flags : flags = IntegerFlags(d)
  OBVIOUS
<1>8. PICK t : t = _ntoa_long(value, negative, base, prec, width, flags)
  OBVIOUS
<1>9. IntegerText(d, arg) = t
  <2>1. (v < 0) = negative
    BY <1>5
  <2> QED
    BY <2>1, <1>1, <1>3, <1>4, <1>6, <1>7, <1>8 DEF IntegerText
<1>10. t \in Texts /\ ((ByZeros(flags) => width <= PRINTF_NTOA_BUFFER_SIZE) => Len(t) >= width)
  BY <1>8, NtoaText
<1>11. ByZeros(flags) => ByZeros(d.flags)
  BY <1>7, IntegerFlagsZeros
<1> QED
  BY <1>1, <1>9, <1>10, <1>11

(* The text of a floating point directive, and where it fills its width.   *)
LEMMA FloatTextIs ==
  ASSUME NEW d, IsDirective(d), NEW arg \in Doubles
  PROVE  /\ FloatText(d, arg) \in Texts
         /\ (ByZeros(d.flags) => d.width <= PRINTF_FTOA_BUFFER_SIZE /\ ~Special(arg)) => Len(FloatText(d, arg)) >= d.width
<1>1. PICK prec \in Nat, width \in Nat : prec = d.precision /\ width = d.width
  BY DEF IsDirective
<1>2. PICK upper : upper = IF d.specifier \in {"F", "E", "G"} THEN {"UPPERCASE"} ELSE {}
  OBVIOUS
<1>3. PICK adapt : adapt = IF d.specifier \in {"g", "G"} THEN {"ADAPT_EXP"} ELSE {}
  OBVIOUS
<1>4. PICK flags : flags = d.flags \cup upper \cup adapt
  OBVIOUS
<1>5. ByZeros(flags) <=> ByZeros(d.flags)
  <2>1. "LEFT" \notin upper /\ "LEFT" \notin adapt /\ "ZEROPAD" \notin upper /\ "ZEROPAD" \notin adapt
    BY <1>2, <1>3
  <2> QED
    BY <1>4, <2>1 DEF ByZeros
<1>6. CASE d.specifier \in {"f", "F"}
  <2>1. FloatText(d, arg) = _ftoa(arg, prec, width, flags)
    BY <1>1, <1>2, <1>3, <1>4, <1>6 DEF FloatText
  <2> QED
    BY <1>1, <1>5, <2>1, FtoaText
<1>7. CASE d.specifier \notin {"f", "F"}
  <2>1. FloatText(d, arg) = _etoa(arg, prec, width, flags)
    BY <1>1, <1>2, <1>3, <1>4, <1>7 DEF FloatText
  <2> QED
    BY <1>1, <1>5, <2>1, EtoaText
<1> QED
  BY <1>6, <1>7

(* A text between its spaces is as long as the width at least.             *)
LEMMA PaddedIs ==
  ASSUME NEW d, IsDirective(d), NEW text \in Texts
  PROVE  Padded(text, d) \in Texts /\ Len(Padded(text, d)) >= d.width
<1>1. PICK n \in Nat, width \in Nat : n = Len(text) /\ width = d.width
  BY TextLen DEF IsDirective
<1>2. PICK space \in Characters : space = " "
  BY OwnCharacters
<1>3. PICK pad \in Texts : pad = Times(width - n, space) /\ Len(pad) = IF width - n > 0 THEN width - n ELSE 0
  BY TimesText
<1>4. /\ text \o pad \in Texts /\ Len(text \o pad) = n + Len(pad)
      /\ pad \o text \in Texts /\ Len(pad \o text) = Len(pad) + n
  BY <1>1, Joined
<1>5. Padded(text, d) = IF "LEFT" \in d.flags THEN text \o pad ELSE pad \o text
  BY <1>1, <1>2, <1>3 DEF Padded
<1>6. n + Len(pad) >= width /\ Len(pad) + n >= width
  BY <1>3
<1> QED
  BY <1>1, <1>4, <1>5, <1>6

(* A string fills its width, cut by the precision or not.                  *)
LEMMA StringTextIs ==
  ASSUME NEW d, IsDirective(d), NEW arg \in Texts
  PROVE  StringText(d, arg) \in Texts /\ Len(StringText(d, arg)) >= d.width
<1>1. PICK n \in Nat, prec \in Nat : n = Len(arg) /\ prec = d.precision
  BY TextLen DEF IsDirective
<1>2. PICK k \in Nat : k = Lesser(n, prec) /\ k <= n
  BY DEF Lesser
<1>3. PICK t \in Texts : t = IF "PRECISION" \in d.flags THEN SubSeq(arg, 1, k) ELSE arg
  BY <1>1, <1>2, Beginning
<1>4. StringText(d, arg) = Padded(t, d)
  BY <1>1, <1>2, <1>3 DEF StringText
<1> QED
  BY <1>4, PaddedIs

(* The text of a pointer.                                                  *)
LEMMA PointerTextIs ==
  ASSUME NEW d, IsDirective(d), NEW arg \in Int
  PROVE  PointerText(d, arg) \in Texts
<1>1. PICK prec \in Nat : prec = d.precision
  BY DEF IsDirective
<1>0. PICK long \in IntegerTypes : long = "long"
  BY DEF IntegerTypes
<1>2. PICK value \in Nat : value = Unsigned(arg, long)
  BY IntegerArgument
<1>3. PICK width \in Nat : width = Bits[long] \div 4
  <2>1. PICK b \in Nat : b = Bits[long]
    BY TypeHasBits
  <2>2. b \div 4 \in Nat
    OBVIOUS
  <2> QED
    BY <2>1, <2>2
<1>4. PICK flags : flags = d.flags \cup {"ZEROPAD", "UPPERCASE"}
  OBVIOUS
<1>5. PointerText(d, arg) = _ntoa_long(value, FALSE, 16, prec, width, flags)
  BY <1>0, <1>1, <1>2, <1>3, <1>4 DEF PointerText
<1>6. FALSE \in BOOLEAN /\ 16 \in {2, 8, 10, 16}
  OBVIOUS
<1> QED
  BY <1>5, <1>6, NtoaText

-----------------------------------------------------------------------------
(* The parser.                                                             *)

(* A format is a string; its characters are asked for by their number.     *)
LEMMA AtIs ==
  ASSUME call.format \in Texts, NEW p \in Nat \ {0}
  PROVE  At(p) \in Characters /\ (At(p) # NUL => p <= Len(call.format))
<1>1. PICK n \in Nat : n = Len(call.format)
  BY TextLen
<1>2. CASE p <= n
  <2>1. call.format[p] \in Characters
    BY <1>1, <1>2, TextAt
  <2> QED
    BY <1>1, <1>2, <2>1 DEF At
<1>3. CASE ~(p <= n)
  <2>1. At(p) = NUL
    BY <1>1, <1>3 DEF At
  <2> QED
    BY <2>1, OwnCharacters
<1> QED
  BY <1>2, <1>3

(* Behind a run of characters the format goes on, or has ended.            *)
LEMMA PastIs ==
  ASSUME call.format \in Texts, NEW p \in Nat \ {0}, p <= Len(call.format) + 1, NEW S, NUL \notin S
  PROVE  /\ Past(p, S) \in p .. Len(call.format) + 1
         /\ \A r \in p .. Past(p, S) - 1 : At(r) \in S
<1>1. PICK n \in Nat : n = Len(call.format)
  BY TextLen
<1> DEFINE T == {q \in Nat : q >= p /\ At(q) \notin S}
<1> DEFINE Is(q) == At(q) \notin S /\ \A r \in p .. q - 1 : At(r) \in S
<1>2. n + 1 \in T
  <2>1. At(n + 1) = NUL
    <3>1. n + 1 \in Nat \ {0} /\ ~(n + 1 <= n)
      OBVIOUS
    <3> QED
      BY <1>1, <3>1, AtIs
  <2> QED
    BY <1>1, <2>1
<1>3. PICK q \in T : \A r \in T : q <= r
  BY <1>2, LeastNatural
<1>4. q \in p .. n + 1
  BY <1>2, <1>3
<1>5. ASSUME NEW r \in p .. q - 1 PROVE At(r) \in S
  <2>1. r \in Nat /\ r >= p /\ ~(q <= r)
    BY <1>4
  <2>2. r \notin T
    BY <1>3, <2>1
  <2> QED
    BY <2>1, <2>2
<1>6. Is(q)
  BY <1>3, <1>5
<1>7. Past(p, S) = CHOOSE x \in p .. Len(call.format) + 1 : Is(x)
  BY DEF Past
<1> HIDE DEF Is
<1>8. Past(p, S) \in p .. Len(call.format) + 1 /\ Is(Past(p, S))
  BY <1>1, <1>4, <1>6, <1>7
<1> QED
  BY <1>8 DEF Is

(* The value of a digit.                                                   *)
LEMMA DigitIs ==
  ASSUME NEW c \in _is_digit
  PROVE  Digit(c) \in 0 .. 9
<1>1. _is_digit = {Digits[i] : i \in DOMAIN Digits}
  BY DEF _is_digit, Range
<1>2. Len(Digits) = 10 /\ DOMAIN Digits = 1 .. 10
  BY DEF Digits
<1>3. PICK i \in 1 .. 10 : Digits[i] = c
  BY <1>1, <1>2
<1>4. PICK d \in 0 .. 9 : d = i - 1 /\ d + 1 = i
  OBVIOUS
<1>5. Digits[d + 1] = c
  BY <1>3, <1>4
<1> QED
  BY <1>5 DEF Digit

(* A number parsed from its digits, wherever they begin, is a natural.     *)
Atois(i, p, n) ==
  i = [q \in p .. n |-> IF q = p THEN 0 ELSE Unsigned(10 * i[q - 1] + Digit(At(q - 1)), "int")]

(* An int read as unsigned is a natural number.                            *)
LEMMA UnsignedInt == ASSUME NEW v \in Int PROVE Unsigned(v, "int") \in Nat
<1>1. PICK type \in IntegerTypes : type = "int"
  BY DEF IntegerTypes
<1> QED
  BY <1>1, IntegerArgument

(* The values _atoi passes through exist, as far as digits go.             *)
LEMMA AtoisExist ==
  ASSUME NEW p \in Nat, NEW n \in Nat, p <= n, \A r \in p .. n - 1 : At(r) \in _is_digit
  PROVE  \E i : Atois(i, p, n)
<1>1. PICK m \in Nat : n = p + m
  <2>1. n - p \in Nat /\ n = p + (n - p)
    OBVIOUS
  <2> QED
    BY <2>1
<1> DEFINE Step(k, s) == Unsigned(10 * s + Digit(At(p + k - 1)), "int")
<1> DEFINE F == [k \in Nat |-> [s \in Nat |-> IF k \in 1 .. m THEN Step(k, s) ELSE 0]]
<1>2. ASSUME NEW k \in 1 .. m, NEW s \in Nat PROVE Step(k, s) \in Nat
  <2>1. p + k - 1 \in p .. n - 1
    BY <1>1
  <2>2. PICK d \in 0 .. 9 : d = Digit(At(p + k - 1))
    BY <2>1, DigitIs
  <2>3. PICK x \in Int : x = 10 * s + d
    OBVIOUS
  <2> QED
    BY <2>2, <2>3, UnsignedInt
<1>3. ASSUME NEW k \in 1 .. m, NEW s \in Nat PROVE F[k][s] = Step(k, s)
  <2>1. k \in Nat
    OBVIOUS
  <2> HIDE DEF Step
  <2> QED
    BY <2>1
<1>4. Closed(F, Nat)
  <2> SUFFICES ASSUME NEW k \in Nat, NEW s \in Nat PROVE F[k][s] \in Nat
    BY DEF Closed
  <2>1. CASE k \in 1 .. m
    BY <1>2, <1>3, <2>1
  <2>2. CASE k \notin 1 .. m
    <3> HIDE DEF Step
    <3> QED
      BY <2>2
  <2> QED
    BY <2>1, <2>2
<1> HIDE DEF F
<1>5. PICK f \in [0 .. m -> Nat] : Recursion(f, F, 0, m)
  <2>1. 0 \in Nat
    OBVIOUS
  <2> QED
    BY <1>4, <2>1, RecursionExists
<1> DEFINE i == [q \in p .. n |-> f[q - p]]
<1>6. ASSUME NEW q \in p .. n
      PROVE  i[q] = IF q = p THEN 0 ELSE Unsigned(10 * i[q - 1] + Digit(At(q - 1)), "int")
  <2>1. CASE q = p
    BY <1>5, <2>1 DEF Recursion
  <2>2. CASE q # p
    <3>1. PICK k \in 1 .. m : k = q - p /\ p + k - 1 = q - 1 /\ k - 1 = (q - 1) - p /\ q - 1 \in p .. n /\ k - 1 \in 0 .. m
      BY <1>1, <2>2
    <3>2. f[k] = F[k][f[k - 1]] /\ f[k - 1] \in Nat
      BY <1>5, <3>1 DEF Recursion
    <3>3. f[k] = Step(k, f[k - 1])
      BY <1>3, <3>2
    <3>4. i[q] = f[k] /\ i[q - 1] = f[k - 1]
      BY <3>1
    <3> HIDE DEF i
    <3>5. i[q] = Unsigned(10 * i[q - 1] + Digit(At(q - 1)), "int")
      BY <3>1, <3>3, <3>4
    <3> QED
      BY <2>2, <3>5
  <2> QED
    BY <2>1, <2>2
<1>7. i = [q \in p .. n |-> i[q]]
  OBVIOUS
<1> HIDE DEF i
<1>8. Atois(i, p, n)
  BY <1>6, <1>7 DEF Atois
<1> QED
  BY <1>8

(* _atoi reads a natural number and stays in the format, or at its end.    *)
LEMMA AtoiIs ==
  ASSUME call.format \in Texts, NEW p \in Nat \ {0}, p <= Len(call.format) + 1
  PROVE  _atoi(p) \in Nat /\ Past(p, _is_digit) \in p .. Len(call.format) + 1
<1>1. NUL \notin _is_digit
  <2>1. _is_digit = {Digits[i] : i \in DOMAIN Digits}
    BY DEF _is_digit, Range
  <2>2. Len(Digits) = 10 /\ DOMAIN Digits = 1 .. 10
    BY DEF Digits
  <2>3. ASSUME NEW i \in 1 .. 10 PROVE Digits[i] # NUL
    BY DEF Digits, NUL
  <2> QED
    BY <2>1, <2>2, <2>3
<1>2. PICK n \in Nat : n = Past(p, _is_digit) /\ n \in p .. Len(call.format) + 1 /\ \A r \in p .. n - 1 : At(r) \in _is_digit
  <2>1. PICK l \in Nat : l = Len(call.format)
    BY TextLen
  <2>2. /\ Past(p, _is_digit) \in p .. l + 1
        /\ \A r \in p .. Past(p, _is_digit) - 1 : At(r) \in _is_digit
    BY <1>1, <2>1, PastIs
  <2>3. Past(p, _is_digit) \in Nat
    BY <2>2
  <2> QED
    BY <2>1, <2>2, <2>3
<1>3. p <= n /\ n \in Nat
  <2>1. PICK l \in Nat : l = Len(call.format)
    BY TextLen
  <2> QED
    BY <1>2, <2>1
<1> DEFINE i == CHOOSE i : Atois(i, p, n)
<1>4. Atois(i, p, n)
  <2>1. \E f : Atois(f, p, n)
    BY <1>2, <1>3, AtoisExist
  <2> QED
    BY <2>1, Zenon
<1>5. _atoi(p) = i[n]
  BY <1>2 DEF _atoi, Atois
<1> HIDE DEF i
<1>6. ASSUME NEW q \in p .. n PROVE i[q] = IF q = p THEN 0 ELSE Unsigned(10 * i[q - 1] + Digit(At(q - 1)), "int")
  BY <1>4 DEF Atois
<1> DEFINE T == {k \in Nat : p + k <= n => i[p + k] \in Nat}
<1>7. 0 \in T
  BY <1>6
<1>8. ASSUME NEW k \in Nat, k \in T PROVE k + 1 \in T
  <2>1. CASE p + (k + 1) <= n
    <3>1. PICK q \in Nat : q = p + (k + 1) /\ q \in p .. n /\ q # p /\ q - 1 = p + k /\ p + k <= n /\ q - 1 \in p .. n - 1
      BY <2>1
    <3>2. PICK x \in Nat : x = i[q - 1]
      BY <1>8, <3>1
    <3>3. PICK d \in 0 .. 9 : d = Digit(At(q - 1))
      BY <1>2, <3>1, DigitIs
    <3>4. PICK y \in Int : y = 10 * x + d
      OBVIOUS
    <3>5. i[q] = Unsigned(y, "int")
      BY <1>6, <3>1, <3>2, <3>3, <3>4
    <3>6. i[q] \in Nat
      BY <3>5, UnsignedInt
    <3> QED
      BY <3>1, <3>6
  <2> QED
    BY <2>1
<1>9. \A k \in Nat : k \in T
  <2> HIDE DEF T
  <2> QED
    BY <1>7, <1>8, SetInduction
<1>10. i[n] \in Nat
  <2>1. PICK k \in Nat : p + k = n
    <3>1. n - p \in Nat /\ p + (n - p) = n
      BY <1>3
    <3> QED
      BY <3>1
  <2> QED
    BY <1>9, <2>1
<1> QED
  BY <1>2, <1>5, <1>10

\* A star at p finds an integer among the arguments.
StarFits(p, args) == At(p) = "*" => Head(args) \in Int

\* The caller's duty (printf.h:53-109): the format is a string, its directives
\* are complete, and every one finds the arguments of the types it asks for.
ArgumentsFit ==
  /\ call.format \in Seq(Characters) /\ call.count \in Nat
  /\ Running /\ At(format) = "%" =>
       LET first == Past(format + 1, DOMAIN FlagOf)
           w == Number(first, va)
           d == Directive(format + 1)
       IN /\ StarFits(first, va) /\ (At(w.at) = "." => StarFits(w.at + 1, w.args))
          /\ d.specifier # NUL
          /\ d.specifier \in {"d", "i", "u", "x", "X", "o", "b", "p"} => Head(d.args) \in Int
          /\ d.specifier \in {"f", "F", "e", "E", "g", "G"} => Head(d.args) \in [n : Int, d : Nat]
          /\ d.specifier = "c" => Head(d.args) \in Characters
          /\ d.specifier = "s" => Head(d.args) \in Seq(Characters)

(* A width or a precision is an integer; a number of its own digits is not *)
(* negative.                                                               *)
LEMMA NumberIs ==
  ASSUME call.format \in Texts, NEW p \in Nat \ {0}, p <= Len(call.format) + 1,
         NEW args, StarFits(p, args)
  PROVE  /\ Number(p, args).value \in Int
         /\ Number(p, args).at \in p .. Len(call.format) + 1
<1>1. PICK l \in Nat : l = Len(call.format)
  BY TextLen
<1>2. CASE At(p) = "*"
  <2>1. Number(p, args) = [value |-> Signed(Head(args), "int"), at |-> p + 1, args |-> Tail(args)]
    BY <1>2 DEF Number
  <2>2. PICK type \in IntegerTypes : type = "int"
    BY DEF IntegerTypes
  <2>3. Signed(Head(args), type) \in Int
    BY <1>2, IntegerArgument DEF StarFits
  <2>4. At(p) # NUL
    BY <1>2 DEF NUL
  <2>5. p + 1 \in p .. l + 1
    BY <1>1, <2>4, AtIs
  <2> QED
    BY <1>1, <2>1, <2>2, <2>3, <2>5
<1>3. CASE At(p) # "*"
  <2>1. Number(p, args) = [value |-> _atoi(p), at |-> Past(p, _is_digit), args |-> args]
    BY <1>3 DEF Number
  <2>2. _atoi(p) \in Nat /\ Past(p, _is_digit) \in p .. Len(call.format) + 1
    BY AtoiIs
  <2> QED
    BY <2>1, <2>2
<1> QED
  BY <1>2, <1>3

(* The length field lies in the format, and stands for a type.             *)
LEMMA LengthIs ==
  ASSUME call.format \in Texts, NEW p \in Nat \ {0}, p <= Len(call.format) + 1
  PROVE  LengthEnd(p) \in p .. Len(call.format) + 1 /\ LengthType(p) \in IntegerTypes
<1>1. PICK l \in Nat : l = Len(call.format) /\ p <= l + 1
  BY TextLen
<1>2. LengthType(p) \in IntegerTypes
  <2>1. CASE At(p) = "l"
    BY <2>1 DEF LengthType, IntegerTypes
  <2>2. CASE At(p) = "h"
    BY <2>2 DEF LengthType, IntegerTypes
  <2>3. CASE At(p) \in {"t", "j", "z"}
    BY <2>3 DEF LengthType, IntegerTypes
  <2>4. CASE At(p) \notin {"l", "h", "t", "j", "z"}
    BY <2>4 DEF LengthType, IntegerTypes
  <2> QED
    BY <2>1, <2>2, <2>3, <2>4
<1>3. At(p) # NUL => p <= l
  BY <1>1, AtIs
<1>4. At(p + 1) # NUL => p + 1 <= l
  <2>1. p + 1 \in Nat \ {0}
    OBVIOUS
  <2> QED
    BY <1>1, <2>1, AtIs
<1>5. CASE At(p) \in {"l", "h"}
  <2>1. At(p) # NUL
    BY <1>5 DEF NUL
  <2>2. LengthEnd(p) = IF At(p + 1) = At(p) THEN p + 2 ELSE p + 1
    BY <1>5 DEF LengthEnd
  <2>3. p + 1 \in p .. l + 1 /\ (At(p + 1) = At(p) => p + 2 \in p .. l + 1)
    BY <1>3, <1>4, <2>1
  <2> QED
    BY <1>1, <1>2, <2>2, <2>3
<1>6. CASE At(p) \in {"t", "j", "z"}
  <2>1. At(p) # NUL
    BY <1>6 DEF NUL
  <2>2. LengthEnd(p) = p + 1
    BY <1>6 DEF LengthEnd
  <2>3. p + 1 \in p .. l + 1
    BY <1>3, <2>1
  <2> QED
    BY <1>1, <1>2, <2>2, <2>3
<1>7. CASE At(p) \notin {"l", "h", "t", "j", "z"}
  <2>1. LengthEnd(p) = p
    BY <1>7 DEF LengthEnd
  <2>2. p \in p .. l + 1
    BY <1>1
  <2> QED
    BY <1>1, <1>2, <2>1, <2>2
<1> QED
  BY <1>5, <1>6, <1>7

(* A directive that fits has a width, a precision and a type, and ends in  *)
(* the format.                                                             *)
LEMMA DirectiveIs ==
  ASSUME ArgumentsFit, Running, At(format) = "%", format \in 1 .. Len(call.format) + 1
  PROVE  /\ IsDirective(Directive(format + 1))
         /\ Directive(format + 1).specifier \in Characters
         /\ Directive(format + 1).next \in 1 .. Len(call.format) + 1
<1>0. call.format \in Texts
  BY DEF ArgumentsFit, Texts
<1>1. PICK l \in Nat : l = Len(call.format)
  BY <1>0, TextLen
<1> DEFINE p == format + 1
<1>2. p \in Nat \ {0} /\ p <= l + 1
  <2>1. format \in Nat \ {0}
    BY <1>1
  <2>2. At(format) # NUL
    BY DEF NUL
  <2> QED
    BY <1>0, <1>1, <2>1, <2>2, AtIs
<1> DEFINE first == Past(p, DOMAIN FlagOf)
<1>3. first \in p .. l + 1
  <2>1. NUL \notin DOMAIN FlagOf
    BY DEF NUL, FlagOf
  <2> QED
    BY <1>0, <1>1, <1>2, <2>1, PastIs
<1> DEFINE w == Number(first, va)
<1>4. StarFits(first, va) /\ (At(w.at) = "." => StarFits(w.at + 1, w.args)) /\ Directive(p).specifier # NUL
  BY DEF ArgumentsFit
<1> DEFINE dot == At(w.at) = "."
<1> DEFINE n == IF dot THEN Number(w.at + 1, w.args) ELSE [w EXCEPT !.value = 0]
<1>5. Directive(p) =
        [flags |-> {FlagOf[call.format[i]] : i \in p .. first - 1}
                     \cup (IF w.value < 0 THEN {"LEFT"} ELSE {})
                     \cup (IF dot THEN {"PRECISION"} ELSE {}),
         width |-> IF w.value < 0 THEN -w.value ELSE w.value,
         precision |-> IF n.value > 0 THEN n.value ELSE 0,
         type |-> LengthType(n.at),
         specifier |-> At(LengthEnd(n.at)),
         next |-> LengthEnd(n.at) + 1,
         args |-> n.args]
  BY DEF Directive
<1> HIDE DEF p, first
<1>6. first \in Nat \ {0} /\ first <= l + 1
  BY <1>2, <1>3
<1>7. w.value \in Int /\ w.at \in first .. l + 1
  BY <1>0, <1>1, <1>4, <1>6, NumberIs
<1>8. w = [value |-> w.value, at |-> w.at, args |-> w.args]
  BY DEF Number
<1> HIDE DEF w
<1>9. n.value \in Int /\ n.at \in first .. l + 1
  <2>1. CASE dot
    <3>1. w.at + 1 \in Nat \ {0}
      BY <1>6, <1>7
    <3>2. w.at <= l
      <4>1. w.at \in Nat \ {0}
        BY <1>6, <1>7
      <4>2. At(w.at) # NUL
        BY <2>1 DEF NUL
      <4> QED
        BY <1>0, <1>1, <4>1, <4>2, AtIs
    <3>3. w.at + 1 <= Len(call.format) + 1 /\ StarFits(w.at + 1, w.args)
      BY <1>1, <1>4, <1>7, <2>1, <3>2
    <3>4. /\ Number(w.at + 1, w.args).value \in Int
          /\ Number(w.at + 1, w.args).at \in w.at + 1 .. l + 1
      BY <1>0, <1>1, <3>1, <3>3, NumberIs
    <3>5. n = Number(w.at + 1, w.args)
      BY <2>1
    <3> HIDE DEF n, dot
    <3> QED
      BY <1>6, <1>7, <3>4, <3>5
  <2>2. CASE ~dot
    <3>1. n = [w EXCEPT !.value = 0]
      BY <2>2
    <3>2. n = [value |-> 0, at |-> w.at, args |-> w.args]
      BY <1>8, <3>1
    <3> HIDE DEF n, dot
    <3> QED
      BY <1>7, <3>2
  <2> QED
    BY <2>1, <2>2
<1> HIDE DEF n, dot
<1>10. n.at \in Nat \ {0} /\ n.at <= l + 1
  BY <1>6, <1>9
<1>11. LengthEnd(n.at) \in n.at .. l + 1 /\ LengthType(n.at) \in IntegerTypes
  BY <1>0, <1>1, <1>10, LengthIs
<1>12. PICK e \in Nat \ {0} : e = LengthEnd(n.at)
  BY <1>10, <1>11
<1>13. At(e) \in Characters /\ (At(e) # NUL => e <= l)
  BY <1>0, <1>1, AtIs
<1>14. At(e) # NUL
  BY <1>4, <1>5, <1>12
<1>15. e + 1 \in 1 .. l + 1
  BY <1>13, <1>14
<1>16. IsDirective(Directive(p))
  <2>1. PICK width \in Nat : width = IF w.value < 0 THEN -w.value ELSE w.value
    BY <1>7
  <2>2. PICK prec \in Nat : prec = IF n.value > 0 THEN n.value ELSE 0
    BY <1>9
  <2>3. Directive(p).width = width /\ Directive(p).precision = prec /\ Directive(p).type = LengthType(n.at)
    BY <1>5, <2>1, <2>2
  <2> QED
    BY <1>11, <2>3 DEF IsDirective
<1>17. Directive(p).specifier = At(e) /\ Directive(p).next = e + 1
  BY <1>5, <1>12
<1>18. p = format + 1
  BY DEF p
<1> QED
  BY <1>1, <1>13, <1>15, <1>16, <1>17, <1>18

-----------------------------------------------------------------------------
(* The types, and the fields.                                              *)

(* What _putchar is given of a text is text.                               *)
Prints(f, text) ==
  f = [i \in 0 .. Len(text) |->
         IF i = 0 THEN <<>> ELSE IF text[i] = NUL THEN f[i - 1] ELSE Append(f[i - 1], text[i])]

(* What is printed of a text, without its NULs, is a text.                 *)
LEMMA PrintedText ==
  ASSUME NEW text \in Texts
  PROVE  Printed(text) \in Texts
<1>1. PICK n \in Nat : n = Len(text)
  BY TextLen
<1> DEFINE Step(i, s) == IF text[i] = NUL THEN s ELSE Append(s, text[i])
<1> DEFINE F == [i \in Nat |-> [s \in Texts |-> IF i \in 1 .. n THEN Step(i, s) ELSE s]]
<1>2. ASSUME NEW i \in 1 .. n, NEW s \in Texts PROVE Step(i, s) \in Texts
  <2>1. text[i] \in Characters
    BY <1>1, TextAt
  <2>2. Append(s, text[i]) \in Texts
    BY <2>1 DEF Texts
  <2> QED
    BY <2>2
<1>3. ASSUME NEW i \in 1 .. n, NEW s \in Texts PROVE F[i][s] = Step(i, s)
  <2>1. i \in Nat
    OBVIOUS
  <2> HIDE DEF Step
  <2> QED
    BY <2>1
<1>4. Closed(F, Texts)
  <2> SUFFICES ASSUME NEW i \in Nat, NEW s \in Texts PROVE F[i][s] \in Texts
    BY DEF Closed
  <2>1. CASE i \in 1 .. n
    BY <1>2, <1>3, <2>1
  <2>2. CASE i \notin 1 .. n
    <3> HIDE DEF Step
    <3> QED
      BY <2>2
  <2> QED
    BY <2>1, <2>2
<1> HIDE DEF F
<1>5. PICK g \in [0 .. n -> Texts] : Recursion(g, F, <<>>, n)
  BY <1>4, EmptyText, RecursionExists
<1>6. ASSUME NEW i \in 0 .. n
      PROVE  g[i] = IF i = 0 THEN <<>> ELSE IF text[i] = NUL THEN g[i - 1] ELSE Append(g[i - 1], text[i])
  <2>1. CASE i = 0
    BY <1>5, <2>1 DEF Recursion
  <2>2. CASE i # 0
    <3>1. i \in 1 .. n /\ i - 1 \in 0 .. n
      BY <2>2
    <3>2. g[i - 1] \in Texts /\ g[i] = F[i][g[i - 1]]
      BY <1>5, <3>1 DEF Recursion
    <3>3. g[i] = Step(i, g[i - 1])
      BY <1>3, <3>1, <3>2
    <3> QED
      BY <2>2, <3>3
  <2> QED
    BY <2>1, <2>2
<1>7. g = [i \in 0 .. n |-> IF i = 0 THEN <<>> ELSE IF text[i] = NUL THEN g[i - 1] ELSE Append(g[i - 1], text[i])]
  BY <1>6
<1> DEFINE f == CHOOSE f : Prints(f, text)
<1>8. Prints(f, text)
  <2>1. Prints(g, text)
    BY <1>1, <1>7 DEF Prints
  <2> QED
    BY <2>1, Zenon
<1>9. Printed(text) = f[n]
  BY <1>1 DEF Printed, Prints
<1> HIDE DEF f
<1>10. ASSUME NEW i \in 0 .. n
       PROVE  f[i] = IF i = 0 THEN <<>> ELSE IF text[i] = NUL THEN f[i - 1] ELSE Append(f[i - 1], text[i])
  BY <1>1, <1>8 DEF Prints
<1> DEFINE T == {k \in Nat : k <= n => f[k] \in Texts}
<1>11. 0 \in T
  BY <1>10, EmptyText
<1>12. ASSUME NEW k \in Nat, k \in T PROVE k + 1 \in T
  <2>1. CASE k + 1 <= n
    <3>1. PICK i \in 1 .. n : i = k + 1 /\ i - 1 = k /\ i \in 0 .. n /\ i # 0
      BY <2>1
    <3>2. f[i - 1] \in Texts
      BY <1>12, <3>1
    <3>3. f[i] = Step(i, f[i - 1])
      BY <1>10, <3>1
    <3>4. f[i] \in Texts
      BY <1>2, <3>2, <3>3
    <3> QED
      BY <3>1, <3>4
  <2> QED
    BY <2>1
<1>13. \A k \in Nat : k \in T
  <2> HIDE DEF T
  <2> QED
    BY <1>11, <1>12, SetInduction
<1> QED
  BY <1>9, <1>13

(* Text that is put out is put in the buffer and on the console as text.   *)
LEMMA OutTypes ==
  ASSUME TypeOK, NEW text \in Texts, NEW i \in Int, Out(text, i)
  PROVE  buffer' \in [0 .. Cells - 1 -> Characters \cup {Untouched}] /\ console' \in Texts
<1>1. buffer \in [0 .. Cells - 1 -> Characters \cup {Untouched}] /\ console \in Texts
  BY DEF TypeOK, Texts
<1>2. console' \in Texts
  <2>1. console \o Printed(text) \in Texts
    BY <1>1, PrintedText, Joined
  <2> QED
    BY <1>1, <2>1 DEF Out
<1>3. CASE out = "_out_buffer"
  <2>1. PICK l \in Nat : l = Len(text)
    BY TextLen
  <2>2. buffer' = [k \in 0 .. Cells - 1 |-> IF k \in i .. i + l - 1 /\ k < maxlen THEN text[k - i + 1] ELSE buffer[k]]
    BY <1>1, <1>3, <2>1 DEF Out, _out_buffer
  <2>3. ASSUME NEW k \in 0 .. Cells - 1
        PROVE  (IF k \in i .. i + l - 1 /\ k < maxlen THEN text[k - i + 1] ELSE buffer[k]) \in Characters \cup {Untouched}
    <3>1. CASE k \in i .. i + l - 1
      <4>1. k - i + 1 \in 1 .. Len(text)
        BY <2>1, <3>1
      <4>2. text[k - i + 1] \in Characters
        BY <4>1, TextAt
      <4> QED
        BY <1>1, <4>2
    <3>2. CASE k \notin i .. i + l - 1
      BY <1>1, <3>2
    <3> QED
      BY <3>1, <3>2
  <2> QED
    BY <1>2, <2>2, <2>3
<1>4. CASE out # "_out_buffer"
  BY <1>1, <1>2, <1>4 DEF Out
<1> QED
  BY <1>3, <1>4

(* So is text that is produced, which is counted as well.                  *)
LEMMA ProduceTypes ==
  ASSUME TypeOK, Running, NEW text \in Texts, Produce(text), call' = call, out' = out, ret' = ret,
         format' \in 1 .. Len(call.format) + 1, {f.text : f \in field'} \subseteq Texts
  PROVE  TypeOK'
<1>1. idx \in Nat /\ idx = Len(sent) /\ sent \in Texts /\ ret = NONE
  BY DEF TypeOK, Texts, Running
<1>2. sent' \in Texts /\ Len(sent') = idx + Len(text) /\ idx' = idx + Len(text)
  <2>1. sent' = sent \o text /\ idx' = idx + Len(text)
    BY DEF Produce
  <2>2. sent \o text \in Texts /\ Len(sent \o text) = Len(sent) + Len(text)
    BY <1>1, Joined
  <2> QED
    BY <1>1, <2>1, <2>2
<1>3. idx' \in Nat
  BY <1>1, <1>2, TextLen
<1>4. buffer' \in [0 .. Cells - 1 -> Characters \cup {Untouched}] /\ console' \in Texts
  BY <1>1, OutTypes DEF Produce
<1>5. out \in {"none", "_out_char", "_out_fct", "_out_buffer", "_out_null"}
  BY DEF TypeOK
<1>6. {console', sent'} \cup {f.text : f \in field'} \subseteq Seq(Characters)
  BY <1>2, <1>4 DEF Texts
<1> QED
  BY <1>1, <1>2, <1>3, <1>4, <1>5, <1>6 DEF TypeOK

(* A conversion whose text is text keeps the types, and its field is       *)
(* filled if the text fills it.                                            *)
Fills(d, arg, text) ==
  \/ Len(text) >= d.width
  \/ /\ d.flags \cap {"LEFT", "ZEROPAD"} = {"ZEROPAD"}
     /\ \/ d.width > Lesser(PRINTF_NTOA_BUFFER_SIZE, PRINTF_FTOA_BUFFER_SIZE)
        \/ d.specifier \in {"f", "F", "e", "E", "g", "G"} /\ Special(arg)

Converts(specifiers, d, arg, text) ==
  /\ Running /\ At(format) = "%" /\ d = Directive(format + 1) /\ arg = Head(d.args)
  /\ d.specifier \in specifiers /\ Produce(text)
  /\ field' = {[d |-> d, arg |-> arg, text |-> text]}
  /\ format' = d.next /\ UNCHANGED <<call, out, ret>>

(* A conversion keeps the types, and leaves a field that is filled.        *)
LEMMA ConvertTypes ==
  ASSUME TypeOK, ArgumentsFit, NEW specifiers, NEW d, NEW arg, NEW text, Converts(specifiers, d, arg, text),
         text \in Texts, d.specifier = "p" \/ Fills(d, arg, text)
  PROVE  TypeOK' /\ FieldFilled'
<1>1. {f.text : f \in field'} \subseteq Texts
  BY DEF Converts
<1>2. format' \in 1 .. Len(call.format) + 1
  <2>1. format \in 1 .. Len(call.format) + 1
    BY DEF TypeOK
  <2> QED
    BY <2>1, DirectiveIs DEF Converts
<1>3. TypeOK'
  BY <1>1, <1>2, ProduceTypes DEF Converts
<1>4. FieldFilled'
  BY DEF Converts, FieldFilled, Fills
<1> QED
  BY <1>3, <1>4

(* What is to be filled by zeros and fits both buffers fits each.          *)
LEMMA FillsIf ==
  ASSUME NEW d, IsDirective(d), NEW arg, NEW text \in Texts,
         \/ (ByZeros(d.flags) => d.width <= PRINTF_NTOA_BUFFER_SIZE) => Len(text) >= d.width
         \/ /\ d.specifier \in {"f", "F", "e", "E", "g", "G"}
            /\ (ByZeros(d.flags) => d.width <= PRINTF_FTOA_BUFFER_SIZE /\ ~Special(arg)) => Len(text) >= d.width
  PROVE  Fills(d, arg, text)
<1>1. PICK n \in Nat, f \in Nat : n = PRINTF_NTOA_BUFFER_SIZE /\ f = PRINTF_FTOA_BUFFER_SIZE
  BY BufferSizes
<1>2. PICK w \in Nat : w = d.width
  BY DEF IsDirective
<1>3. ByZeros(d.flags) <=> d.flags \cap {"LEFT", "ZEROPAD"} = {"ZEROPAD"}
  BY DEF ByZeros
<1>4. w > n \/ w > f => w > Lesser(n, f)
  BY DEF Lesser
<1>5. ~(w <= n) => w > n
  OBVIOUS
<1>6. ~(w <= f) => w > f
  OBVIOUS
<1> QED
  BY <1>1, <1>2, <1>3, <1>4, <1>5, <1>6, Zenon DEF Fills

(* Every conversion is one of these, and so is its field.                  *)
LEMMA ConversionTypes ==
  ASSUME TypeOK, ArgumentsFit,
         \/ IntegerConversion \/ FloatConversion \/ CharacterConversion \/ StringConversion \/ PointerConversion
  PROVE  TypeOK' /\ FieldFilled'
<1>1. /\ Running /\ At(format) = "%" => IsDirective(Directive(format + 1))
      /\ format \in 1 .. Len(call.format) + 1
  <2>1. format \in 1 .. Len(call.format) + 1
    BY DEF TypeOK
  <2> QED
    BY <2>1, DirectiveIs
<1>2. CASE IntegerConversion
  <2> DEFINE S == {"d", "i", "u", "x", "X", "o", "b"}
  <2>1. PICK d, arg : Converts(S, d, arg, IntegerText(d, arg))
    BY <1>2 DEF IntegerConversion, Convert, Converts
  <2>2. IsDirective(d) /\ arg \in Int
    BY <1>1, <2>1 DEF Converts, ArgumentsFit
  <2>3. PICK text \in Texts :
          /\ text = IntegerText(d, arg)
          /\ (ByZeros(d.flags) => d.width <= PRINTF_NTOA_BUFFER_SIZE) => Len(text) >= d.width
    BY <2>2, IntegerTextIs
  <2>4. Fills(d, arg, text)
    BY <2>2, <2>3, FillsIf
  <2> HIDE DEF S
  <2> QED
    BY <2>1, <2>3, <2>4, ConvertTypes
<1>3. CASE FloatConversion
  <2> DEFINE S == {"f", "F", "e", "E", "g", "G"}
  <2>1. PICK d, arg : Converts(S, d, arg, FloatText(d, arg))
    BY <1>3 DEF FloatConversion, Convert, Converts
  <2>2. IsDirective(d) /\ d.specifier \in {"f", "F", "e", "E", "g", "G"}
    BY <1>1, <2>1 DEF Converts
  <2>3. arg \in Doubles
    BY <2>1 DEF Converts, ArgumentsFit, Doubles
  <2>4. PICK text \in Texts :
          /\ text = FloatText(d, arg)
          /\ (ByZeros(d.flags) => d.width <= PRINTF_FTOA_BUFFER_SIZE /\ ~Special(arg)) => Len(text) >= d.width
    BY <2>2, <2>3, FloatTextIs
  <2>5. Fills(d, arg, text)
    BY <2>2, <2>4, FillsIf
  <2> HIDE DEF S
  <2> QED
    BY <2>1, <2>4, <2>5, ConvertTypes
<1>4. CASE CharacterConversion
  <2>1. PICK d, arg : Converts({"c"}, d, arg, Padded(<<arg>>, d))
    BY <1>4 DEF CharacterConversion, Convert, Converts
  <2>2. IsDirective(d) /\ arg \in Characters
    BY <1>1, <2>1 DEF Converts, ArgumentsFit
  <2>3. PICK text \in Texts : text = Padded(<<arg>>, d) /\ Len(text) >= d.width
    BY <2>2, OneCharacters, PaddedIs
  <2>4. Fills(d, arg, text)
    BY <2>3 DEF Fills
  <2> QED
    BY <2>1, <2>3, <2>4, ConvertTypes
<1>5. CASE StringConversion
  <2>1. PICK d, arg : Converts({"s"}, d, arg, StringText(d, arg))
    BY <1>5 DEF StringConversion, Convert, Converts
  <2>2. IsDirective(d) /\ arg \in Texts
    BY <1>1, <2>1 DEF Converts, ArgumentsFit, Texts
  <2>3. PICK text \in Texts : text = StringText(d, arg) /\ Len(text) >= d.width
    BY <2>2, StringTextIs
  <2>4. Fills(d, arg, text)
    BY <2>3 DEF Fills
  <2> QED
    BY <2>1, <2>3, <2>4, ConvertTypes
<1>6. CASE PointerConversion
  <2>1. PICK d, arg : Converts({"p"}, d, arg, PointerText(d, arg))
    BY <1>6 DEF PointerConversion, Convert, Converts
  <2>2. IsDirective(d) /\ arg \in Int /\ d.specifier = "p"
    BY <1>1, <2>1 DEF Converts, ArgumentsFit
  <2>3. PICK text \in Texts : text = PointerText(d, arg)
    BY <2>2, PointerTextIs
  <2> QED
    BY <2>1, <2>2, <2>3, ConvertTypes
<1> QED
  BY <1>2, <1>3, <1>4, <1>5, <1>6

(* The terminator is a character, and changes nothing else.                *)
LEMMA TerminationTypes ==
  ASSUME TypeOK, ArgumentsFit, Termination
  PROVE  TypeOK' /\ field' = field
<1>1. /\ ret' = idx /\ UNCHANGED <<call, out, format, va, idx, sent, field>>
      /\ Out(<<NUL>>, IF idx < maxlen THEN idx ELSE Unsigned(maxlen - 1, "size_t"))
  BY DEF Termination
<1>2. idx \in Nat
  BY DEF TypeOK
<1>3. PICK m \in Int : m = Power(2, Bits["size_t"]) /\ m > 0
  BY SizeIsNatural
<1>4. PICK l \in Int : l = maxlen
  BY <1>3 DEF maxlen, ArgumentsFit, SIZE_MAX
<1>5. PICK i \in Int : i = IF idx < maxlen THEN idx ELSE Unsigned(maxlen - 1, "size_t")
  <2>1. Unsigned(l - 1, "size_t") = (l - 1) % m
    BY <1>3 DEF Unsigned
  <2>2. (l - 1) % m \in Int
    BY <1>3
  <2> QED
    BY <1>2, <1>4, <2>1, <2>2
<1>6. <<NUL>> \in Texts
  BY OwnCharacters, OneCharacters
<1>7. buffer' \in [0 .. Cells - 1 -> Characters \cup {Untouched}] /\ console' \in Texts
  BY <1>1, <1>5, <1>6, OutTypes
<1>8. {console', sent} \cup {f.text : f \in field} \subseteq Seq(Characters)
  BY <1>7 DEF TypeOK, Texts
<1> QED
  BY <1>1, <1>7, <1>8 DEF TypeOK

(* Every step of a call whose arguments fit keeps the types, and the field *)
(* of the last directive.                                                  *)
LEMMA NextTypes ==
  ASSUME TypeOK, FieldFilled, ArgumentsFit, [Next]_vars
  PROVE  TypeOK' /\ FieldFilled'
<1>1. CASE printf_ \/ vprintf_ \/ sprintf_ \/ fctprintf \/ snprintf_ \/ vsnprintf_
  <2>1. /\ out' \in {"none", "_out_char", "_out_fct", "_out_buffer", "_out_null"}
        /\ UNCHANGED <<call, format, va, idx, buffer, console, ret, sent, field>>
    BY <1>1 DEF printf_, vprintf_, sprintf_, fctprintf, snprintf_, vsnprintf_, Enter
  <2> QED
    BY <2>1 DEF TypeOK, FieldFilled
<1>2. ASSUME NEW c \in Characters, Running, Produce(<<c>>), UNCHANGED <<call, out, ret, field>>,
             format' \in 1 .. Len(call.format) + 1
      PROVE  TypeOK' /\ FieldFilled'
  <2>1. <<c>> \in Texts
    BY OneCharacters
  <2>2. {f.text : f \in field'} \subseteq Texts
    BY <1>2 DEF TypeOK, Texts
  <2>3. TypeOK'
    BY <1>2, <2>1, <2>2, ProduceTypes
  <2>4. FieldFilled'
    BY <1>2 DEF FieldFilled
  <2> QED
    BY <2>3, <2>4
<1>3. call.format \in Texts /\ format \in 1 .. Len(call.format) + 1
  BY DEF ArgumentsFit, Texts, TypeOK
<1>4. PICK l \in Nat : l = Len(call.format)
  BY <1>3, TextLen
<1>5. CASE OrdinaryCharacter
  <2>1. Running /\ At(format) # NUL /\ Produce(<<At(format)>>) /\ format' = format + 1 /\ UNCHANGED <<call, out, va, ret, field>>
    BY <1>5 DEF OrdinaryCharacter
  <2>2. At(format) \in Characters /\ format <= l
    <3>1. format \in Nat \ {0}
      BY <1>3, <1>4
    <3> QED
      BY <1>3, <1>4, <2>1, <3>1, AtIs
  <2>3. format' \in 1 .. Len(call.format) + 1
    BY <1>3, <1>4, <2>1, <2>2
  <2> QED
    BY <1>2, <2>1, <2>2, <2>3
<1>6. CASE Literal
  <2>1. /\ Running /\ At(format) = "%" /\ Produce(<<Directive(format + 1).specifier>>)
        /\ format' = Directive(format + 1).next /\ UNCHANGED <<call, out, ret, field>>
    BY <1>6 DEF Literal
  <2>2. Directive(format + 1).specifier \in Characters /\ Directive(format + 1).next \in 1 .. Len(call.format) + 1
    BY <1>3, <2>1, DirectiveIs
  <2> QED
    BY <1>2, <2>1, <2>2
<1>7. CASE \/ IntegerConversion \/ FloatConversion \/ CharacterConversion \/ StringConversion \/ PointerConversion
  BY <1>7, ConversionTypes
<1>8. CASE Termination
  BY <1>8, TerminationTypes DEF FieldFilled
<1>9. CASE UNCHANGED vars
  BY <1>9 DEF vars, TypeOK, FieldFilled
<1> QED
  BY <1>1, <1>5, <1>6, <1>7, <1>8, <1>9 DEF Next

(* At the call nothing is produced yet.                                    *)
LEMMA InitTypes == Init /\ ArgumentsFit => TypeOK /\ FieldFilled
<1> SUFFICES ASSUME Init, ArgumentsFit PROVE TypeOK /\ FieldFilled
  OBVIOUS
<1>1. format = 1 /\ idx = 0 /\ ret = NONE /\ sent = <<>> /\ console = <<>> /\ field = {} /\ out = "none"
  BY DEF Init
<1>2. buffer = [k \in 0 .. Cells - 1 |-> Untouched]
  BY DEF Init
<1>3. 0 = Len(<< >>) /\ << >> \in Seq(Characters)
  OBVIOUS
<1>4. 1 \in 1 .. Len(call.format) + 1
  <2>1. Len(call.format) \in Nat
    BY DEF ArgumentsFit
  <2> QED
    BY <2>1
<1> QED
  BY <1>1, <1>2, <1>3, <1>4 DEF TypeOK, FieldFilled

(* For every call whose arguments fit, the parser never leaves the format, *)
(* the index counts what was produced, and whatever is put out, in the     *)
(* buffer, on the console or in a field, is text (printf.c:587-849).       *)
THEOREM TypesHold == Spec /\ []ArgumentsFit => []TypeOK
BY InitTypes, NextTypes, PTL DEF Spec

(* Every conversion fills its field, for every flag, width and precision,  *)
(* whatever the sizes of the buffers: the width is not reached only where  *)
(* zeros are to fill more than the conversion buffer, or to stand before a *)
(* number that is none (printf.c:199-573, 577-849).                        *)
THEOREM FieldsFilled == Spec /\ []ArgumentsFit => []FieldFilled
BY InitTypes, NextTypes, PTL DEF Spec

-----------------------------------------------------------------------------
(* What the caller of printf.h owes it, and what the conversions give.     *)

\* The buffer is as large as snprintf is told, or, where it is told nothing,
\* larger than the text.
BufferIsLargeEnough ==
  out = "_out_buffer" =>
    IF call.fct \in {"snprintf_", "vsnprintf_"} THEN call.count \in 0 .. Cells ELSE idx < Cells

\* On the way, the buffer holds what was produced as far as the count goes.
Filled ==
  \A k \in 0 .. Cells - 1 :
    buffer[k] = IF k < idx /\ k < maxlen THEN sent[k + 1] ELSE Untouched

TextInv ==
  /\ sent \in Seq(Characters) /\ idx = Len(sent)
  /\ DOMAIN buffer = 0 .. Cells - 1
  /\ out = "none" => ret = NONE /\ idx = 0
  /\ out \in {"none", "_out_buffer"} /\ ret = NONE => Filled
  /\ TextOrItsBeginning

(* A sequence over a set is one over every larger set.                     *)
LEMMA SeqIsMonotone ==
  ASSUME NEW S, NEW T, S \subseteq T, NEW s \in Seq(S)
  PROVE  s \in Seq(T)
<1>1. PICK n \in Nat : s \in [1 .. n -> S]
  OBVIOUS
<1>2. s \in [1 .. n -> T]
  BY <1>1
<1> QED
  BY <1>2

(* The count that the parser goes by is a number of the type size_t.       *)
LEMMA MaxlenIsSize ==
  ASSUME out = "_out_buffer", BufferIsLargeEnough
  PROVE  /\ maxlen \in 0 .. Power(2, Bits["size_t"]) - 1
         /\ maxlen <= Cells \/ (idx < Cells /\ Cells <= maxlen)
<1>1. Cells \in Nat /\ Power(2, Bits["size_t"]) \in Nat /\ Cells < Power(2, Bits["size_t"])
  BY SizeAssumption, SizeIsNatural
<1> QED
  BY <1>1 DEF BufferIsLargeEnough, maxlen, SIZE_MAX

(* What is put out behind the text so far goes on with it, in the buffer   *)
(* as in the history.                                                      *)
LEMMA ProduceFills ==
  ASSUME NEW S, NEW text \in Seq(S), sent \in Seq(S), idx = Len(sent),
         DOMAIN buffer = 0 .. Cells - 1, Produce(text), call' = call, out' = out
  PROVE  /\ idx' = Len(sent') /\ DOMAIN buffer' = 0 .. Cells - 1
         /\ out = "_out_buffer" /\ BufferIsLargeEnough /\ Filled => Filled'
<1>1. /\ sent' = sent \o text /\ idx' = idx + Len(text)
      /\ Len(sent') = Len(sent) + Len(text) /\ Len(sent) \in Nat /\ Len(text) \in Nat
  BY DEF Produce
<1>2. /\ \A k \in 1 .. Len(sent) : sent'[k] = sent[k]
      /\ \A k \in Len(sent) + 1 .. Len(sent) + Len(text) : sent'[k] = text[k - Len(sent)]
  BY <1>1
<1>3. DOMAIN buffer' = 0 .. Cells - 1
  BY DEF Produce, Out, _out_buffer
<1>4. ASSUME out = "_out_buffer", BufferIsLargeEnough, Filled PROVE Filled'
  <2>1. /\ maxlen' = maxlen /\ maxlen \in Int /\ Cells \in Nat
    BY <1>4, MaxlenIsSize, SizeAssumption DEF maxlen
  <2>2. ASSUME NEW k \in 0 .. Cells - 1
        PROVE  buffer'[k] = IF k \in idx .. idx + Len(text) - 1 /\ k < maxlen
                            THEN text[k - idx + 1] ELSE buffer[k]
    BY <1>4 DEF Produce, Out, _out_buffer
  <2>3. ASSUME NEW k \in 0 .. Cells - 1
        PROVE  buffer'[k] = IF k < idx' /\ k < maxlen THEN sent'[k + 1] ELSE Untouched
    <3>1. CASE k < idx
      <4>1. sent'[k + 1] = sent[k + 1]
        BY <1>1, <1>2, <3>1
      <4> QED
        BY <1>1, <1>4, <2>1, <2>2, <3>1, <4>1 DEF Filled
    <3>2. CASE k \in idx .. idx + Len(text) - 1
      <4>1. sent'[k + 1] = text[k - idx + 1]
        BY <1>1, <1>2, <3>2
      <4> QED
        BY <1>1, <1>4, <2>1, <2>2, <3>2, <4>1 DEF Filled
    <3>3. CASE k >= idx + Len(text)
      BY <1>1, <1>4, <2>1, <2>2, <3>3 DEF Filled
    <3> QED
      BY <1>1, <3>1, <3>2, <3>3
  <2> QED
    BY <2>1, <2>3 DEF Filled
<1> QED
  BY <1>1, <1>3, <1>4

(* The terminator ends the text, or what there is of it.                   *)
LEMMA TerminationEnds ==
  ASSUME TextInv, BufferIsLargeEnough, Termination
  PROVE  TextInv'
<1>1. /\ out' = out /\ idx' = idx /\ sent' = sent /\ call' = call /\ ret' = idx
      /\ out # "none" /\ ret = NONE /\ maxlen' = maxlen
  BY DEF Termination, Running, maxlen
<1>2. idx \in Nat /\ idx # NONE /\ DOMAIN buffer' = 0 .. Cells - 1
  BY DEF TextInv, Termination, Out, _out_buffer, NONE
<1>3. ASSUME out = "_out_buffer" PROVE TextOrItsBeginning'
  <2>1. /\ maxlen \in 0 .. Power(2, Bits["size_t"]) - 1 /\ Power(2, Bits["size_t"]) \in Nat /\ Cells \in Nat
        /\ maxlen <= Cells \/ (idx < Cells /\ Cells <= maxlen)
    BY <1>3, MaxlenIsSize, SizeAssumption, SizeIsNatural
  <2> DEFINE n == Lesser(idx, maxlen - 1)
  <2>2. ASSUME maxlen > 0
        PROVE  /\ n \in 0 .. Cells - 1 /\ n < maxlen /\ n <= idx
               /\ n = IF idx < maxlen THEN idx ELSE Unsigned(maxlen - 1, "size_t")
    <3>1. (maxlen - 1) % (Power(2, Bits["size_t"])) = maxlen - 1
      BY <2>1, <2>2
    <3> QED
      BY <1>2, <2>1, <2>2, <3>1 DEF Lesser, Unsigned
  <2>3. ASSUME maxlen > 0, NEW k \in 0 .. Cells - 1
        PROVE  buffer'[k] = IF k = n THEN NUL ELSE buffer[k]
    <3>1. buffer' = [j \in DOMAIN buffer |-> IF j \in n .. n + Len(<<NUL>>) - 1 /\ j < maxlen
                                              THEN <<NUL>>[j - n + 1] ELSE buffer[j]]
      BY <1>3, <2>2, <2>3 DEF Termination, Out, _out_buffer
    <3>2. n .. n + Len(<<NUL>>) - 1 = {n} /\ <<NUL>>[n - n + 1] = NUL
      BY <2>2, <2>3
    <3> QED
      BY <2>2, <2>3, <3>1, <3>2 DEF TextInv
  <2>4. ASSUME maxlen > 0
        PROVE  /\ \A k \in 0 .. n - 1 : buffer'[k] = sent[k + 1]
               /\ buffer'[n] = NUL
               /\ \A k \in n + 1 .. Cells - 1 : buffer'[k] = Untouched
    <3>1. Filled
      BY <1>1, <1>3 DEF TextInv
    <3>2. ASSUME NEW k \in 0 .. n - 1 PROVE buffer'[k] = sent[k + 1]
      BY <1>2, <2>1, <2>2, <2>3, <2>4, <3>1 DEF Filled
    <3>3. ASSUME NEW k \in n + 1 .. Cells - 1 PROVE buffer'[k] = Untouched
      <4>1. k \in 0 .. Cells - 1 /\ k # n /\ ~(k < idx /\ k < maxlen)
        BY <1>2, <2>1, <2>2, <2>4 DEF Lesser
      <4> QED
        BY <2>3, <2>4, <3>1, <4>1 DEF Filled
    <3> QED
      BY <2>2, <2>3, <2>4, <3>2, <3>3
  <2> QED
    BY <1>1, <1>3, <2>4 DEF TextOrItsBeginning, TextInv
<1>4. TextOrItsBeginning'
  BY <1>1, <1>3 DEF TextOrItsBeginning
<1> QED
  BY <1>1, <1>2, <1>4 DEF TextInv

(* Every step keeps the invariant.                                         *)
LEMMA NextTextInv ==
  ASSUME TextInv, BufferIsLargeEnough, TypeOK', [Next]_vars
  PROVE  TextInv'
<1>0. sent' \in Seq(Characters)
  BY DEF TypeOK
<1>1. CASE printf_ \/ vprintf_ \/ sprintf_ \/ fctprintf \/ snprintf_ \/ vsnprintf_
  <2>1. /\ out = "none" /\ UNCHANGED <<call, idx, buffer, ret, sent>>
        /\ out' # "none"
    BY <1>1 DEF printf_, vprintf_, sprintf_, fctprintf, snprintf_, vsnprintf_, Enter
  <2> QED
    BY <2>1 DEF TextInv, Filled, maxlen, TextOrItsBeginning
<1>2. ASSUME NEW S, NEW text \in Seq(S), Characters \subseteq S, Produce(text),
             UNCHANGED <<call, out, ret>>, Running
      PROVE  TextInv'
  <2>1. sent \in Seq(S)
    <3>1. sent \in Seq(Characters) /\ Characters \subseteq S
      BY <1>2 DEF TextInv
    <3> QED
      BY <3>1, SeqIsMonotone
  <2>2. /\ idx' = Len(sent') /\ DOMAIN buffer' = 0 .. Cells - 1
        /\ out = "_out_buffer" /\ Filled => Filled'
    BY <1>2, <2>1, ProduceFills DEF TextInv
  <2> QED
    BY <1>0, <1>2, <2>2 DEF TextInv, Running, TextOrItsBeginning
<1>3. ASSUME NEW c, Produce(<<c>>), UNCHANGED <<call, out, ret>>, Running PROVE TextInv'
  <2> DEFINE S == Characters \cup {c}
  <2>1. c \in S /\ Characters \subseteq S
    OBVIOUS
  <2> HIDE DEF S
  <2>2. <<c>> \in Seq(S)
    BY <2>1
  <2> QED
    BY <1>2, <1>3, <2>1, <2>2
<1>4. CASE OrdinaryCharacter
  BY <1>3, <1>4 DEF OrdinaryCharacter
<1>5. CASE Literal
  <2>1. PICK d \in {Directive(format + 1)} : Produce(<<d.specifier>>)
    BY <1>5 DEF Literal
  <2>2. UNCHANGED <<call, out, ret>> /\ Running
    BY <1>5 DEF Literal
  <2> QED
    BY <1>3, <2>1, <2>2
<1>6. ASSUME NEW text, NEW d, NEW arg, Produce(text),
             field' = {[d |-> d, arg |-> arg, text |-> text]},
             UNCHANGED <<call, out, ret>>, Running
      PROVE  TextInv'
  <2>1. text \in Seq(Characters)
    BY <1>6 DEF TypeOK
  <2> QED
    BY <1>2, <1>6, <2>1
<1>7. CASE IntegerConversion
  <2>1. /\ UNCHANGED <<call, out, ret>> /\ Running
        /\ \E text, d, arg : Produce(text) /\ field' = {[d |-> d, arg |-> arg, text |-> text]}
    BY <1>7 DEF IntegerConversion, Convert
  <2> QED
    BY <1>6, <2>1
<1>8. CASE FloatConversion
  <2>1. /\ UNCHANGED <<call, out, ret>> /\ Running
        /\ \E text, d, arg : Produce(text) /\ field' = {[d |-> d, arg |-> arg, text |-> text]}
    BY <1>8 DEF FloatConversion, Convert
  <2> QED
    BY <1>6, <2>1
<1>9. CASE CharacterConversion
  <2>1. /\ UNCHANGED <<call, out, ret>> /\ Running
        /\ \E text, d, arg : Produce(text) /\ field' = {[d |-> d, arg |-> arg, text |-> text]}
    BY <1>9 DEF CharacterConversion, Convert
  <2> QED
    BY <1>6, <2>1
<1>10. CASE StringConversion
  <2>1. /\ UNCHANGED <<call, out, ret>> /\ Running
        /\ \E text, d, arg : Produce(text) /\ field' = {[d |-> d, arg |-> arg, text |-> text]}
    BY <1>10 DEF StringConversion, Convert
  <2> QED
    BY <1>6, <2>1
<1>11. CASE PointerConversion
  <2>1. /\ UNCHANGED <<call, out, ret>> /\ Running
        /\ \E text, d, arg : Produce(text) /\ field' = {[d |-> d, arg |-> arg, text |-> text]}
    BY <1>11 DEF PointerConversion, Convert
  <2> QED
    BY <1>6, <2>1
<1>12. CASE Termination
  BY <1>12, TerminationEnds
<1>13. CASE UNCHANGED vars
  BY <1>13 DEF vars, TextInv, Filled, maxlen, TextOrItsBeginning
<1> QED
  BY <1>1, <1>4, <1>5, <1>7, <1>8, <1>9, <1>10, <1>11, <1>12, <1>13 DEF Next

(* printf.h's promise to its caller (printf.h:76-83), for every format and *)
(* every buffer that is as large as the caller says: what is returned is   *)
(* the length of the whole text, and the buffer holds the text, or its     *)
(* beginning, with the terminator behind it and nothing else.  That the    *)
(* conversions produce text, whatever it says, is TypeOK's.                *)
THEOREM BufferHoldsText ==
  Spec /\ []BufferIsLargeEnough /\ []ArgumentsFit => []TextOrItsBeginning
<1>1. Init => TextInv
  <2> SUFFICES ASSUME Init PROVE TextInv
    OBVIOUS
  <2>1. sent = <<>> /\ idx = 0 /\ ret = NONE /\ out = "none"
    BY DEF Init
  <2>2. sent \in Seq(Characters) /\ Len(sent) = 0
    BY <2>1
  <2>3. buffer = [k \in 0 .. Cells - 1 |-> Untouched]
    BY DEF Init
  <2>4. Filled
    BY <2>1, <2>3 DEF Filled
  <2> QED
    BY <2>1, <2>2, <2>3, <2>4 DEF TextInv, TextOrItsBeginning
<1>2. TextInv /\ BufferIsLargeEnough /\ TypeOK' /\ [Next]_vars => TextInv'
  BY NextTextInv
<1>3. TextInv => TextOrItsBeginning
  BY DEF TextInv
<1> QED
  BY <1>1, <1>2, <1>3, TypesHold, PTL DEF Spec

-----------------------------------------------------------------------------
(* How texts are put together.                                             *)

(* Two texts with the same characters are the same.                        *)
LEMMA SameText ==
  ASSUME NEW s \in Texts, NEW t \in Texts, Len(s) = Len(t), \A i \in 1 .. Len(s) : s[i] = t[i]
  PROVE  s = t
BY SeqEqual DEF Texts

(* Texts may be put together in any order, and with the empty one.         *)
LEMMA JoinedThree ==
  ASSUME NEW r \in Texts, NEW s \in Texts, NEW t \in Texts
  PROVE  (r \o s) \o t = r \o (s \o t) /\ r \o << >> = r /\ << >> \o r = r
BY ConcatAssociative, ConcatEmptySeq DEF Texts

(* The characters of two texts put together.                               *)
LEMMA JoinedAt ==
  ASSUME NEW s \in Texts, NEW t \in Texts, NEW i \in 1 .. Len(s) + Len(t)
  PROVE  (s \o t)[i] = IF i <= Len(s) THEN s[i] ELSE t[i - Len(s)]
<1>1. PICK a \in Nat, b \in Nat : a = Len(s) /\ b = Len(t)
  BY TextLen
<1> QED
  BY <1>1 DEF Texts

(* The characters of a text read from its end.                             *)
LEMMA ReverseAt ==
  ASSUME NEW s \in Texts, NEW i \in 1 .. Len(s)
  PROVE  Reverse(s)[i] = s[(Len(s) - i) + 1]
BY DEF Reverse

(* Read from the end, the second of two texts comes first.                 *)
LEMMA ReverseJoined ==
  ASSUME NEW s \in Texts, NEW t \in Texts
  PROVE  Reverse(s \o t) = Reverse(t) \o Reverse(s)
<1>1. PICK a \in Nat, b \in Nat : a = Len(s) /\ b = Len(t)
  BY TextLen
<1>2. PICK rs \in Texts : rs = Reverse(s) /\ Len(rs) = a
  BY <1>1, ReverseText
<1>3. PICK rt \in Texts : rt = Reverse(t) /\ Len(rt) = b
  BY <1>1, ReverseText
<1>4. PICK st \in Texts : st = s \o t /\ Len(st) = a + b
  <2>1. s \o t \in Texts /\ Len(s \o t) = Len(s) + Len(t)
    BY Joined
  <2> QED
    BY <1>1, <2>1
<1>5. PICK x \in Texts : x = Reverse(st) /\ Len(x) = a + b
  BY <1>4, ReverseText
<1>6. PICK y \in Texts : y = rt \o rs /\ Len(y) = b + a
  <2>1. rt \o rs \in Texts /\ Len(rt \o rs) = Len(rt) + Len(rs)
    BY Joined
  <2> QED
    BY <1>2, <1>3, <2>1
<1>7. ASSUME NEW i \in 1 .. a + b PROVE x[i] = y[i]
  <2>1. PICK j \in 1 .. a + b : j = ((a + b) - i) + 1
    OBVIOUS
  <2>2. x[i] = st[j]
    <3>1. i \in 1 .. Len(st) /\ (Len(st) - i) + 1 = j
      BY <1>4, <2>1
    <3> QED
      BY <1>5, <3>1, ReverseAt
  <2>3. st[j] = IF j <= a THEN s[j] ELSE t[j - a]
    BY <1>1, <1>4, JoinedAt
  <2>4. y[i] = IF i <= b THEN rt[i] ELSE rs[i - b]
    <3>1. i \in 1 .. b + a
      OBVIOUS
    <3> QED
      BY <1>2, <1>3, <1>6, <3>1, JoinedAt
  <2>5. CASE i <= b
    <3>1. i \in 1 .. b /\ (b - i) + 1 = j - a /\ ~(j <= a)
      BY <2>1, <2>5
    <3>2. rt[i] = t[(b - i) + 1]
      BY <1>1, <1>3, <3>1, ReverseAt
    <3> QED
      BY <2>2, <2>3, <2>4, <2>5, <3>1, <3>2
  <2>6. CASE ~(i <= b)
    <3>1. i - b \in 1 .. a /\ (a - (i - b)) + 1 = j /\ j <= a
      BY <2>1, <2>6
    <3>2. rs[i - b] = s[(a - (i - b)) + 1]
      BY <1>1, <1>2, <3>1, ReverseAt
    <3> QED
      BY <2>2, <2>3, <2>4, <2>6, <3>1, <3>2
  <2> QED
    BY <2>5, <2>6
<1>8. x = y
  <2>1. Len(x) = Len(y) /\ \A i \in 1 .. Len(x) : x[i] = y[i]
    BY <1>5, <1>6, <1>7
  <2> QED
    BY <2>1, SameText
<1> QED
  BY <1>2, <1>3, <1>4, <1>5, <1>6, <1>8

(* What is the same from both ends.                                        *)
LEMMA ReverseOne ==
  ASSUME NEW c \in Characters
  PROVE  Reverse(<< c >>) = << c >> /\ Reverse(<< >>) = << >>
<1>1. Reverse(<< c >>) \in Texts /\ Len(Reverse(<< c >>)) = 1 /\ << c >> \in Texts /\ Len(<< c >>) = 1
  BY OneCharacters, ReverseText
<1>2. Reverse(<< c >>)[1] = << c >>[1]
  <2>1. 1 \in 1 .. Len(<< c >>) /\ (Len(<< c >>) - 1) + 1 = 1
    BY <1>1
  <2> QED
    BY <1>1, <2>1, ReverseAt
<1>3. Reverse(<< c >>) = << c >>
  <2>1. \A i \in 1 .. 1 : i = 1
    OBVIOUS
  <2> QED
    BY <1>1, <1>2, <2>1, SameText
<1>4. Reverse(<< >>) = << >>
  <2>1. Reverse(<< >>) \in Texts /\ Len(Reverse(<< >>)) = 0
    BY EmptyText, ReverseText
  <2> QED
    BY <2>1, EmptySeq DEF Texts
<1> QED
  BY <1>3, <1>4

LEMMA TimesAt ==
  ASSUME NEW c \in Characters, NEW n \in Nat
  PROVE  Times(n, c) \in Texts /\ Len(Times(n, c)) = n /\ \A i \in 1 .. n : Times(n, c)[i] = c
<1>1. Times(n, c) \in [1 .. n -> Characters] /\ \A i \in 1 .. n : Times(n, c)[i] = c
  BY DEF Times
<1> QED
  BY <1>1, TextOf

LEMMA TimesNone ==
  ASSUME NEW c \in Characters, NEW n \in Int, n <= 0
  PROVE  Times(n, c) = << >>
<1>1. Times(n, c) \in Texts /\ Len(Times(n, c)) = 0
  BY TimesText
<1> QED
  BY <1>1, EmptySeq DEF Texts

LEMMA ReverseTimes ==
  ASSUME NEW c \in Characters, NEW n \in Nat
  PROVE  Reverse(Times(n, c)) = Times(n, c)
<1>1. PICK x \in Texts, y \in Texts : x = Times(n, c) /\ y = Reverse(x) /\ Len(x) = n /\ Len(y) = n /\ \A i \in 1 .. n : x[i] = c
  BY TimesAt, ReverseText
<1>2. ASSUME NEW i \in 1 .. n PROVE y[i] = x[i]
  <2>1. (n - i) + 1 \in 1 .. n
    OBVIOUS
  <2>2. y[i] = x[(n - i) + 1]
    BY <1>1, ReverseAt
  <2> QED
    BY <1>1, <2>1, <2>2
<1>3. y = x
  BY <1>1, <1>2, SameText
<1> QED
  BY <1>1, <1>3

(* A character repeated n and m times.                                     *)
LEMMA TimesMore ==
  ASSUME NEW c \in Characters, NEW n \in Nat, NEW m \in Nat
  PROVE  Times(n, c) \o Times(m, c) = Times(n + m, c)
<1>1. PICK x \in Texts, y \in Texts, z \in Texts :
        /\ x = Times(n, c) /\ y = Times(m, c) /\ z = Times(n + m, c) /\ Len(x) = n /\ Len(y) = m /\ Len(z) = n + m
        /\ \A i \in 1 .. n : x[i] = c
        /\ \A i \in 1 .. m : y[i] = c
        /\ \A i \in 1 .. n + m : z[i] = c
  <2>1. n + m \in Nat
    OBVIOUS
  <2> QED
    BY <2>1, TimesAt
<1>2. PICK w \in Texts : w = x \o y /\ Len(w) = n + m
  <2>1. x \o y \in Texts /\ Len(x \o y) = Len(x) + Len(y)
    BY Joined
  <2> QED
    BY <1>1, <2>1
<1>3. ASSUME NEW i \in 1 .. n + m PROVE w[i] = z[i]
  <2>1. w[i] = IF i <= n THEN x[i] ELSE y[i - n]
    BY <1>1, <1>2, JoinedAt
  <2>2. CASE i <= n
    <3>1. i \in 1 .. n
      BY <2>2
    <3> QED
      BY <1>1, <2>1, <2>2, <3>1
  <2>3. CASE ~(i <= n)
    <3>1. i - n \in 1 .. m
      BY <2>3
    <3> QED
      BY <1>1, <2>1, <2>3, <3>1
  <2> QED
    BY <2>2, <2>3
<1>4. w = z
  BY <1>1, <1>2, <1>3, SameText
<1> QED
  BY <1>1, <1>2, <1>4

(* A text that ends in zeros, cut in front of some of them.                *)
LEMMA CutTimes ==
  ASSUME NEW s \in Texts, NEW c \in Characters, NEW n \in Nat, NEW k \in 0 .. n
  PROVE  SubSeq(s \o Times(n, c), 1, (Len(s) + n) - k) = s \o Times(n - k, c)
<1>1. PICK a \in Nat, m \in Nat : a = Len(s) /\ m = n - k /\ m <= n
  BY TextLen
<1>2. PICK x \in Texts, y \in Texts :
        /\ x = Times(n, c) /\ y = Times(m, c) /\ Len(x) = n /\ Len(y) = m
        /\ \A i \in 1 .. n : x[i] = c
        /\ \A i \in 1 .. m : y[i] = c
  BY TimesAt
<1>3. PICK sx \in Texts, sy \in Texts : sx = s \o x /\ sy = s \o y /\ Len(sx) = a + n /\ Len(sy) = a + m
  <2>1. s \o x \in Texts /\ Len(s \o x) = Len(s) + Len(x) /\ s \o y \in Texts /\ Len(s \o y) = Len(s) + Len(y)
    BY Joined
  <2> QED
    BY <1>1, <1>2, <2>1
<1>4. (Len(s) + n) - k = a + m /\ a + m \in Nat /\ a + m <= a + n
  BY <1>1
<1>5. SubSeq(sx, 1, a + m) \in Texts /\ Len(SubSeq(sx, 1, a + m)) = a + m /\ \A i \in 1 .. a + m : SubSeq(sx, 1, a + m)[i] = sx[i]
  BY <1>3, <1>4 DEF Texts
<1>6. ASSUME NEW i \in 1 .. a + m PROVE sx[i] = sy[i]
  <2>1. i \in 1 .. a + n
    BY <1>4
  <2>2. sx[i] = IF i <= a THEN s[i] ELSE x[i - a]
    BY <1>1, <1>2, <1>3, <2>1, JoinedAt
  <2>3. sy[i] = IF i <= a THEN s[i] ELSE y[i - a]
    BY <1>1, <1>2, <1>3, JoinedAt
  <2>4. ~(i <= a) => i - a \in 1 .. m /\ i - a \in 1 .. n
    BY <1>1
  <2> QED
    BY <1>2, <2>2, <2>3, <2>4
<1>7. SubSeq(sx, 1, a + m) = sy
  BY <1>3, <1>5, <1>6, SameText
<1> QED
  BY <1>1, <1>2, <1>3, <1>4, <1>7

-----------------------------------------------------------------------------
(* What leaves the conversion buffer, reversed.                            *)

\* A text without a space.
Solid(t) == \A i \in 1 .. Len(t) : t[i] # " "

(* The characters of a text that are no spaces, of which a part of it that *)
(* has none has no more.                                                   *)
LEMMA Inside ==
  ASSUME NEW a \in Texts, NEW b \in Texts, NEW c \in Texts, NEW size \in Int,
         Solid(b), Fits((a \o b) \o c, size)
  PROVE  Len(b) < size
<1>0. PICK space : space = " "
  OBVIOUS
<1>1. PICK la \in Nat, lb \in Nat, lc \in Nat : la = Len(a) /\ lb = Len(b) /\ lc = Len(c)
  BY TextLen
<1>2. PICK ab \in Texts : ab = a \o b /\ Len(ab) = la + lb
  BY <1>1, Joined
<1>3. PICK t \in Texts : t = ab \o c /\ Len(t) = (la + lb) + lc
  <2>1. ab \o c \in Texts /\ Len(ab \o c) = Len(ab) + Len(c)
    BY Joined
  <2> QED
    BY <1>1, <1>2, <2>1
<1>4. DOMAIN t = 1 .. (la + lb) + lc
  BY <1>3 DEF Texts
<1> DEFINE S == {i \in DOMAIN t : t[i] # space}
<1>5. la + 1 .. la + lb \subseteq S
  <2> SUFFICES ASSUME NEW i \in la + 1 .. la + lb PROVE i \in DOMAIN t /\ t[i] # space
    OBVIOUS
  <2>1. i \in 1 .. (la + lb) + lc /\ i <= la + lb /\ i \in 1 .. la + lb /\ ~(i <= la) /\ i - la \in 1 .. lb
    OBVIOUS
  <2>2. t[i] = ab[i]
    <3>1. i \in 1 .. Len(ab) + Len(c) /\ i <= Len(ab)
      BY <1>1, <1>2, <2>1
    <3> QED
      BY <1>3, <3>1, JoinedAt
  <2>3. ab[i] = b[i - la]
    <3>1. i \in 1 .. Len(a) + Len(b) /\ ~(i <= Len(a))
      BY <1>1, <2>1
    <3> QED
      BY <1>1, <1>2, <3>1, JoinedAt
  <2>4. b[i - la] # space
    BY <1>0, <1>1, <2>1 DEF Solid
  <2> QED
    BY <1>4, <2>1, <2>2, <2>3, <2>4
<1>6. IsFiniteSet(DOMAIN t)
  <2>1. 1 \in Int /\ (la + lb) + lc \in Int
    OBVIOUS
  <2> QED
    BY <1>4, <2>1, FS_Interval
<1>7. S \in SUBSET DOMAIN t
  OBVIOUS
<1>8. Cardinality(S) < size
  BY <1>0, <1>2, <1>3, Zenon DEF Fits
<1> HIDE DEF S
<1>9. IsFiniteSet(S)
  BY <1>6, <1>7, FS_Subset
<1>10. Cardinality(S) \in Nat /\ Cardinality(la + 1 .. la + lb) <= Cardinality(S)
  BY <1>5, <1>9, FS_Subset, FS_CardinalityType
<1>11. Cardinality(la + 1 .. la + lb) = lb
  <2>1. Cardinality(la + 1 .. la + lb) = IF la + 1 > la + lb THEN 0 ELSE (la + lb) - (la + 1) + 1
    <3>1. la + 1 \in Int /\ la + lb \in Int
      OBVIOUS
    <3> QED
      BY <3>1, FS_Interval
  <2> QED
    BY <2>1
<1> QED
  BY <1>1, <1>8, <1>10, <1>11

-----------------------------------------------------------------------------

(* Where there is room, a character is put behind the others.              *)
LEMMA PutIs ==
  ASSUME NEW buf \in Texts, NEW c \in Characters, NEW size \in Int, Len(buf) < size
  PROVE  Put(buf, c, size) = buf \o << c >>
BY AppendIsConcat DEF Put, Texts

(* The sign, where there is room for it, stands in front.                  *)
LEMMA NumberSign ==
  ASSUME NEW buf \in Texts, NEW negative \in BOOLEAN, NEW flags, NEW size \in Int, Len(buf) < size
  PROVE  \E sign \in Texts :
           /\ sign = StandardSign(negative, flags)
           /\ Sign(buf, negative, flags, size) = buf \o sign
           /\ Reverse(sign) = sign
           /\ Len(sign) = IF HasSign(negative, flags) THEN 1 ELSE 0
<1>1. "-" \in Characters /\ "+" \in Characters /\ " " \in Characters
  BY OwnCharacters
<1>2. ASSUME NEW c \in Characters, StandardSign(negative, flags) = << c >>, HasSign(negative, flags),
             Sign(buf, negative, flags, size) = Put(buf, c, size)
      PROVE  \E sign \in Texts :
           /\ sign = StandardSign(negative, flags)
           /\ Sign(buf, negative, flags, size) = buf \o sign
           /\ Reverse(sign) = sign
           /\ Len(sign) = IF HasSign(negative, flags) THEN 1 ELSE 0
  <2>1. << c >> \in Texts /\ Len(<< c >>) = 1 /\ Reverse(<< c >>) = << c >>
    BY OneCharacters, ReverseOne
  <2>2. Put(buf, c, size) = buf \o << c >>
    BY PutIs
  <2> QED
    BY <1>2, <2>1, <2>2
<1>3. CASE negative
  <2>1. Sign(buf, negative, flags, size) = Put(buf, "-", size) /\ StandardSign(negative, flags) = << "-" >>
    BY <1>3 DEF Sign, StandardSign
  <2> QED
    BY <1>1, <1>2, <1>3, <2>1 DEF HasSign
<1>4. CASE ~negative /\ "PLUS" \in flags
  <2>0. flags \cap {"PLUS", "SPACE"} # {"SPACE"}
    BY <1>4
  <2>1. Sign(buf, negative, flags, size) = Put(buf, "+", size) /\ StandardSign(negative, flags) = << "+" >>
    BY <1>4, <2>0 DEF Sign, StandardSign
  <2> QED
    BY <1>1, <1>2, <1>4, <2>1 DEF HasSign
<1>5. CASE ~negative /\ "PLUS" \notin flags /\ "SPACE" \in flags
  <2>0. flags \cap {"PLUS", "SPACE"} = {"SPACE"}
    BY <1>5
  <2>1. Sign(buf, negative, flags, size) = Put(buf, " ", size) /\ StandardSign(negative, flags) = << " " >>
    BY <1>5, <2>0 DEF Sign, StandardSign
  <2> QED
    BY <1>1, <1>2, <1>5, <2>1 DEF HasSign
<1>6. CASE ~negative /\ "PLUS" \notin flags /\ "SPACE" \notin flags
  <2>0. flags \cap {"PLUS", "SPACE"} # {"SPACE"}
    BY <1>6
  <2>1. Sign(buf, negative, flags, size) = buf /\ StandardSign(negative, flags) = << >>
    BY <1>6, <2>0 DEF Sign, StandardSign
  <2>2. << >> \in Texts /\ Len(<< >>) = 0 /\ Reverse(<< >>) = << >> /\ buf \o << >> = buf
    BY <1>1, EmptyText, ReverseOne, JoinedThree
  <2>3. PICK empty \in Texts : empty = << >> /\ Len(empty) = 0 /\ Reverse(empty) = empty /\ buf \o empty = buf
    BY <2>2
  <2>4. ~HasSign(negative, flags)
    BY <1>6 DEF HasSign
  <2>5. /\ empty = StandardSign(negative, flags)
        /\ Sign(buf, negative, flags, size) = buf \o empty
        /\ Len(empty) = IF HasSign(negative, flags) THEN 1 ELSE 0
    BY <2>1, <2>3, <2>4
  <2> QED
    BY <2>3, <2>5
<1> QED
  BY <1>3, <1>4, <1>5, <1>6

(* What leaves the conversion buffer, by how it is padded.                 *)
LEMMA OutRevIs ==
  ASSUME NEW buf \in Texts, NEW width \in Int, NEW flags
  PROVE  /\ "LEFT" \in flags => _out_rev(buf, width, flags) = Reverse(buf) \o Times(width - Len(buf), " ")
         /\ ByZeros(flags) => _out_rev(buf, width, flags) = Reverse(buf)
         /\ "LEFT" \notin flags /\ "ZEROPAD" \notin flags
              => _out_rev(buf, width, flags) = Times(width - Len(buf), " ") \o Reverse(buf)
<1>1. PICK pad \in Texts : pad = Times(width - Len(buf), " ")
  <2>1. PICK n \in Nat : n = Len(buf)
    BY TextLen
  <2>2. width - n \in Int
    OBVIOUS
  <2>3. PICK space \in Characters : space = " "
    BY OwnCharacters, Zenon
  <2> QED
    BY <2>1, <2>2, <2>3, TimesText
<1>2. PICK r \in Texts : r = Reverse(buf)
  BY ReverseText
<1>3. PICK front \in Texts : front = IF flags \cap {"LEFT", "ZEROPAD"} = {} THEN pad ELSE << >>
  BY EmptyText
<1>4. PICK back \in Texts : back = IF "LEFT" \in flags THEN pad ELSE << >>
  BY EmptyText
<1>5. _out_rev(buf, width, flags) = front \o r \o back
  BY <1>1, <1>2, <1>3, <1>4 DEF _out_rev
<1>6. << >> \o r = r /\ r \o << >> = r /\ pad \o r \in Texts
  BY JoinedThree, EmptyText, Joined
<1>7. (pad \o r) \o << >> = pad \o r
  BY <1>6, JoinedThree, EmptyText
<1>8. CASE "LEFT" \in flags
  <2>1. front = << >> /\ back = pad
    BY <1>3, <1>4, <1>8
  <2> QED
    BY <1>1, <1>2, <1>5, <1>6, <1>8, <2>1 DEF ByZeros
<1>9. CASE ByZeros(flags)
  <2>1. front = << >> /\ back = << >>
    BY <1>3, <1>4, <1>9 DEF ByZeros
  <2> QED
    BY <1>2, <1>5, <1>6, <1>9, <2>1 DEF ByZeros
<1>10. CASE "LEFT" \notin flags /\ "ZEROPAD" \notin flags
  <2>1. front = pad /\ back = << >>
    BY <1>3, <1>4, <1>10
  <2> QED
    BY <1>1, <1>2, <1>5, <1>7, <1>10, <2>1 DEF ByZeros
<1> QED
  BY <1>8, <1>9, <1>10 DEF ByZeros

-----------------------------------------------------------------------------
(* The prefix of a base.                                                   *)

\* The prefix of a base.
PrefixOf(base, flags) ==
  CASE base = 16 -> << "0", IF "UPPERCASE" \in flags THEN "X" ELSE "x" >> [] base = 2 -> << "0", "b" >> [] OTHER -> << "0" >>

(* A prefix of two characters, and its reverse.                            *)
LEMMA TwoCharacters ==
  ASSUME NEW x \in Characters, NEW y \in Characters, NEW buf \in Texts
  PROVE  /\ << x, y >> \in Texts /\ Len(<< x, y >>) = 2
         /\ Reverse(<< x, y >>) \in Texts
         /\ (buf \o << y >>) \o << x >> = buf \o Reverse(<< x, y >>)
<1>1. << x >> \in Texts /\ << y >> \in Texts /\ Reverse(<< x >>) = << x >> /\ Reverse(<< y >>) = << y >>
  BY OneCharacters, ReverseOne
<1>3. << x, y >> \in Texts /\ Len(<< x, y >>) = 2
  BY DEF Texts
<1>2. << x, y >> = << x >> \o << y >>
  <2>1. PICK sx \in Texts, sy \in Texts : sx = << x >> /\ sy = << y >> /\ Len(sx) = 1 /\ Len(sy) = 1 /\ sx[1] = x /\ sy[1] = y
    BY OneCharacters
  <2>2. PICK t \in Texts : t = sx \o sy /\ Len(t) = 2
    <3>1. sx \o sy \in Texts /\ Len(sx \o sy) = Len(sx) + Len(sy)
      BY Joined
    <3>2. Len(sx) + Len(sy) = 2
      BY <2>1
    <3> QED
      BY <3>1, <3>2
  <2>3. t[1] = x /\ t[2] = y
    <3>1. 1 \in 1 .. Len(sx) + Len(sy) /\ 2 \in 1 .. Len(sx) + Len(sy)
      BY <2>1
    <3> QED
      BY <2>1, <2>2, <3>1, JoinedAt
  <2>4. PICK u \in Texts : u = << x, y >> /\ Len(u) = 2 /\ u[1] = x /\ u[2] = y
    BY <1>3
  <2>5. \A i \in 1 .. 2 : i = 1 \/ i = 2
    OBVIOUS
  <2>6. u = t
    BY <2>2, <2>3, <2>4, <2>5, SameText
  <2> QED
    BY <2>1, <2>2, <2>4, <2>6
<1>4. Reverse(<< x, y >>) = << y >> \o << x >>
  BY <1>1, <1>2, ReverseJoined
<1>5. (buf \o << y >>) \o << x >> = buf \o (<< y >> \o << x >>)
  BY <1>1, JoinedThree
<1>6. Reverse(<< x, y >>) \in Texts
  BY <1>3, ReverseText
<1> QED
  BY <1>3, <1>4, <1>5, <1>6

\* p is the prefix of the base, which the conversion puts behind the digits.
Prefixed(p, buf, base, flags, size) ==
  /\ p = PrefixOf(base, flags)
  /\ Len(p) = IF base \in {2, 16} THEN 2 ELSE 1
  /\ Solid(p)
  /\ BasePrefix(buf, base, flags, size) = buf \o Reverse(p)

(* The prefix of a base is put behind the digits, its end first.           *)
LEMMA BasePrefixIs ==
  ASSUME NEW buf \in Texts, NEW base, NEW flags, NEW size \in Int,
         Len(buf) + Len(PrefixOf(base, flags)) <= size
  PROVE  \E p \in Texts : Prefixed(p, buf, base, flags, size)
<1>1. "0" \in Characters /\ "x" \in Characters /\ "X" \in Characters /\ "b" \in Characters
  BY OwnCharacters
<1>2. PICK l \in Nat : l = Len(buf)
  BY TextLen
<1>3. PICK zero \in Characters : zero = "0"
  BY <1>1
<1>4. ASSUME NEW c \in Characters, base \in {2, 16}, c # " ",
             PrefixOf(base, flags) = << zero, c >>,
             BasePrefix(buf, base, flags, size) = Put(Put(buf, c, size), zero, size)
      PROVE  \E p \in Texts : Prefixed(p, buf, base, flags, size)
  <2>1. PICK p \in Texts : p = << zero, c >> /\ Len(p) = 2 /\ (buf \o << c >>) \o << zero >> = buf \o Reverse(p)
    BY TwoCharacters
  <2>2. l < size /\ l + 1 < size
    <3>1. Len(PrefixOf(base, flags)) = 2
      BY <1>4, <2>1
    <3>2. l + 2 <= size
      BY <1>2, <3>1
    <3> QED
      BY <3>2
  <2>3. PICK t \in Texts : t = buf \o << c >> /\ Len(t) = l + 1 /\ Put(buf, c, size) = t
    <3>1. << c >> \in Texts /\ Len(<< c >>) = 1 /\ Put(buf, c, size) = buf \o << c >>
      BY <1>2, <2>2, OneCharacters, PutIs
    <3> QED
      BY <1>2, <3>1, Joined
  <2>4. Put(t, zero, size) = t \o << zero >>
    BY <2>2, <2>3, PutIs
  <2>5. Solid(p)
    <3>1. zero # " " /\ p[1] = zero /\ p[2] = c
      BY <1>3, <2>1
    <3>2. \A i \in 1 .. 2 : i = 1 \/ i = 2
      OBVIOUS
    <3> QED
      BY <1>4, <2>1, <3>1, <3>2, Zenon DEF Solid
  <2> QED
    BY <1>4, <2>1, <2>3, <2>4, <2>5 DEF Prefixed
<1>5. CASE base = 16
  <2>1. PICK c \in Characters : c = IF "UPPERCASE" \in flags THEN "X" ELSE "x"
    BY <1>1
  <2>2. PrefixOf(base, flags) = << zero, c >>
    BY <1>3, <1>5, <2>1 DEF PrefixOf
  <2>3. BasePrefix(buf, base, flags, size) = Put(Put(buf, c, size), zero, size)
    BY <1>3, <1>5, <2>1 DEF BasePrefix
  <2>4. c # " "
    BY <2>1
  <2> QED
    BY <1>4, <1>5, <2>2, <2>3, <2>4
<1>6. CASE base = 2
  <2>1. PICK c \in Characters : c = "b"
    BY <1>1
  <2>2. PrefixOf(base, flags) = << zero, c >>
    BY <1>3, <1>6, <2>1 DEF PrefixOf
  <2>3. BasePrefix(buf, base, flags, size) = Put(Put(buf, c, size), zero, size)
    BY <1>3, <1>6, <2>1 DEF BasePrefix
  <2>4. c # " "
    BY <2>1
  <2> QED
    BY <1>4, <1>6, <2>2, <2>3, <2>4
<1>7. CASE base \notin {2, 16}
  <2>1. PICK p \in Texts : p = << zero >> /\ Len(p) = 1 /\ Reverse(p) = p
    BY OneCharacters, ReverseOne
  <2>2. PrefixOf(base, flags) = p
    BY <1>3, <1>7, <2>1 DEF PrefixOf
  <2>3. BasePrefix(buf, base, flags, size) = Put(buf, zero, size)
    BY <1>3, <1>7 DEF BasePrefix
  <2>4. Len(buf) < size
    BY <1>2, <2>1, <2>2
  <2>5. Put(buf, zero, size) = buf \o p
    BY <2>1, <2>4, PutIs
  <2>6. Solid(p)
    <3>1. zero # " " /\ p[1] = zero
      BY <1>3, <2>1
    <3>2. \A i \in 1 .. 1 : i = 1
      OBVIOUS
    <3> QED
      BY <2>1, <3>1, <3>2, Zenon DEF Solid
  <2> QED
    BY <1>7, <2>1, <2>2, <2>3, <2>5, <2>6 DEF Prefixed
<1> QED
  BY <1>5, <1>6, <1>7

-----------------------------------------------------------------------------
(* The field of the standard, made of the parts of the conversion.         *)

(* Texts are put together in any order.                                    *)
Regroups(r, s, t) == (r \o s) \o t = r \o (s \o t)
LEMMA Regroup == ASSUME NEW r \in Texts, NEW s \in Texts, NEW t \in Texts PROVE Regroups(r, s, t)
BY ConcatAssociative DEF Texts, Regroups

(* A text read twice from its end is itself.                               *)
LEMMA ReverseTwice ==
  ASSUME NEW s \in Texts
  PROVE  Reverse(Reverse(s)) = s
<1>1. PICK n \in Nat : n = Len(s)
  BY TextLen
<1>2. PICK r \in Texts : r = Reverse(s) /\ Len(r) = n
  BY <1>1, ReverseText
<1>3. PICK q \in Texts : q = Reverse(r) /\ Len(q) = n
  BY <1>2, ReverseText
<1>4. ASSUME NEW i \in 1 .. n PROVE q[i] = s[i]
  <2>1. PICK j \in 1 .. n : j = (n - i) + 1 /\ (n - j) + 1 = i
    OBVIOUS
  <2>2. q[i] = r[j]
    <3>1. i \in 1 .. Len(r) /\ (Len(r) - i) + 1 = j
      BY <1>2, <2>1
    <3>2. Reverse(r)[i] = r[(Len(r) - i) + 1]
      BY <3>1, ReverseAt
    <3> QED
      BY <1>3, <3>1, <3>2
  <2>3. r[j] = s[i]
    <3>1. j \in 1 .. Len(s) /\ (Len(s) - j) + 1 = i
      BY <1>1, <2>1
    <3>2. Reverse(s)[j] = s[(Len(s) - j) + 1]
      BY <3>1, ReverseAt
    <3> QED
      BY <1>2, <3>1, <3>2
  <2> QED
    BY <2>2, <2>3
<1>5. q = s
  BY <1>1, <1>3, <1>4, SameText
<1> QED
  BY <1>2, <1>3, <1>5

(* Zeros, as many as asked for.                                            *)
LEMMA ZerosText ==
  ASSUME NEW n \in Nat
  PROVE  /\ Times(n, "0") \in Texts /\ Len(Times(n, "0")) = n
         /\ Reverse(Times(n, "0")) = Times(n, "0")
         /\ Solid(Times(n, "0"))
         /\ \A m \in Int : m <= 0 => Times(m, "0") = << >>
<1>1. PICK zero \in Characters : zero = "0"
  BY OwnCharacters
<1>2. Times(n, zero) \in Texts /\ Len(Times(n, zero)) = n /\ Reverse(Times(n, zero)) = Times(n, zero)
      /\ \A i \in 1 .. n : Times(n, zero)[i] = zero
  BY TimesAt, ReverseTimes
<1>3. Solid(Times(n, zero))
  <2>1. zero # " "
    BY <1>1
  <2> QED
    BY <1>2, <2>1, Zenon DEF Solid
<1>4. \A m \in Int : m <= 0 => Times(m, zero) = << >>
  BY TimesNone
<1> QED
  BY <1>1, <1>2, <1>3, <1>4

\* The sign, and what the buffer then holds, the digits first.
Assembled(sign, buf, digits, z, p, negative, flags, size) ==
  /\ sign = StandardSign(negative, flags)
  /\ Len(sign) = IF HasSign(negative, flags) THEN 1 ELSE 0
  /\ buf = Sign((digits \o Times(z, "0")) \o Reverse(p), negative, flags, size)
  /\ Len(buf) = ((Len(digits) + z) + Len(p)) + Len(sign)
  /\ Reverse(buf) = (sign \o p) \o (Times(z, "0") \o Reverse(digits))

(* The digits, the zeros, the prefix and the sign, as the conversion       *)
(* buffer holds them, and as they leave it.                                *)
LEMMA AssembledIs ==
  ASSUME NEW digits \in Texts, NEW z \in Nat, NEW p \in Texts, NEW negative \in BOOLEAN, NEW flags, NEW size \in Int,
         (Len(digits) + z) + Len(p) < size
  PROVE  \E sign \in Texts, buf \in Texts : Assembled(sign, buf, digits, z, p, negative, flags, size)
<1>1. PICK l \in Nat, lp \in Nat : l = Len(digits) /\ lp = Len(p)
  BY TextLen
<1>2. PICK zs \in Texts : zs = Times(z, "0") /\ Len(zs) = z /\ Reverse(zs) = zs
  BY ZerosText
<1>3. PICK rp \in Texts : rp = Reverse(p) /\ Len(rp) = lp /\ Reverse(rp) = p
  BY <1>1, ReverseText, ReverseTwice
<1>4. PICK rd \in Texts : rd = Reverse(digits)
  BY ReverseText
<1>5. PICK x \in Texts : x = digits \o zs /\ Len(x) = l + z /\ Reverse(x) = zs \o rd
  <2>1. digits \o zs \in Texts /\ Len(digits \o zs) = Len(digits) + Len(zs)
    BY Joined
  <2>2. Len(digits) + Len(zs) = l + z
    BY <1>1, <1>2
  <2>3. Reverse(digits \o zs) = zs \o rd
    BY <1>2, <1>4, ReverseJoined
  <2> QED
    BY <2>1, <2>2, <2>3
<1>6. PICK y \in Texts : y = x \o rp /\ Len(y) = (l + z) + lp /\ Reverse(y) = p \o (zs \o rd)
  <2>1. x \o rp \in Texts /\ Len(x \o rp) = Len(x) + Len(rp)
    BY Joined
  <2>2. Len(x) + Len(rp) = (l + z) + lp
    BY <1>3, <1>5
  <2>3. Reverse(x \o rp) = p \o (zs \o rd)
    BY <1>3, <1>5, ReverseJoined
  <2> QED
    BY <2>1, <2>2, <2>3
<1>7. Len(y) < size
  BY <1>1, <1>6
<1>8. PICK sign \in Texts :
        /\ sign = StandardSign(negative, flags)
        /\ Sign(y, negative, flags, size) = y \o sign
        /\ Reverse(sign) = sign
        /\ Len(sign) = IF HasSign(negative, flags) THEN 1 ELSE 0
  BY <1>7, NumberSign
<1>9. PICK ls \in Nat : ls = Len(sign)
  BY TextLen
<1>10. PICK buf \in Texts : buf = y \o sign /\ Len(buf) = ((l + z) + lp) + ls /\ Reverse(buf) = sign \o (p \o (zs \o rd))
  <2>1. y \o sign \in Texts /\ Len(y \o sign) = Len(y) + Len(sign)
    BY Joined
  <2>2. Len(y) + Len(sign) = ((l + z) + lp) + ls
    BY <1>6, <1>9
  <2>3. Reverse(y \o sign) = sign \o (p \o (zs \o rd))
    BY <1>6, <1>8, ReverseJoined
  <2> QED
    BY <2>1, <2>2, <2>3
<1>11. sign \o (p \o (zs \o rd)) = (sign \o p) \o (zs \o rd)
  <2>1. PICK t \in Texts : t = zs \o rd
    BY Joined
  <2> QED
    <3>1. Regroups(sign, p, t)
      BY Regroup
    <3> QED
      BY <2>1, <3>1 DEF Regroups
<1>12. /\ buf = Sign((digits \o Times(z, "0")) \o Reverse(p), negative, flags, size)
       /\ Len(buf) = ((Len(digits) + z) + Len(p)) + Len(sign)
       /\ Reverse(buf) = (sign \o p) \o (Times(z, "0") \o Reverse(digits))
  BY <1>1, <1>2, <1>3, <1>4, <1>5, <1>6, <1>8, <1>9, <1>10, <1>11
<1> QED
  BY <1>8, <1>12 DEF Assembled

Excess(a, b) == IF a > b THEN a - b ELSE 0

\* Where the zeros belong, and how many: in front of the digits of a number
\* whose precision asks for them, and between sign and digits where they pad.
Placed(digits, p, negative, flags, size, width, w, z, least) ==
  /\ (Len(digits) + z) + Len(p) < size
  /\ ByZeros(flags) => /\ least = 0
                       /\ z = Excess((width - IF HasSign(negative, flags) THEN 1 ELSE 0) - Len(p), Len(digits))
  /\ ~ByZeros(flags) => least = z /\ w = width

(* As it leaves the buffer, it is the field of the standard.               *)
LEMMA FieldIs ==
  ASSUME NEW digits \in Texts, NEW p \in Texts, NEW negative \in BOOLEAN, NEW flags, NEW size \in Int,
         NEW width \in Nat, NEW w \in Nat, NEW z \in Nat, NEW least \in Nat,
         Placed(digits, p, negative, flags, size, width, w, z, least)
  PROVE  _out_rev(Sign((digits \o Times(z, "0")) \o Reverse(p), negative, flags, size), w, flags)
           = StandardField(StandardSign(negative, flags) \o p, Times(least, "0") \o Reverse(digits), width, flags)
<1>0. PICK s \in Nat : s = IF HasSign(negative, flags) THEN 1 ELSE 0
  OBVIOUS
<1>1. /\ (Len(digits) + z) + Len(p) < size
      /\ ByZeros(flags) => least = 0 /\ z = Excess((width - s) - Len(p), Len(digits))
      /\ ~ByZeros(flags) => least = z /\ w = width
  BY <1>0 DEF Placed
<1>2. PICK l \in Nat, lp \in Nat : l = Len(digits) /\ lp = Len(p)
  BY TextLen
<1>3. PICK zs \in Texts : zs = Times(z, "0") /\ Len(zs) = z
  BY ZerosText
<1>4. PICK rd \in Texts : rd = Reverse(digits) /\ Len(rd) = l
  BY <1>2, ReverseText
<1>5. PICK sign \in Texts, buf \in Texts :
           /\ sign = StandardSign(negative, flags)
           /\ Len(sign) = s
           /\ buf = Sign((digits \o zs) \o Reverse(p), negative, flags, size)
           /\ Len(buf) = ((l + z) + lp) + s
           /\ Reverse(buf) = (sign \o p) \o (zs \o rd)
  <2>1. PICK sign \in Texts, buf \in Texts : Assembled(sign, buf, digits, z, p, negative, flags, size)
    BY <1>1, AssembledIs
  <2>2. Len(sign) = s
    BY <1>0, <2>1 DEF Assembled
  <2> QED
    BY <1>2, <1>3, <1>4, <2>1, <2>2 DEF Assembled
<1>6. PICK sp \in Texts : sp = sign \o p /\ Len(sp) = s + lp
  <2>1. sign \o p \in Texts /\ Len(sign \o p) = Len(sign) + Len(p)
    BY Joined
  <2> QED
    BY <1>2, <1>5, <2>1
<1>7. PICK ls \in Texts : ls = Times(least, "0") /\ Len(ls) = least
  BY ZerosText
<1>8. PICK ds \in Texts : ds = ls \o rd /\ Len(ds) = least + l
  <2>1. ls \o rd \in Texts /\ Len(ls \o rd) = Len(ls) + Len(rd)
    BY Joined
  <2> QED
    BY <1>4, <1>7, <2>1
<1>9. PICK zr \in Texts : zr = zs \o rd
  BY Joined
<1>10. Reverse(buf) = sp \o zr
  BY <1>5, <1>6, <1>9
<1>11. PICK n \in Int : n = (width - Len(sp)) - Len(ds) /\ n = (width - (s + lp)) - (least + l)
  BY <1>6, <1>8
<1>12. StandardField(sp, ds, width, flags) = CASE "LEFT" \in flags -> sp \o ds \o Times(n, " ")
             [] flags \cap {"LEFT", "ZEROPAD"} = {"ZEROPAD"} -> sp \o Times(n, "0") \o ds
             [] OTHER -> Times(n, " ") \o sp \o ds
  BY <1>11, Zenon DEF StandardField
<1>13. PICK space \in Characters : space = " "
  BY OwnCharacters, Zenon
<1>14. PICK pad \in Texts : pad = Times(n, space)
  BY TimesText
<1>15. PICK rev : rev = _out_rev(buf, w, flags)
  OBVIOUS
<1>16. w \in Int /\ (z = least => zs = ls)
  BY <1>3, <1>7
<1>17. CASE "LEFT" \in flags
  <2>0. ~ByZeros(flags)
    BY <1>17 DEF ByZeros
  <2>1. zr = ds /\ w - Len(buf) = n
    <3>1. zr = ds
      BY <1>8, <1>9, <1>16, <1>1, <2>0
    <3>2. least = z /\ w = width
      BY <1>1, <2>0
    <3>3. PICK lb \in Nat : lb = Len(buf) /\ lb = ((l + z) + lp) + s
      BY <1>5
    <3>4. w - lb = n
      BY <1>11, <3>2, <3>3
    <3> QED
      BY <3>1, <3>3, <3>4
  <2>2. rev = Reverse(buf) \o Times(n, " ")
    <3>1. rev = Reverse(buf) \o Times(w - Len(buf), " ")
      BY <1>5, <1>15, <1>17, <1>16, OutRevIs, Zenon
    <3> QED
      BY <2>1, <3>1, Zenon
  <2>3. StandardField(sp, ds, width, flags) = (sp \o ds) \o Times(n, " ")
    <3>1. flags \cap {"LEFT", "ZEROPAD"} # {"ZEROPAD"}
      BY <1>17
    <3> QED
      BY <1>12, <1>17, <3>1, Zenon
  <2>4. rev = StandardField(sp, ds, width, flags)
    BY <1>10, <2>1, <2>2, <2>3, Zenon
  <2> QED
    BY <1>3, <1>4, <1>5, <1>6, <1>7, <1>8, <1>15, <2>4, Zenon
<1>18. CASE ByZeros(flags)
  <2>1. least = 0 /\ z = IF n > 0 THEN n ELSE 0
    BY <1>2, <1>11, <1>18, <1>1 DEF Excess
  <2>2. Times(n, "0") = zs
    <3>1. CASE n > 0
      BY <1>3, <2>1, <3>1
    <3>2. CASE ~(n > 0)
      <4>1. z = 0 /\ n <= 0 /\ z <= 0
        BY <2>1, <3>2
      <4>2. Times(n, "0") = << >> /\ Times(z, "0") = << >>
        BY <4>1, ZerosText
      <4> QED
        BY <1>3, <4>2
    <3> QED
      BY <3>1, <3>2
  <2>3. ds = rd
    <3>1. ls = << >>
      BY <1>7, <2>1, ZerosText
    <3> QED
      BY <1>8, <3>1, JoinedThree
  <2>4. flags \cap {"LEFT", "ZEROPAD"} = {"ZEROPAD"} /\ "LEFT" \notin flags
    BY <1>18 DEF ByZeros
  <2>5. StandardField(sp, ds, width, flags) = (sp \o zs) \o rd
    BY <1>12, <2>2, <2>3, <2>4, Zenon
  <2>6. (sp \o zs) \o rd = sp \o zr
    <3>1. Regroups(sp, zs, rd)
      BY Regroup
    <3> QED
      BY <1>9, <3>1 DEF Regroups
  <2>7. rev = Reverse(buf)
    BY <1>5, <1>15, <1>18, <1>16, OutRevIs
  <2>8. rev = StandardField(sp, ds, width, flags)
    BY <1>10, <2>5, <2>6, <2>7
  <2> QED
    BY <1>3, <1>4, <1>5, <1>6, <1>7, <1>8, <1>15, <2>8, Zenon
<1>19. CASE "LEFT" \notin flags /\ "ZEROPAD" \notin flags
  <2>0. ~ByZeros(flags) /\ flags \cap {"LEFT", "ZEROPAD"} # {"ZEROPAD"}
    BY <1>19 DEF ByZeros
  <2>1. zr = ds /\ w - Len(buf) = n
    <3>1. zr = ds
      BY <1>8, <1>9, <1>16, <1>1, <2>0
    <3>2. least = z /\ w = width
      BY <1>1, <2>0
    <3>3. PICK lb \in Nat : lb = Len(buf) /\ lb = ((l + z) + lp) + s
      BY <1>5
    <3>4. w - lb = n
      BY <1>11, <3>2, <3>3
    <3> QED
      BY <3>1, <3>3, <3>4
  <2>2. rev = pad \o Reverse(buf)
    <3>1. rev = Times(w - Len(buf), " ") \o Reverse(buf)
      BY <1>5, <1>15, <1>19, <1>16, OutRevIs, Zenon
    <3> QED
      BY <1>13, <1>14, <2>1, <3>1, Zenon
  <2>3. StandardField(sp, ds, width, flags) = (pad \o sp) \o ds
    BY <1>12, <1>13, <1>14, <1>19, <2>0, Zenon
  <2>4. (pad \o sp) \o ds = pad \o (sp \o ds)
    <3>1. Regroups(pad, sp, ds)
      BY Regroup
    <3> QED
      BY <3>1 DEF Regroups
  <2>5. rev = StandardField(sp, ds, width, flags)
    BY <1>10, <2>1, <2>2, <2>3, <2>4, Zenon
  <2> QED
    BY <1>3, <1>4, <1>5, <1>6, <1>7, <1>8, <1>15, <2>5, Zenon
<1> QED
  BY <1>17, <1>18, <1>19 DEF ByZeros

-----------------------------------------------------------------------------
(* Zeros, the prefix among them, and the whole of _ntoa_format.            *)

(* A buffer is filled by what it lacks.                                    *)
LEMMA FillIs ==
  ASSUME NEW buf \in Texts, NEW n \in Int, NEW size \in Int, n < size \/ n <= Len(buf)
  PROVE  Fill(buf, "0", n, size) = buf \o Times(Excess(n, Len(buf)), "0")
<1>1. PICK l \in Nat : l = Len(buf)
  BY TextLen
<1>2. PICK k \in Int : k = Lesser(n, size) - l
  BY DEF Lesser
<1>3. Fill(buf, "0", n, size) = buf \o Times(k, "0")
  BY <1>1, <1>2 DEF Fill
<1>4. PICK e \in Int : e = Excess(n, Len(buf)) /\ e = IF n > l THEN n - l ELSE 0
  BY <1>1 DEF Excess
<1>5. CASE n > l
  <2>1. n < size
    BY <1>1, <1>5
  <2>2. k = e
    BY <1>2, <1>4, <1>5, <2>1 DEF Lesser
  <2> QED
    BY <1>3, <1>4, <2>2
<1>6. CASE ~(n > l)
  <2>1. k <= 0 /\ e <= 0
    BY <1>2, <1>4, <1>6 DEF Lesser
  <2>2. 0 \in Nat
    OBVIOUS
  <2>3. Times(k, "0") = << >> /\ Times(e, "0") = << >>
    BY <2>1, <2>2, ZerosText
  <2> QED
    BY <1>3, <1>4, <2>3
<1> QED
  BY <1>5, <1>6

(* Nothing more is nothing.                                                *)
LEMMA FillNone ==
  ASSUME NEW buf \in Texts, NEW n \in Int, NEW size \in Int, n <= Len(buf)
  PROVE  Fill(buf, "0", n, size) = buf
<1>1. PICK l \in Nat : l = Len(buf)
  BY TextLen
<1>2. Fill(buf, "0", n, size) = buf \o Times(Excess(n, Len(buf)), "0")
  BY FillIs
<1>3. Excess(n, Len(buf)) = 0
  BY <1>1 DEF Excess
<1>4. 0 \in Nat /\ 0 \in Int /\ 0 <= 0
  OBVIOUS
<1>5. Times(0, "0") = << >>
  BY <1>4, ZerosText
<1> QED
  BY <1>2, <1>3, <1>5, JoinedThree

(* The padding of the digits by zeros.                                     *)
LEMMA PaddedByZeros ==
  ASSUME NEW digits \in Texts, NEW prec \in Nat, NEW w \in Nat, NEW flags, NEW size \in Int,
         "LEFT" \notin flags, ByZeros(flags) => prec = 0,
         Excess(IF ByZeros(flags) THEN w ELSE prec, Len(digits)) + Len(digits) < size
  PROVE  Fill(Fill(digits, "0", prec, size), "0", IF "ZEROPAD" \in flags THEN w ELSE 0, size)
           = digits \o Times(Excess(IF ByZeros(flags) THEN w ELSE prec, Len(digits)), "0")
<1>1. PICK l \in Nat : l = Len(digits)
  BY TextLen
<1>2. CASE ByZeros(flags)
  <2>1. "ZEROPAD" \in flags
    BY <1>2 DEF ByZeros
  <2>2. Fill(digits, "0", prec, size) = digits
    BY <1>1, <1>2, FillNone
  <2>3. w < size \/ w <= Len(digits)
    BY <1>1, <1>2 DEF Excess
  <2>4. Fill(digits, "0", w, size) = digits \o Times(Excess(w, Len(digits)), "0")
    BY <2>3, FillIs
  <2> QED
    BY <1>2, <2>1, <2>2, <2>4
<1>3. CASE ~ByZeros(flags)
  <2>1. "ZEROPAD" \notin flags
    BY <1>3 DEF ByZeros
  <2>2. prec < size \/ prec <= Len(digits)
    BY <1>1, <1>3 DEF Excess
  <2>3. PICK e \in Nat : e = Excess(prec, Len(digits))
    BY <1>1 DEF Excess
  <2>4. PICK t \in Texts : t = digits \o Times(e, "0") /\ Fill(digits, "0", prec, size) = t
    <3>1. Times(e, "0") \in Texts
      BY ZerosText
    <3>2. Fill(digits, "0", prec, size) = digits \o Times(e, "0")
      <4>1. prec \in Int
        OBVIOUS
      <4>2. Fill(digits, "0", prec, size) = digits \o Times(Excess(prec, Len(digits)), "0")
        BY <2>2, <4>1, FillIs
      <4> QED
        BY <2>3, <4>2
    <3> QED
      BY <3>1, <3>2, Joined
  <2>5. Fill(t, "0", 0, size) = t
    <3>1. 0 \in Int /\ 0 <= Len(t)
      BY TextLen
    <3> QED
      BY <3>1, FillNone
  <2> QED
    BY <1>3, <2>1, <2>3, <2>4, <2>5
<1> QED
  BY <1>2, <1>3

\* What the flag # would take off, so that the prefix could replace it.
Drop(base, l, prec, w, flags) ==
  IF "PRECISION" \notin flags /\ l \in {prec, w} \ {0} THEN IF base = 16 /\ l > 1 THEN 2 ELSE 1 ELSE 0

\* Of the z zeros so many are kept, and there is room for the prefix.
Replaced(digits, z, base, prec, w, flags, size, kept) ==
  /\ kept = z - Drop(base, Len(digits) + z, prec, w, flags)
  /\ (Len(digits) + kept) + Len(PrefixOf(base, flags)) <= size

(* The digits with the zeros of which the prefix takes the place.          *)
LEMMA HashedIs ==
  ASSUME NEW digits \in Texts, NEW z \in Nat, NEW base, NEW prec, NEW w, NEW flags, NEW size \in Int,
         NEW kept \in Nat, Replaced(digits, z, base, prec, w, flags, size, kept)
  PROVE  Hashed(digits \o Times(z, "0"), base, prec, w, flags, size)
           = (digits \o Times(kept, "0")) \o Reverse(PrefixOf(base, flags))
<1>0. PICK drop \in 0 .. z : drop = Drop(base, Len(digits) + z, prec, w, flags) /\ z - drop = kept
  <2>1. PICK d \in Nat : d = Drop(base, Len(digits) + z, prec, w, flags)
    BY DEF Drop
  <2> QED
    BY <2>1 DEF Replaced
<1>1. PICK l \in Nat : l = Len(digits)
  BY TextLen
<1>2. PICK buf \in Texts : buf = digits \o Times(z, "0") /\ Len(buf) = l + z
  <2>1. PICK zs \in Texts : zs = Times(z, "0") /\ Len(zs) = z
    BY ZerosText
  <2>2. digits \o zs \in Texts /\ Len(digits \o zs) = Len(digits) + Len(zs)
    BY Joined
  <2> QED
    BY <1>1, <2>1, <2>2
<1>3. PICK cut : cut = SubSeq(buf, 1, (l + z) - drop)
  OBVIOUS
<1>4. cut = digits \o Times(z - drop, "0")
  <2>1. PICK zero \in Characters : zero = "0"
    BY OwnCharacters
  <2> QED
    BY <1>1, <1>2, <1>3, <2>1, CutTimes
<1>5. cut \in Texts /\ Len(cut) = l + (z - drop)
  <2>1. PICK m \in Nat : m = z - drop
    OBVIOUS
  <2>2. PICK zs \in Texts : zs = Times(m, "0") /\ Len(zs) = m
    BY ZerosText
  <2>3. digits \o zs \in Texts /\ Len(digits \o zs) = Len(digits) + Len(zs)
    BY Joined
  <2> QED
    BY <1>1, <1>4, <2>1, <2>2, <2>3
<1>6. BasePrefix(cut, base, flags, size) = cut \o Reverse(PrefixOf(base, flags))
  <2>1. Len(cut) + Len(PrefixOf(base, flags)) <= size
    BY <1>0, <1>1, <1>5 DEF Replaced
  <2>2. PICK p \in Texts : Prefixed(p, cut, base, flags, size)
    BY <1>5, <2>1, BasePrefixIs
  <2> QED
    BY <2>2 DEF Prefixed
<1>7. Hashed(buf, base, prec, w, flags, size) = BasePrefix(cut, base, flags, size)
  <2>1. drop = IF "PRECISION" \notin flags /\ Len(buf) \in {prec, w} \ {0} THEN IF base = 16 /\ Len(buf) > 1 THEN 2 ELSE 1 ELSE 0
    BY <1>0, <1>1, <1>2 DEF Drop
  <2> QED
    BY <1>2, <1>3, <2>1, Zenon DEF Hashed
<1> QED
  BY <1>0, <1>2, <1>4, <1>6, <1>7

(* The number of digits that precision and padding add in front.           *)
Padding(negative, width, prefix, digits, least, flags) ==
  IF ByZeros(flags) THEN Excess((width - IF HasSign(negative, flags) THEN 1 ELSE 0) - prefix, digits) ELSE least

\* What the standard's text asks of the conversion.
Formats(digits, negative, base, prec, width, flags, prefix, least, z) ==
  /\ prefix = IF "HASH" \in flags THEN PrefixOf(base, flags) ELSE << >>
  /\ "PRECISION" \notin flags => prec = 0
  /\ "PRECISION" \in flags => "ZEROPAD" \notin flags
  /\ "LEFT" \in flags => prec <= Len(digits)
  /\ "HASH" \in flags =>
       /\ base \in {2, 8, 16} /\ ~HasSign(negative, flags) /\ Len(digits) >= 1
       /\ "PRECISION" \notin flags => width # Len(digits)
       /\ "ZEROPAD" \in flags => base # 2 /\ width # Len(digits) + 1
  /\ least = Excess(prec, Len(digits))
  /\ z = Padding(negative, width, Len(prefix), Len(digits), least, flags)
  /\ (Len(digits) + z) + Len(prefix) < PRINTF_NTOA_BUFFER_SIZE

(* The digits of a number leave the conversion as the field of the         *)
(* standard, when there is room for them and the prefix does not meet      *)
(* zeros it takes for padding.                                             *)
LEMMA FormatIs ==
  ASSUME NEW digits \in Texts, NEW negative \in BOOLEAN, NEW base, NEW prec \in Nat, NEW width \in Nat, NEW flags,
         NEW prefix \in Texts, NEW least \in Nat, NEW z \in Nat,
         Formats(digits, negative, base, prec, width, flags, prefix, least, z)
  PROVE  _ntoa_format(digits, negative, base, prec, width, flags)
           = StandardField(StandardSign(negative, flags) \o prefix, Times(least, "0") \o Reverse(digits), width, flags)
<1>0. PICK size \in Nat : size = PRINTF_NTOA_BUFFER_SIZE
  BY BufferSizes
<1>1. PICK l \in Nat, lp \in Nat : l = Len(digits) /\ lp = Len(prefix)
  BY TextLen
<1>2. PICK s \in Nat : s = IF HasSign(negative, flags) THEN 1 ELSE 0
  OBVIOUS
<1>3. PICK w \in Nat : w = SignedWidth(width, negative, flags)
                        /\ w = IF width > 0 /\ ByZeros(flags) /\ s = 1 THEN width - 1 ELSE width
  <2>1. HasSign(negative, flags) <=> s = 1
    BY <1>2
  <2> QED
    BY <2>1, SignedWidthIs
<1>4. ByZeros(flags) => prec = 0 /\ least = 0
  BY <1>1 DEF ByZeros, Excess, Formats
<1>5. z = IF ByZeros(flags) THEN (IF (width - s) - lp > l THEN ((width - s) - lp) - l ELSE 0) ELSE least
  BY <1>1, <1>2 DEF Padding, Excess, Formats
<1>6. (l + z) + lp < size
  BY <1>0, <1>1 DEF Formats
<1>7. "HASH" \notin flags => lp = 0
  BY <1>1, EmptyText DEF Formats
<1>8. "HASH" \in flags => s = 0 /\ lp = (IF base \in {2, 16} THEN 2 ELSE 1) /\ prefix = PrefixOf(base, flags)
  <2> SUFFICES ASSUME "HASH" \in flags PROVE lp = IF base \in {2, 16} THEN 2 ELSE 1
    BY <1>2 DEF Formats
  <2>1. Len(digits) + Len(PrefixOf(base, flags)) <= size /\ size \in Int
    BY <1>1, <1>6 DEF Formats
  <2>2. PICK p \in Texts : Prefixed(p, digits, base, flags, size)
    BY <2>1, BasePrefixIs
  <2>3. p = prefix
    BY <2>2 DEF Prefixed, Formats
  <2> QED
    BY <1>1, <2>2, <2>3 DEF Prefixed
\* The padding before the prefix takes some of it.
<1>9. PICK y \in Nat : y = IF "LEFT" \in flags THEN 0 ELSE Excess(IF ByZeros(flags) THEN w ELSE prec, l)
  <2>1. PICK a \in Nat : a = IF ByZeros(flags) THEN w ELSE prec
    OBVIOUS
  <2>2. PICK e \in Nat : e = Excess(a, l)
    <3>1. Excess(a, l) \in Nat
      BY DEF Excess
    <3> QED
      BY <3>1
  <2> QED
    BY <2>1, <2>2
<1>10. PICK padded : padded = IF "LEFT" \in flags THEN digits
          ELSE Fill(Fill(digits, "0", prec, size), "0", IF "ZEROPAD" \in flags THEN w ELSE 0, size)
  OBVIOUS
<1>11. y + l < size /\ ("HASH" \notin flags => y = z)
  <2>1. CASE ByZeros(flags)
    <3>1. y = IF w > l THEN w - l ELSE 0
      BY <1>9, <2>1 DEF ByZeros, Excess
    <3>2. CASE "HASH" \in flags
      BY <1>3, <1>5, <1>6, <1>8, <2>1, <3>1, <3>2
    <3>3. CASE "HASH" \notin flags
      <4>1. s = 0 \/ s = 1
        BY <1>2
      <4> QED
        BY <1>3, <1>5, <1>6, <1>7, <2>1, <3>1, <3>3, <4>1
    <3> QED
      BY <3>2, <3>3
  <2>2. CASE ~ByZeros(flags)
    <3>1. z = IF prec > l THEN prec - l ELSE 0
      BY <1>1, <1>5, <2>2 DEF Excess, Formats
    <3>2. y = z
      <4>1. CASE "LEFT" \in flags
        BY <1>1, <1>9, <3>1, <4>1 DEF Formats
      <4>2. CASE "LEFT" \notin flags
        BY <1>9, <2>2, <3>1, <4>2 DEF Excess
      <4> QED
        BY <4>1, <4>2
    <3> QED
      BY <1>6, <3>2
  <2> QED
    BY <2>1, <2>2
<1>12. padded = digits \o Times(y, "0")
  <2>1. CASE "LEFT" \in flags
    <3>1. 0 \in Nat /\ 0 \in Int /\ 0 <= 0
      OBVIOUS
    <3>2. Times(0, "0") = << >>
      BY <3>1, ZerosText
    <3> QED
      BY <1>9, <1>10, <2>1, <3>2, JoinedThree
  <2>2. CASE "LEFT" \notin flags
    <3>1. size \in Int /\ Excess(IF ByZeros(flags) THEN w ELSE prec, Len(digits)) + Len(digits) < size
      BY <1>1, <1>9, <1>11, <2>2
    <3>2. ByZeros(flags) => prec = 0
      BY <1>4
    <3>3. Fill(Fill(digits, "0", prec, size), "0", IF "ZEROPAD" \in flags THEN w ELSE 0, size)
           = digits \o Times(Excess(IF ByZeros(flags) THEN w ELSE prec, Len(digits)), "0")
      BY <2>2, <3>1, <3>2, PaddedByZeros, Zenon
    <3> QED
      BY <1>1, <1>9, <1>10, <2>2, <3>3, Zenon
  <2> QED
    BY <2>1, <2>2
<1>13. PICK hashed : hashed = IF "HASH" \in flags THEN Hashed(padded, base, prec, w, flags, size) ELSE padded
  OBVIOUS
<1>14. hashed = (digits \o Times(z, "0")) \o Reverse(prefix)
  <2>1. CASE "HASH" \in flags
    <3>1. PICK d \in Nat : d = Drop(base, l + y, prec, w, flags)
      BY DEF Drop
    <3>2. d \in 0 .. y /\ y - d = z
      <4>1. CASE ByZeros(flags)
        <5>1. "PRECISION" \notin flags /\ base \in {8, 16} /\ prec = 0 /\ w = width /\ w # l /\ w # l + 1 /\ l >= 1
          BY <1>1, <1>3, <1>4, <1>8, <2>1, <4>1 DEF ByZeros, Formats
        <5>2. y = IF w > l THEN w - l ELSE 0
          BY <1>9, <4>1 DEF ByZeros, Excess
        <5>3. CASE w > l
          <6>1. l + y = w /\ w > 1 /\ w # 0 /\ y >= 2
            BY <5>1, <5>2, <5>3
          <6>2. d = IF base = 16 THEN 2 ELSE 1
            BY <3>1, <5>1, <6>1 DEF Drop
          <6> QED
            BY <1>5, <1>8, <2>1, <4>1, <5>1, <5>2, <5>3, <6>1, <6>2
        <5>4. CASE ~(w > l)
          <6>1. y = 0 /\ l + y = l /\ l \notin {prec, w}
            BY <5>1, <5>2, <5>4
          <6>2. d = 0
            BY <3>1, <6>1 DEF Drop
          <6> QED
            BY <1>5, <1>8, <2>1, <4>1, <5>1, <5>4, <6>1, <6>2
        <5> QED
          BY <5>3, <5>4
      <4>2. CASE ~ByZeros(flags)
        <5>1. w = width
          BY <1>3, <4>2
        <5>2. z = least /\ least = IF prec > l THEN prec - l ELSE 0
          BY <1>1, <1>5, <4>2 DEF Excess, Formats
        <5>3. y = z
          <6>1. CASE "LEFT" \in flags
            BY <1>1, <1>9, <5>2, <6>1 DEF Formats
          <6>2. CASE "LEFT" \notin flags
            BY <1>9, <4>2, <5>2, <6>2 DEF Excess
          <6> QED
            BY <6>1, <6>2
        <5>4. d = 0
          <6>1. CASE "PRECISION" \in flags
            BY <3>1, <6>1 DEF Drop
          <6>2. CASE "PRECISION" \notin flags
            <7>1. prec = 0 /\ y = 0 /\ l # w /\ l >= 1
              <8>1. prec = 0 /\ l # w /\ l >= 1
                BY <1>1, <2>1, <5>1, <6>2 DEF Formats
              <8>2. y = 0
                <9>1. least = 0
                  BY <5>2, <8>1
                <9> QED
                  BY <5>2, <5>3, <9>1
              <8> QED
                BY <8>1, <8>2
            <7>2. l + y \notin {prec, w} \ {0}
              BY <7>1
            <7> QED
              BY <3>1, <7>2 DEF Drop
          <6> QED
            BY <6>1, <6>2
        <5> QED
          BY <5>3, <5>4
      <4> QED
        BY <4>1, <4>2
    <3>3. Replaced(digits, y, base, prec, w, flags, size, z)
      <4>1. Len(PrefixOf(base, flags)) = lp
        BY <1>1, <1>8, <2>1
      <4> QED
        BY <1>1, <1>6, <3>1, <3>2, <4>1 DEF Replaced
    <3>4. Hashed(digits \o Times(y, "0"), base, prec, w, flags, size)
            = (digits \o Times(z, "0")) \o Reverse(PrefixOf(base, flags))
      <4>1. size \in Int
        OBVIOUS
      <4> QED
        BY <3>3, <4>1, HashedIs
    <3> QED
      BY <1>8, <1>12, <1>13, <2>1, <3>4
  <2>2. CASE "HASH" \notin flags
    <3>1. PICK t \in Texts : t = digits \o Times(z, "0")
      <4>1. Times(z, "0") \in Texts
        BY ZerosText
      <4> QED
        BY <4>1, Joined
    <3>2. Reverse(prefix) = << >>
      <4>1. "0" \in Characters
        BY OwnCharacters
      <4> QED
        BY <2>2, <4>1, ReverseOne DEF Formats
    <3>3. t \o << >> = t
      BY JoinedThree
    <3> QED
      BY <1>11, <1>12, <1>13, <2>2, <3>1, <3>2, <3>3
  <2> QED
    BY <2>1, <2>2
<1>15. _ntoa_format(digits, negative, base, prec, width, flags) = _out_rev(Sign(hashed, negative, flags, size), w, flags)
  BY <1>0, <1>3, <1>10, <1>13, Zenon DEF _ntoa_format
<1>16. Placed(digits, prefix, negative, flags, size, width, w, z, least)
  <2>1. ByZeros(flags) => z = Excess((width - s) - lp, l)
    BY <1>5 DEF Excess
  <2>2. ~ByZeros(flags) => least = z /\ w = width
    BY <1>3, <1>5 DEF Formats
  <2> QED
    BY <1>1, <1>2, <1>4, <1>6, <2>1, <2>2 DEF Placed
<1>17. _out_rev(Sign((digits \o Times(z, "0")) \o Reverse(prefix), negative, flags, size), w, flags)
           = StandardField(StandardSign(negative, flags) \o prefix, Times(least, "0") \o Reverse(digits), width, flags)
  <2>1. size \in Int
    OBVIOUS
  <2> QED
    BY <1>16, <2>1, FieldIs
<1> QED
  BY <1>14, <1>15, <1>17

-----------------------------------------------------------------------------
(* The digits of a number.                                                 *)

(* A larger exponent gives no smaller power.                               *)
LEMMA PowerMonotone ==
  ASSUME NEW b \in Nat, b >= 2, NEW j \in Nat, NEW k \in Nat, j <= k
  PROVE  Power(b, j) <= Power(b, k)
<1> DEFINE T == {i \in Nat : Power(b, j) <= Power(b, j + i)}
<1>0. b \in Nat \ {0} /\ b \in Int
  OBVIOUS
<1>1. 0 \in T
  <2>1. j + 0 = j
    OBVIOUS
  <2>2. Power(b, j) \in Int
    BY PowerStep
  <2> QED
    BY <2>1, <2>2
<1>2. ASSUME NEW i \in Nat, i \in T PROVE i + 1 \in T
  <2>1. j + i \in Nat /\ (j + i) + 1 = j + (i + 1)
    OBVIOUS
  <2>2. PICK p \in Nat \ {0} : p = Power(b, j + i) /\ Power(b, (j + i) + 1) = b * p
    BY <1>0, <2>1, PowerPositive, PowerStep
  <2>3. Power(b, j) <= p /\ Power(b, j) \in Int
    BY <1>2, <2>2, PowerStep
  <2>4. p <= b * p
    BY <2>2
  <2>5. Power(b, j) <= b * p
    BY <2>2, <2>3, <2>4
  <2> QED
    BY <2>1, <2>2, <2>5
<1>3. \A i \in Nat : i \in T
  <2> HIDE DEF T
  <2> QED
    BY <1>1, <1>2, SetInduction
<1>4. k - j \in Nat /\ j + (k - j) = k
  OBVIOUS
<1>5. k - j \in T
  <2> HIDE DEF T
  <2> QED
    BY <1>3, <1>4
<1> QED
  BY <1>4, <1>5

(* A number has as many places as it takes for a power to exceed it.       *)
LEMMA PlacesIs ==
  ASSUME NEW n \in Nat, NEW base \in Nat, base >= 2
  PROVE  /\ Places(n, base) \in Nat
         /\ n < Power(base, Places(n, base))
         /\ \A j \in 0 .. Places(n, base) - 1 : n >= Power(base, j)
<1> DEFINE T == {k \in Nat : n < Power(base, k)}
<1> DEFINE Is(k) == n < Power(base, k) /\ \A j \in 0 .. k - 1 : n >= Power(base, j)
<1>1. n \in T
  BY PowerGrows
<1>2. PICK k \in T : \A j \in T : k <= j
  <2>1. T \in SUBSET Nat /\ T # {}
    BY <1>1
  <2> HIDE DEF T
  <2> QED
    BY <2>1, LeastNatural
<1>3. k \in 0 .. n
  BY <1>1, <1>2
<1>4. ASSUME NEW j \in 0 .. k - 1 PROVE n >= Power(base, j)
  <2>1. j \in Nat /\ ~(k <= j) /\ Power(base, j) \in Int
    BY <1>3, PowerStep
  <2>2. j \notin T
    BY <1>2, <2>1
  <2> QED
    BY <2>1, <2>2
<1>5. Is(k)
  BY <1>2, <1>4
<1>6. Places(n, base) = CHOOSE x \in 0 .. n : Is(x)
  BY DEF Places
<1> HIDE DEF Is
<1>7. Places(n, base) \in 0 .. n /\ Is(Places(n, base))
  BY <1>3, <1>5, <1>6
<1> QED
  BY <1>7 DEF Is

(* The digit at a place, which is no space, and 0 beyond the first.        *)
DigitAt(n, base, k, flags) == HexDigits(flags)[((n \div Power(base, k)) % base) + 1]

(* None of the digits is a space, and the first of them is 0.              *)
LEMMA DigitsAre ==
  ASSUME NEW flags
  PROVE  HexDigits(flags)[1] = "0" /\ \A i \in 1 .. 16 : HexDigits(flags)[i] # " "
<1>1. PICK letters \in Texts : Len(letters) = 6 /\ HexDigits(flags) = Digits \o letters
                               /\ \A i \in 1 .. 6 : letters[i] \in {"A", "B", "C", "D", "E", "F", "a", "b", "c", "d", "e", "f"}
  <2>1. CASE "UPPERCASE" \in flags
    <3>1. PICK letters \in Texts : letters = <<"A", "B", "C", "D", "E", "F">> /\ Len(letters) = 6
      BY OwnCharacters, SixCharacters
    <3>2. HexDigits(flags) = Digits \o letters
      BY <2>1, <3>1 DEF HexDigits
    <3>3. \A i \in 1 .. 6 : letters[i] \in {"A", "B", "C", "D", "E", "F", "a", "b", "c", "d", "e", "f"}
      BY <3>1
    <3> QED
      BY <3>1, <3>2, <3>3
  <2>2. CASE "UPPERCASE" \notin flags
    <3>1. PICK letters \in Texts : letters = <<"a", "b", "c", "d", "e", "f">> /\ Len(letters) = 6
      BY OwnCharacters, SixCharacters
    <3>2. HexDigits(flags) = Digits \o letters
      BY <2>2, <3>1 DEF HexDigits
    <3>3. \A i \in 1 .. 6 : letters[i] \in {"A", "B", "C", "D", "E", "F", "a", "b", "c", "d", "e", "f"}
      BY <3>1
    <3> QED
      BY <3>1, <3>2, <3>3
  <2> QED
    BY <2>1, <2>2
<1>2. PICK digits \in Texts : digits = Digits /\ Len(digits) = 10 /\ digits[1] = "0"
                              /\ \A i \in 1 .. 10 : digits[i] \in {"0", "1", "2", "3", "4", "5", "6", "7", "8", "9"}
  <2>1. Len(Digits) = 10 /\ DOMAIN Digits = 1 .. 10 /\ Digits = [j \in 1 .. 10 |-> Digits[j]] /\ Digits[1] = "0"
    BY DEF Digits
  <2>2. Digits \in [1 .. 10 -> Characters] /\ 10 \in Nat
    BY <2>1, OwnCharacters
  <2>3. Digits \in Texts
    BY <2>2, TextOf
  <2>4. \A i \in 1 .. 10 : Digits[i] \in {"0", "1", "2", "3", "4", "5", "6", "7", "8", "9"}
    BY DEF Digits
  <2> QED
    BY <2>1, <2>3, <2>4
<1>3. PICK all \in Texts : all = digits \o letters /\ all = HexDigits(flags)
  BY <1>1, <1>2, Joined
<1>4. ASSUME NEW i \in 1 .. 16
      PROVE  all[i] \in {"0", "1", "2", "3", "4", "5", "6", "7", "8", "9"}
                          \cup {"A", "B", "C", "D", "E", "F", "a", "b", "c", "d", "e", "f"}
  <2>1. all[i] = IF i <= 10 THEN digits[i] ELSE letters[i - 10]
    <3>1. i \in 1 .. Len(digits) + Len(letters) /\ Len(digits) = 10
      BY <1>1, <1>2
    <3>2. (digits \o letters)[i] = IF i <= Len(digits) THEN digits[i] ELSE letters[i - Len(digits)]
      BY <3>1, JoinedAt
    <3> QED
      BY <1>3, <3>1, <3>2
  <2>2. CASE i <= 10
    <3>1. i \in 1 .. 10
      BY <2>2
    <3> QED
      BY <1>2, <2>1, <2>2, <3>1
  <2>3. CASE ~(i <= 10)
    <3>1. i - 10 \in 1 .. 6
      BY <2>3
    <3> QED
      BY <1>1, <2>1, <2>3, <3>1
  <2> QED
    BY <2>2, <2>3
<1>5. all[1] = "0"
  <2>1. 1 \in 1 .. Len(digits) + Len(letters) /\ 1 <= Len(digits)
    BY <1>1, <1>2
  <2>2. (digits \o letters)[1] = IF 1 <= Len(digits) THEN digits[1] ELSE letters[1 - Len(digits)]
    BY <2>1, JoinedAt
  <2> QED
    BY <1>2, <1>3, <2>1, <2>2
<1>6. " " \notin {"0", "1", "2", "3", "4", "5", "6", "7", "8", "9"}
                   \cup {"A", "B", "C", "D", "E", "F", "a", "b", "c", "d", "e", "f"}
  BY Zenon
<1> QED
  BY <1>3, <1>4, <1>5, <1>6, Zenon

LEMMA DigitAtIs ==
  ASSUME NEW n \in Nat, NEW base \in 2 .. 16, NEW k \in Nat, NEW flags
  PROVE  /\ DigitAt(n, base, k, flags) \in Characters /\ DigitAt(n, base, k, flags) # " "
         /\ n < Power(base, k) => DigitAt(n, base, k, flags) = "0"
<1>1. PICK p \in Nat \ {0} : p = Power(base, k)
  <2>1. base \in Nat \ {0}
    OBVIOUS
  <2> QED
    BY <2>1, PowerPositive
<1>2. PICK q \in Int : q = n \div p
  OBVIOUS
<1>3. PICK r \in 1 .. 16 : r = (q % base) + 1
  <2>1. q % base \in 0 .. base - 1
    OBVIOUS
  <2> QED
    BY <2>1
<1>4. DigitAt(n, base, k, flags) = HexDigits(flags)[r]
  BY <1>1, <1>2, <1>3 DEF DigitAt
<1>5. HexDigits(flags)[r] \in Characters
  BY SixteenDigits
<1>6. HexDigits(flags)[r] # " "
  BY DigitsAre, Zenon
<1>7. ASSUME n < p PROVE HexDigits(flags)[r] = "0"
  <2>1. q = 0
    BY <1>2, <1>7
  <2>2. 0 % base = 0
    OBVIOUS
  <2>3. r = 1
    BY <1>3, <2>1, <2>2
  <2> QED
    BY <2>3, DigitsAre, Zenon
<1> QED
  BY <1>1, <1>4, <1>5, <1>6, <1>7, Zenon

-----------------------------------------------------------------------------
(* The numeral of the standard, and what it takes of the buffer.           *)

(* The last digits are a text without a space.                             *)
LEMMA LastDigitsText ==
  ASSUME NEW l \in Nat, NEW n \in Nat, NEW base \in 2 .. 16, NEW flags
  PROVE  /\ LastDigits(l, n, base, flags) \in Texts /\ Len(LastDigits(l, n, base, flags)) = l
         /\ \A i \in 1 .. l : LastDigits(l, n, base, flags)[i] = DigitAt(n, base, i - 1, flags)
<1>1. PICK t : t = LastDigits(l, n, base, flags)
  OBVIOUS
<1>2. t = [i \in 1 .. l |-> DigitAt(n, base, i - 1, flags)]
  BY <1>1 DEF LastDigits, DigitAt
<1>3. ASSUME NEW i \in 1 .. l PROVE DigitAt(n, base, i - 1, flags) \in Characters
  <2>1. i - 1 \in Nat
    OBVIOUS
  <2> QED
    BY <2>1, DigitAtIs
<1>4. t \in [1 .. l -> Characters]
  BY <1>2, <1>3
<1>5. t \in Texts /\ Len(t) = l
  BY <1>4, TextOf
<1> QED
  BY <1>1, <1>2, <1>5

\* The digits of a number from the first, so many of them.
DigitsOf(n, base, m, flags) == [i \in 1 .. m |-> HexDigits(flags)[((n \div Power(base, m - i)) % base) + 1]]

(* They are zeros in front of those that the conversion writes.            *)
LEMMA DigitsOfIs ==
  ASSUME NEW n \in Nat, NEW base \in 2 .. 16, NEW l \in Nat, n < Power(base, l), NEW z \in Nat, NEW flags
  PROVE  /\ DigitsOf(n, base, l + z, flags) = Times(z, "0") \o Reverse(LastDigits(l, n, base, flags))
         /\ DigitsOf(n, base, l + z, flags) \in Texts
         /\ Len(DigitsOf(n, base, l + z, flags)) = l + z
         /\ Solid(DigitsOf(n, base, l + z, flags))
<1>0. base \in Nat /\ base >= 2
  OBVIOUS
<1>1. PICK m \in Nat : m = l + z
  OBVIOUS
<1>2. PICK d : d = DigitsOf(n, base, m, flags)
  OBVIOUS
<1>3. d = [i \in 1 .. m |-> DigitAt(n, base, m - i, flags)]
  BY <1>2 DEF DigitsOf, DigitAt
<1>4. ASSUME NEW i \in 1 .. m
      PROVE  DigitAt(n, base, m - i, flags) \in Characters /\ DigitAt(n, base, m - i, flags) # " "
  <2>1. m - i \in Nat
    OBVIOUS
  <2> QED
    BY <2>1, DigitAtIs, Zenon
<1>5. d \in Texts /\ Len(d) = m
  <2>1. d \in [1 .. m -> Characters]
    BY <1>3, <1>4
  <2> QED
    BY <2>1, TextOf
<1>6. Solid(d)
  <2>1. \A i \in 1 .. m : d[i] # " "
    BY <1>3, <1>4, Zenon
  <2> QED
    BY <1>5, <2>1, Zenon DEF Solid
<1>7. PICK zero \in Characters : zero = "0"
  BY OwnCharacters
<1>8. PICK zs \in Texts : zs = Times(z, "0") /\ Len(zs) = z /\ \A i \in 1 .. z : zs[i] = zero
  BY <1>7, TimesAt
<1>9. PICK last \in Texts : /\ last = LastDigits(l, n, base, flags) /\ Len(last) = l
                            /\ \A i \in 1 .. l : last[i] = DigitAt(n, base, i - 1, flags)
  BY LastDigitsText
<1>10. PICK rev \in Texts : rev = Reverse(last) /\ Len(rev) = l
  BY <1>9, ReverseText
<1>11. PICK t \in Texts : t = zs \o rev /\ Len(t) = m
  <2>1. zs \o rev \in Texts /\ Len(zs \o rev) = Len(zs) + Len(rev)
    BY Joined
  <2>2. Len(zs) + Len(rev) = m
    BY <1>1, <1>8, <1>10
  <2> QED
    BY <2>1, <2>2
<1>12. ASSUME NEW i \in 1 .. m PROVE d[i] = t[i]
  <2>1. t[i] = IF i <= z THEN zs[i] ELSE rev[i - z]
    <3>1. i \in 1 .. Len(zs) + Len(rev)
      BY <1>1, <1>8, <1>10
    <3> QED
      BY <1>8, <1>11, <3>1, JoinedAt
  <2>2. d[i] = DigitAt(n, base, m - i, flags)
    BY <1>3
  <2>3. CASE i <= z
    <3>1. i \in 1 .. z /\ m - i \in Nat /\ l <= m - i
      BY <1>1, <2>3
    <3>2. n < Power(base, m - i)
      <4>1. Power(base, l) <= Power(base, m - i)
        BY <1>0, <3>1, PowerMonotone
      <4>2. Power(base, l) \in Int /\ Power(base, m - i) \in Int
        BY <1>0, <3>1, PowerStep
      <4> QED
        BY <4>1, <4>2
    <3>3. DigitAt(n, base, m - i, flags) = zero
      BY <1>7, <3>1, <3>2, DigitAtIs
    <3> QED
      BY <1>8, <2>1, <2>2, <2>3, <3>1, <3>3
  <2>4. CASE ~(i <= z)
    <3>1. PICK j \in 1 .. l : j = i - z /\ (l - j) + 1 \in 1 .. l /\ ((l - j) + 1) - 1 = m - i
      BY <1>1, <2>4
    <3>2. rev[j] = last[(l - j) + 1]
      <4>1. j \in 1 .. Len(last) /\ Len(last) = l
        BY <1>9
      <4>2. Reverse(last)[j] = last[(Len(last) - j) + 1]
        BY <4>1, ReverseAt
      <4> QED
        BY <1>10, <4>1, <4>2
    <3>3. last[(l - j) + 1] = DigitAt(n, base, m - i, flags)
      BY <1>9, <3>1
    <3> QED
      BY <2>1, <2>2, <2>4, <3>1, <3>2, <3>3
  <2> QED
    BY <2>3, <2>4
<1>13. d = t
  BY <1>5, <1>11, <1>12, SameText
<1> QED
  BY <1>1, <1>2, <1>5, <1>6, <1>8, <1>9, <1>10, <1>11, <1>13

(* Texts without a space, put together.                                    *)
LEMMA SolidJoined ==
  ASSUME NEW s \in Texts, NEW t \in Texts, Solid(s), Solid(t)
  PROVE  Solid(s \o t)
<1>0. PICK space : space = " "
  OBVIOUS
<1>1. PICK a \in Nat, b \in Nat : a = Len(s) /\ b = Len(t)
  BY TextLen
<1>2. PICK st \in Texts : st = s \o t /\ Len(st) = a + b
  <2>1. s \o t \in Texts /\ Len(s \o t) = Len(s) + Len(t)
    BY Joined
  <2> QED
    BY <1>1, <2>1
<1>3. ASSUME NEW i \in 1 .. a + b PROVE st[i] # space
  <2>1. st[i] = IF i <= a THEN s[i] ELSE t[i - a]
    BY <1>1, <1>2, JoinedAt
  <2>2. (\A j \in 1 .. a : s[j] # space) /\ (\A j \in 1 .. b : t[j] # space)
    BY <1>0, <1>1, Zenon DEF Solid
  <2>3. CASE i <= a
    <3>1. i \in 1 .. a
      BY <2>3
    <3> QED
      BY <2>1, <2>2, <2>3, <3>1
  <2>4. CASE ~(i <= a)
    <3>1. i - a \in 1 .. b
      BY <2>4
    <3> QED
      BY <2>1, <2>2, <2>4, <3>1
  <2> QED
    BY <2>3, <2>4
<1>4. Solid(st)
  BY <1>0, <1>2, <1>3, Zenon DEF Solid
<1> QED
  BY <1>2, <1>4

(* What a field of the standard takes of the buffer: its prefix, its       *)
(* digits, and the zeros between.                                          *)
LEMMA FitsIs ==
  ASSUME NEW sign \in Texts, NEW p \in Texts, NEW digits \in Texts, NEW width \in Nat, NEW flags, NEW size \in Int,
         Solid(p), Solid(digits), Fits(StandardField(sign \o p, digits, width, flags), size)
  PROVE  /\ Len(p) + Len(digits) < size
         /\ ByZeros(flags) => (Len(p) + Excess((width - Len(sign)) - Len(p), Len(digits))) + Len(digits) < size
<1>1. PICK ls \in Nat, lp \in Nat, l \in Nat : ls = Len(sign) /\ lp = Len(p) /\ l = Len(digits)
  BY TextLen
<1>2. PICK sp \in Texts : sp = sign \o p /\ Len(sp) = ls + lp
  <2>1. sign \o p \in Texts /\ Len(sign \o p) = Len(sign) + Len(p)
    BY Joined
  <2> QED
    BY <1>1, <2>1
<1>3. PICK n \in Int : n = (width - Len(sp)) - Len(digits) /\ n = (width - (ls + lp)) - l
  <2>1. (width - Len(sp)) - Len(digits) = (width - (ls + lp)) - l /\ (width - (ls + lp)) - l \in Int
    BY <1>1, <1>2
  <2> QED
    BY <2>1
<1>4. PICK field0 : field0 = StandardField(sp, digits, width, flags)
  OBVIOUS
<1>5. field0 = CASE "LEFT" \in flags -> sp \o digits \o Times(n, " ")
             [] flags \cap {"LEFT", "ZEROPAD"} = {"ZEROPAD"} -> sp \o Times(n, "0") \o digits
             [] OTHER -> Times(n, " ") \o sp \o digits
  BY <1>3, <1>4, Zenon DEF StandardField
<1>6. Fits(field0, size)
  BY <1>2, <1>4
<1>7. PICK space \in Characters : space = " "
  BY OwnCharacters, Zenon
<1>8. PICK pad \in Texts : pad = Times(n, space)
  BY TimesText
<1>9. PICK zero \in Characters : zero = "0"
  BY OwnCharacters
<1>10. PICK zs \in Texts : zs = Times(n, zero) /\ Len(zs) = IF n > 0 THEN n ELSE 0
  BY TimesText
<1>11. PICK pd \in Texts : pd = p \o digits /\ Len(pd) = lp + l /\ Solid(pd)
  <2>1. p \o digits \in Texts /\ Len(p \o digits) = Len(p) + Len(digits)
    BY Joined
  <2>2. Solid(p \o digits)
    BY SolidJoined
  <2> QED
    BY <1>1, <2>1, <2>2
<1>12. ASSUME Len(pd) < size, ~ByZeros(flags)
       PROVE  /\ Len(p) + Len(digits) < size
              /\ ByZeros(flags) => (Len(p) + Excess((width - Len(sign)) - Len(p), Len(digits))) + Len(digits) < size
  BY <1>1, <1>11, <1>12
<1>13. CASE "LEFT" \in flags
  <2>1. ~ByZeros(flags) /\ flags \cap {"LEFT", "ZEROPAD"} # {"ZEROPAD"}
    BY <1>13 DEF ByZeros
  <2>2. field0 = (sp \o digits) \o pad
    BY <1>5, <1>7, <1>8, <1>13, <2>1, Zenon
  <2>3. sp \o digits = sign \o pd
    <3>1. Regroups(sign, p, digits)
      BY Regroup
    <3> QED
      BY <1>2, <1>11, <3>1 DEF Regroups
  <2>4. Fits((sign \o pd) \o pad, size)
    BY <1>6, <2>2, <2>3
  <2>5. Len(pd) < size
    BY <1>11, <2>4, Inside
  <2> QED
    BY <1>12, <2>1, <2>5
<1>14. CASE ByZeros(flags)
  <2>1. flags \cap {"LEFT", "ZEROPAD"} = {"ZEROPAD"} /\ "LEFT" \notin flags
    BY <1>14 DEF ByZeros
  <2>2. field0 = (sp \o zs) \o digits
    BY <1>5, <1>9, <1>10, <2>1, Zenon
  <2>3. PICK e \in Nat : e = IF n > 0 THEN n ELSE 0
    OBVIOUS
  <2>4. Len(zs) = e /\ Solid(zs)
    <3>1. CASE n > 0
      <4>1. e = n /\ Solid(Times(e, "0"))
        BY <2>3, <3>1, ZerosText
      <4> QED
        BY <1>9, <1>10, <2>3, <4>1
    <3>2. CASE ~(n > 0)
      <4>1. e = 0 /\ 0 \in Nat /\ n <= 0 /\ e <= 0
        BY <2>3, <3>2
      <4>2. Times(n, "0") = << >> /\ Times(e, "0") = << >> /\ Solid(Times(e, "0"))
        BY <4>1, ZerosText
      <4> QED
        BY <1>9, <1>10, <2>3, <4>2
    <3> QED
      BY <3>1, <3>2
  <2>5. PICK pz \in Texts : pz = p \o zs /\ Len(pz) = lp + e /\ Solid(pz)
    <3>1. p \o zs \in Texts /\ Len(p \o zs) = Len(p) + Len(zs)
      BY Joined
    <3>2. Solid(p \o zs)
      BY <2>4, SolidJoined
    <3> QED
      BY <1>1, <2>4, <3>1, <3>2
  <2>6. PICK pzd \in Texts : pzd = pz \o digits /\ Len(pzd) = (lp + e) + l /\ Solid(pzd)
    <3>1. pz \o digits \in Texts /\ Len(pz \o digits) = Len(pz) + Len(digits)
      BY Joined
    <3>2. Solid(pz \o digits)
      BY <2>5, SolidJoined
    <3> QED
      BY <1>1, <2>5, <3>1, <3>2
  <2>7. field0 = (sign \o pzd) \o << >>
    <3>1. Regroups(sign, p, zs) /\ Regroups(sign, pz, digits)
      BY Regroup
    <3>2. field0 = sign \o pzd
      BY <1>2, <2>2, <2>5, <2>6, <3>1 DEF Regroups
    <3>3. PICK t \in Texts : t = sign \o pzd
      BY Joined
    <3>4. t \o << >> = t
      BY JoinedThree
    <3> QED
      BY <3>2, <3>3, <3>4
  <2>8. Len(pzd) < size
    BY <1>6, <2>6, <2>7, EmptyText, Inside
  <2>9. (lp + e) + l < size /\ lp + l < size
    BY <2>6, <2>8
  <2>10. Excess((width - Len(sign)) - Len(p), Len(digits)) = e
    BY <1>1, <1>3, <2>3 DEF Excess
  <2> QED
    BY <1>1, <2>9, <2>10
<1>15. CASE "LEFT" \notin flags /\ "ZEROPAD" \notin flags
  <2>1. ~ByZeros(flags) /\ flags \cap {"LEFT", "ZEROPAD"} # {"ZEROPAD"}
    BY <1>15 DEF ByZeros
  <2>2. field0 = (pad \o sp) \o digits
    BY <1>5, <1>7, <1>8, <1>15, <2>1, Zenon
  <2>3. PICK ps \in Texts : ps = pad \o sign
    BY Joined
  <2>4. field0 = (ps \o pd) \o << >>
    <3>1. Regroups(pad, sign, p) /\ Regroups(ps, p, digits)
      BY <2>3, Regroup
    <3>2. field0 = ps \o pd
      BY <1>2, <1>11, <2>2, <2>3, <3>1 DEF Regroups
    <3>3. PICK t \in Texts : t = ps \o pd
      BY Joined
    <3>4. t \o << >> = t
      BY JoinedThree
    <3> QED
      BY <3>2, <3>3, <3>4
  <2>5. Len(pd) < size
    BY <1>6, <1>11, <2>4, EmptyText, Inside
  <2> QED
    BY <1>12, <2>1, <2>5
<1> QED
  BY <1>13, <1>14, <1>15 DEF ByZeros

-----------------------------------------------------------------------------
(* The magnitude, the count of digits and the flags of a conversion.       *)

(* The value converted is the magnitude of the argument, which has a sign  *)
(* only where the conversion is of a signed type.                          *)
LEMMA SignedMagnitude ==
  ASSUME NEW arg \in Int, NEW type \in IntegerTypes
  PROVE  Signed(arg, type) < 0 => Unsigned(0 - Signed(arg, type), type) = -Signed(arg, type)
<1>1. PICK b \in Nat : b = Bits[type]
  BY TypeHasBits
<1>2. PICK m \in Nat \ {0} : m = Power(2, b)
  <2>1. 2 \in Nat \ {0}
    OBVIOUS
  <2> QED
    BY <2>1, PowerPositive
<1>3. PICK u \in 0 .. m - 1 : u = arg % m
  <2>1. arg % m \in 0 .. m - 1
    OBVIOUS
  <2> QED
    BY <2>1
<1>4. Unsigned(arg, type) = u
  BY <1>1, <1>2, <1>3 DEF Unsigned
<1>5. PICK v \in Int : v = Signed(arg, type) /\ v = IF 2 * u >= m THEN u - m ELSE u
  <2>1. Signed(arg, type) = IF 2 * u >= m THEN u - m ELSE u
    BY <1>1, <1>2, <1>4 DEF Signed
  <2>2. (IF 2 * u >= m THEN u - m ELSE u) \in Int
    OBVIOUS
  <2> QED
    BY <2>1, <2>2
<1>6. ASSUME v < 0 PROVE Unsigned(0 - v, type) = -v
  <2>1. PICK x \in 0 .. m - 1 : x = 0 - v /\ x = -v
    BY <1>5, <1>6
  <2>2. x % m = x
    OBVIOUS
  <2> QED
    BY <1>1, <1>2, <2>1, <2>2 DEF Unsigned
<1> QED
  BY <1>5, <1>6

(* As many digits are written as the number has, or one.                   *)
LEMMA ReversedAll ==
  ASSUME NEW n \in Nat, NEW base \in 2 .. 16, NEW room \in Nat \ {0}, NEW flags, NEW l \in Nat,
         l = IF n = 0 THEN 1 ELSE Places(n, base), l < room
  PROVE  Reversed(n, base, flags, room) = LastDigits(l, n, base, flags)
<1>0. base \in Nat /\ base >= 2 /\ base \in Int /\ n \in Int
  OBVIOUS
<1>1. PICK k \in 1 .. room : Count(k, n, base, room) /\ Reversed(n, base, flags, room) = LastDigits(k, n, base, flags)
  BY <1>0, ReversedIs
<1>2. n < Power(base, l) /\ \A j \in 1 .. l - 1 : n >= Power(base, j)
  <2>1. CASE n = 0
    <3>1. l = 1 /\ 1 \in Nat
      BY <2>1
    <3>2. Power(base, 1) > 1
      BY <1>0, <3>1, PowerGrows
    <3>3. Power(base, 1) \in Int
      BY <1>0, <3>1, PowerStep
    <3> QED
      BY <2>1, <3>1, <3>2, <3>3
  <2>2. CASE n # 0
    <3>1. l = Places(n, base)
      BY <2>2
    <3>2. n < Power(base, l) /\ \A j \in 0 .. l - 1 : n >= Power(base, j)
      BY <1>0, <3>1, PlacesIs
    <3> QED
      BY <3>2
  <2> QED
    BY <2>1, <2>2
<1>3. \A j \in Nat : Power(base, j) \in Int
  BY <1>0, PowerStep
<1>4. l >= 1
  <2>1. ASSUME l = 0 PROVE FALSE
    <3>1. n # 0 /\ n < 1
      BY <1>0, <1>2, <2>1, PowerStep
    <3> QED
      BY <3>1
  <2> QED
    BY <2>1
<1>5. k = l
  <2>1. ~(k < l)
    <3>1. SUFFICES ASSUME k < l PROVE FALSE
      OBVIOUS
    <3>2. k # room /\ k \in 1 .. l - 1 /\ k \in Nat
      BY <3>1
    <3>3. n < Power(base, k) /\ n >= Power(base, k)
      BY <1>1, <1>2, <3>2 DEF Count
    <3> QED
      BY <1>3, <3>2, <3>3
  <2>2. ~(k > l)
    <3>1. SUFFICES ASSUME k > l PROVE FALSE
      OBVIOUS
    <3>2. l \in 1 .. k - 1
      BY <1>4, <3>1
    <3>3. n >= Power(base, l) /\ n < Power(base, l)
      BY <1>1, <1>2, <3>2 DEF Count
    <3> QED
      BY <1>3, <3>3
  <2> QED
    BY <2>1, <2>2
<1> QED
  BY <1>1, <1>5

(* Without the flag # everything but the prefix is the same.               *)
LEMMA WithoutHash ==
  ASSUME NEW flags, NEW negative, NEW base
  PROVE  /\ HasSign(negative, flags \ {"HASH"}) <=> HasSign(negative, flags)
         /\ ByZeros(flags \ {"HASH"}) <=> ByZeros(flags)
         /\ StandardSign(negative, flags \ {"HASH"}) = StandardSign(negative, flags)
         /\ PrefixOf(base, flags \ {"HASH"}) = PrefixOf(base, flags)
         /\ \A sign, digits, width :
              StandardField(sign, digits, width, flags \ {"HASH"}) = StandardField(sign, digits, width, flags)
<1>1. PICK rest : rest = flags \ {"HASH"}
  OBVIOUS
<1>2. /\ \A f : f # "HASH" => (f \in rest <=> f \in flags)
      /\ rest \cap {"PLUS", "SPACE"} = flags \cap {"PLUS", "SPACE"}
      /\ rest \cap {"LEFT", "ZEROPAD"} = flags \cap {"LEFT", "ZEROPAD"}
  BY <1>1
<1>3. ("LEFT" \in rest <=> "LEFT" \in flags) /\ ("ZEROPAD" \in rest <=> "ZEROPAD" \in flags)
      /\ ("PLUS" \in rest <=> "PLUS" \in flags) /\ ("SPACE" \in rest <=> "SPACE" \in flags)
      /\ ("UPPERCASE" \in rest <=> "UPPERCASE" \in flags)
  BY <1>1
<1>4. HasSign(negative, rest) <=> HasSign(negative, flags)
  BY <1>3 DEF HasSign
<1>5. ByZeros(rest) <=> ByZeros(flags)
  BY <1>3 DEF ByZeros
<1>6. StandardSign(negative, rest) = StandardSign(negative, flags)
  BY <1>2, <1>3, Zenon DEF StandardSign
<1>7. PrefixOf(base, rest) = PrefixOf(base, flags)
  BY <1>3, Zenon DEF PrefixOf
<1>8. ASSUME NEW sign, NEW digits, NEW width
      PROVE  StandardField(sign, digits, width, rest) = StandardField(sign, digits, width, flags)
  BY <1>2, <1>3, Zenon DEF StandardField
<1> QED
  BY <1>1, <1>4, <1>5, <1>6, <1>7, <1>8, Zenon

(* What is left of the flags at an integer conversion.                     *)
LEMMA IntegerFlagsAre ==
  ASSUME NEW d
  PROVE  /\ "LEFT" \in IntegerFlags(d) <=> "LEFT" \in d.flags
         /\ "PRECISION" \in IntegerFlags(d) <=> "PRECISION" \in d.flags
         /\ "PRECISION" \in IntegerFlags(d) => "ZEROPAD" \notin IntegerFlags(d)
         /\ "HASH" \in IntegerFlags(d) => Base(d.specifier) # 10
         /\ d.specifier \notin {"i", "d"} => "PLUS" \notin IntegerFlags(d) /\ "SPACE" \notin IntegerFlags(d)
         /\ "UPPERCASE" \notin d.flags => ("UPPERCASE" \in IntegerFlags(d) <=> d.specifier = "X")
<1>1. PICK more : more = IF d.specifier = "X" THEN {"UPPERCASE"} ELSE {}
  OBVIOUS
<1>2. PICK hash : hash = IF Base(d.specifier) = 10 THEN {"HASH"} ELSE {}
  OBVIOUS
<1>3. PICK sign : sign = IF d.specifier \in {"i", "d"} THEN {} ELSE {"PLUS", "SPACE"}
  OBVIOUS
<1>4. PICK zero : zero = IF "PRECISION" \in d.flags THEN {"ZEROPAD"} ELSE {}
  OBVIOUS
<1>5. IntegerFlags(d) = (d.flags \cup more) \ (hash \cup sign \cup zero)
  BY <1>1, <1>2, <1>3, <1>4 DEF IntegerFlags
<1>6. "LEFT" \notin hash \cup sign \cup zero /\ "LEFT" \notin more
  BY <1>1, <1>2, <1>3, <1>4
<1>7. "PRECISION" \notin hash \cup sign \cup zero /\ "PRECISION" \notin more
  BY <1>1, <1>2, <1>3, <1>4
<1>8. "UPPERCASE" \notin hash \cup sign \cup zero /\ ("UPPERCASE" \in more <=> d.specifier = "X")
  BY <1>1, <1>2, <1>3, <1>4
<1>9. "LEFT" \in IntegerFlags(d) <=> "LEFT" \in d.flags
  BY <1>5, <1>6
<1>10. "PRECISION" \in IntegerFlags(d) <=> "PRECISION" \in d.flags
  BY <1>5, <1>7
<1>11. "PRECISION" \in IntegerFlags(d) => "ZEROPAD" \notin IntegerFlags(d)
  BY <1>4, <1>5, <1>10
<1>12. "HASH" \in IntegerFlags(d) => Base(d.specifier) # 10
  BY <1>2, <1>5
<1>13. d.specifier \notin {"i", "d"} => "PLUS" \notin IntegerFlags(d) /\ "SPACE" \notin IntegerFlags(d)
  BY <1>3, <1>5
<1>14. "UPPERCASE" \notin d.flags => ("UPPERCASE" \in IntegerFlags(d) <=> d.specifier = "X")
  BY <1>5, <1>8
<1> QED
  BY <1>9, <1>10, <1>11, <1>12, <1>13, <1>14

-----------------------------------------------------------------------------
(* The text of the standard, part by part.                                 *)

(* A prefix is text, without a space.                                      *)
LEMMA PrefixText ==
  ASSUME NEW base, NEW flags
  PROVE  PrefixOf(base, flags) \in Texts /\ Solid(PrefixOf(base, flags))
<1>1. << >> \in Texts /\ Len(<< >>) = 0 /\ 2 \in Int
  BY EmptyText
<1>2. "0" \in Characters /\ "x" \in Characters /\ "X" \in Characters /\ "b" \in Characters
  BY OwnCharacters
<1>3. PrefixOf(base, flags) \in Texts /\ (Len(PrefixOf(base, flags)) = 1 \/ Len(PrefixOf(base, flags)) = 2)
  <2>1. CASE base = 16
    <3>1. PICK c \in Characters, zero \in Characters : zero = "0" /\ c = IF "UPPERCASE" \in flags THEN "X" ELSE "x"
      BY <1>2
    <3>2. PrefixOf(base, flags) = << zero, c >>
      BY <2>1, <3>1 DEF PrefixOf
    <3> QED
      BY <1>1, <3>2, TwoCharacters
  <2>2. CASE base = 2
    <3>1. PICK c \in Characters, zero \in Characters : zero = "0" /\ c = "b"
      BY <1>2
    <3>2. PrefixOf(base, flags) = << zero, c >>
      BY <2>2, <3>1 DEF PrefixOf
    <3> QED
      BY <1>1, <3>2, TwoCharacters
  <2>3. CASE base \notin {2, 16}
    <3>1. PICK zero \in Characters : zero = "0"
      BY <1>2
    <3>2. PrefixOf(base, flags) = << zero >>
      BY <2>3, <3>1 DEF PrefixOf
    <3> QED
      BY <3>2, OneCharacters
  <2> QED
    BY <2>1, <2>2, <2>3
<1>4. PICK empty \in Texts : empty = << >> /\ Len(empty) = 0
  BY <1>1
<1>5. Len(empty) + Len(PrefixOf(base, flags)) <= 2
  <2>1. PICK k \in 1 .. 2 : k = Len(PrefixOf(base, flags))
    BY <1>3
  <2>2. 0 + k <= 2
    OBVIOUS
  <2> QED
    BY <1>4, <2>1, <2>2
<1>6. PICK p \in Texts : Prefixed(p, empty, base, flags, 2)
  BY <1>1, <1>5, BasePrefixIs
<1> QED
  BY <1>3, <1>6 DEF Prefixed

(* The sign of the standard is text.                                       *)
LEMMA StandardSignText ==
  ASSUME NEW negative \in BOOLEAN, NEW flags
  PROVE  \E sign \in Texts : sign = StandardSign(negative, flags) /\ Len(sign) = IF HasSign(negative, flags) THEN 1 ELSE 0
<1>1. PICK empty \in Texts : empty = << >> /\ Len(empty) = 0
  BY EmptyText
<1>2. 1 \in Int /\ Len(empty) < 1
  BY <1>1
<1> QED
  BY <1>2, NumberSign

\* The value of an argument, and its text by the standard.
ArgumentOf(d, arg) == IF d.specifier \in {"i", "d"} THEN Signed(arg, d.type) ELSE Unsigned(arg, d.type)
PrefixFor(d, flags, n) ==
  IF "HASH" \notin flags \/ n = 0 THEN <<>>
  ELSE CASE Base(d.specifier) = 16 -> <<"0", IF d.specifier = "X" THEN "X" ELSE "x">>
         [] Base(d.specifier) = 2 -> <<"0", "b">> [] OTHER -> <<"0">>
StandardText(d, flags, negative, n) ==
  StandardField(StandardSign(negative, flags) \o PrefixFor(d, flags, n),
                Numeral(n, Base(d.specifier), IF "PRECISION" \in flags THEN d.precision ELSE 1, flags), d.width, flags)
Standard(d, arg, text) ==
  LET v == ArgumentOf(d, arg)
      n == IF v < 0 THEN -v ELSE v
      flags == IntegerFlags(d)
  IN Fits(StandardText(d, flags, v < 0, n), PRINTF_NTOA_BUFFER_SIZE)
       /\ ~Departs(d, flags, Places(n, Base(d.specifier)), Base(d.specifier))
       => text = StandardText(d, flags, v < 0, n)

\* A directive as the parser leaves it.
ReadDirective(d) ==
  IsDirective(d) /\ "UPPERCASE" \notin d.flags /\ ("PRECISION" \notin d.flags => d.precision = 0)

(* The value of an argument has a magnitude, which is what is converted,   *)
(* and a sign only where its type has one.                                 *)
LEMMA ValueIs ==
  ASSUME NEW d, ReadDirective(d), NEW arg \in Int
  PROVE  \E v \in Int, n \in Nat :
           /\ v = ArgumentOf(d, arg) /\ n = IF v < 0 THEN -v ELSE v
           /\ n = IF v < 0 THEN Unsigned(0 - v, d.type) ELSE v
           /\ v < 0 => d.specifier \in {"i", "d"}
<1>1. PICK type \in IntegerTypes : type = d.type
  BY DEF ReadDirective, IsDirective
<1>2. CASE d.specifier \in {"i", "d"}
  <2>1. PICK v \in Int : v = Signed(arg, type)
    BY IntegerArgument
  <2>2. ArgumentOf(d, arg) = v
    BY <1>1, <1>2, <2>1 DEF ArgumentOf
  <2>3. PICK n \in Nat : n = IF v < 0 THEN -v ELSE v
    OBVIOUS
  <2>4. v < 0 => Unsigned(0 - v, type) = -v
    BY <2>1, SignedMagnitude
  <2>5. n = IF v < 0 THEN Unsigned(0 - v, type) ELSE v
    BY <2>3, <2>4
  <2> QED
    BY <1>1, <1>2, <2>2, <2>3, <2>5
<1>3. CASE d.specifier \notin {"i", "d"}
  <2>1. PICK v \in Nat : v = Unsigned(arg, type)
    BY IntegerArgument
  <2>2. ArgumentOf(d, arg) = v
    BY <1>1, <1>3, <2>1 DEF ArgumentOf
  <2>3. ~(v < 0) /\ v \in Int
    OBVIOUS
  <2> QED
    BY <2>2, <2>3
<1> QED
  BY <1>2, <1>3

(* The prefix of the standard is the one that the conversion puts.         *)
LEMMA PrefixForIs ==
  ASSUME NEW d, ReadDirective(d), NEW n
  PROVE  PrefixFor(d, IntegerFlags(d), n)
           = IF "HASH" \in IntegerFlags(d) /\ n # 0 THEN PrefixOf(Base(d.specifier), IntegerFlags(d)) ELSE << >>
<1>1. "UPPERCASE" \in IntegerFlags(d) <=> d.specifier = "X"
  BY IntegerFlagsAre DEF ReadDirective
<1>2. PICK flags : flags = IntegerFlags(d)
  OBVIOUS
<1>3. PrefixOf(Base(d.specifier), flags)
        = CASE Base(d.specifier) = 16 -> <<"0", IF d.specifier = "X" THEN "X" ELSE "x">>
            [] Base(d.specifier) = 2 -> <<"0", "b">> [] OTHER -> <<"0">>
  BY <1>1, <1>2, Zenon DEF PrefixOf
<1> QED
  BY <1>2, <1>3, Zenon DEF PrefixFor

-----------------------------------------------------------------------------
(* An integer conversion gives the text of the standard.                   *)

(* How many digits are written: those the number has, one of a 0, none of  *)
(* a 0 whose precision is asked for; the rest is asked for by it.          *)
DigitsWritten(n, base, flags) ==
  IF n = 0 THEN IF "PRECISION" \in flags THEN 0 ELSE 1 ELSE Places(n, base)

Writes(n, base, flags, prec, p, l, z) ==
  /\ p = Places(n, base) /\ l = DigitsWritten(n, base, flags) /\ z = Excess(prec, l)
  /\ p <= l /\ n < Power(base, l) /\ (n # 0 => l = p /\ l >= 1)
  /\ Numeral(n, base, IF "PRECISION" \in flags THEN prec ELSE 1, flags) = DigitsOf(n, base, l + z, flags)

(* So the numeral of the standard is that of the digits written.           *)
LEMMA DigitsWrittenIs ==
  ASSUME NEW d, ReadDirective(d), NEW n \in Nat, NEW base \in 2 .. 16, NEW flags, flags = IntegerFlags(d)
  PROVE  \E p \in Nat, l \in Nat, z \in Nat : Writes(n, base, flags, d.precision, p, l, z)
<1>0. base \in Nat /\ base >= 2 /\ base \in Int
  OBVIOUS
<1>1. PICK p \in Nat : p = Places(n, base) /\ n < Power(base, p) /\ \A j \in 0 .. p - 1 : n >= Power(base, j)
  BY <1>0, PlacesIs
<1>2. PICK prec \in Nat : prec = d.precision
  BY DEF ReadDirective, IsDirective
<1>3. ("PRECISION" \in flags <=> "PRECISION" \in d.flags) /\ ("PRECISION" \notin flags => prec = 0)
  BY <1>2, IntegerFlagsAre DEF ReadDirective
<1>4. Power(base, 0) = 1 /\ Power(base, 1) \in Int /\ Power(base, 1) > 1
  <2>1. 0 \in Nat /\ 1 \in Nat
    OBVIOUS
  <2> QED
    BY <1>0, <2>1, PowerStep, PowerGrows
<1>5. n = 0 => p = 0
  <2>1. SUFFICES ASSUME n = 0, p # 0 PROVE FALSE
    OBVIOUS
  <2>2. 0 \in 0 .. p - 1
    BY <2>1
  <2>3. n >= 1
    BY <1>1, <1>4, <2>2
  <2> QED
    BY <2>1, <2>3
<1>6. n # 0 => p >= 1
  <2>1. SUFFICES ASSUME n # 0, p = 0 PROVE FALSE
    OBVIOUS
  <2>2. n < 1
    BY <1>1, <1>4, <2>1
  <2> QED
    BY <2>1, <2>2
<1>7. PICK l \in Nat : l = DigitsWritten(n, base, flags) /\ l = IF n = 0 THEN IF "PRECISION" \in flags THEN 0 ELSE 1 ELSE p
  BY <1>1 DEF DigitsWritten
<1>8. n < Power(base, l)
  <2>1. CASE n # 0
    BY <1>1, <1>7, <2>1
  <2>2. CASE n = 0
    <3>1. l = 0 \/ l = 1
      BY <1>7, <2>2
    <3> QED
      BY <1>4, <2>2, <3>1
  <2> QED
    BY <2>1, <2>2
<1>9. PICK z \in Nat : z = Excess(prec, l) /\ z = IF prec > l THEN prec - l ELSE 0
  <2>1. Excess(prec, l) = IF prec > l THEN prec - l ELSE 0
    BY DEF Excess
  <2>2. (IF prec > l THEN prec - l ELSE 0) \in Nat
    OBVIOUS
  <2> QED
    BY <2>1, <2>2
<1>10. PICK least \in Nat : least = IF "PRECISION" \in flags THEN prec ELSE 1
  OBVIOUS
<1>11. l + z = IF p < least THEN least ELSE p
  <2>1. CASE "PRECISION" \in flags
    <3>1. least = prec /\ l = p
      BY <1>5, <1>7, <1>10, <2>1
    <3> QED
      BY <1>9, <3>1
  <2>2. CASE "PRECISION" \notin flags
    <3>1. least = 1 /\ prec = 0 /\ z = 0
      BY <1>3, <1>9, <1>10, <2>2
    <3>2. CASE n = 0
      <4>1. l = 1 /\ p = 0
        BY <1>5, <1>7, <2>2, <3>2
      <4> QED
        BY <3>1, <4>1
    <3>3. CASE n # 0
      <4>1. l = p /\ p >= 1
        BY <1>6, <1>7, <3>3
      <4> QED
        BY <3>1, <4>1
    <3> QED
      BY <3>2, <3>3
  <2> QED
    BY <2>1, <2>2
<1>12. Numeral(n, base, least, flags) = DigitsOf(n, base, l + z, flags)
  <2>1. PICK m : m = IF p < least THEN least ELSE p
    OBVIOUS
  <2>2. Numeral(n, base, least, flags) = [i \in 1 .. m |-> HexDigits(flags)[((n \div Power(base, m - i)) % base) + 1]]
    BY <1>1, <2>1 DEF Numeral
  <2> QED
    BY <1>11, <2>1, <2>2 DEF DigitsOf
<1>13. p <= l /\ (n # 0 => l = p /\ l >= 1)
  BY <1>5, <1>6, <1>7
<1>14. Writes(n, base, flags, d.precision, p, l, z)
  BY <1>1, <1>2, <1>7, <1>8, <1>9, <1>10, <1>12, <1>13, Zenon DEF Writes
<1> QED
  BY <1>14

(* No digits are the empty text.                                           *)
LEMMA NoDigits == ASSUME NEW n \in Nat, NEW base \in 2 .. 16, NEW flags PROVE LastDigits(0, n, base, flags) = << >>
<1>1. LastDigits(0, n, base, flags) \in Texts /\ Len(LastDigits(0, n, base, flags)) = 0
  <2>1. 0 \in Nat
    OBVIOUS
  <2> QED
    BY <2>1, LastDigitsText
<1> QED
  BY <1>1, EmptySeq DEF Texts

(* Where the conversion buffer holds the text of the standard, and none of *)
(* the departures applies, that is the text that is printed.               *)
LEMMA IntegerIsStandardFor ==
  ASSUME NEW d, ReadDirective(d), NEW arg \in Int
  PROVE  Standard(d, arg, IntegerText(d, arg))
<1>1. PICK v \in Int, n \in Nat :
           /\ v = ArgumentOf(d, arg) /\ n = IF v < 0 THEN -v ELSE v
           /\ n = IF v < 0 THEN Unsigned(0 - v, d.type) ELSE v
           /\ v < 0 => d.specifier \in {"i", "d"}
  BY ValueIs
<1>2. PICK prec \in Nat, width \in Nat : prec = d.precision /\ width = d.width
  BY DEF ReadDirective, IsDirective
<1>3. PICK base \in {2, 8, 10, 16} : base = Base(d.specifier)
  BY BaseIs
<1>4. PICK flags : flags = IntegerFlags(d)
  OBVIOUS
<1>5. PICK negative \in BOOLEAN : negative <=> v < 0
  OBVIOUS
<1>6. PICK size \in Nat \ {0} : size = PRINTF_NTOA_BUFFER_SIZE
  BY BufferSizes
<1>7. base \in 2 .. 16
  OBVIOUS
<1>8. PICK p \in Nat, l \in Nat, least \in Nat : Writes(n, base, flags, d.precision, p, l, least)
  BY <1>4, <1>7, DigitsWrittenIs
<1>9. /\ p = Places(n, base) /\ l = DigitsWritten(n, base, flags) /\ least = Excess(prec, l)
      /\ p <= l /\ n < Power(base, l) /\ (n # 0 => l = p /\ l >= 1)
      /\ Numeral(n, base, IF "PRECISION" \in flags THEN d.precision ELSE 1, flags) = DigitsOf(n, base, l + least, flags)
  BY <1>2, <1>8, Zenon DEF Writes
<1>10. PICK last \in Texts : last = LastDigits(l, n, base, flags) /\ Len(last) = l
  BY <1>7, LastDigitsText
<1>11. PICK ds \in Texts :
         /\ ds = DigitsOf(n, base, l + least, flags) /\ Len(ds) = l + least /\ Solid(ds)
         /\ ds = Times(least, "0") \o Reverse(last)
  <2>1. n < Power(base, l)
    BY <1>9
  <2>2. /\ DigitsOf(n, base, l + least, flags) = Times(least, "0") \o Reverse(LastDigits(l, n, base, flags))
        /\ DigitsOf(n, base, l + least, flags) \in Texts
        /\ Len(DigitsOf(n, base, l + least, flags)) = l + least
        /\ Solid(DigitsOf(n, base, l + least, flags))
    BY <1>7, <2>1, DigitsOfIs
  <2> QED
    BY <1>10, <2>2
<1>12. PICK prefix \in Texts : /\ prefix = IF "HASH" \in flags /\ n # 0 THEN PrefixOf(base, flags) ELSE << >>
                               /\ Solid(prefix)
  <2>1. << >> \in Texts /\ Solid(<< >>)
    <3>1. PICK empty \in Texts : empty = << >> /\ Len(empty) = 0
      BY EmptyText
    <3>2. 1 .. 0 = {}
      OBVIOUS
    <3>3. Solid(empty)
      BY <3>1, <3>2, Zenon DEF Solid
    <3> QED
      BY <3>1, <3>3
  <2> QED
    BY <2>1, PrefixText
<1>13. PICK text : text = StandardField(StandardSign(negative, flags) \o prefix, ds, width, flags)
  OBVIOUS
<1>14. StandardText(d, flags, v < 0, n) = text
  <2>1. PrefixFor(d, flags, n) = prefix
    BY <1>3, <1>4, <1>12, PrefixForIs
  <2>2. (v < 0) = negative
    BY <1>5
  <2> QED
    BY <1>2, <1>3, <1>9, <1>11, <1>13, <2>1, <2>2 DEF StandardText
<1>15. PICK rest : rest = IF n = 0 THEN flags \ {"HASH"} ELSE flags
  OBVIOUS
<1>16. /\ HasSign(negative, rest) <=> HasSign(negative, flags)
       /\ ByZeros(rest) <=> ByZeros(flags)
       /\ StandardSign(negative, rest) = StandardSign(negative, flags)
       /\ PrefixOf(base, rest) = PrefixOf(base, flags)
       /\ \A sign, digits, w : StandardField(sign, digits, w, rest) = StandardField(sign, digits, w, flags)
  BY <1>15, WithoutHash
<1>17. ASSUME Fits(text, size), ~Departs(d, flags, p, base) PROVE IntegerText(d, arg) = text
  <2>1. PICK sign \in Texts : sign = StandardSign(negative, flags) /\ Len(sign) = IF HasSign(negative, flags) THEN 1 ELSE 0
    BY StandardSignText
  <2>2. PICK lp \in Nat : lp = Len(prefix)
    BY TextLen
  <2>3. /\ Len(prefix) + Len(ds) < size
        /\ ByZeros(flags) => (Len(prefix) + Excess((width - Len(sign)) - Len(prefix), Len(ds))) + Len(ds) < size
    <3>1. Fits(StandardField(sign \o prefix, ds, width, flags), size) /\ size \in Int
      BY <1>13, <1>17, <2>1
    <3> QED
      BY <1>11, <1>12, <3>1, FitsIs
  <2>4. PICK s \in Nat : s = Len(sign)
    BY TextLen
  <2>5. l < size
    BY <1>11, <2>2, <2>3
  <2>6. (IF n = 0 /\ "PRECISION" \in flags THEN << >> ELSE Reversed(n, base, flags, size)) = last
    <3>1. CASE n = 0 /\ "PRECISION" \in flags
      <4>1. l = 0
        BY <1>9, <3>1 DEF DigitsWritten
      <4> QED
        BY <1>7, <1>10, <3>1, <4>1, NoDigits
    <3>2. CASE ~(n = 0 /\ "PRECISION" \in flags)
      <4>1. l = IF n = 0 THEN 1 ELSE Places(n, base)
        BY <1>9, <3>2 DEF DigitsWritten
      <4>2. Reversed(n, base, flags, size) = last
        BY <1>7, <1>10, <2>5, <4>1, ReversedAll
      <4> QED
        BY <3>2, <4>2
    <3> QED
      BY <3>1, <3>2
  <2>7. IntegerText(d, arg) = _ntoa_format(last, negative, base, prec, width, rest)
    <3>1. (v < 0) = negative
      BY <1>5
    <3>2. IntegerText(d, arg) = _ntoa_long(n, negative, base, prec, width, flags)
      BY <1>1, <1>2, <1>3, <1>4, <3>1 DEF IntegerText, ArgumentOf
    <3>3. _ntoa_long(n, negative, base, prec, width, flags) = _ntoa_format(last, negative, base, prec, width, rest)
      BY <1>6, <1>15, <2>6 DEF _ntoa_long
    <3> QED
      BY <3>2, <3>3
  <2>8. PICK z \in Nat : /\ z = Padding(negative, width, Len(prefix), Len(last), least, rest)
                         /\ ~ByZeros(flags) => z = least
                         /\ ByZeros(flags) => z = Excess((width - Len(sign)) - Len(prefix), l)
    <3>1. Excess((width - Len(sign)) - Len(prefix), l) \in Nat
      <4>1. PICK a \in Int : a = (width - Len(sign)) - Len(prefix)
        <5>1. (width - Len(sign)) - Len(prefix) = (width - s) - lp /\ (width - s) - lp \in Int
          BY <2>2, <2>4
        <5> QED
          BY <5>1
      <4> QED
        BY <4>1 DEF Excess
    <3>2. Padding(negative, width, Len(prefix), Len(last), least, rest)
            = IF ByZeros(flags) THEN Excess((width - Len(sign)) - Len(prefix), l) ELSE least
      BY <1>10, <1>16, <2>1, Zenon DEF Padding
    <3> QED
      BY <3>1, <3>2
  <2>9. /\ "PRECISION" \notin flags => prec = 0
        /\ "PRECISION" \in flags => "ZEROPAD" \notin flags
        /\ "HASH" \in flags => base \in {2, 8, 16} /\ ~HasSign(negative, flags)
    <3>1. ("PRECISION" \in flags <=> "PRECISION" \in d.flags) /\ ("PRECISION" \in flags => "ZEROPAD" \notin flags)
      BY <1>4, IntegerFlagsAre
    <3>2. "PRECISION" \notin flags => prec = 0
      BY <1>2, <3>1 DEF ReadDirective
    <3>3. ASSUME "HASH" \in flags PROVE base \in {2, 8, 16} /\ ~HasSign(negative, flags)
      <4>1. base # 10
        BY <1>3, <1>4, <3>3, IntegerFlagsAre
      <4>2. d.specifier \notin {"i", "d"}
        BY <1>3, <4>1 DEF Base
      <4>3. "PLUS" \notin flags /\ "SPACE" \notin flags
        BY <1>4, <4>2, IntegerFlagsAre
      <4>4. ~negative
        BY <1>1, <1>5, <4>2
      <4> QED
        BY <4>1, <4>3, <4>4 DEF HasSign
    <3> QED
      BY <3>1, <3>2, <3>3
  <2>10. /\ "LEFT" \in flags => prec <= p
         /\ "HASH" \in flags => /\ "PRECISION" \notin flags => width # p
                                /\ "ZEROPAD" \in flags => base # 2 /\ width # p + 1
    BY <1>2, <1>17 DEF Departs
  <2>11. (Len(last) + z) + Len(prefix) < PRINTF_NTOA_BUFFER_SIZE
    <3>1. (l + z) + lp < size
      <4>1. CASE ~ByZeros(flags)
        <5>1. lp + (l + least) < size
          BY <1>11, <2>2, <2>3
        <5>2. z = least
          BY <2>8, <4>1
        <5> QED
          BY <5>1, <5>2
      <4>2. CASE ByZeros(flags)
        <5>1. prec = 0
          BY <2>9, <4>2 DEF ByZeros
        <5>2. least = 0
          BY <1>9, <5>1 DEF Excess
        <5>3. Len(ds) = l
          BY <1>11, <5>2
        <5>4. Excess((width - Len(sign)) - Len(prefix), l) = z
          BY <2>8, <4>2
        <5>5. (lp + z) + l < size
          BY <2>2, <2>3, <4>2, <5>3, <5>4
        <5> QED
          BY <5>5
      <4> QED
        BY <4>1, <4>2
    <3> QED
      BY <1>6, <1>10, <2>2, <3>1
  <2>12. ("HASH" \in rest <=> "HASH" \in flags /\ n # 0) /\ \A f : f # "HASH" => (f \in rest <=> f \in flags)
    BY <1>15
  <2>13. Formats(last, negative, base, prec, width, rest, prefix, least, z)
    <3>1. prefix = IF "HASH" \in rest THEN PrefixOf(base, rest) ELSE << >>
      BY <1>12, <1>16, <2>12, Zenon
    <3>2. /\ "PRECISION" \in rest <=> "PRECISION" \in flags
          /\ "ZEROPAD" \in rest <=> "ZEROPAD" \in flags
          /\ "LEFT" \in rest <=> "LEFT" \in flags
      BY <2>12
    <3>3. "LEFT" \in rest => prec <= Len(last)
      BY <1>10, <1>9, <2>10, <3>2
    <3>4. "HASH" \in rest =>
            /\ base \in {2, 8, 16} /\ ~HasSign(negative, rest) /\ Len(last) >= 1
            /\ "PRECISION" \notin rest => width # Len(last)
            /\ "ZEROPAD" \in rest => base # 2 /\ width # Len(last) + 1
      BY <1>10, <1>16, <1>9, <2>9, <2>10, <2>12, <3>2
    <3>5. least = Excess(prec, Len(last))
      BY <1>10, <1>9
    <3>6. ("PRECISION" \notin rest => prec = 0) /\ ("PRECISION" \in rest => "ZEROPAD" \notin rest)
      BY <2>9, <3>2
    <3>7. z = Padding(negative, width, Len(prefix), Len(last), least, rest)
      BY <2>8
    <3> QED
      BY <2>11, <3>1, <3>3, <3>4, <3>5, <3>6, <3>7, Zenon DEF Formats
  <2>14. _ntoa_format(last, negative, base, prec, width, rest)
           = StandardField(StandardSign(negative, rest) \o prefix, Times(least, "0") \o Reverse(last), width, rest)
    BY <2>13, FormatIs
  <2> QED
    BY <1>11, <1>13, <1>16, <2>7, <2>14
<1> QED
  BY <1>1, <1>3, <1>4, <1>6, <1>9, <1>14, <1>17 DEF Standard

-----------------------------------------------------------------------------
(* So does every directive of a call.                                      *)

(* A character of the flags is a flag, and none of the parser's own.       *)
LEMMA FlagIs == ASSUME NEW c \in DOMAIN FlagOf PROVE FlagOf[c] \notin {"UPPERCASE", "PRECISION"}
<1>1. PICK space : space = " "
  OBVIOUS
<1>2. FlagOf = [k \in {"0", "-", "+", space, "#"} |->
                 CASE k = "0" -> "ZEROPAD" [] k = "-" -> "LEFT" [] k = "+" -> "PLUS"
                   [] k = space -> "SPACE" [] k = "#" -> "HASH"]
  BY <1>1, Zenon DEF FlagOf
<1>3. c \in {"0", "-", "+", space, "#"}
  BY <1>2
<1>4. FlagOf[c] = CASE c = "0" -> "ZEROPAD" [] c = "-" -> "LEFT" [] c = "+" -> "PLUS"
                    [] c = space -> "SPACE" [] c = "#" -> "HASH"
  BY <1>2, <1>3
<1>5. FlagOf[c] \in {"ZEROPAD", "LEFT", "PLUS", "SPACE", "HASH"}
  BY <1>3, <1>4
<1> QED
  BY <1>5

(* The flags of a directive are those of its characters, and its precision *)
(* is 0 where there is none.                                               *)
LEMMA DirectiveParsed ==
  ASSUME ArgumentsFit, Running, At(format) = "%", format \in 1 .. Len(call.format) + 1
  PROVE  ReadDirective(Directive(format + 1))
<1>0. call.format \in Texts
  BY DEF ArgumentsFit, Texts
<1>1. PICK l \in Nat : l = Len(call.format)
  BY <1>0, TextLen
<1>2. PICK p \in Nat \ {0} : p = format + 1 /\ p <= l + 1
  <2>1. format \in Nat \ {0}
    BY <1>1
  <2>2. At(format) # NUL
    BY DEF NUL
  <2> QED
    BY <1>0, <1>1, <2>1, <2>2, AtIs
<1>3. PICK first \in p .. l + 1 : first = Past(p, DOMAIN FlagOf) /\ \A r \in p .. first - 1 : At(r) \in DOMAIN FlagOf
  <2>1. NUL \notin DOMAIN FlagOf
    BY DEF NUL, FlagOf
  <2> QED
    BY <1>0, <1>1, <1>2, <2>1, PastIs
<1>4. ASSUME NEW i \in p .. first - 1 PROVE FlagOf[call.format[i]] \notin {"UPPERCASE", "PRECISION"}
  <2>1. i <= Len(call.format)
    BY <1>1, <1>3
  <2>2. At(i) = call.format[i]
    BY <2>1 DEF At
  <2>3. call.format[i] \in DOMAIN FlagOf
    BY <1>3, <2>2
  <2> QED
    BY <2>3, FlagIs
<1> DEFINE flags == {FlagOf[call.format[i]] : i \in p .. first - 1}
<1>5. "UPPERCASE" \notin flags /\ "PRECISION" \notin flags
  BY <1>4
<1> HIDE DEF flags
<1>6. IsDirective(Directive(p))
  BY <1>2, DirectiveIs
<1>7. PICK w : w = Number(first, va)
  OBVIOUS
<1>8. PICK dot \in BOOLEAN : dot <=> At(w.at) = "."
  OBVIOUS
<1>9. PICK n : n = IF dot THEN Number(w.at + 1, w.args) ELSE [w EXCEPT !.value = 0]
  OBVIOUS
<1>10. /\ Directive(p).flags = flags \cup (IF w.value < 0 THEN {"LEFT"} ELSE {}) \cup (IF dot THEN {"PRECISION"} ELSE {})
       /\ Directive(p).precision = IF n.value > 0 THEN n.value ELSE 0
  BY <1>3, <1>7, <1>8, <1>9 DEF Directive, flags
<1>11. "UPPERCASE" \notin Directive(p).flags
  BY <1>5, <1>10
<1>12. ASSUME "PRECISION" \notin Directive(p).flags PROVE Directive(p).precision = 0
  <2>1. ~dot
    BY <1>10, <1>12
  <2>2. n = [w EXCEPT !.value = 0] /\ w = [value |-> w.value, at |-> w.at, args |-> w.args]
    BY <1>7, <1>9, <2>1 DEF Number
  <2>3. n.value = 0
    BY <2>2
  <2> QED
    BY <1>10, <2>3
<1> QED
  BY <1>2, <1>6, <1>11, <1>12 DEF ReadDirective

(* The property is about the field of an integer conversion.               *)
LEMMA StandardOfField ==
  ASSUME NEW d, NEW arg, NEW text, Standard(d, arg, text), field' = {[d |-> d, arg |-> arg, text |-> text]}
  PROVE  IntegerIsStandard'
<1>1. PICK g : g = [d |-> d, arg |-> arg, text |-> text]
  OBVIOUS
<1>2. g.d = d /\ g.arg = arg /\ g.text = text /\ field' = {g}
  BY <1>1
<1>3. \A f \in field' : Standard(f.d, f.arg, f.text)
  BY <1>2
<1> QED
  BY <1>3, Zenon DEF IntegerIsStandard, Standard, StandardText, PrefixFor, ArgumentOf

(* An integer conversion leaves a field that is the standard's; the other  *)
(* conversions leave one of another kind, and the other steps none.        *)
LEMMA StandardKept ==
  ASSUME TypeOK, IntegerIsStandard, ArgumentsFit, [Next]_vars
  PROVE  IntegerIsStandard'
<1>1. CASE IntegerConversion
  <2> DEFINE S == {"d", "i", "u", "x", "X", "o", "b"}
  <2>1. PICK d, arg : Converts(S, d, arg, IntegerText(d, arg))
    BY <1>1 DEF IntegerConversion, Convert, Converts
  <2>2. format \in 1 .. Len(call.format) + 1
    BY DEF TypeOK
  <2>3. ReadDirective(d) /\ arg \in Int
    BY <2>1, <2>2, DirectiveParsed DEF Converts, ArgumentsFit
  <2>4. Standard(d, arg, IntegerText(d, arg))
    BY <2>3, IntegerIsStandardFor
  <2>5. field' = {[d |-> d, arg |-> arg, text |-> IntegerText(d, arg)]}
    BY <2>1 DEF Converts
  <2> QED
    BY <2>4, <2>5, StandardOfField
<1>2. ASSUME NEW S, S \cap {"d", "i", "u", "x", "X", "o", "b"} = {}, NEW d, NEW arg, NEW text, Converts(S, d, arg, text)
      PROVE  IntegerIsStandard'
  <2>1. field' = {[d |-> d, arg |-> arg, text |-> text]} /\ d.specifier \notin {"d", "i", "u", "x", "X", "o", "b"}
    BY <1>2 DEF Converts
  <2>2. \A f \in field' : f.d.specifier \notin {"d", "i", "u", "x", "X", "o", "b"}
    BY <2>1
  <2> QED
    BY <2>2, Zenon DEF IntegerIsStandard
<1>3. CASE FloatConversion \/ CharacterConversion \/ StringConversion \/ PointerConversion
  <2>1. \E S, d, arg, text : S \cap {"d", "i", "u", "x", "X", "o", "b"} = {} /\ Converts(S, d, arg, text)
    <3>1. CASE FloatConversion
      <4> DEFINE S == {"f", "F", "e", "E", "g", "G"}
      <4>1. PICK d, arg : Converts(S, d, arg, FloatText(d, arg))
        BY <3>1 DEF FloatConversion, Convert, Converts
      <4>2. S \cap {"d", "i", "u", "x", "X", "o", "b"} = {}
        OBVIOUS
      <4> HIDE DEF S
      <4> QED
        BY <4>1, <4>2
    <3>2. CASE CharacterConversion
      <4> DEFINE S == {"c"}
      <4>1. PICK d, arg : Converts(S, d, arg, Padded(<<arg>>, d))
        BY <3>2 DEF CharacterConversion, Convert, Converts
      <4>2. S \cap {"d", "i", "u", "x", "X", "o", "b"} = {}
        OBVIOUS
      <4> HIDE DEF S
      <4> QED
        BY <4>1, <4>2
    <3>3. CASE StringConversion
      <4> DEFINE S == {"s"}
      <4>1. PICK d, arg : Converts(S, d, arg, StringText(d, arg))
        BY <3>3 DEF StringConversion, Convert, Converts
      <4>2. S \cap {"d", "i", "u", "x", "X", "o", "b"} = {}
        OBVIOUS
      <4> HIDE DEF S
      <4> QED
        BY <4>1, <4>2
    <3>4. CASE PointerConversion
      <4> DEFINE S == {"p"}
      <4>1. PICK d, arg : Converts(S, d, arg, PointerText(d, arg))
        BY <3>4 DEF PointerConversion, Convert, Converts
      <4>2. S \cap {"d", "i", "u", "x", "X", "o", "b"} = {}
        OBVIOUS
      <4> HIDE DEF S
      <4> QED
        BY <4>1, <4>2
    <3> QED
      BY <1>3, <3>1, <3>2, <3>3, <3>4
  <2> QED
    BY <1>2, <2>1
<1>4. ASSUME UNCHANGED field PROVE IntegerIsStandard'
  BY <1>4, Zenon DEF IntegerIsStandard
<1>5. CASE printf_ \/ vprintf_ \/ sprintf_ \/ fctprintf \/ snprintf_ \/ vsnprintf_
  <2>1. UNCHANGED field
    BY <1>5 DEF printf_, vprintf_, sprintf_, fctprintf, snprintf_, vsnprintf_, Enter
  <2> QED
    BY <1>4, <2>1
<1>6. CASE OrdinaryCharacter \/ Literal \/ Termination \/ UNCHANGED vars
  <2>1. UNCHANGED field
    BY <1>6 DEF OrdinaryCharacter, Literal, Termination, vars
  <2> QED
    BY <1>4, <2>1
<1> QED
  BY <1>1, <1>3, <1>5, <1>6 DEF Next

(* At the call there is no field.                                          *)
LEMMA StandardInit == Init => IntegerIsStandard
<1>1. Init => field = {}
  BY DEF Init
<1>2. field = {} => IntegerIsStandard
  BY Zenon DEF IntegerIsStandard
<1> QED
  BY <1>1, <1>2

(* Every integer conversion, of every type and for every argument, prints  *)
(* the text of the C standard where the conversion buffer holds it and     *)
(* none of the listed departures applies (printf.c:199-326, 719-793).      *)
THEOREM IntegersAreStandard == Spec /\ []ArgumentsFit => []IntegerIsStandard
BY StandardInit, StandardKept, TypesHold, PTL DEF Spec
=============================================================================
