------------------------------- MODULE Printf -------------------------------
(***************************************************************************)
(* The formatted output of the kernel (include/printf.c): the parser of a  *)
(* format, the conversions, and the output functions that put the          *)
(* characters on the console, into a buffer or into a callback.            *)
(*                                                                         *)
(* One step handles one ordinary character or one whole directive.  A      *)
(* character is a one-letter string, a format a sequence of them, and      *)
(* At(Len(format) + 1) its terminator.  The conversions build a sequence   *)
(* where the code fills a buffer; the buffers' sizes and the widths of the *)
(* integer types are parameters, because what is hard happens at them.  A  *)
(* double is a fraction n/d, with d = 0 for NaN and the infinities; of its *)
(* arithmetic, the rounding of the product that yields the digits is kept. *)
(***************************************************************************)
EXTENDS Integers, Sequences, FiniteSets, SequencesExt

CONSTANTS
  Characters,                       \* the values of a char
  Families,                         \* the calls made, a set of sets of records
                                    \* [fct, null, count, format, args]
  Cells,                            \* size of the caller's buffer
  Bits,                             \* width of each integer type
  PRINTF_NTOA_BUFFER_SIZE, PRINTF_FTOA_BUFFER_SIZE,
  PRINTF_DEFAULT_FLOAT_PRECISION, PRINTF_MAX_FLOAT,
  FtoaDigits,                       \* the digits a fraction is computed to: 9
  DBL_MANT_DIG                      \* the bits of a double's significand: 53

\* b multiplied with itself, n times.
Power(b, n) == LET power[k \in 0 .. n] == IF k = 0 THEN 1 ELSE b * power[k - 1] IN power[n]

ASSUME PrintfAssumption ==
  /\ FtoaDigits \in Nat /\ PRINTF_DEFAULT_FLOAT_PRECISION \in Nat
  /\ DBL_MANT_DIG \in Nat \ {0} /\ PRINTF_MAX_FLOAT \in Nat /\ PRINTF_MAX_FLOAT >= 1000000
  /\ PRINTF_NTOA_BUFFER_SIZE \in Nat /\ PRINTF_NTOA_BUFFER_SIZE >= 4   \* an exponent fits
  /\ PRINTF_FTOA_BUFFER_SIZE \in Nat \ {0}

ASSUME BitsAssumption ==
  Bits \in [{"char", "short", "int", "long", "long long", "size_t"} -> Nat \ {0}]

\* No object is larger than a size_t can say.
ASSUME SizeAssumption == Cells \in Nat /\ Cells < Power(2, Bits["size_t"])

VARIABLES
  call,      \* the call and its arguments
  out,       \* the output function, "none" before the call
  format,    \* where the parser is in the call's format
  va,        \* the arguments not yet taken
  idx,       \* characters produced
  buffer,    \* the caller's buffer, NONE where nothing was written
  console,   \* what _putchar, or the callback, was given
  ret,       \* the value returned, NONE before the return
  sent,      \* history: every character produced
  field      \* history: the last directive with its argument and its text, if any

vars == <<call, out, format, va, idx, buffer, console, ret, sent, field>>

NUL == "NUL"
NONE == -1
Untouched == "untouched"

Lesser(a, b) == IF a < b THEN a ELSE b
Times(n, c) == [i \in 1 .. n |-> c]
SIZE_MAX == Power(2, Bits["size_t"]) - 1
maxlen == IF call.fct \in {"snprintf_", "vsnprintf_"} THEN call.count ELSE SIZE_MAX
Unsigned(v, type) == v % Power(2, Bits[type])
Signed(v, type) == LET u == Unsigned(v, type)
                   IN IF 2 * u >= Power(2, Bits[type]) THEN u - Power(2, Bits[type]) ELSE u

-----------------------------------------------------------------------------
(* The parser of a directive. *)

Digits == <<"0", "1", "2", "3", "4", "5", "6", "7", "8", "9">>
_is_digit == Range(Digits)

\* The characters of printf's own are characters.
ASSUME CharactersAssumption ==
  _is_digit \cup {NUL, " ", "+", "-", ".", "x", "X", "n", "i"}
    \cup {"a", "b", "c", "d", "e", "f"} \cup {"A", "B", "C", "D", "E", "F"} \subseteq Characters

FlagOf == [c \in {"0", "-", "+", " ", "#"} |->
             CASE c = "0" -> "ZEROPAD" [] c = "-" -> "LEFT" [] c = "+" -> "PLUS"
               [] c = " " -> "SPACE" [] c = "#" -> "HASH"]

At(p) == IF p <= Len(call.format) THEN call.format[p] ELSE NUL

\* The first position from p on whose character is not one of S.
Past(p, S) == CHOOSE q \in p .. Len(call.format) + 1 :
                At(q) \notin S /\ \A r \in p .. q - 1 : At(r) \in S

Digit(c) == CHOOSE d \in 0 .. 9 : Digits[d + 1] = c
_atoi(p) ==
  LET i[q \in p .. Past(p, _is_digit)] ==
        IF q = p THEN 0 ELSE Unsigned(10 * i[q - 1] + Digit(At(q - 1)), "int")
  IN  i[Past(p, _is_digit)]

\* A width or a precision at p: its digits, or the next argument for a star.
Number(p, args) ==
  IF At(p) = "*" THEN [value |-> Signed(Head(args), "int"), at |-> p + 1, args |-> Tail(args)]
                 ELSE [value |-> _atoi(p), at |-> Past(p, _is_digit), args |-> args]

\* The length field at p: how far it goes and the type it stands for.
Greedy_LengthEnd(p) == IF At(p) \in {"l", "h"} THEN p + 2 ELSE p
LengthEnd(p) == CASE At(p) \in {"l", "h"} -> IF At(p + 1) = At(p) THEN p + 2 ELSE p + 1
                  [] At(p) \in {"t", "j", "z"} -> p + 1
                  [] OTHER -> p
LengthType(p) == CASE At(p) = "l" -> IF At(p + 1) = "l" THEN "long long" ELSE "long"
                   [] At(p) = "h" -> IF At(p + 1) = "h" THEN "char" ELSE "short"
                   [] At(p) \in {"t", "j", "z"} -> "long"
                   [] OTHER -> "int"

\* The directive whose '%' is at p - 1: its flags, width, precision, type and
\* specifier, where the format goes on and the arguments left.
Directive(p) ==
  LET w == Number(Past(p, DOMAIN FlagOf), va)
      dot == At(w.at) = "."
      n == IF dot THEN Number(w.at + 1, w.args) ELSE [w EXCEPT !.value = 0]
  IN [flags |-> {FlagOf[call.format[i]] : i \in p .. Past(p, DOMAIN FlagOf) - 1}
                  \cup (IF w.value < 0 THEN {"LEFT"} ELSE {})
                  \cup (IF dot THEN {"PRECISION"} ELSE {}),
      width |-> IF w.value < 0 THEN -w.value ELSE w.value,
      precision |-> IF n.value > 0 THEN n.value ELSE 0,
      type |-> LengthType(n.at),
      specifier |-> At(LengthEnd(n.at)),
      next |-> LengthEnd(n.at) + 1,
      args |-> n.args]

-----------------------------------------------------------------------------
(* Text from a conversion buffer, which holds its characters in reverse. *)

Leading_out_rev(buf, width, flags) ==
  (IF flags \cap {"LEFT", "ZEROPAD"} = {} THEN Times(width - Len(buf), " ") ELSE <<>>) \o Reverse(buf)
_out_rev(buf, width, flags) ==
  LET pad == Times(width - Len(buf), " ")
  IN (IF flags \cap {"LEFT", "ZEROPAD"} = {} THEN pad ELSE <<>>)
       \o Reverse(buf) \o (IF "LEFT" \in flags THEN pad ELSE <<>>)

\* c once more, and c up to n characters, as far as the buffer goes.
Put(buf, c, size) == IF Len(buf) < size THEN Append(buf, c) ELSE buf
Fill(buf, c, n, size) == buf \o Times(Lesser(n, size) - Len(buf), c)

HexDigits(flags) == Digits \o IF "UPPERCASE" \in flags THEN <<"A", "B", "C", "D", "E", "F">>
                                                       ELSE <<"a", "b", "c", "d", "e", "f">>

\* The digits of value, the last one first, as many as there is room for.
Reversed(value, base, flags, room) ==
  LET n == CHOOSE k \in 1 .. room : /\ k = room \/ value < Power(base, k)
                                    /\ \A j \in 1 .. k - 1 : value >= Power(base, j)
  IN [i \in 1 .. n |-> HexDigits(flags)[((value \div Power(base, i - 1)) % base) + 1]]

Sign(buf, negative, flags, size) ==
  CASE negative -> Put(buf, "-", size)
    [] ~negative /\ "PLUS" \in flags -> Put(buf, "+", size)
    [] ~negative /\ flags \cap {"PLUS", "SPACE"} = {"SPACE"} -> Put(buf, " ", size)
    [] OTHER -> buf

\* One column of the zero padding is the sign's.
Unreserved_SignedWidth(width, negative, flags) == width
SignedWidth(width, negative, flags) ==
  IF /\ width > 0 /\ {"ZEROPAD"} = flags \cap {"ZEROPAD", "LEFT"}
     /\ negative \/ flags \cap {"PLUS", "SPACE"} # {}
  THEN width - 1 ELSE width

BasePrefix(buf, base, flags, size) ==
  Put(CASE base = 16 -> Put(buf, IF "UPPERCASE" \in flags THEN "X" ELSE "x", size)
        [] base = 2 -> Put(buf, "b", size)
        [] OTHER -> buf, "0", size)

\* Padding that the prefix of a base is to replace: it is taken off the buffer
\* when the buffer is as long as the field, padding or not.
Hashed(buf, base, prec, width, flags, size) ==
  LET drop == IF "PRECISION" \notin flags /\ Len(buf) \in {prec, width} \ {0}
              THEN IF base = 16 /\ Len(buf) > 1 THEN 2 ELSE 1 ELSE 0
  IN BasePrefix(SubSeq(buf, 1, Len(buf) - drop), base, flags, size)

_ntoa_format(buf, negative, base, prec, width, flags) ==
  LET size == PRINTF_NTOA_BUFFER_SIZE
      w == SignedWidth(width, negative, flags)
      zeros == IF "ZEROPAD" \in flags THEN w ELSE 0
      padded == IF "LEFT" \in flags THEN buf
                ELSE Fill(Fill(buf, "0", prec, size), "0", zeros, size)
      hashed == IF "HASH" \in flags THEN Hashed(padded, base, prec, w, flags, size) ELSE padded
  IN _out_rev(Sign(hashed, negative, flags, size), w, flags)

\* _ntoa_long and _ntoa_long_long: the same code for two types.
_ntoa_long(value, negative, base, prec, width, flags) ==
  _ntoa_format(IF value = 0 /\ "PRECISION" \in flags THEN <<>>
               ELSE Reversed(value, base, flags, PRINTF_NTOA_BUFFER_SIZE),
               negative, base, prec, width, IF value = 0 THEN flags \ {"HASH"} ELSE flags)

-----------------------------------------------------------------------------
(* Floating point: v is the fraction v.n / v.d. *)

Special(v) == v.d = 0
Above(v, m) == v.n \div v.d >= m /\ v.n # m * v.d
Magnitude(v) == [v EXCEPT !.n = IF v.n < 0 THEN -v.n ELSE v.n]

\* "nan" and the infinities, without the padding of a number.
SpecialText(v, width, flags) ==
  _out_rev(CASE v.n = 0 -> <<"n", "a", "n">>
             [] v.n < 0 -> <<"f", "n", "i", "-">>
             [] v.n > 0 -> <<"f", "n", "i">> \o IF "PLUS" \in flags THEN <<"+">> ELSE <<>>,
           width, flags)

\* a/b as a double: the nearest fraction with DBL_MANT_DIG significant bits.  The
\* further ones of what is below 1/4 decide no rounding and are left out.
Double(a, b) ==
  LET k == CHOOSE i \in 0 .. DBL_MANT_DIG + 1 :
             i = DBL_MANT_DIG + 1 \/ (a * Power(2, i + 1)) \div b >= Power(2, DBL_MANT_DIG)
      q == (a * Power(2, k)) \div b
      twice == 2 * ((a * Power(2, k)) % b)
  IN [n |-> IF twice > b \/ (twice = b /\ q % 2 = 1) THEN q + 1 ELSE q, d |-> Power(2, k)]

\* v rounded to p digits: halfway goes to the even digit, and away from 0, and
\* only what is more than halfway carries into the whole part.  Without a
\* fraction the halfway case is decided on the whole part.
Truncated_Rounded(v, p) ==
  [frac |-> ((v.n % v.d) * Power(10, p)) \div v.d, whole |-> v.n \div v.d]
Carried(v, p, whole, tmp) ==
  LET frac == tmp.n \div tmp.d
      twice == 2 * (tmp.n % tmp.d)
      up == twice > tmp.d \/ (twice = tmp.d /\ (frac = 0 \/ frac % 2 = 1))
      over == twice > tmp.d /\ frac + 1 >= Power(10, p)
      w == IF over THEN whole + 1 ELSE whole
  IN [frac |-> CASE over -> 0 [] up /\ ~over -> frac + 1 [] OTHER -> frac,
      whole |-> IF p = 0 /\ 2 * (v.n - w * v.d) >= v.d /\ w % 2 = 1 THEN w + 1 ELSE w]
Rounded(v, p) == Carried(v, p, v.n \div v.d, Double((v.n % v.d) * Power(10, p), v.d))

\* The fraction of p digits and the whole part, behind extra zeros.  The count
\* of the zeros still to come runs below 0, and wraps, at a digit too many.
FixedDigits(r, p, extra, size) ==
  LET Decimal(buf, value) == IF Len(buf) < size
                             THEN buf \o Reversed(value, 10, {}, size - Len(buf)) ELSE buf
      Zeros(digits) == Fill(digits, "0",
                         IF Len(digits) - Len(extra) > p THEN size ELSE Len(extra) + p, size)
  IN Decimal(IF p = 0 THEN extra ELSE Put(Zeros(Decimal(extra, r.frac)), ".", size), r.whole)

\* A number of ordinary size, printed with a fixed point.
FixedPoint(v, prec, width, flags) ==
  LET size == PRINTF_FTOA_BUFFER_SIZE
      wanted == IF "PRECISION" \in flags THEN prec ELSE PRINTF_DEFAULT_FLOAT_PRECISION
      extra == Fill(<<>>, "0", wanted - FtoaDigits, size)
      p == wanted - Len(extra)
      w == SignedWidth(width, v.n < 0, flags)
      zeros == IF flags \cap {"LEFT", "ZEROPAD"} = {"ZEROPAD"} THEN w ELSE 0
      padded == Fill(FixedDigits(Rounded(Magnitude(v), p), p, extra, size), "0", zeros, size)
  IN _out_rev(Sign(padded, v.n < 0, flags, size), w, flags)

\* The exponent of a double that is not 0: the power of 2 it lies above.
BinaryExponent(v) ==
  IF v.n >= v.d THEN CHOOSE e \in 0 .. v.n : (v.n \div v.d) \div Power(2, e) = 1
                ELSE -(CHOOSE e \in 1 .. v.d : (v.n * Power(2, e)) \div v.d = 1)

\* The decimal exponent, from the bits of the double: its binary exponent and
\* a line through the significand give a logarithm, in 1/10000, which is cut
\* towards 0 and taken back by one when it is too large.  0 has no bits.
Exponent(v) ==
  IF v.n = 0 THEN -308
  ELSE LET e2 == BinaryExponent(v)
           m == IF e2 > 10 THEN (v.n \div v.d) \div Power(2, e2 - 10)     \* in 1/1024
                           ELSE (v.n * Power(2, 10 - e2)) \div v.d
           log == 1761 + ((e2 * 30103) \div 10) + ((2895 * (m - 1536)) \div 1024)
           e10 == IF log < 0 THEN -((-log) \div 10000) ELSE log \div 10000
           small == IF e10 < 0 THEN v.n * Power(10, -e10) < v.d ELSE v.n < v.d * Power(10, e10)
       IN IF small THEN e10 - 1 ELSE e10

Rescaled(v, e) == CASE v.n = 0 -> v
                    [] v.n # 0 /\ e >= 0 -> [v EXCEPT !.d = v.d * Power(10, e)]
                    [] v.n # 0 /\ e < 0 -> [v EXCEPT !.n = v.n * Power(10, -e)]

LeftPadded(text, left, width) == text \o IF left THEN Times(width - Len(text), " ") ELSE <<>>

\* What %g prints as %f.
Plain(v, flags) ==
  /\ "ADAPT_EXP" \in flags
  /\ Magnitude(v).n >= v.d \/ Magnitude(v).n * 10000 >= v.d
  /\ Magnitude(v).n \div v.d < 1000000
ExponentWidth(e) == IF e \in -99 .. 99 THEN 4 ELSE 5

\* A number with its exponent e, or without one when it is printed as by %f.
Exponential(v, e, prec, width, flags) ==
  LET size == IF "PRECISION" \in flags THEN prec ELSE PRINTF_DEFAULT_FLOAT_PRECISION
      plain == Plain(v, flags)
      minwidth == IF plain THEN 0 ELSE ExponentWidth(e)
      p == CASE plain -> IF size > e THEN size - e - 1 ELSE 0
             [] ~plain /\ {"ADAPT_EXP", "PRECISION"} \subseteq flags /\ size > 0 -> size - 1
             [] OTHER -> size
      left == "LEFT" \in flags
      fwidth == IF width > minwidth /\ (left => minwidth = 0) THEN width - minwidth ELSE 0
      number == FixedPoint(IF plain THEN v ELSE Rescaled(v, e), p, fwidth,
                           (flags \ {"ADAPT_EXP"}) \cup (IF plain THEN {"PRECISION"} ELSE {}))
      exponent == (IF "UPPERCASE" \in flags THEN <<"E">> ELSE <<"e">>)
                    \o _ntoa_long(IF e < 0 THEN -e ELSE e, e < 0, 10, 0, minwidth - 1,
                                  {"ZEROPAD", "PLUS"})
  IN IF plain THEN number ELSE LeftPadded(number \o exponent, left, width)

_etoa(v, prec, width, flags) ==
  IF Special(v) THEN SpecialText(v, width, flags)
                ELSE Exponential(v, Exponent(Magnitude(v)), prec, width, flags)

_ftoa(v, prec, width, flags) ==
  CASE Special(v) -> SpecialText(v, width, flags)
    [] ~Special(v) /\ Above(Magnitude(v), PRINTF_MAX_FLOAT) -> _etoa(v, prec, width, flags)
    [] OTHER -> FixedPoint(v, prec, width, flags)

-----------------------------------------------------------------------------
(* The text of a directive for its argument. *)

Base(specifier) == CASE specifier \in {"x", "X"} -> 16 [] specifier = "o" -> 8
                     [] specifier = "b" -> 2 [] OTHER -> 10

\* What is left of the flags at an integer conversion.
IntegerFlags(d) ==
  (d.flags \cup (IF d.specifier = "X" THEN {"UPPERCASE"} ELSE {}))
    \ ((IF Base(d.specifier) = 10 THEN {"HASH"} ELSE {})
         \cup (IF d.specifier \in {"i", "d"} THEN {} ELSE {"PLUS", "SPACE"})
         \cup (IF "PRECISION" \in d.flags THEN {"ZEROPAD"} ELSE {}))

IntegerText(d, arg) ==
  LET v == IF d.specifier \in {"i", "d"} THEN Signed(arg, d.type) ELSE Unsigned(arg, d.type)
  IN _ntoa_long(IF v < 0 THEN Unsigned(0 - v, d.type) ELSE v, v < 0, Base(d.specifier),
                d.precision, d.width, IntegerFlags(d))

FloatText(d, arg) ==
  LET flags == d.flags \cup (IF d.specifier \in {"F", "E", "G"} THEN {"UPPERCASE"} ELSE {})
                       \cup (IF d.specifier \in {"g", "G"} THEN {"ADAPT_EXP"} ELSE {})
  IN IF d.specifier \in {"f", "F"} THEN _ftoa(arg, d.precision, d.width, flags)
                                   ELSE _etoa(arg, d.precision, d.width, flags)

\* The padding of %c and %s: spaces, whatever the flag 0 says.
Padded(text, d) ==
  LET pad == Times(d.width - Len(text), " ")
  IN IF "LEFT" \in d.flags THEN text \o pad ELSE pad \o text

StringText(d, arg) ==
  Padded(IF "PRECISION" \in d.flags THEN SubSeq(arg, 1, Lesser(Len(arg), d.precision)) ELSE arg, d)

PointerText(d, arg) ==
  _ntoa_long(Unsigned(arg, "long"), FALSE, 16, d.precision, Bits["long"] \div 4,
             d.flags \cup {"ZEROPAD", "UPPERCASE"})

-----------------------------------------------------------------------------
(* The output functions.  Every one is called with each character and the  *)
(* number of those before it.                                              *)

Printed(text) ==
  LET printed[i \in 0 .. Len(text)] ==
        IF i = 0 THEN <<>> ELSE IF text[i] = NUL THEN printed[i - 1] ELSE Append(printed[i - 1], text[i])
  IN  printed[Len(text)]

\* text is put in the buffer from position i on, as far as the buffer goes.
_out_buffer(text, i) ==
  buffer' = [k \in DOMAIN buffer |-> IF k \in i .. i + Len(text) - 1 /\ k < maxlen
                                     THEN text[k - i + 1] ELSE buffer[k]]

Out(text, i) ==
  /\ IF out = "_out_buffer" THEN _out_buffer(text, i) ELSE UNCHANGED buffer
  /\ console' = IF out \in {"_out_char", "_out_fct"} THEN console \o Printed(text) ELSE console

Produce(text) == Out(text, idx) /\ idx' = idx + Len(text) /\ sent' = sent \o text

-----------------------------------------------------------------------------

Init ==
  /\ \E calls \in Families : call \in calls
  /\ out = "none" /\ format = 1 /\ va = call.args /\ idx = 0
  /\ buffer = [k \in 0 .. Cells - 1 |-> Untouched] /\ console = <<>>
  /\ ret = NONE /\ sent = <<>> /\ field = {}

\* The wrappers choose the output function; without a buffer there is none.
Enter(fct, function) ==
  /\ out = "none" /\ call.fct = fct
  /\ out' = function
  /\ UNCHANGED <<call, format, va, idx, buffer, console, ret, sent, field>>

printf_ == Enter("printf_", "_out_char")
vprintf_ == Enter("vprintf_", "_out_char")
sprintf_ == Enter("sprintf_", "_out_buffer")
fctprintf == Enter("fctprintf", "_out_fct")
snprintf_ == Enter("snprintf_", IF call.null THEN "_out_null" ELSE "_out_buffer")
vsnprintf_ == Enter("vsnprintf_", IF call.null THEN "_out_null" ELSE "_out_buffer")

Running == out # "none" /\ ret = NONE

OrdinaryCharacter ==
  /\ Running /\ At(format) \notin {NUL, "%"}
  /\ Produce(<<At(format)>>)
  /\ format' = format + 1
  /\ UNCHANGED <<call, out, va, ret, field>>

\* A directive that takes an argument, and one that does not.
Convert(specifiers, Text(_, _)) ==
  /\ Running /\ At(format) = "%"
  /\ \E d \in {Directive(format + 1)} :
       /\ d.specifier \in specifiers
       /\ \E text \in {Text(d, Head(d.args))} :
            /\ Produce(text)
            /\ field' = {[d |-> d, arg |-> Head(d.args), text |-> text]}
       /\ format' = d.next /\ va' = Tail(d.args)
  /\ UNCHANGED <<call, out, ret>>

Specifiers == {"d", "i", "u", "x", "X", "o", "b", "f", "F", "e", "E", "g", "G", "c", "s", "p"}

IntegerConversion == Convert({"d", "i", "u", "x", "X", "o", "b"}, IntegerText)
FloatConversion == Convert({"f", "F", "e", "E", "g", "G"}, FloatText)
CharacterConversion == Convert({"c"}, LAMBDA d, arg : Padded(<<arg>>, d))
StringConversion == Convert({"s"}, StringText)
PointerConversion == Convert({"p"}, PointerText)

\* '%' and every character that is no specifier stand for themselves.
Literal ==
  /\ Running /\ At(format) = "%"
  /\ \E d \in {Directive(format + 1)} :
       /\ d.specifier \notin Specifiers
       /\ Produce(<<d.specifier>>)
       /\ format' = d.next /\ va' = d.args
  /\ UNCHANGED <<call, out, ret, field>>

\* The terminator goes behind the text, or in the last cell of the buffer.
Uncapped_Termination ==
  /\ Running /\ At(format) = NUL
  /\ Out(<<NUL>>, idx)
  /\ ret' = idx
  /\ UNCHANGED <<call, out, format, va, idx, sent, field>>
Termination ==
  /\ Running /\ At(format) = NUL
  /\ Out(<<NUL>>, IF idx < maxlen THEN idx ELSE Unsigned(maxlen - 1, "size_t"))
  /\ ret' = idx
  /\ UNCHANGED <<call, out, format, va, idx, sent, field>>

Next ==
  \/ printf_ \/ vprintf_ \/ sprintf_ \/ fctprintf \/ snprintf_ \/ vsnprintf_
  \/ OrdinaryCharacter \/ Literal
  \/ IntegerConversion \/ FloatConversion \/ CharacterConversion
  \/ StringConversion \/ PointerConversion
  \/ Termination

Spec == Init /\ [][Next]_vars

-----------------------------------------------------------------------------
(* Properties. *)

TypeOK ==
  /\ out \in {"none", "_out_char", "_out_fct", "_out_buffer", "_out_null"}
  /\ format \in 1 .. Len(call.format) + 1
  /\ idx \in Nat /\ idx = Len(sent) /\ ret \in {NONE, idx}
  /\ buffer \in [0 .. Cells - 1 -> Characters \cup {Untouched}]
  /\ {console, sent} \cup {f.text : f \in field} \subseteq Seq(Characters)

\* The promise of printf.h:76-83: the value returned is the length the whole
\* text has; the buffer holds the text, or as much of it as fits before the
\* terminator, which is always there when there is room for one.
TextOrItsBeginning ==
  out = "_out_buffer" /\ ret # NONE =>
    /\ ret = Len(sent)
    /\ maxlen > 0 =>
         LET n == Lesser(ret, maxlen - 1)
         IN /\ \A k \in 0 .. n - 1 : buffer[k] = sent[k + 1]
            /\ buffer[n] = NUL
            /\ \A k \in n + 1 .. Cells - 1 : buffer[k] = Untouched

\* The numeral of n, from its first digit, in at least the digits asked for.
Places(n, base) == CHOOSE k \in 0 .. n : n < Power(base, k) /\ \A j \in 0 .. k - 1 : n >= Power(base, j)
Numeral(n, base, least, flags) ==
  LET m == IF Places(n, base) < least THEN least ELSE Places(n, base)
  IN [i \in 1 .. m |-> HexDigits(flags)[((n \div Power(base, m - i)) % base) + 1]]

\* The C standard's field: a sign or a prefix, the digits, and the padding, by
\* zeros between the two or by spaces on one side.
StandardSign(negative, flags) ==
  CASE negative -> <<"-">>
    [] ~negative /\ "PLUS" \in flags -> <<"+">>
    [] ~negative /\ flags \cap {"PLUS", "SPACE"} = {"SPACE"} -> <<" ">>
    [] OTHER -> <<>>
StandardField(sign, digits, width, flags) ==
  LET n == width - Len(sign) - Len(digits)
  IN CASE "LEFT" \in flags -> sign \o digits \o Times(n, " ")
       [] flags \cap {"LEFT", "ZEROPAD"} = {"ZEROPAD"} -> sign \o Times(n, "0") \o digits
       [] OTHER -> Times(n, " ") \o sign \o digits

\* A text without its spaces fits the conversion buffer.
Fits(text, size) == Cardinality({i \in DOMAIN text : text[i] # " "}) < size

\* Where this printf departs from the standard: '#' takes digits off a numeral
\* that fills its field, '-' forgets the precision, and the prefixes of octal
\* and binary are a character off beside a precision or zeros.
Departs(d, flags, n, base) ==
  \/ "LEFT" \in flags /\ d.precision > n
  \/ /\ "HASH" \in flags
     /\ \/ "PRECISION" \in flags /\ base = 8
        \/ "ZEROPAD" \in flags /\ base = 2
        \/ "PRECISION" \notin flags /\ d.width = n
        \/ "ZEROPAD" \in flags /\ d.width = n + 1

\* Every integer conversion, of every type, at the ends of its range too,
\* gives the text the C standard gives, where the conversion buffer holds it
\* and none of the departures above applies.
IntegerIsStandard ==
  \A f \in field : f.d.specifier \in {"d", "i", "u", "x", "X", "o", "b"} =>
    LET d == f.d
        flags == IntegerFlags(d)
        base == Base(d.specifier)
        v == IF d.specifier \in {"i", "d"} THEN Signed(f.arg, d.type)
                                           ELSE Unsigned(f.arg, d.type)
        n == IF v < 0 THEN -v ELSE v
        digits == Numeral(n, base, IF "PRECISION" \in flags THEN d.precision ELSE 1, flags)
        prefix == IF "HASH" \notin flags \/ n = 0 THEN <<>>
                  ELSE CASE base = 16 -> <<"0", IF d.specifier = "X" THEN "X" ELSE "x">>
                         [] base = 2 -> <<"0", "b">> [] OTHER -> <<"0">>
        text == StandardField(StandardSign(v < 0, flags) \o prefix, digits, d.width, flags)
    IN Fits(text, PRINTF_NTOA_BUFFER_SIZE) /\ ~Departs(d, flags, Places(n, base), base)
         => f.text = text

\* A fixed-point conversion f: its digits behind the point, those beyond
\* FtoaDigits being zeros; its text, were it to print r units of the last digit;
\* and the two r around its argument, of which one is Near or, halfway, both.
WantedDigits(f) == IF "PRECISION" \in f.d.flags THEN f.d.precision ELSE PRINTF_DEFAULT_FLOAT_PRECISION
Unit(f) == Power(10, Lesser(WantedDigits(f), FtoaDigits))
PrintedAs(f, r) ==
  LET p == Lesser(WantedDigits(f), FtoaDigits)
  IN StandardField(StandardSign(f.arg.n < 0, f.d.flags),
                   Numeral(r \div Unit(f), 10, 1, {}) \o (IF WantedDigits(f) = 0 THEN <<>> ELSE <<".">>)
                     \o Numeral(r % Unit(f), 10, p, {}) \o Times(WantedDigits(f) - p, "0"),
                   f.d.width, f.d.flags)
Floor(f) == (Magnitude(f.arg).n * Unit(f)) \div f.arg.d
Near(f, r) == 2 * (r * f.arg.d - Magnitude(f.arg).n * Unit(f)) \in -f.arg.d .. f.arg.d
FixedPoints ==
  {f \in field : /\ f.d.specifier \in {"f", "F"}
                 /\ ~Special(f.arg) /\ ~Above(Magnitude(f.arg), PRINTF_MAX_FLOAT)
                 /\ Fits(PrintedAs(f, Floor(f)), PRINTF_FTOA_BUFFER_SIZE)}

\* The product that yields f's digits, rounded to a double, is halfway between
\* two of them; the argument itself need not be (0.15 times 10 is 1.5 then).
\* From the odd one 9...9 such a tie carries, which the code does not handle.
Product(f) == Double((Magnitude(f.arg).n % f.arg.d) * Unit(f), f.arg.d)
Tied(f) == 2 * (Product(f).n % Product(f).d) = Product(f).d
TieCarries(f) == Tied(f) /\ Unit(f) > 1 /\ (Product(f).n \div Product(f).d) + 1 = Unit(f)

\* A fixed-point conversion prints one of the two numbers around its argument,
\* and the nearest one, or one of both when they are equally near.  The code
\* (printf.c:383-401) departs from that in two cases.  The branch of its comment
\* "if halfway, round up if odd OR if last digit is 0" (printf.c:399) is also
\* taken for numbers beside a halfway one, whose product is rounded to a tie:
\* they get the neighbour that a tie gets, 0.15 with one digit 0.2.  And a tie
\* that carries gets no number at all (RolloverHandled).
FloatIsNearest ==
  \A f \in FixedPoints :
    \/ \E r \in {Floor(f), Floor(f) + 1} : f.text = PrintedAs(f, r) /\ (Near(f, r) \/ Tied(f))
    \/ TieCarries(f)

\* No conversion is narrower than its field, unless zeros that pad it exceed
\* the conversion buffer, or stand before a number that is none.
FieldFilled ==
  \A f \in field : f.d.specifier # "p" =>
    \/ Len(f.text) >= f.d.width
    \/ /\ f.d.flags \cap {"LEFT", "ZEROPAD"} = {"ZEROPAD"}
       /\ \/ f.d.width > Lesser(PRINTF_NTOA_BUFFER_SIZE, PRINTF_FTOA_BUFFER_SIZE)
          \/ f.d.specifier \in {"f", "F", "e", "E", "g", "G"} /\ Special(f.arg)

\* The comment at printf.c:390, "handle rollover, e.g. case 0.99 with prec 1 is
\* 1.0": a fixed-point conversion prints the digits asked for behind its point.
RolloverHandled ==
  \A f \in field : f.d.specifier = "f" /\ f.d.precision > 0 /\ "LEFT" \notin f.d.flags /\ ~Special(f.arg) =>
    LET point == Len(f.text) - f.d.precision
    IN point > 1 /\ f.text[point] = "." /\ "." \notin {f.text[i] : i \in point + 1 .. Len(f.text)}
=============================================================================
