------------------------------ MODULE MCLibrary -----------------------------
(* The calls for TLC: of printf one directive in every shape, and whole      *)
(* formats of the kernel's, cut at every length; of util.c every one that C  *)
(* allows in a memory of five cells.                                         *)
EXTENDS CLibrary

AllStrings == STRING

TheBits == [t \in {"char", "short", "int", "long", "long long", "size_t"} |->
              CASE t = "char" -> 3 [] t = "short" -> 4 [] t = "int" -> 5 [] OTHER -> 8]

Snprintf(f, a) == [fct |-> "snprintf_", null |-> FALSE, count |-> 12, format |-> f, args |-> a]

\* "%[flags][width][.precision][length]specifier" with what the stars take.
Flags == {<<>>, <<"0">>, <<"-">>, <<"+">>, <<" ">>, <<"#">>, <<"-", "0">>, <<"+", " ">>,
          <<"0", "+">>, <<"0", " ">>, <<"#", "0">>, <<"#", "-">>}
Widths == {<<<<>>, <<>>>>, <<<<"1">>, <<>>>>, <<<<"3">>, <<>>>>, <<<<"4">>, <<>>>>,
           <<<<"1", "0">>, <<>>>>, <<<<"*">>, <<-5>>>>, <<<<"*">>, <<5>>>>}
Precisions == {<<<<>>, <<>>>>, <<<<".">>, <<>>>>, <<<<".", "1">>, <<>>>>, <<<<".", "4">>, <<>>>>,
               <<<<".", "*">>, <<-1>>>>, <<<<".", "*">>, <<3>>>>}
Shape(fl, w, p, l, s, arg) ==
  Snprintf(<<"%">> \o fl \o w[1] \o p[1] \o l \o <<s>>, w[2] \o p[2] \o <<arg>>)

Lengths == {<<>>, <<"h">>, <<"h", "h">>, <<"l">>, <<"l", "l">>, <<"z">>}
Integers == {0, 1, 9, 16, -4, -16, -128, 255}
IntegerCalls ==
  {Shape(fl, w, p, <<>>, s, v) : fl \in Flags, w \in Widths, p \in Precisions,
                                  s \in {"d", "u", "x", "X", "o", "b"}, v \in Integers}
TypeCalls ==
  {Shape(fl, <<<<"4">>, <<>>>>, <<<<>>, <<>>>>, l, s, v) :
     fl \in Flags, l \in Lengths, s \in {"i", "u", "x", "b"}, v \in Integers}

Fraction(n, d) == [n |-> n, d |-> d]
\* 0.15 and 0.95 as doubles of fourteen bits.
Almost15 == Fraction(4915, 32768)
Almost95 == Fraction(15565, 16384)
Floats == {Fraction(0, 1), Fraction(3, 2), Fraction(5, 2), Fraction(-1, 4), Fraction(31, 32),
           Fraction(15999, 16), Fraction(-2000000, 1), Fraction(1, 1024), Fraction(0, 0),
           Fraction(1, 0), Fraction(-1, 0), Almost15, Almost95}
FloatCalls ==
  {Shape(fl, w, p, <<>>, s, v) : fl \in Flags, w \in Widths, p \in Precisions,
                                  s \in {"f", "E", "g"}, v \in Floats}

TextCalls ==
  {Shape(fl, w, p, <<>>, "s", v) : fl \in Flags, w \in Widths, p \in Precisions,
                                   v \in {<<>>, <<"a">>, <<"s", "k", "i", "O", "S">>}}
CharCalls == {Shape(fl, w, <<<<>>, <<>>>>, <<>>, "c", "a") : fl \in Flags, w \in Widths}
PointerCalls ==
  {Shape(fl, w, p, <<>>, "p", v) : fl \in Flags, w \in Widths, p \in Precisions, v \in {0, 16, 255}}

\* The prompt's format and the exception's, a percent sign and an unknown one.
Formats == {<<<<"%", "s", " ">>, <<<<"s", "k", "i">>>>>>,
            <<<<"E", ":", "%", "s", "(", "%", "l", "l", "u", ")">>, <<<<"P", "F">>, 14>>>>,
            <<<<"%", "c", "%", "%", "%", "y">>, <<NUL>>>>,
            <<<<>>, <<>>>>}
WholeCalls ==
  {[fct |-> fct, null |-> null, count |-> n, format |-> f[1], args |-> f[2]] :
     fct \in {"snprintf_", "vsnprintf_"}, null \in BOOLEAN, n \in 0 .. 11, f \in Formats}
OtherCalls ==
  {[fct |-> fct, null |-> FALSE, count |-> 0, format |-> f[1], args |-> f[2]] :
     fct \in {"printf_", "vprintf_", "sprintf_", "fctprintf"}, f \in Formats}

AllCalls == {IntegerCalls, TypeCalls, FloatCalls, TextCalls, CharCalls, PointerCalls,
             WholeCalls, OtherCalls}

\* 0.95 with one digit.
RolloverCalls == {{Snprintf(<<"%", ".", "1", "f">>, <<Almost95>>)}}

\* NUL, a space, a digit and a byte that is negative as a char.
FiveCells == [0 .. 4 -> {0, 32, 57, 200}]
Operation(fct, p, q, n) == [fct : fct, dst : p, src : q, count : n]
AllOperations ==
  Operation({"memcpy", "memmove", "memcmp", "strncmp", "strncpy"}, 0 .. 4, 0 .. 4, 0 .. 4)
    \cup Operation({"memset"}, 0 .. 4, {32}, 0 .. 4)
    \cup Operation({"strcmp", "strcpy", "strcat"}, 0 .. 4, 0 .. 4, {0})
    \cup Operation({"strlen", "stringToInt", "split"}, 0 .. 4, {0}, {0})
    \cup Operation({"strchr"}, 0 .. 4, {0}, {0, 32, 57, 100})
=============================================================================
