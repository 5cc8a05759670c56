-------------------------------- MODULE Util --------------------------------
(***************************************************************************)
(* The memory and string functions of util.c, which the compiler and the   *)
(* rest of the kernel rely on, and the loop of the shell that takes a line *)
(* apart with them.  A behaviour is one call; a step is one iteration of   *)
(* its loop.  Pointers are addresses of cells of one memory, so that they  *)
(* may overlap.                                                            *)
(***************************************************************************)
EXTENDS Integers, Sequences

Text == INSTANCE ShellText

CONSTANTS
  MemorySize,   \* BOUND: the cells of the memory
  Memories,     \* BOUND: what the memory may hold
  Operations,   \* BOUND: the calls, records [fct, dst, src, count]
  INT_MAX       \* the largest int

ASSUME UtilAssumption ==
  /\ MemorySize \in Nat /\ Memories \subseteq [0 .. MemorySize - 1 -> 0 .. 255]
  /\ Operations \subseteq [fct : STRING, dst : Nat, src : Nat, count : Nat]
  /\ \A o \in Operations : o.fct = "memset" => o.src \in 0 .. 255
  /\ INT_MAX \in Nat

VARIABLES
  memory,
  operation,
  pos,          \* the loop's counter, or how far its pointers have moved
  acc,          \* the number or the arguments put together so far
  result,       \* << what was returned >>, or << >>
  initial       \* history: the memory at the call

utilVars == << memory, operation, pos, acc, result, initial >>

NULL == -1
dst   == operation.dst       \* the first pointer
src   == operation.src       \* the second one
count == operation.count     \* the number or the character

Addresses == DOMAIN memory
EndOf(m, p) == CHOOSE q \in DOMAIN m : q >= p /\ m[q] = 0 /\ \A k \in p .. q - 1 : m[k] # 0
StringAt(m, p) == SubSeq([k \in 1 .. EndOf(m, p) |-> m[k - 1]], p + 1, EndOf(m, p))
IsString(m, p) == \E q \in DOMAIN m : q >= p /\ m[q] = 0
IsArea(m, p, size) == p + size - 1 \in DOMAIN m \/ size = 0
Apart(p, size, q) == p + size <= q \/ q + size <= p
LesserOf(a, b) == IF a < b THEN a ELSE b

(* What C asks of a caller: areas inside the memory, strings that end,     *)
(* and, but for memmove, operands that do not overlap.  strncpy is given   *)
(* room for its whole count.                                               *)
Allowed(m, o) ==
  CASE o.fct \in {"memcpy", "memmove", "memcmp"} ->
         /\ IsArea(m, o.dst, o.count) /\ IsArea(m, o.src, o.count)
         /\ o.fct = "memcpy" => Apart(o.dst, o.count, o.src)
    [] o.fct = "memset" -> IsArea(m, o.dst, o.count)
    [] o.fct \in {"strlen", "strchr", "stringToInt", "split"} -> IsString(m, o.dst)
    [] o.fct \in {"strcmp", "strncmp"} -> IsString(m, o.dst) /\ IsString(m, o.src)
    [] o.fct = "strcpy" ->
         /\ IsString(m, o.src)
         /\ LET size == Len(StringAt(m, o.src)) + 1 IN IsArea(m, o.dst, size) /\ Apart(o.dst, size, o.src)
    [] o.fct = "strncpy" ->
         /\ IsString(m, o.src) /\ IsArea(m, o.dst, o.count)
         /\ \/ o.dst + o.count <= o.src
            \/ o.src + LesserOf(o.count, Len(StringAt(m, o.src)) + 1) <= o.dst
    [] o.fct = "strcat" ->
         /\ IsString(m, o.dst) /\ IsString(m, o.src)
         /\ LET end == EndOf(m, o.dst)
                size == Len(StringAt(m, o.src)) + 1
            IN  IsArea(m, end, size) /\ Apart(end, size, o.src)

utilInit ==
  /\ initial \in Memories /\ memory = initial
  /\ operation \in {o \in Operations : Allowed(initial, o)}
  /\ pos = 0 /\ acc = << >> /\ result = << >>
-----------------------------------------------------------------------------
Store(p, cell) == [memory EXCEPT ![p] = cell]

(* while(continues) { memory = writes; acc = gains; pos++; } return value; *)
Loop(fct, continues, writes, gains, value) ==
  /\ operation.fct = fct /\ result = << >>
  /\ IF continues THEN memory' = writes /\ acc' = gains /\ pos' = pos + 1 /\ UNCHANGED result
                  ELSE result' = << value >> /\ UNCHANGED << memory, acc, pos >>
  /\ UNCHANGED << operation, initial >>

memcpy == Loop("memcpy", pos < count, Store(dst + pos, memory[src + pos]), acc, dst)

memset == Loop("memset", pos < count, Store(dst + pos, src), acc, dst)

(* From the end when the destination is behind the source.                 *)
Forward_memmove == Loop("memmove", pos < count /\ src # dst, Store(dst + pos, memory[src + pos]), acc, dst)
memmove ==
  LET k == IF src > dst THEN pos ELSE count - pos - 1
  IN  Loop("memmove", pos < count /\ src # dst, Store(dst + k, memory[src + k]), acc, dst)

memcmp ==
  Loop("memcmp", pos < count /\ memory[dst + pos] = memory[src + pos], memory, acc,
       IF pos = count THEN 0 ELSE IF memory[dst + pos] < memory[src + pos] THEN -1 ELSE 1)

(* Two's complement, which a build without optimisation produces.          *)
INT_MIN == -INT_MAX - 1
Wrapped(v) == ((v - INT_MIN) % (INT_MAX - INT_MIN + 1)) + INT_MIN

Parsed == IF acc = << >> THEN 0 ELSE acc[1]
stringToInt ==
  Loop("stringToInt", memory[dst + pos] \in 48 .. 57, memory,
       << Wrapped(Parsed * 10 + memory[dst + pos] - 48) >>, Parsed)

strlen == Loop("strlen", memory[dst + pos] # 0, memory, acc, pos)

strcmp ==
  Loop("strcmp", memory[dst + pos] # 0 /\ memory[dst + pos] = memory[src + pos], memory, acc,
       memory[dst + pos] - memory[src + pos])

OffByOne_strncmp ==
  Loop("strncmp", pos <= count /\ memory[dst + pos] # 0 /\ memory[dst + pos] = memory[src + pos],
       memory, acc, IF pos <= count THEN memory[dst + pos] - memory[src + pos] ELSE 0)
strncmp ==
  Loop("strncmp", pos < count /\ memory[dst + pos] # 0 /\ memory[dst + pos] = memory[src + pos],
       memory, acc, IF pos < count THEN memory[dst + pos] - memory[src + pos] ELSE 0)

(* The loop ends behind the NUL that it has copied.                        *)
strcpy ==
  Loop("strcpy", pos = 0 \/ memory[dst + pos - 1] # 0, Store(dst + pos, memory[src + pos]), acc, dst)

strncpy ==
  Loop("strncpy", pos < count /\ (pos = 0 \/ memory[dst + pos - 1] # 0),
       Store(dst + pos, memory[src + pos]), acc, dst)

strchr ==
  Loop("strchr", memory[dst + pos] \notin {0, count}, memory, acc,
       IF memory[dst + pos] = 0 THEN NULL ELSE dst + pos)

(* First to the end of the first string, then as strcpy.                   *)
strcat ==
  LET end == EndOf(initial, dst) - dst
  IN  Loop("strcat", pos <= end \/ memory[dst + pos - 1] # 0,
           IF pos < end THEN memory ELSE Store(dst + pos, memory[src + pos - end]), acc, dst)

(* The loop of parseAndExecuteCmd: acc holds the arguments and, at its     *)
(* end, where the next one starts.                                         *)
Token == IF acc = << >> THEN dst ELSE acc[Len(acc)]
Argv  == IF acc = << >> THEN << >> ELSE SubSeq(acc, 1, Len(acc) - 1)
SpaceIn(p) ==
  LET spaces == {q \in p .. EndOf(memory, p) : memory[q] = 32}
  IN  IF spaces = {} THEN NULL ELSE CHOOSE q \in spaces : \A k \in spaces : q <= k
NoSkip_Behind(p) == p + 1
Behind(p) == CHOOSE q \in Addresses : q > p /\ memory[q] # 32 /\ \A k \in p + 1 .. q - 1 : memory[k] = 32
split ==
  LET space == SpaceIn(Token)
  IN  Loop("split", Token # NULL, IF space = NULL THEN memory ELSE Store(space, 0),
           Argv \o << Token, IF space = NULL THEN NULL ELSE Behind(space) >>, Argv)

utilNext ==
  \/ memcpy \/ memset \/ memmove \/ memcmp
  \/ stringToInt \/ strlen \/ strcmp \/ strncmp
  \/ strcpy \/ strncpy \/ strchr \/ strcat
  \/ split
-----------------------------------------------------------------------------
(* Properties. *)

(* Type invariant: the memory keeps its type, the counter stays in it and  *)
(* a number stays an int, however many digits there are.                   *)
UtilTypeOK ==
  /\ DOMAIN memory = DOMAIN initial /\ \A p \in Addresses : memory[p] \in 0 .. 255
  /\ pos \in 0 .. MemorySize
  /\ operation.fct = "stringToInt" /\ acc # << >> => acc[1] \in INT_MIN .. INT_MAX

(* What the standard says the operation leaves in each cell: the source as *)
(* it was at the call, wherever the two operands are, and behind a source  *)
(* that is shorter than strncpy's count, NULs up to it.                    *)
CopyLength ==
  CASE operation.fct \in {"memcpy", "memmove"} -> count
    [] operation.fct \in {"strcpy", "strcat"} -> Len(StringAt(initial, src)) + 1
    [] operation.fct = "strncpy" -> LesserOf(count, Len(StringAt(initial, src)) + 1)
    [] OTHER -> 0
Target == IF operation.fct = "strcat" THEN EndOf(initial, dst) ELSE dst
InPadding(p) == operation.fct = "strncpy" /\ p \in dst + CopyLength .. dst + count - 1
Specified(p) ==
  CASE operation.fct = "memset" /\ p \in dst .. dst + count - 1 -> src
    [] p \in Target .. Target + CopyLength - 1 -> initial[src + p - Target]
    [] InPadding(p) -> 0
    [] OTHER -> initial[p]

(* Copies come out whole: memmove's two loops between them never read what *)
(* they have overwritten, strcat goes on from the old end.  And nothing    *)
(* else is touched, not even on the way: each cell holds what it held, or  *)
(* what it will hold in the end.  strncpy departs from the standard: it    *)
(* stops behind the NUL and leaves the padding as it was (util.c:87-91).   *)
CopiesComeOutWhole ==
  operation.fct # "split" =>
    \A p \in Addresses :
      \/ memory[p] = Specified(p) /\ ~InPadding(p)
      \/ memory[p] = initial[p] /\ (result = << >> \/ InPadding(p))

(* A comparison has the sign of the first difference of bytes, taken as    *)
(* unsigned, not behind the end of a string; a length, a place and a       *)
(* number are those of the string.                                         *)
SignAgrees(v, s, t) ==
  LET both == LesserOf(Len(s), Len(t))
      k == CHOOSE k \in 1 .. both + 1 : (k > both \/ s[k] # t[k]) /\ \A j \in 1 .. k - 1 : s[j] = t[j]
      At(u) == IF k > Len(u) THEN 0 ELSE u[k]
  IN  /\ (v < 0) = (At(s) < At(t)) /\ (v > 0) = (At(s) > At(t))
Limited(s) == IF operation.fct = "strncmp" THEN SubSeq(s, 1, LesserOf(count, Len(s))) ELSE s
Area(p) == [k \in 1 .. count |-> memory[p + k - 1]]
Decimal(s) ==
  LET digits == {k \in 1 .. Len(s) : \A j \in 1 .. k : s[j] \in 48 .. 57}
      value[k \in 0 .. Len(s)] == IF k = 0 THEN 0 ELSE value[k - 1] * 10 + s[k] - 48
  IN  value[IF digits = {} THEN 0 ELSE CHOOSE k \in digits : \A j \in digits : j <= k]

AnswersAreRight ==
  result # << >> =>
    LET v == result[1]
        s == StringAt(initial, dst)
    IN  CASE operation.fct \in {"strcmp", "strncmp"} -> SignAgrees(v, Limited(s), Limited(StringAt(initial, src)))
          [] operation.fct = "memcmp" -> SignAgrees(v, Area(dst), Area(src))
          [] operation.fct = "strlen" -> v = Len(s)
          [] operation.fct = "strchr" /\ count # 0 ->
               IF \E k \in 1 .. Len(s) : s[k] = count
                 THEN initial[v] = count /\ v >= dst /\ \A k \in 1 .. v - dst : s[k] # count
                 ELSE v = NULL
          [] operation.fct = "stringToInt" -> Decimal(s) <= INT_MAX => v = Decimal(s)
          [] OTHER -> TRUE

(* The line that the loop has cut up in place reads, argument by argument, *)
(* as Split (module ShellText), which the model of the shell uses, says.   *)
SplitsAsShellText ==
  result # << >> /\ operation.fct = "split" =>
    [k \in 1 .. Len(result[1]) |-> StringAt(memory, result[1][k])] = Text!Split(StringAt(initial, dst))
=============================================================================
