---------------------------- MODULE SequenceProofs ----------------------------
(***************************************************************************)
(* Lemmas about the operators of the community modules that the models are *)
(* built from, about the recursion by which a text is split, and the       *)
(* induction they rest on, over a set of naturals.                         *)
(***************************************************************************)
EXTENDS SequencesExt, FiniteSetTheorems, SequenceTheorems, TLAPS

(* A set of naturals that is not empty has a least element: of the finite  *)
(* sets 0 .. n, for n in it, one has no other within it.                   *)
LEMMA LeastNatural ==
  ASSUME NEW T \in SUBSET Nat, T # {}
  PROVE  \E m \in T : \A n \in T : m <= n
<1> DEFINE F == {0 .. n : n \in T}
<1>1. F \subseteq FiniteSubsetsOf(Nat) /\ F # {}
  <2>1. ASSUME NEW n \in Nat PROVE IsFiniteSet(0 .. n)
    BY FS_Interval
  <2>2. ASSUME NEW y \in F PROVE y \in FiniteSubsetsOf(Nat)
    <3>1. PICK n \in T : y = 0 .. n
      OBVIOUS
    <3>2. y \in SUBSET Nat /\ IsFiniteSet(y)
      BY <2>1, <3>1
    <3> QED
      BY <3>2 DEF FiniteSubsetsOf
  <2>3. PICK n \in T : TRUE
    OBVIOUS
  <2>4. (0 .. n) \in F
    OBVIOUS
  <2> HIDE DEF F
  <2> QED
    BY <2>2, <2>4
<1>2. PICK x \in F : \A y \in F : ~ << y, x >> \in StrictSubsetOrdering(Nat)
  <2> HIDE DEF F
  <2> QED
    BY <1>1, FS_StrictSubsetOrderingWellFounded, WFMin
<1>3. PICK m \in T : x = 0 .. m
  OBVIOUS
<1>4. ASSUME NEW n \in T, n < m PROVE FALSE
  <2>1. (0 .. n) \subseteq (0 .. m) /\ m \notin 0 .. n /\ m \in 0 .. m
    BY <1>4
  <2>2. (0 .. n) \in SUBSET Nat /\ (0 .. m) \in SUBSET Nat /\ (0 .. n) # (0 .. m)
    BY <2>1
  <2>3. << 0 .. n, 0 .. m >> \in StrictSubsetOrdering(Nat)
    BY <2>1, <2>2 DEF StrictSubsetOrdering
  <2> QED
    BY <1>2, <1>3, <2>3
<1> QED
  BY <1>4

(* Induction: a set that holds 0, and n + 1 with every n, holds every      *)
(* natural.                                                                *)
LEMMA SetInduction ==
  ASSUME NEW T, 0 \in T, \A n \in Nat : n \in T => n + 1 \in T
  PROVE  \A n \in Nat : n \in T
<1> SUFFICES ASSUME NEW k \in Nat, k \notin T PROVE FALSE
  OBVIOUS
<1> DEFINE Rest == Nat \ T
<1>1. PICK m \in Rest : \A n \in Rest : m <= n
  BY LeastNatural
<1>2. m # 0 /\ m - 1 \in Nat
  OBVIOUS
<1>3. m - 1 \in T
  BY <1>1, <1>2
<1> QED
  BY <1>2, <1>3

(* A function over the first n + 1 naturals may be defined by recursion.   *)
Closed(F, S) == \A i \in Nat, s \in S : F[i][s] \in S
Recursion(f, F, x, n) == f[0] = x /\ \A i \in 1 .. n : f[i] = F[i][f[i - 1]]

(* There is a function with given values at 0 and from each number to the  *)
(* next.                                                                   *)
LEMMA RecursionExists ==
  ASSUME NEW S, NEW F, Closed(F, S), NEW x \in S
  PROVE  \A n \in Nat : \E f \in [0 .. n -> S] : Recursion(f, F, x, n)
<1>0. \A i \in Nat, s \in S : F[i][s] \in S
  BY DEF Closed
<1> DEFINE Q(f, n) == f \in [0 .. n -> S] /\ f[0] = x /\ \A i \in 1 .. n : f[i] = F[i][f[i - 1]]
<1> DEFINE T == {n \in Nat : \E f : Q(f, n)}
<1>1. 0 \in T
  <2> DEFINE f == [i \in 0 .. 0 |-> x]
  <2>1. Q(f, 0)
    OBVIOUS
  <2> HIDE DEF f, Q
  <2> QED
    BY <2>1
<1>2. ASSUME NEW n \in Nat, n \in T PROVE n + 1 \in T
  <2>1. PICK f : Q(f, n)
    BY <1>2
  <2> DEFINE g == [i \in 0 .. n + 1 |-> IF i = n + 1 THEN F[n + 1][f[n]] ELSE f[i]]
  <2>2. n \in 0 .. n /\ n \in Nat /\ n + 1 \in Nat /\ f[n] \in S
    BY <2>1
  <2>3. F[n + 1][f[n]] \in S
    BY <1>0, <2>2
  <2>4. g \in [0 .. n + 1 -> S]
    <3>1. ASSUME NEW i \in 0 .. n + 1 PROVE g[i] \in S
      BY <2>1, <2>3
    <3> QED
      BY <3>1
  <2>5. g[0] = x
    BY <2>1
  <2>6. ASSUME NEW i \in 1 .. n + 1 PROVE g[i] = F[i][g[i - 1]]
    <3>1. i - 1 \in 0 .. n + 1 /\ i - 1 # n + 1 /\ i - 1 \in 0 .. n
      OBVIOUS
    <3>2. g[i - 1] = f[i - 1]
      BY <3>1
    <3>3. CASE i = n + 1
      BY <3>2, <3>3
    <3>4. CASE i # n + 1
      <4>1. i \in 1 .. n /\ i \in 0 .. n + 1
        BY <3>4
      <4>2. f[i] = F[i][f[i - 1]]
        BY <2>1, <4>1
      <4> QED
        BY <3>2, <3>4, <4>1, <4>2
    <3> QED
      BY <3>3, <3>4
  <2>7. Q(g, n + 1)
    BY <2>4, <2>5, <2>6
  <2> HIDE DEF g, Q
  <2> QED
    BY <2>7
<1>3. \A n \in Nat : n \in T
  <2> HIDE DEF T
  <2> QED
    BY <1>1, <1>2, SetInduction
<1> QED
  BY <1>3 DEF Recursion

(* What holds at first and is handed on at each step holds to the end.     *)
LEMMA RecursionKeeps ==
  ASSUME NEW T, NEW g, NEW n \in Nat, g[0] \in T[0],
         \A i \in Nat : i < n /\ g[i] \in T[i] => g[i + 1] \in T[i + 1]
  PROVE  \A i \in 0 .. n : g[i] \in T[i]
<1> DEFINE P == {i \in Nat : i <= n => g[i] \in T[i]}
<1>1. 0 \in P
  OBVIOUS
<1>2. ASSUME NEW i \in Nat, i \in P PROVE i + 1 \in P
  BY <1>2
<1>3. \A i \in Nat : i \in P
  <2> HIDE DEF P
  <2> QED
    BY <1>1, <1>2, SetInduction
<1> QED
  BY <1>3

(* The least and the greatest element of a set of indices.                 *)
LEMMA MinProperties ==
  ASSUME NEW I \in SUBSET Nat, I # {}
  PROVE  Min(I) \in I /\ \A i \in I : Min(I) <= i
BY LeastNatural DEF Min

(* A bounded set of naturals has a greatest element.                       *)
LEMMA MaxProperties ==
  ASSUME NEW I \in SUBSET Nat, I # {}, NEW b \in Nat, \A i \in I : i <= b
  PROVE  Max(I) \in I /\ \A i \in I : i <= Max(I)
<1> DEFINE T == {b - i : i \in I}
<1>0. T \in SUBSET Nat /\ T # {}
  <2>1. ASSUME NEW i \in I PROVE b - i \in Nat
    OBVIOUS
  <2>2. PICK i \in I : b - i \in T
    OBVIOUS
  <2> QED
    BY <2>1, <2>2
<1>1. PICK m \in T : \A n \in T : m <= n
  <2> HIDE DEF T
  <2> QED
    BY <1>0, LeastNatural
<1>2. PICK x \in I : m = b - x
  OBVIOUS
<1>3. ASSUME NEW y \in I PROVE x >= y
  BY <1>1, <1>2
<1> HIDE DEF T
<1> QED
  BY <1>3 DEF Max

-----------------------------------------------------------------------------
(* The function that FlattenSeq is defined by, on the first n of seqs.     *)
Flattens(flat, seqs, n) ==
  flat = [i \in 1 .. n |-> IF i = 1 THEN seqs[i] ELSE flat[i - 1] \o seqs[i]]

(* It exists, by induction on n, so CHOOSE picks one.                      *)
LEMMA FlattenExists ==
  ASSUME NEW seqs
  PROVE  \A n \in Nat : \E flat : Flattens(flat, seqs, n)
<1> DEFINE T == {n \in Nat : \E flat : Flattens(flat, seqs, n)}
<1>1. 0 \in T
  <2>1. Flattens([i \in 1 .. 0 |-> 0], seqs, 0)
    BY DEF Flattens
  <2> QED
    BY <2>1
<1>2. ASSUME NEW n \in T PROVE n + 1 \in T
  <2>1. PICK f : Flattens(f, seqs, n)
    OBVIOUS
  <2> DEFINE last == IF n = 0 THEN seqs[1] ELSE f[n] \o seqs[n + 1]
             g == [i \in 1 .. n + 1 |-> IF i = n + 1 THEN last ELSE f[i]]
  <2>2. ASSUME NEW i \in 1 .. n + 1
        PROVE  g[i] = IF i = 1 THEN seqs[i] ELSE g[i - 1] \o seqs[i]
    <3>1. CASE i = n + 1
      BY <3>1
    <3>2. CASE i # n + 1
      <4>1. i \in 1 .. n /\ g[i] = f[i]
        BY <3>2
      <4>2. f[i] = IF i = 1 THEN seqs[i] ELSE f[i - 1] \o seqs[i]
        BY <2>1, <4>1 DEF Flattens
      <4>3. i # 1 => i - 1 \in 1 .. n + 1 /\ i - 1 # n + 1
        BY <4>1
      <4> QED
        BY <4>1, <4>2, <4>3
    <3> QED
      BY <3>1, <3>2
  <2>3. g = [i \in 1 .. n + 1 |-> IF i = 1 THEN seqs[i] ELSE g[i - 1] \o seqs[i]]
    BY <2>2
  <2> HIDE DEF g
  <2>4. Flattens(g, seqs, n + 1)
    BY <2>3 DEF Flattens
  <2> QED
    BY <2>4
<1> HIDE DEF T
<1>3. \A n \in Nat : n \in T
  BY <1>1, <1>2, SetInduction
<1> QED
  BY <1>3 DEF T

(* FlattenSeq is its last value.                                           *)
LEMMA FlattenDefined ==
  ASSUME NEW seqs, Len(seqs) \in Nat \ {0}
  PROVE  \E flat : Flattens(flat, seqs, Len(seqs)) /\ FlattenSeq(seqs) = flat[Len(seqs)]
<1> DEFINE flat == CHOOSE f : Flattens(f, seqs, Len(seqs))
<1>1. Flattens(flat, seqs, Len(seqs))
  BY FlattenExists
<1>2. FlattenSeq(seqs) = flat[Len(seqs)]
  BY DEF FlattenSeq, Flattens
<1> QED
  BY <1>1, <1>2

(* A text over S that starts, or ends, with another.                       *)
StartsWith(text, first, S) == \E rest \in Seq(S) : text = first \o rest
EndsWith(text, last, S)    == \E front \in Seq(S) : text = front \o last

(* A text starts and ends with itself.                                     *)
LEMMA StartsWithItself ==
  ASSUME NEW S, NEW text, text \in Seq(S)
  PROVE  StartsWith(text, text, S) /\ EndsWith(text, text, S)
BY EmptySeq, ConcatEmptySeq DEF StartsWith, EndsWith

(* What starts with a sequence still does with more appended to it, and    *)
(* ends with what was appended.                                            *)
LEMMA StartKept ==
  ASSUME NEW S, NEW first, NEW more, NEW text,
         first \in Seq(S), more \in Seq(S), text \in Seq(S), StartsWith(text, first, S)
  PROVE  text \o more \in Seq(S) /\ StartsWith(text \o more, first, S) /\ EndsWith(text \o more, more, S)
<1>1. PICK rest \in Seq(S) : text = first \o rest
  BY DEF StartsWith
<1>2. rest \o more \in Seq(S) /\ text \o more \in Seq(S)
  BY ConcatProperties
<1>3. text \o more = first \o (rest \o more)
  BY <1>1, ConcatAssociative
<1> QED
  BY <1>2, <1>3 DEF StartsWith, EndsWith

(* The concatenation of sequences over S is one: it starts with the first  *)
(* of them and ends with the last.                                         *)
LEMMA FlattenProperties ==
  ASSUME NEW S, NEW seqs, seqs \in Seq(Seq(S)), seqs # << >>
  PROVE  /\ FlattenSeq(seqs) \in Seq(S)
         /\ StartsWith(FlattenSeq(seqs), seqs[1], S)
         /\ EndsWith(FlattenSeq(seqs), seqs[Len(seqs)], S)
<1>1. Len(seqs) \in Nat \ {0} /\ \A i \in 1 .. Len(seqs) : seqs[i] \in Seq(S)
  BY EmptySeq, LenProperties, ElementOfSeq
<1>2. PICK flat : Flattens(flat, seqs, Len(seqs)) /\ FlattenSeq(seqs) = flat[Len(seqs)]
  BY <1>1, FlattenDefined
<1>3. \A i \in 1 .. Len(seqs) : flat[i] = IF i = 1 THEN seqs[i] ELSE flat[i - 1] \o seqs[i]
  BY <1>2 DEF Flattens
<1> DEFINE Good(n) == flat[n] \in Seq(S) /\ StartsWith(flat[n], seqs[1], S) /\ EndsWith(flat[n], seqs[n], S)
           T == {n \in Nat : n \in 1 .. Len(seqs) => Good(n)}
<1>4. Good(1)
  BY <1>1, <1>3, StartsWithItself
<1>5. ASSUME NEW n \in Nat, n + 1 \in 1 .. Len(seqs), n # 0, Good(n) PROVE Good(n + 1)
  <2>1. n + 1 \in 1 .. Len(seqs) /\ 1 \in 1 .. Len(seqs) /\ n + 1 # 1 /\ (n + 1) - 1 = n
    BY <1>1, <1>5
  <2>2. seqs[n + 1] \in Seq(S) /\ seqs[1] \in Seq(S)
    BY <1>1, <2>1, Zenon
  <2>3. flat[n + 1] = flat[n] \o seqs[n + 1]
    BY <1>3, <2>1, Zenon
  <2> QED
    BY <1>5, <2>2, <2>3, StartKept, Zenon
<1>6. \A n \in Nat : n \in T
  <2> HIDE DEF Good
  <2>1. 0 \in T
    OBVIOUS
  <2>2. ASSUME NEW n \in Nat, n \in T PROVE n + 1 \in T
    BY <1>1, <1>4, <1>5, <2>2
  <2> HIDE DEF T
  <2> QED
    BY <2>1, <2>2, SetInduction
<1>7. Good(Len(seqs))
  <2> HIDE DEF Good
  <2> QED
    BY <1>1, <1>6
<1> QED
  BY <1>2, <1>7, Zenon
-----------------------------------------------------------------------------
(* What starts with a text that is not empty has its first symbol.         *)
LEMMA StartOfText ==
  ASSUME NEW S, NEW text, NEW first, text \in Seq(S), first \in Seq(S), first # << >>, StartsWith(text, first, S)
  PROVE  text # << >> /\ text[1] = first[1]
<1>1. PICK rest \in Seq(S) : text = first \o rest
  BY DEF StartsWith
<1>2. Len(first) \in Nat \ {0} /\ Len(rest) \in Nat
  BY EmptySeq, LenProperties
<1>3. Len(text) = Len(first) + Len(rest) /\ text[1] = first[1]
  <2>1. 1 \in 1 .. Len(first) + Len(rest) /\ 1 <= Len(first)
    BY <1>2
  <2> QED
    BY <1>1, <2>1, ConcatProperties
<1> QED
  BY <1>2, <1>3, EmptySeq

(* What ends with a text that is not empty has its last symbol.            *)
LEMMA EndOfText ==
  ASSUME NEW S, NEW text, NEW last, text \in Seq(S), last \in Seq(S), last # << >>, EndsWith(text, last, S)
  PROVE  text # << >> /\ text[Len(text)] = last[Len(last)]
<1>1. PICK front \in Seq(S) : text = front \o last
  BY DEF EndsWith
<1>2. Len(last) \in Nat \ {0} /\ Len(front) \in Nat
  BY EmptySeq, LenProperties
<1>3. Len(text) = Len(front) + Len(last) /\ text[Len(front) + Len(last)] = last[Len(last)]
  <2>1. /\ Len(front) + Len(last) \in 1 .. Len(front) + Len(last) /\ ~(Len(front) + Len(last) <= Len(front))
        /\ Len(front) + Len(last) - Len(front) = Len(last)
    BY <1>2
  <2> QED
    BY <1>1, <2>1, ConcatProperties
<1> QED
  BY <1>2, <1>3, EmptySeq

(* Sequences of sequences over a larger set.                               *)
LEMMA SeqSeqMonotonic ==
  ASSUME NEW S, NEW T, S \subseteq T, NEW args, args \in Seq(Seq(S))
  PROVE  args \in Seq(Seq(T))
<1>2. PICK A, B : A = Seq(S) /\ B = Seq(T)
  OBVIOUS
<1>3. A \subseteq B
  BY <1>2, SeqMonotonic
<1>4. args \in Seq(A)
  BY <1>2
<1>5. args \in Seq(B)
  BY <1>3, <1>4, SeqMonotonic
<1> QED
  BY <1>2, <1>5

(* One element more, or less, at the end of the second of two sequences.   *)
LEMMA ConcatAppend ==
  ASSUME NEW S, NEW prompt, NEW line, NEW c, prompt \in Seq(S), line \in Seq(S), c \in S
  PROVE  Append(prompt \o line, c) = prompt \o Append(line, c)
<1>1. prompt \o line \in Seq(S) /\ << c >> \in Seq(S)
  BY ConcatProperties
<1>2. Append(prompt \o line, c) = (prompt \o line) \o << c >> /\ Append(line, c) = line \o << c >>
  BY <1>1, AppendIsConcat
<1>3. (prompt \o line) \o << c >> = prompt \o (line \o << c >>)
  BY <1>1, ConcatAssociative
<1> QED
  BY <1>2, <1>3

(* SubSeq up to the last element but one undoes Append.                    *)
LEMMA EraseAppended ==
  ASSUME NEW S, NEW text, NEW c, text \in Seq(S), c \in S
  PROVE  SubSeq(Append(text, c), 1, Len(Append(text, c)) - 1) = text
<1>1. PICK longer : longer = Append(text, c)
  OBVIOUS
<1>2. /\ longer \in Seq(S) /\ Len(text) \in Nat /\ Len(longer) = Len(text) + 1
      /\ \A i \in 1 .. Len(text) : longer[i] = text[i] /\ text[i] \in S
  BY <1>1, AppendProperties, LenProperties, ElementOfSeq
<1>3. /\ SubSeq(longer, 1, Len(text)) \in Seq(S)
      /\ Len(SubSeq(longer, 1, Len(text))) = Len(text)
      /\ \A i \in 1 .. Len(text) : SubSeq(longer, 1, Len(text))[i] = longer[i]
  BY <1>2, SubSeqProperties
<1>4. SubSeq(longer, 1, Len(text)) = text
  BY <1>2, <1>3, SeqEqual
<1> QED
  BY <1>1, <1>2, <1>4

(* Erasing from a concatenation erases from its second part.               *)
LEMMA ConcatErase ==
  ASSUME NEW S, NEW prompt, NEW line, prompt \in Seq(S), line \in Seq(S), line # << >>
  PROVE  SubSeq(prompt \o line, 1, Len(prompt \o line) - 1) = prompt \o SubSeq(line, 1, Len(line) - 1)
<1>1. PICK start \in Seq(S), c \in S : line = Append(start, c)
  BY SequenceEmptyOrAppend
<1>2. prompt \o line = Append(prompt \o start, c)
  BY <1>1, ConcatAppend
<1>3. prompt \o start \in Seq(S)
  BY ConcatProperties
<1>4. SubSeq(prompt \o line, 1, Len(prompt \o line) - 1) = prompt \o start
  BY <1>2, <1>3, EraseAppended
<1>5. SubSeq(line, 1, Len(line) - 1) = start
  BY <1>1, EraseAppended
<1> QED
  BY <1>4, <1>5
-----------------------------------------------------------------------------
(* The function that splits the first m characters of a text into          *)
(* arguments, at a separator.                                              *)
Splits(args, line, sep, m) ==
  args = [n \in 0 .. m |->
            IF n = 0 THEN << << >> >>
            ELSE LET before == args[n - 1]
                 IN  IF line[n] # sep THEN [before EXCEPT ![Len(before)] = Append(@, line[n])]
                     ELSE IF n > 1 /\ line[n - 1] = sep THEN before
                     ELSE Append(before, << >>)]

(* One character more.                                                     *)
SplitStep(before, line, sep, n) ==
  IF line[n] # sep THEN [before EXCEPT ![Len(before)] = Append(@, line[n])]
  ELSE IF n > 1 /\ line[n - 1] = sep THEN before
  ELSE Append(before, << >>)

(* Splits, one character at a time.                                        *)
LEMMA SplitsByStep ==
  ASSUME NEW args, NEW line, NEW sep, NEW m \in Nat
  PROVE  Splits(args, line, sep, m) <=>
           args = [n \in 0 .. m |-> IF n = 0 THEN << << >> >> ELSE SplitStep(args[n - 1], line, sep, n)]
BY DEF Splits, SplitStep

(* It exists, by induction on m.                                           *)
LEMMA SplitsExists == ASSUME NEW line, NEW sep PROVE \A m \in Nat : \E args : Splits(args, line, sep, m)
<1> DEFINE T == {m \in Nat : \E args : Splits(args, line, sep, m)}
<1>1. 0 \in T
  <2> DEFINE f == [n \in 0 .. 0 |-> << << >> >>]
  <2>1. f = [n \in 0 .. 0 |-> IF n = 0 THEN << << >> >> ELSE SplitStep(f[n - 1], line, sep, n)]
    OBVIOUS
  <2> HIDE DEF f
  <2> QED
    BY <2>1, SplitsByStep
<1>2. ASSUME NEW m \in Nat, m \in T PROVE m + 1 \in T
  <2>1. PICK f : Splits(f, line, sep, m)
    BY <1>2
  <2>2. f = [n \in 0 .. m |-> IF n = 0 THEN << << >> >> ELSE SplitStep(f[n - 1], line, sep, n)]
    BY <2>1, SplitsByStep
  <2> DEFINE g == [n \in 0 .. m + 1 |-> IF n = m + 1 THEN SplitStep(f[m], line, sep, m + 1) ELSE f[n]]
  <2>3. ASSUME NEW n \in 0 .. m + 1
        PROVE  g[n] = IF n = 0 THEN << << >> >> ELSE SplitStep(g[n - 1], line, sep, n)
    <3>1. CASE n = m + 1
      <4>1. n # 0 /\ n - 1 = m /\ m \in 0 .. m + 1 /\ m # m + 1
        BY <3>1
      <4>2. g[n] = SplitStep(f[m], line, sep, n) /\ g[n - 1] = f[m]
        BY <3>1, <4>1
      <4> QED
        BY <4>1, <4>2
    <3>2. CASE n # m + 1
      <4>1. n \in 0 .. m /\ g[n] = f[n]
        BY <3>2
      <4>2. f[n] = IF n = 0 THEN << << >> >> ELSE SplitStep(f[n - 1], line, sep, n)
        BY <2>2, <4>1
      <4>3. n # 0 => n - 1 \in 0 .. m + 1 /\ n - 1 # m + 1
        BY <4>1
      <4> QED
        BY <4>1, <4>2, <4>3
    <3> QED
      BY <3>1, <3>2
  <2>4. g = [n \in 0 .. m + 1 |-> IF n = 0 THEN << << >> >> ELSE SplitStep(g[n - 1], line, sep, n)]
    BY <2>3
  <2> HIDE DEF g
  <2>5. Splits(g, line, sep, m + 1)
    BY SMTT(30), <2>4, SplitsByStep
  <2> QED
    BY <2>5
<1> HIDE DEF T
<1>3. \A m \in Nat : m \in T
  BY <1>1, <1>2, SetInduction
<1> QED
  BY <1>3 DEF T
=============================================================================
