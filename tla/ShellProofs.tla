----------------------------- MODULE ShellProofs -----------------------------
(***************************************************************************)
(* Proofs about Shell, for every size of its buffers, every alphabet, and  *)
(* every table of command names: the index never leaves the input buffer;  *)
(* buffer, index and terminator implement the line editor; the last line   *)
(* of the console is the prompt and the line; and no command leaves the    *)
(* prompt ill formed or, when it prints an error, a setting changed.       *)
(***************************************************************************)
EXTENDS Shell, SequenceProofs

(* Below the index there are typed characters only: after the terminator   *)
(* has been written at the index it is the first NUL of the buffer.        *)
BufferInv ==
  /\ BufferOK
  /\ \A j \in 0 .. inputIndex - 1 : inputBuffer[j] \in Chars

(* A prefix is a sequence of the characters it is made of.                 *)
LEMMA PrefixSeq ==
  ASSUME NEW S, NEW buf, NEW n \in Nat, \A i \in 1 .. n : buf[i - 1] \in S
  PROVE  Prefix(buf, n) \in Seq(S)
<1>1. Prefix(buf, n) \in [1 .. n -> S]
  BY DEF Prefix
<1> QED
  BY <1>1

(* Its elements are those of the buffer.                                   *)
LEMMA PrefixElements ==
  ASSUME NEW buf, NEW n \in Nat
  PROVE  Len(Prefix(buf, n)) = n /\ \A i \in 1 .. n : Prefix(buf, n)[i] = buf[i - 1]
<1>1. PICK S : Prefix(buf, n) \in [1 .. n -> S]
  <2>1. Prefix(buf, n) \in [1 .. n -> {buf[i - 1] : i \in 1 .. n}]
    BY DEF Prefix
  <2> QED
    BY <2>1
<1>2. Prefix(buf, n) \in Seq(S)
  BY <1>1
<1>3. Len(Prefix(buf, n)) = n
  BY <1>1, <1>2, LenProperties
<1> QED
  BY <1>3 DEF Prefix

(* Nothing typed, nothing in the line.                                     *)
LEMMA PrefixEmpty == ASSUME NEW buf PROVE Prefix(buf, 0) = << >>
BY DEF Prefix

(* Storing a character at the index appends it to the line.                *)
LEMMA PrefixAppend ==
  ASSUME NEW n \in Nat, NEW buf, NEW new, NEW c \in Chars,
         new[n] = c, \A i \in 1 .. n : buf[i - 1] \in Chars /\ new[i - 1] = buf[i - 1]
  PROVE  Prefix(new, n + 1) = Append(Prefix(buf, n), c)
<1>1. n + 1 \in Nat /\ \A i \in 1 .. n + 1 : i = n + 1 \/ i \in 1 .. n
  OBVIOUS
<1>2. \A i \in 1 .. n + 1 : new[i - 1] \in Chars
  <2> SUFFICES ASSUME NEW i \in 1 .. n + 1 PROVE new[i - 1] \in Chars
    OBVIOUS
  <2>1. CASE i = n + 1
    <3>1. i - 1 = n
      BY <2>1
    <3> QED
      BY <3>1
  <2>2. CASE i \in 1 .. n
    BY <2>2
  <2> QED
    BY <1>1, <2>1, <2>2
<1>3. Prefix(new, n + 1) \in Seq(Chars) /\ Prefix(buf, n) \in Seq(Chars)
  BY <1>1, <1>2, PrefixSeq
<1>4. /\ Append(Prefix(buf, n), c) \in Seq(Chars) /\ Len(Append(Prefix(buf, n), c)) = n + 1
      /\ \A i \in 1 .. n : Append(Prefix(buf, n), c)[i] = Prefix(buf, n)[i]
      /\ Append(Prefix(buf, n), c)[n + 1] = c
  BY <1>3, PrefixElements, AppendProperties
<1>5. ASSUME NEW i \in 1 .. n + 1 PROVE Prefix(new, n + 1)[i] = Append(Prefix(buf, n), c)[i]
  <2>1. Prefix(new, n + 1)[i] = new[i - 1]
    BY <1>1, PrefixElements
  <2>2. CASE i = n + 1
    <3>1. i - 1 = n
      BY <2>2
    <3> QED
      BY <2>1, <2>2, <3>1, <1>4
  <2>3. CASE i \in 1 .. n
    <3>1. Prefix(buf, n)[i] = buf[i - 1]
      BY <2>3, PrefixElements
    <3> QED
      BY <2>1, <2>3, <3>1, <1>4
  <2> QED
    BY <1>1, <2>2, <2>3
<1>6. Len(Prefix(new, n + 1)) = n + 1
  BY <1>1, PrefixElements
<1> QED
  BY <1>3, <1>4, <1>5, <1>6, SeqEqual

(* Moving the index back erases the last character of the line.            *)
LEMMA PrefixErase ==
  ASSUME NEW S, NEW n \in Nat \ {0}, NEW buf, \A i \in 1 .. n : buf[i - 1] \in S
  PROVE  Prefix(buf, n - 1) = SubSeq(Prefix(buf, n), 1, n - 1)
<1>1. n - 1 \in Nat /\ \A i \in 1 .. n - 1 : buf[i - 1] \in S
  OBVIOUS
<1>2. Prefix(buf, n) \in Seq(S) /\ Prefix(buf, n - 1) \in Seq(S)
  BY <1>1, PrefixSeq
<1>3. /\ Len(Prefix(buf, n)) = n /\ Len(Prefix(buf, n - 1)) = n - 1
      /\ \A i \in 1 .. n : Prefix(buf, n)[i] = buf[i - 1]
      /\ \A i \in 1 .. n - 1 : Prefix(buf, n - 1)[i] = buf[i - 1]
  BY <1>1, PrefixElements
<1>4. /\ SubSeq(Prefix(buf, n), 1, n - 1) \in Seq(S)
      /\ Len(SubSeq(Prefix(buf, n), 1, n - 1)) = n - 1
      /\ \A i \in 1 .. n - 1 : SubSeq(Prefix(buf, n), 1, n - 1)[i] = Prefix(buf, n)[i]
  BY <1>2, <1>3, SubSeqProperties
<1>5. ASSUME NEW i \in 1 .. n - 1
      PROVE  Prefix(buf, n - 1)[i] = SubSeq(Prefix(buf, n), 1, n - 1)[i]
  BY <1>3, <1>4, i \in 1 .. n
<1> QED
  BY <1>2, <1>3, <1>4, <1>5, SeqEqual

(* With the terminator in place, the C string in the buffer is the line.   *)
LEMMA TerminatedLine == ASSUME BufferInv PROVE CString(Terminated) = Line
<1> USE CharsAssumption, SizeAssumption DEF BufferInv, BufferOK, Positions
<1>1. /\ DOMAIN Terminated = Positions /\ Terminated[inputIndex] = NUL
      /\ \A j \in Positions : j < inputIndex => Terminated[j] = inputBuffer[j]
  BY DEF Terminated
<1>2. \A j \in Positions : j < inputIndex => Terminated[j] # NUL
  BY <1>1 DEF NUL
<1>3. FirstNul(Terminated) = inputIndex
  <2> DEFINE IsFirst(i) == Terminated[i] = NUL /\ \A j \in Positions : j < i => Terminated[j] # NUL
  <2>1. inputIndex \in Positions /\ IsFirst(inputIndex)
    BY <1>1, <1>2
  <2>2. \A i \in Positions : IsFirst(i) => i = inputIndex
    BY <1>1, <1>2
  <2>3. FirstNul(Terminated) = CHOOSE i \in Positions : IsFirst(i)
    BY <1>1 DEF FirstNul
  <2> QED
    BY <2>1, <2>2, <2>3
<1> QED
  BY <1>1, <1>3 DEF CString, Prefix, Line
-----------------------------------------------------------------------------
(* The buffer is empty at first.                                           *)
LEMMA InitBufferInv == Init => BufferInv
BY SizeAssumption DEF Init, BufferInv, BufferOK, Positions

(* Each key keeps what is below the index.                                 *)
LEMMA NextBufferInv == BufferInv /\ [Next]_vars => BufferInv'
<1> SUFFICES ASSUME BufferInv, [Next]_vars PROVE BufferInv'
  OBVIOUS
<1> USE SizeAssumption DEF BufferInv, BufferOK, Positions
<1>1. CASE EnterKey
  BY <1>1 DEF EnterKey, clearInputBuffer
<1>2. CASE BackspaceKey
  BY <1>2 DEF BackspaceKey
<1>3. ASSUME NEW key \in Chars, NormalKey(key) PROVE BufferInv'
  BY <1>3 DEF NormalKey, RoomLeft
<1>4. CASE UNCHANGED vars
  BY <1>4 DEF vars
<1> QED
  BY <1>1, <1>2, <1>3, <1>4 DEF Next, shellKeyCallback, Ignored

(* BufferInv is inductive.                                                 *)
LEMMA BufferInvariant == Spec => []BufferInv
BY InitBufferInv, NextBufferInv, PTL DEF Spec

(* For every MAX_INPUT_SIZE: the index stays inside the input buffer, also *)
(* for the terminator that Enter writes.                                   *)
THEOREM IndexInBounds == Spec => []BufferOK
BY BufferInvariant, PTL DEF BufferInv
-----------------------------------------------------------------------------
(* The shell starts as the editor does.                                    *)
LEMMA InitEditor == Init => Editor!Init
<1> SUFFICES ASSUME Init PROVE Line = << >> /\ submitted = << >>
  BY DEF Editor!Init
<1> QED
  BY PrefixEmpty DEF Init, Line

(* Each key is a step of the editor, or none.                              *)
LEMMA NextEditor == BufferInv /\ BufferInv' /\ [Next]_vars => [Editor!Next]_(Editor!vars)
<1> SUFFICES ASSUME BufferInv, BufferInv', [Next]_vars PROVE [Editor!Next]_(Editor!vars)
  OBVIOUS
<1> USE SizeAssumption
<1>0. /\ inputIndex \in Nat /\ inputIndex <= MAX_INPUT_SIZE - 1
      /\ Line \in Seq(Chars) /\ Len(Line) = inputIndex
  <2>1. inputIndex \in Nat /\ \A i \in 1 .. inputIndex : inputBuffer[i - 1] \in Chars
    BY DEF BufferInv, BufferOK, Positions
  <2> QED
    BY <2>1, PrefixSeq, PrefixElements DEF BufferInv, BufferOK, Positions, Line
<1>1. CASE EnterKey
  <2>1. Line' = << >>
    BY <1>1, PrefixEmpty DEF EnterKey, clearInputBuffer, Line
  <2>2. submitted' = << Line >>
    BY <1>1, TerminatedLine DEF EnterKey
  <2> QED
    BY <2>1, <2>2 DEF Editor!Next, Editor!Submit
<1>2. CASE BackspaceKey
  <2>1. Line # << >>
    BY <1>0, <1>2 DEF BackspaceKey
  <2>2. Line' = SubSeq(Line, 1, Len(Line) - 1)
    <3>1. inputIndex \in Nat \ {0} /\ \A i \in 1 .. inputIndex : inputBuffer[i - 1] \in Chars
      BY <1>0, <1>2 DEF BackspaceKey, BufferInv
    <3>2. Prefix(inputBuffer, inputIndex - 1) = SubSeq(Prefix(inputBuffer, inputIndex), 1, inputIndex - 1)
      BY <3>1, PrefixErase
    <3> QED
      BY <1>0, <1>2, <3>2 DEF BackspaceKey, Line
  <2> QED
    BY <1>2, <2>1, <2>2 DEF BackspaceKey, Editor!Next, Editor!Erase
<1>3. ASSUME NEW key \in Chars, NormalKey(key) PROVE Editor!Next
  <2>0. inputIndex \in Nat
    BY <1>0
  <2>1. Len(Line) < MAX_INPUT_SIZE - 1
    BY <1>0, <1>3 DEF NormalKey, RoomLeft
  <2>2. Line' = Append(Line, key)
    <3>1. /\ inputBuffer'[inputIndex] = key
          /\ \A i \in 1 .. inputIndex : /\ inputBuffer[i - 1] \in Chars
                                      /\ inputBuffer'[i - 1] = inputBuffer[i - 1]
      BY <1>0, <1>3 DEF NormalKey, BufferInv, BufferOK, Positions
    <3>2. Prefix(inputBuffer', inputIndex + 1) = Append(Prefix(inputBuffer, inputIndex), key)
      BY <2>0, <3>1, PrefixAppend
    <3> QED
      BY <1>3, <3>2 DEF NormalKey, Line
  <2> QED
    BY <1>3, <2>1, <2>2 DEF NormalKey, Editor!Next, Editor!Type
<1>4. CASE UNCHANGED vars
  BY <1>4 DEF vars, Editor!vars, Line
<1> QED
  BY <1>1, <1>2, <1>3, <1>4 DEF Next, shellKeyCallback, Ignored

(* The shell implements the line editor, for every size of the buffer and  *)
(* every alphabet: what is parsed on Enter is the line as edited, whatever *)
(* erased characters the buffer still holds.                               *)
THEOREM ShellImplementsLineEditor == Spec => ImplementsLineEditor
BY BufferInvariant, InitEditor, NextEditor, PTL DEF Spec, ImplementsLineEditor, Editor!Spec
-----------------------------------------------------------------------------
(***************************************************************************)
(* The commands, and what is shown.                                        *)
(***************************************************************************)
(* The split of a line yields at least one argument, and no argument holds *)
(* a space.                                                                *)
LEMMA SplitProperties ==
  ASSUME NEW S, NEW line, line \in Seq(S)
  PROVE  Split(line) \in Seq(Seq(S \ {SP})) /\ Split(line) # << >>
<1>1. Len(line) \in Nat /\ \A n \in 1 .. Len(line) : line[n] \in S
  BY LenProperties, ElementOfSeq
<1> DEFINE args == CHOOSE f : Splits(f, line, SP, Len(line))
<1>2. Splits(args, line, SP, Len(line))
  BY <1>1, SplitsExists
<1>3. Split(line) = args[Len(line)]
  BY DEF Split, Splits
<1>4. \A n \in 0 .. Len(line) : args[n] = IF n = 0 THEN << << >> >> ELSE SplitStep(args[n - 1], line, SP, n)
  BY <1>1, <1>2, SplitsByStep
<1> HIDE DEF args
<1> DEFINE Good(a) == a \in Seq(Seq(S \ {SP})) /\ a # << >>
           T == {n \in Nat : n <= Len(line) => Good(args[n])}
<1>5. Good(args[0])
  <2>1. args[0] = << << >> >>
    BY <1>1, <1>4
  <2>2. << >> \in Seq(S \ {SP})
    BY EmptySeq
  <2> QED
    BY <2>1, <2>2
<1>6. ASSUME NEW n \in Nat, n + 1 <= Len(line), Good(args[n]) PROVE Good(args[n + 1])
  <2>1. n + 1 \in 1 .. Len(line) /\ n + 1 \in 0 .. Len(line) /\ n + 1 # 0 /\ (n + 1) - 1 = n
    BY <1>1, <1>6
  <2>2. args[n + 1] = SplitStep(args[n], line, SP, n + 1)
    BY <1>4, <2>1
  <2>3. PICK a, c : a = args[n] /\ c = line[n + 1]
    OBVIOUS
  <2>4. a \in Seq(Seq(S \ {SP})) /\ a # << >> /\ c \in S
    BY <1>1, <1>6, <2>1, <2>3
  <2>5. Len(a) \in 1 .. Len(a) /\ a[Len(a)] \in Seq(S \ {SP})
    BY <2>4, EmptySeq, LenProperties, ElementOfSeq
  <2>6. CASE c # SP
    <3>1. PICK e : e = Append(a[Len(a)], c)
      OBVIOUS
    <3>2. e \in Seq(S \ {SP})
      BY <2>4, <2>5, <2>6, <3>1, AppendProperties
    <3>3. args[n + 1] = [a EXCEPT ![Len(a)] = e]
      BY <2>2, <2>3, <2>6, <3>1 DEF SplitStep
    <3>4. [a EXCEPT ![Len(a)] = e] \in Seq(Seq(S \ {SP})) /\ Len([a EXCEPT ![Len(a)] = e]) = Len(a)
      BY <2>4, <2>5, <3>2, ExceptSeq
    <3> QED
      BY <2>5, <3>3, <3>4, EmptySeq
  <2>7. CASE c = SP
    <3>1. args[n + 1] = a \/ args[n + 1] = Append(a, << >>)
      BY <2>2, <2>3, <2>7 DEF SplitStep
    <3>2. Append(a, << >>) \in Seq(Seq(S \ {SP})) /\ Append(a, << >>) # << >>
      BY <2>4, EmptySeq, AppendProperties
    <3> QED
      BY <2>4, <3>1, <3>2
  <2> QED
    BY <2>6, <2>7
<1>7. \A n \in Nat : n \in T
  <2> HIDE DEF Good
  <2>1. 0 \in T
    BY <1>5
  <2>2. ASSUME NEW n \in Nat, n \in T PROVE n + 1 \in T
    BY <1>1, <1>6, <2>2
  <2> HIDE DEF T
  <2> QED
    BY <2>1, <2>2, SetInduction
<1>8. Good(args[Len(line)])
  <2> HIDE DEF Good
  <2> QED
    BY <1>1, <1>7
<1> QED
  BY <1>3, <1>8

(* Arguments with something around them each, and no argument at all.      *)
LEMMA SpacedType ==
  ASSUME NEW S, NEW args, args \in Seq(Seq(S)), SP \in S
  PROVE  Spaced(args) \in Seq(S)
<1> DEFINE seqs == [k \in DOMAIN args |-> args[k] \o << SP >>]
<1>1. Len(args) \in Nat /\ DOMAIN args = 1 .. Len(args) /\ \A k \in 1 .. Len(args) : args[k] \in Seq(S)
  BY LenProperties, ElementOfSeq
<1>2. << SP >> \in Seq(S)
  OBVIOUS
<1>3. \A k \in 1 .. Len(args) : args[k] \o << SP >> \in Seq(S)
  BY <1>1, <1>2, ConcatProperties
<1>4. seqs \in Seq(Seq(S))
  BY <1>1, <1>3
<1>5. Spaced(args) = FlattenSeq(seqs)
  BY DEF Spaced
<1> HIDE DEF seqs
<1>6. CASE seqs = << >>
  BY <1>5, <1>6, EmptySeq DEF FlattenSeq
<1>7. CASE seqs # << >>
  BY <1>4, <1>5, <1>7, FlattenProperties
<1> QED
  BY <1>6, <1>7

(* The arguments joined start with the first of them.                      *)
LEMMA JoinedProperties ==
  ASSUME NEW S, NEW args, args \in Seq(Seq(S)), SP \in S, args # << >>
  PROVE  Joined(args) \in Seq(S) /\ StartsWith(Joined(args), args[1], S)
<1> DEFINE seqs == [k \in DOMAIN args |-> IF k = 1 THEN args[k] ELSE << SP >> \o args[k]]
<1>1. Len(args) \in Nat \ {0} /\ DOMAIN args = 1 .. Len(args) /\ \A k \in 1 .. Len(args) : args[k] \in Seq(S)
  BY EmptySeq, LenProperties, ElementOfSeq
<1>2. << SP >> \in Seq(S)
  OBVIOUS
<1>3. \A k \in 1 .. Len(args) : << SP >> \o args[k] \in Seq(S)
  BY <1>1, <1>2, ConcatProperties
<1>4. seqs \in Seq(Seq(S)) /\ Len(seqs) = Len(args) /\ seqs[1] = args[1]
  BY <1>1, <1>3
<1>5. Joined(args) = FlattenSeq(seqs)
  BY DEF Joined
<1> HIDE DEF seqs
<1>6. seqs # << >>
  BY <1>1, <1>4, EmptySeq
<1>7. FlattenSeq(seqs) \in Seq(S) /\ StartsWith(FlattenSeq(seqs), seqs[1], S)
  BY <1>4, <1>6, FlattenProperties
<1> QED
  BY <1>4, <1>5, <1>7

(* tolower stays within ASCII.                                             *)
LEMMA LowerType ==
  ASSUME NEW arg, arg \in Seq(1 .. 127)
  PROVE  Lower(arg) \in Seq(1 .. 127)
<1>1. ASSUME NEW c \in 1 .. 127 PROVE ToLower(c) \in 1 .. 127
  BY DEF ToLower
<1>2. Len(arg) \in Nat /\ DOMAIN arg = 1 .. Len(arg) /\ \A k \in 1 .. Len(arg) : arg[k] \in 1 .. 127
  BY LenProperties, ElementOfSeq
<1>3. \A k \in 1 .. Len(arg) : ToLower(arg[k]) \in 1 .. 127
  BY <1>1, <1>2
<1>4. Lower(arg) \in [1 .. Len(arg) -> 1 .. 127]
  BY <1>2, <1>3 DEF Lower
<1> QED
  BY <1>2, <1>4, SeqDef, ZenonT(40)

(* What is left on the line that a text ends when its last symbol ends a   *)
(* line is nothing.                                                        *)
LEMMA NothingLeft ==
  ASSUME NEW S, NEW text, text \in Seq(S), NEW breaks,
         text = << >> \/ text[Len(text)] \in breaks
  PROVE  LastLine(text, breaks) = << >>
<1> DEFINE I == {i \in 1 .. Len(text) : text[i] \in breaks}
           last == IF I # {} THEN Max(I) ELSE 0
<1>1. Len(text) \in Nat /\ I \in SUBSET Nat /\ \A i \in I : i <= Len(text)
  BY LenProperties
<1>2. LastLine(text, breaks) = SubSeq(text, last + 1, Len(text))
  BY DEF LastLine, SelectLastInSeq
<1>3. last = Len(text)
  <2>1. CASE text = << >>
    BY <2>1, EmptySeq
  <2>2. CASE text # << >>
    <3>1. Len(text) \in I
      BY <1>1, <2>2, EmptySeq
    <3>2. Max(I) \in I /\ \A i \in I : i <= Max(I)
      <4> HIDE DEF I
      <4> QED
        BY <1>1, <3>1, MaxProperties
    <3> QED
      BY <3>1, <3>2
  <2> QED
    BY <2>1, <2>2
<1> HIDE DEF last
<1> QED
  BY <1>1, <1>2, <1>3, SubSeqEmpty

(* The function that the value of a number is folded by, over the sets of  *)
(* its first n indices.                                                    *)
NextValue(n, c) == (n * 10 + (c - 48)) % 256
Folds(value, digits, n) ==
  value = [s \in SUBSET (1 .. n) |->
             IF s = {} THEN 0 ELSE NextValue(value[s \ {Max(s)}], digits[Max(s)])]

(* It exists, by induction on n.                                           *)
LEMMA FoldsExists == ASSUME NEW digits PROVE \A n \in Nat : \E value : Folds(value, digits, n)
<1> DEFINE T == {n \in Nat : \E value : Folds(value, digits, n)}
<1>1. 0 \in T
  <2> DEFINE f == [s \in SUBSET (1 .. 0) |-> 0]
  <2>1. f = [s \in SUBSET (1 .. 0) |-> IF s = {} THEN 0 ELSE NextValue(f[s \ {Max(s)}], digits[Max(s)])]
    OBVIOUS
  <2> HIDE DEF f
  <2> QED
    BY <2>1 DEF Folds
<1>2. ASSUME NEW n \in Nat, n \in T PROVE n + 1 \in T
  <2>1. PICK f : Folds(f, digits, n)
    BY <1>2
  <2>2. \A s \in SUBSET (1 .. n) : f[s] = IF s = {} THEN 0 ELSE NextValue(f[s \ {Max(s)}], digits[Max(s)])
    BY <2>1 DEF Folds
  <2> DEFINE g == [s \in SUBSET (1 .. n + 1) |->
                     IF n + 1 \in s THEN NextValue(f[s \ {n + 1}], digits[n + 1]) ELSE f[s]]
  <2>3. ASSUME NEW s \in SUBSET (1 .. n + 1)
        PROVE  g[s] = IF s = {} THEN 0 ELSE NextValue(g[s \ {Max(s)}], digits[Max(s)])
    <3>1. CASE n + 1 \in s
      <4>1. Max(s) = n + 1
        <5>1. s \in SUBSET Nat /\ s # {} /\ \A i \in s : i <= n + 1
          BY <3>1
        <5>2. Max(s) \in s /\ \A i \in s : i <= Max(s)
          BY <5>1, MaxProperties
        <5>3. PICK m : m = Max(s)
          OBVIOUS
        <5>4. m \in 1 .. n + 1 /\ n + 1 <= m
          BY <3>1, <5>2, <5>3
        <5>5. m = n + 1
          BY <5>4
        <5> QED
          BY <5>3, <5>5
      <4>2. s \ {n + 1} \in SUBSET (1 .. n + 1) /\ n + 1 \notin s \ {n + 1}
        OBVIOUS
      <4>3. g[s \ {n + 1}] = f[s \ {n + 1}] /\ g[s] = NextValue(f[s \ {n + 1}], digits[n + 1])
        BY <3>1, <4>2
      <4> QED
        BY <3>1, <4>1, <4>3
    <3>2. CASE n + 1 \notin s
      <4>1. s \in SUBSET (1 .. n) /\ g[s] = f[s]
        BY <3>2
      <4>2. s \ {Max(s)} \in SUBSET (1 .. n + 1) /\ n + 1 \notin s \ {Max(s)}
        BY <3>2
      <4>3. g[s \ {Max(s)}] = f[s \ {Max(s)}]
        BY <4>2
      <4> QED
        BY <2>2, <4>1, <4>3
    <3> QED
      BY <3>1, <3>2
  <2>4. g = [s \in SUBSET (1 .. n + 1) |-> IF s = {} THEN 0 ELSE NextValue(g[s \ {Max(s)}], digits[Max(s)])]
    BY <2>3
  <2> HIDE DEF g
  <2>5. Folds(g, digits, n + 1)
    BY <2>4 DEF Folds
  <2> QED
    BY <2>5
<1> HIDE DEF T
<1>3. \A n \in Nat : n \in T
  BY <1>1, <1>2, SetInduction
<1> QED
  BY <1>3 DEF T

(* The fold of the digits of a number, whatever they are, ends in a byte.  *)
LEMMA FoldedByte ==
  ASSUME NEW digits, digits \in Seq(Int)
  PROVE  FoldLeft(LAMBDA n, c : (n * 10 + (c - 48)) % 256, 0, digits) \in 0 .. 255
<1>1. Len(digits) \in Nat /\ DOMAIN digits = 1 .. Len(digits) /\ \A k \in 1 .. Len(digits) : digits[k] \in Int
  BY LenProperties, ElementOfSeq
<1> DEFINE value == CHOOSE f : Folds(f, digits, Len(digits))
<1>2. Folds(value, digits, Len(digits))
  BY <1>1, FoldsExists
<1>3. FoldLeft(LAMBDA n, c : (n * 10 + (c - 48)) % 256, 0, digits) = value[1 .. Len(digits)]
  BY <1>1 DEF FoldLeft, MapThenFoldSet, Folds, NextValue
<1> HIDE DEF value
<1> DEFINE T == {n \in Nat : n <= Len(digits) => value[1 .. n] \in 0 .. 255}
<1>4. \A s \in SUBSET (1 .. Len(digits)) :
        value[s] = IF s = {} THEN 0 ELSE NextValue(value[s \ {Max(s)}], digits[Max(s)])
  BY <1>2 DEF Folds
<1>5. value[1 .. 0] = 0
  <2>1. (1 .. 0) = {} /\ {} \in SUBSET (1 .. Len(digits))
    OBVIOUS
  <2> QED
    BY <1>4, <2>1, Zenon
<1>6. ASSUME NEW n \in Nat, n + 1 <= Len(digits), value[1 .. n] \in 0 .. 255
      PROVE  value[1 .. n + 1] \in 0 .. 255
  <2>1. Max(1 .. n + 1) = n + 1
    <3>1. PICK s : s = 1 .. n + 1
      OBVIOUS
    <3>a. n + 1 \in 1 .. n + 1 /\ \A i \in 1 .. n + 1 : i \in Nat /\ i <= n + 1
      OBVIOUS
    <3>2. s \in SUBSET Nat /\ s # {} /\ n + 1 \in s /\ \A i \in s : i <= n + 1
      BY <3>1, <3>a, Zenon
    <3>3. Max(s) \in s /\ \A i \in s : i <= Max(s)
      BY <3>2, MaxProperties
    <3>4. PICK m : m = Max(s)
      OBVIOUS
    <3>5. m \in 1 .. n + 1 /\ n + 1 <= m
      BY <3>1, <3>2, <3>3, <3>4
    <3>6. m = n + 1
      BY <3>5
    <3> QED
      BY <3>1, <3>4, <3>6
  <2>2. (1 .. n + 1) \ {n + 1} = 1 .. n /\ (1 .. n + 1) # {} /\ (1 .. n + 1) \in SUBSET (1 .. Len(digits))
    <3>1. \A i : i \in (1 .. n + 1) \ {n + 1} <=> i \in 1 .. n
      OBVIOUS
    <3>2. n + 1 \in 1 .. n + 1
      OBVIOUS
    <3>3. \A i \in 1 .. n + 1 : i \in 1 .. Len(digits)
      BY <1>1, <1>6
    <3>4. (1 .. n + 1) \ {n + 1} = 1 .. n
      BY <3>1, Zenon
    <3> QED
      BY <3>2, <3>3, <3>4, Zenon
  <2>3. value[1 .. n + 1] = NextValue(value[1 .. n], digits[n + 1])
    BY <1>4, <2>1, <2>2
  <2>4. n + 1 \in 1 .. Len(digits)
    BY <1>1, <1>6
  <2>5. PICK v, d : v = value[1 .. n] /\ d = digits[n + 1]
    OBVIOUS
  <2>a. v \in Int
    <3>1. v \in 0 .. 255
      BY <1>6, <2>5, Zenon
    <3> QED
      BY <3>1
  <2>b. d \in Int
    BY <1>1, <2>4, <2>5
  <2>6. (v * 10 + (d - 48)) % 256 \in 0 .. 255
    BY <2>a, <2>b
  <2> QED
    BY <2>3, <2>5, <2>6 DEF NextValue
<1>7. \A n \in Nat : n \in T
  <2>1. 0 \in T
    BY <1>5
  <2>2. ASSUME NEW n \in Nat, n \in T PROVE n + 1 \in T
    BY <1>1, <1>6, <2>2
  <2> HIDE DEF T
  <2> QED
    BY <2>1, <2>2, SetInduction
<1>8. value[1 .. Len(digits)] \in 0 .. 255
  <2>1. Len(digits) \in T
    BY <1>1, <1>7, Zenon
  <2>2. Len(digits) <= Len(digits)
    BY <1>1
  <2> QED
    BY <2>1, <2>2, Zenon
<1> QED
  BY <1>3, <1>8

(* A colour component is a byte, whatever the argument holds.              *)
LEMMA ByteOfType ==
  ASSUME NEW arg, arg \in Seq(1 .. 127)
  PROVE  ByteOf(arg) \in 0 .. 255
<1>1. Len(arg) \in Nat /\ \A k \in 1 .. Len(arg) : arg[k] \in 1 .. 127
  BY LenProperties, ElementOfSeq
<1> DEFINE I == {i \in 1 .. Len(arg) : arg[i] \notin 48 .. 57}
           stop == IF I # {} THEN Min(I) ELSE 0
           n == IF stop = 0 THEN Len(arg) ELSE stop - 1
<1>2. Digits(arg) = SubSeq(arg, 1, n)
  BY DEF Digits, SelectInSeq
<1>3. n \in 0 .. Len(arg)
  <2>1. stop \in 0 .. Len(arg)
    <3>1. I \in SUBSET Nat /\ I \subseteq 1 .. Len(arg)
      BY <1>1
    <3> HIDE DEF I
    <3>2. I # {} => Min(I) \in 1 .. Len(arg)
      BY <3>1, MinProperties
    <3> QED
      BY <1>1, <3>2
  <2> HIDE DEF stop
  <2> QED
    BY <1>1, <2>1
<1> HIDE DEF n
<1>4. Digits(arg) \in Seq(Int)
  <2>1. n \in Int /\ 1 \in Int /\ \A i \in 1 .. n : arg[i] \in Int
    <3>1. n \in Int
      BY <1>1, <1>3
    <3>2. ASSUME NEW i \in 1 .. n PROVE arg[i] \in Int
      <4>1. i \in 1 .. Len(arg)
        BY <1>1, <1>3
      <4>2. arg[i] \in 1 .. 127
        BY <1>1, <4>1, Zenon
      <4>3. \A c \in 1 .. 127 : c \in Int
        OBVIOUS
      <4> QED
        BY <4>2, <4>3, Zenon
    <3> QED
      BY <3>1, <3>2
  <2>2. SubSeq(arg, 1, n) \in Seq(Int)
    BY <2>1, SubSeqProperties
  <2> QED
    BY <1>2, <2>2
<1> QED
  BY <1>4, FoldedByte DEF ByteOf

(* What a command leaves behind: settings of their types, a prompt that is *)
(* well formed, and output that ends a line, if there is any.              *)
Settings ==
  /\ shellPrompt \in Seq(1 .. 127) /\ PromptWellFormed
  /\ fg \in [1 .. 3 -> 0 .. 255] /\ bg \in [1 .. 3 -> 0 .. 255]
Ended(text) == text \in Seq(Symbols) /\ (text = << >> \/ text[Len(text)] \in {LF, Reset})
Refused(text) == \E i \in DOMAIN text : text[i] \in Errors
Executed == Settings' /\ Ended(output') /\ (Refused(output') => UNCHANGED settings)

(* A message and its newline end a line; so do the clearing of the         *)
(* screen, and nothing at all.                                             *)
LEMMA EndedMessage == ASSUME NEW m \in Symbols PROVE Ended(<< m, LF >>) /\ Ended(<< Reset >>) /\ Ended(<< >>)
BY DEF Ended, Symbols, LF, Reset

(* So does any text with a newline behind it.                              *)
LEMMA EndedLine ==
  ASSUME NEW text, text \in Seq(Symbols)
  PROVE  Ended(text \o << LF >>)
<1>1. << LF >> \in Seq(Symbols) /\ Len(<< LF >>) \in Nat /\ Len(<< LF >>) <= 1 /\ Len(<< LF >>) >= 1 /\ << LF >>[1] = LF
  BY DEF Symbols, LF
<1>2. text \o << LF >> \in Seq(Symbols) /\ Len(text \o << LF >>) = Len(text) + 1 /\ (text \o << LF >>)[Len(text) + 1] = LF
  <2>1. Len(text) \in Nat /\ Len(text) + 1 \in 1 .. Len(text) + Len(<< LF >>)
    BY <1>1, LenProperties
  <2>2. PICK n \in Nat : n = Len(<< LF >>) /\ n <= 1 /\ n >= 1
    BY <1>1
  <2>3. n = 1
    BY <2>2
  <2>4. PICK last : last = << LF >> /\ last \in Seq(Symbols) /\ last[1] = LF /\ Len(last) = n
    BY <1>1, <2>2
  <2> QED
    BY <2>1, <2>3, <2>4, ConcatProperties
<1> QED
  BY <1>2 DEF Ended

(* Settings that do not change stay well formed.                           *)
LEMMA SettingsKept == ASSUME Settings, UNCHANGED settings PROVE Settings'
BY DEF Settings, settings, PromptWellFormed

(* A command that prints nothing, or clears the screen, refused nothing.   *)
LEMMA NoneRefused == ~Refused(<< >>) /\ ~Refused(<< Reset >>)
BY SMTT(30) DEF Refused, Errors, Reset, UsageFg, UsageBg, UsagePrompt, PromptTooLong, SetPromptTooLong, Unknown

(* Three bytes make a colour.                                              *)
LEMMA RGBType ==
  ASSUME NEW argv, argv \in Seq(Seq(1 .. 127)), Len(argv) >= 4
  PROVE  RGB(argv) \in [1 .. 3 -> 0 .. 255]
<1>1. Len(argv) \in Nat /\ \A k \in 1 .. Len(argv) : argv[k] \in Seq(1 .. 127)
  BY LenProperties, ElementOfSeq
<1>2. ASSUME NEW k \in 1 .. 3 PROVE Clamp(ByteOf(argv[k + 1]), 0, 255) \in 0 .. 255
  <2>1. argv[k + 1] \in Seq(1 .. 127)
    <3>1. k + 1 \in 1 .. Len(argv)
      BY <1>1
    <3> QED
      BY <1>1, <3>1, Zenon
  <2>2. PICK v \in 0 .. 255 : v = ByteOf(argv[k + 1])
    BY <2>1, ByteOfType
  <2>3. Clamp(v, 0, 255) \in 0 .. 255
    BY DEF Clamp
  <2> QED
    BY <2>2, <2>3
<1> QED
  BY <1>2 DEF RGB

(* With four arguments the three components are there.                     *)
LEMMA FourArguments == ASSUME NEW argv, Len(argv) = 4 PROVE Len(argv) >= 4
<1>1. PICK n \in Nat : n = 4
  OBVIOUS
<1>2. Len(argv) = n
  BY <1>1, Zenon
<1> QED
  BY <1>1, <1>2

(* fgcolor and bgcolor.                                                    *)
LEMMA ColorsExecuted ==
  ASSUME Settings, NEW argv, argv \in Seq(Seq(1 .. 127)), cmdSetFgColor(argv) \/ cmdSetBgColor(argv)
  PROVE  Executed
<1>1. UsageFg \in Symbols /\ UsageBg \in Symbols
  BY DEF UsageFg, UsageBg, Symbols
<1>2. CASE UNCHANGED settings /\ (output' = << UsageFg, LF >> \/ output' = << UsageBg, LF >>)
  BY <1>1, <1>2, EndedMessage, SettingsKept DEF Executed
<1>3. CASE Len(argv) = 4 /\ output' = << >> /\ fg' = RGB(argv) /\ UNCHANGED << shellPrompt, bg >>
  <2>1. fg' \in [1 .. 3 -> 0 .. 255]
    BY <1>3, FourArguments, RGBType
  <2> QED
    BY <1>3, <2>1, EndedMessage, NoneRefused, <1>1 DEF Executed, Settings, PromptWellFormed
<1>4. CASE Len(argv) = 4 /\ output' = << Reset >> /\ bg' = RGB(argv) /\ UNCHANGED << shellPrompt, fg >>
  <2>1. bg' \in [1 .. 3 -> 0 .. 255]
    BY <1>4, FourArguments, RGBType
  <2> QED
    BY <1>4, <2>1, EndedMessage, NoneRefused, <1>1 DEF Executed, Settings, PromptWellFormed
<1> QED
  BY <1>2, <1>3, <1>4, Zenon DEF cmdSetFgColor, cmdSetBgColor

(* A text that fits becomes the prompt as it is, with the space.           *)
LEMMA PromptSet ==
  ASSUME Settings, NEW prompt, prompt \in Seq(1 .. 127), prompt # << >>, prompt[1] # SP, shellSetPrompt(prompt)
  PROVE  Executed
<1> USE SizeAssumption
<1>0. SetPromptTooLong \in Symbols /\ SP \in 1 .. 127
  BY DEF SetPromptTooLong, Symbols, SP
<1>1. CASE Len(prompt) + 1 >= MAX_PROMPT_SIZE
  <2>1. output' = << SetPromptTooLong, LF >> /\ UNCHANGED settings
    BY <1>1 DEF shellSetPrompt
  <2> QED
    BY <1>0, <2>1, EndedMessage, SettingsKept DEF Executed
<1>2. CASE ~(Len(prompt) + 1 >= MAX_PROMPT_SIZE)
  <2>1. /\ output' = << >> /\ UNCHANGED << fg, bg >>
        /\ shellPrompt' = Truncated(Append(prompt, SP), MAX_PROMPT_SIZE)
    BY <1>2 DEF shellSetPrompt
  <2>2. PICK text : text = Append(prompt, SP)
    OBVIOUS
  <2>3. /\ text \in Seq(1 .. 127) /\ Len(text) = Len(prompt) + 1 /\ Len(prompt) \in Nat \ {0}
        /\ text[1] = prompt[1] /\ text[Len(text)] = SP
    <3>1. Len(prompt) \in Nat \ {0} /\ 1 \in 1 .. Len(prompt)
      BY EmptySeq, LenProperties
    <3> QED
      BY <1>0, <2>2, <3>1, AppendProperties
  <2>4. Truncated(text, MAX_PROMPT_SIZE) = text
    <3>1. Len(text) < MAX_PROMPT_SIZE
      BY <1>2, <2>3
    <3>2. Truncated(text, MAX_PROMPT_SIZE) = SubSeq(text, 1, Len(text))
      BY <3>1 DEF Truncated
    <3> QED
      BY <2>3, <3>2, SubSeqFull
  <2>5. shellPrompt' = text
    BY <2>1, <2>2, <2>4
  <2>6. WellFormed(text)
    BY <1>2, <2>3 DEF WellFormed
  <2> QED
    BY ZenonT(40), <2>1, <2>3, <2>5, <2>6, EndedMessage, NoneRefused, <1>0 DEF Executed, Settings, PromptWellFormed
<1> QED
  BY <1>1, <1>2

(* prompt: the joined arguments start with the first, which is not empty   *)
(* and, like every argument, holds no space.                               *)
LEMMA PromptExecuted ==
  ASSUME Settings, NEW argv, argv \in Seq(Seq((1 .. 127) \ {SP})), argv # << >>, cmdSetPrompt(argv)
  PROVE  Executed
<1> DEFINE args == Tail(argv)
<1>0. UsagePrompt \in Symbols /\ PromptTooLong \in Symbols
  BY DEF UsagePrompt, PromptTooLong, Symbols
<1>1. args \in Seq(Seq((1 .. 127) \ {SP}))
  BY HeadTailProperties
<1> HIDE DEF args
<1>2. CASE UNCHANGED settings /\ (output' = << UsagePrompt, LF >> \/ output' = << PromptTooLong, LF >>)
  BY <1>0, <1>2, EndedMessage, SettingsKept DEF Executed
<1>3. CASE args # << >> /\ args[1] # << >> /\ shellSetPrompt(Joined(args))
  <2>1. args[1] \in Seq((1 .. 127) \ {SP})
    BY <1>1, <1>3, EmptySeq, LenProperties, ElementOfSeq
  <2>2. args \in Seq(Seq(1 .. 127)) /\ args[1] \in Seq(1 .. 127) /\ SP \in 1 .. 127
    BY <1>1, <2>1, SeqMonotonic DEF SP
  <2>3. Joined(args) \in Seq(1 .. 127) /\ StartsWith(Joined(args), args[1], 1 .. 127)
    BY <1>3, <2>2, JoinedProperties
  <2>4. args[1][1] # SP
    <3>1. 1 \in 1 .. Len(args[1])
      BY <1>3, <2>1, EmptySeq, LenProperties
    <3>2. args[1][1] \in (1 .. 127) \ {SP}
      BY <2>1, <3>1, ElementOfSeq
    <3> QED
      BY <3>2
  <2>5. Joined(args) # << >> /\ Joined(args)[1] # SP
    BY <1>3, <2>2, <2>3, <2>4, StartOfText
  <2> QED
    BY <1>3, <2>3, <2>5, PromptSet
<1> QED
  BY <1>2, <1>3 DEF cmdSetPrompt, args

(* A command that only prints.                                             *)
LEMMA TextOutput ==
  ASSUME Settings, UNCHANGED settings, Ended(output')
  PROVE  Executed
BY SettingsKept DEF Executed

(* fbinfo and clear.                                                       *)
LEMMA FbInfoExecuted == ASSUME Settings, cmdFbInfo \/ cmdClear PROVE Executed
<1>1. FbInfo \in Symbols
  BY DEF FbInfo, Symbols
<1> QED
  BY <1>1, EndedMessage, TextOutput DEF cmdFbInfo, cmdClear

(* echo.                                                                   *)
LEMMA EchoExecuted ==
  ASSUME Settings, NEW argv, argv \in Seq(Seq(1 .. 127)), argv # << >>, cmdEcho(argv)
  PROVE  Executed
<1>1. Tail(argv) \in Seq(Seq(1 .. 127)) /\ SP \in 1 .. 127
  BY HeadTailProperties DEF SP
<1>2. Spaced(Tail(argv)) \in Seq(1 .. 127)
  BY <1>1, SpacedType
<1>3. Spaced(Tail(argv)) \in Seq(Symbols)
  <2>1. (1 .. 127) \subseteq Symbols
    BY DEF Symbols
  <2> QED
    BY <1>2, <2>1, SeqMonotonic
<1> QED
  BY <1>3, EndedLine, TextOutput DEF cmdEcho

(* help.                                                                   *)
LEMMA HelpExecuted == ASSUME Settings, cmdHelp PROVE Executed
<1> DEFINE seqs == [i \in DOMAIN shellCommands |-> CmdName[shellCommands[i]] \o << Desc, LF >>]
<1>1. DOMAIN shellCommands = 1 .. 7 /\ (1 .. 127) \subseteq Symbols
  BY DEF shellCommands, Symbols
<1>2. \A i \in 1 .. 7 : CmdName[shellCommands[i]] \in Seq(Symbols)
  BY <1>1, NamesAssumption, SeqMonotonic
<1>3. PICK tail : tail = << Desc, LF >>
  OBVIOUS
<1>4. tail \in Seq(Symbols) /\ tail # << >> /\ tail[Len(tail)] = LF
  <2>1. << Desc >> \in Seq(Symbols) /\ LF \in Symbols /\ tail = Append(<< Desc >>, LF)
    BY <1>3 DEF Desc, LF, Symbols
  <2> QED
    BY <2>1, AppendProperties
<1>6. \A i \in 1 .. 7 : /\ CmdName[shellCommands[i]] \o tail \in Seq(Symbols)
                        /\ EndsWith(CmdName[shellCommands[i]] \o tail, tail, Symbols)
  BY <1>2, <1>4, ConcatProperties DEF EndsWith
<1>7. seqs = [i \in 1 .. 7 |-> CmdName[shellCommands[i]] \o tail]
  BY <1>1, <1>3
<1> HIDE DEF seqs
<1>8. seqs \in Seq(Seq(Symbols)) /\ seqs # << >> /\ Len(seqs) \in 1 .. 7
  <2>1. DOMAIN seqs = 1 .. 7 /\ seqs \in [1 .. 7 -> Seq(Symbols)] /\ 7 \in Nat
    BY <1>6, <1>7
  <2>2. seqs \in Seq(Seq(Symbols))
    <3>1. PICK n \in Nat : n = 7
      OBVIOUS
    <3>2. seqs \in [1 .. n -> Seq(Symbols)]
      BY <2>1, <3>1
    <3> QED
      BY <3>2
  <2>3. DOMAIN seqs = 1 .. Len(seqs) /\ Len(seqs) \in Nat
    BY <2>2, LenProperties
  <2>4. 7 \in 1 .. Len(seqs)
    BY <2>1, <2>3
  <2>5. Len(seqs) \in 1 .. Len(seqs)
    BY <2>3, <2>4
  <2> QED
    BY <2>1, <2>2, <2>3, <2>4, <2>5, EmptySeq
<1>9. PICK last, text : last = seqs[Len(seqs)] /\ text = FlattenSeq(seqs)
  BY ZenonT(40)
<1>10. last \in Seq(Symbols) /\ EndsWith(last, tail, Symbols)
  BY <1>6, <1>7, <1>8, <1>9
<1>11. text \in Seq(Symbols) /\ EndsWith(text, last, Symbols)
  BY <1>8, <1>9, FlattenProperties
<1>12. last # << >> /\ last[Len(last)] = LF
  BY <1>4, <1>10, EndOfText
<1>13. text[Len(text)] = LF
  BY <1>11, <1>10, <1>12, EndOfText
<1> QED
  BY <1>9, <1>11, <1>13, TextOutput DEF cmdHelp, Ended, seqs

(* Whatever line is parsed, the command that is found keeps the settings   *)
(* well formed and ends the line it wrote.                                 *)
LEMMA CommandExecuted ==
  ASSUME Settings, NEW input, input \in Seq(Chars), parseAndExecuteCmd(input)
  PROVE  Executed
<1> DEFINE argv == Split(input)
           name == Lower(argv[1])
           entry == SelectInSeq(shellCommands, LAMBDA cmd : CmdName[cmd] = name)
<1>1. argv \in Seq(Seq(Chars \ {SP})) /\ argv # << >>
  BY SplitProperties
<1>2. argv \in Seq(Seq((1 .. 127) \ {SP})) /\ argv \in Seq(Seq(1 .. 127))
  <2>1. Chars \ {SP} \subseteq (1 .. 127) \ {SP} /\ Chars \ {SP} \subseteq 1 .. 127
    BY CharsAssumption
  <2>2. \A S : S \subseteq (1 .. 127) /\ argv \in Seq(Seq(S)) => argv \in Seq(Seq(1 .. 127))
    <3> HIDE DEF argv
    <3> QED
      BY SeqSeqMonotonic, ZenonT(40)
  <2>3. argv \in Seq(Seq((1 .. 127) \ {SP}))
    <3> HIDE DEF argv
    <3> QED
      BY <1>1, <2>1, SeqSeqMonotonic, ZenonT(40)
  <2> QED
    BY <1>1, <2>1, <2>2, <2>3, Zenon
<1>3. \/ entry # 0 /\ Execute(shellCommands[entry], argv)
      \/ output' = << Unknown >> \o name \o << LF >> /\ UNCHANGED settings
  BY DEF parseAndExecuteCmd
<1>4. entry # 0 => entry \in 1 .. 7
  <2> DEFINE I == {i \in 1 .. Len(shellCommands) : CmdName[shellCommands[i]] = name}
  <2>1. entry = IF I # {} THEN Min(I) ELSE 0
    BY DEF SelectInSeq
  <2>2. I \subseteq 1 .. 7 /\ I \in SUBSET Nat
    BY DEF shellCommands
  <2> HIDE DEF I, entry
  <2>3. I # {} => Min(I) \in 1 .. 7
    BY <2>2, MinProperties
  <2> QED
    BY <2>1, <2>3
<1> HIDE DEF entry, argv
<1>5. name \in Seq(1 .. 127)
  <2>1. argv[1] \in Seq(1 .. 127)
    BY <1>1, <1>2, EmptySeq, LenProperties, ElementOfSeq
  <2> QED
    BY <2>1, LowerType
<1> HIDE DEF name
<1>6. ASSUME entry # 0, Execute(shellCommands[entry], argv) PROVE Executed
  <2>1. shellCommands[entry] \in {"fbinfo", "help", "clear", "echo", "fgcolor", "bgcolor", "prompt"}
    BY <1>4, <1>6 DEF shellCommands
  <2>2. \/ cmdFbInfo \/ cmdHelp \/ cmdClear \/ cmdEcho(argv)
        \/ cmdSetFgColor(argv) \/ cmdSetBgColor(argv) \/ cmdSetPrompt(argv)
    BY <1>6, <2>1 DEF Execute
  <2> QED
    BY <1>1, <1>2, <2>2, FbInfoExecuted, HelpExecuted, EchoExecuted, ColorsExecuted, PromptExecuted
<1>7. ASSUME output' = << Unknown >> \o name \o << LF >>, UNCHANGED settings PROVE Executed
  <2>1. << Unknown >> \in Seq(Symbols) /\ (1 .. 127) \subseteq Symbols
    BY DEF Unknown, Symbols
  <2>2. name \in Seq(Symbols)
    BY <1>5, <2>1, SeqMonotonic
  <2>3. << Unknown >> \o name \in Seq(Symbols)
    BY <2>1, <2>2, ConcatProperties
  <2> QED
    BY <1>7, <2>3, EndedLine, TextOutput
<1> QED
  BY <1>3, <1>6, <1>7

-----------------------------------------------------------------------------
(* The settings with the buffer, what is shown and what was printed.       *)
ShellInv ==
  /\ BufferInv /\ Settings /\ LineShown
  /\ output \in Seq(Symbols) /\ submitted \in Seq(Seq(Chars))

(* The line in the buffer is made of typed characters.                     *)
LEMMA LineType == ASSUME BufferInv PROVE Line \in Seq(Chars) /\ Len(Line) = inputIndex /\ inputIndex \in Nat
<1>1. inputIndex \in Nat /\ \A i \in 1 .. inputIndex : inputBuffer[i - 1] \in Chars
  BY SizeAssumption DEF BufferInv, BufferOK, Positions
<1> QED
  BY <1>1, PrefixSeq, PrefixElements DEF Line

(* Only Enter changes a setting, and it runs a command.                    *)
LEMMA SettingsInvariant == ASSUME ShellInv, [Next]_vars PROVE Settings'
<1>1. CASE EnterKey
  <2>1. parseAndExecuteCmd(Line)
    BY <1>1, TerminatedLine DEF EnterKey, ShellInv
  <2>2. Line \in Seq(Chars)
    BY LineType DEF ShellInv
  <2>3. Executed
    BY <2>1, <2>2, CommandExecuted DEF ShellInv
  <2> QED
    BY <2>3 DEF Executed
<1>2. CASE UNCHANGED settings
  BY <1>2, SettingsKept DEF ShellInv
<1> QED
  BY <1>1, <1>2 DEF Next, shellKeyCallback, Ignored, vars, BackspaceKey, NormalKey

(* The line and the prompt as they are shown.                              *)
LEMMA ShownType ==
  ASSUME ShellInv
  PROVE  /\ Line \in Seq(1 .. 127) /\ Line \in Seq(Chars) /\ Len(Line) = inputIndex /\ inputIndex \in Nat
         /\ shellPrompt \in Seq(1 .. 127) /\ shown = shellPrompt \o Line
<1>1. Line \in Seq(Chars) /\ Len(Line) = inputIndex /\ inputIndex \in Nat
  BY LineType DEF ShellInv
<1>2. Line \in Seq(1 .. 127)
  <2>1. Chars \subseteq 1 .. 127
    BY CharsAssumption
  <2> QED
    BY <1>1, <2>1, SeqMonotonic, ZenonT(40)
<1>3. shellPrompt \in Seq(1 .. 127)
  BY DEF ShellInv, Settings
<1>4. shown = shellPrompt \o Line
  BY DEF ShellInv, LineShown
<1> QED
  BY <1>1, <1>2, <1>3, <1>4, Zenon

(* What is shown follows the line: a command ends the line it writes, so   *)
(* that the prompt starts a new one.                                       *)
LEMMA LineInvariant == ASSUME ShellInv, Settings', BufferInv', [Next]_vars PROVE LineShown'
<1>0. /\ Line \in Seq(1 .. 127) /\ Line \in Seq(Chars) /\ Len(Line) = inputIndex /\ inputIndex \in Nat
      /\ shellPrompt \in Seq(1 .. 127) /\ shown = shellPrompt \o Line
  BY ShownType
<1>1. CASE EnterKey
  <2>1. parseAndExecuteCmd(Line)
    BY <1>1, TerminatedLine DEF EnterKey, ShellInv
  <2>2. Executed
    BY <1>0, <2>1, CommandExecuted DEF ShellInv
  <2>3. LastLine(output', {LF, Reset}) = << >>
    BY <2>2, NothingLeft DEF Executed, Ended
  <2>4. Line' = << >>
    BY <1>1, PrefixEmpty DEF EnterKey, clearInputBuffer, Line
  <2>5. PICK p : p = shellPrompt' /\ p \in Seq(1 .. 127)
    BY DEF Settings
  <2>6. shown' = << >> \o p /\ << >> \o p = p /\ p \o << >> = p
    BY <1>1, <2>3, <2>5, ConcatEmptySeq DEF EnterKey
  <2> QED
    BY <2>4, <2>5, <2>6 DEF LineShown
<1>2. CASE BackspaceKey
  <2>1. Line # << >> /\ shellPrompt' = shellPrompt /\ shown' = SubSeq(shown, 1, Len(shown) - 1)
    BY <1>0, <1>2, EmptySeq DEF BackspaceKey, settings
  <2>2. Line' = SubSeq(Line, 1, Len(Line) - 1)
    <3>1. inputIndex \in Nat \ {0} /\ \A i \in 1 .. inputIndex : inputBuffer[i - 1] \in Chars
      BY <1>0, <1>2 DEF BackspaceKey, BufferInv, ShellInv
    <3>2. Prefix(inputBuffer, inputIndex - 1) = SubSeq(Prefix(inputBuffer, inputIndex), 1, inputIndex - 1)
      BY <3>1, PrefixErase
    <3> QED
      BY <1>0, <1>2, <3>2 DEF BackspaceKey, Line
  <2>3. SubSeq(shown, 1, Len(shown) - 1) = shellPrompt \o SubSeq(Line, 1, Len(Line) - 1)
    <3>1. PICK p, l : p = shellPrompt /\ l = Line
      OBVIOUS
    <3>a. p \in Seq(1 .. 127) /\ l \in Seq(1 .. 127) /\ l # << >>
      BY <1>0, <2>1, <3>1
    <3>2. SubSeq(p \o l, 1, Len(p \o l) - 1) = p \o SubSeq(l, 1, Len(l) - 1)
      BY <3>a, ConcatErase
    <3> QED
      BY <1>0, <3>1, <3>2
  <2> QED
    BY <2>1, <2>2, <2>3 DEF LineShown
<1>3. ASSUME NEW key \in Chars, NormalKey(key) PROVE LineShown'
  <2>1. shellPrompt' = shellPrompt /\ shown' = Append(shown, key) /\ key \in 1 .. 127
    BY <1>3, CharsAssumption DEF NormalKey, settings
  <2>2. Line' = Append(Line, key)
    <3>1. /\ inputBuffer'[inputIndex] = key
          /\ \A i \in 1 .. inputIndex : /\ inputBuffer[i - 1] \in Chars
                                      /\ inputBuffer'[i - 1] = inputBuffer[i - 1]
      BY <1>0, <1>3, SizeAssumption DEF NormalKey, BufferInv, BufferOK, Positions, ShellInv
    <3>2. Prefix(inputBuffer', inputIndex + 1) = Append(Prefix(inputBuffer, inputIndex), key)
      BY <1>0, <3>1, PrefixAppend
    <3> QED
      BY <1>3, <3>2 DEF NormalKey, Line
  <2>3. Append(shown, key) = shellPrompt \o Append(Line, key)
    BY <1>0, <2>1, ConcatAppend, SMTT(30)
  <2> QED
    BY <2>1, <2>2, <2>3 DEF LineShown
<1>4. CASE UNCHANGED vars
  BY <1>0, <1>4 DEF vars, settings, Line, LineShown
<1> QED
  BY <1>1, <1>2, <1>3, <1>4 DEF Next, shellKeyCallback, Ignored

(* What a key prints, hands over and refuses.                              *)
LEMMA OutputInvariant ==
  ASSUME ShellInv, [Next]_vars
  PROVE  output' \in Seq(Symbols) /\ submitted' \in Seq(Seq(Chars)) /\ (Refused(output') => UNCHANGED settings \/ UNCHANGED vars)
<1>1. CASE EnterKey
  <2>1. Line \in Seq(Chars) /\ parseAndExecuteCmd(Line) /\ submitted' = << Line >>
    BY <1>1, TerminatedLine, LineType DEF EnterKey, ShellInv
  <2>2. Executed
    BY <2>1, CommandExecuted DEF ShellInv
  <2> QED
    BY <2>1, <2>2 DEF Executed, Ended
<1>2. CASE output' = << >> /\ submitted' = << >> /\ UNCHANGED settings
  BY <1>2, EmptySeq
<1>3. CASE UNCHANGED vars
  BY <1>3 DEF vars, ShellInv
<1> QED
  BY <1>1, <1>2, <1>3 DEF Next, shellKeyCallback, Ignored, BackspaceKey, NormalKey

(* The invariant holds before the first key.                               *)
LEMMA InitShellInv == Init => ShellInv
<1> SUFFICES ASSUME Init PROVE ShellInv
  OBVIOUS
<1>1. Line = << >> /\ shown = shellPrompt /\ shellPrompt \in Seq(1 .. 127)
  BY PrefixEmpty, DefaultsAssumption DEF Init, Line
<1>2. LineShown
  BY <1>1, ConcatEmptySeq DEF LineShown
<1>3. Settings
  BY DefaultsAssumption DEF Init, Settings, PromptWellFormed
<1>4. output \in Seq(Symbols) /\ submitted \in Seq(Seq(Chars))
  BY EmptySeq DEF Init
<1> QED
  BY <1>2, <1>3, <1>4, InitBufferInv DEF ShellInv

(* The invariant is inductive.                                             *)
LEMMA ShellInvariant == Spec => []ShellInv
<1>1. ShellInv /\ [Next]_vars => ShellInv'
  <2> SUFFICES ASSUME ShellInv, [Next]_vars PROVE ShellInv'
    OBVIOUS
  <2>1. BufferInv'
    BY NextBufferInv DEF ShellInv
  <2>2. Settings'
    BY SettingsInvariant
  <2>3. LineShown'
    BY <2>1, <2>2, LineInvariant
  <2>4. output' \in Seq(Symbols) /\ submitted' \in Seq(Seq(Chars))
    BY OutputInvariant
  <2> QED
    BY <2>1, <2>2, <2>3, <2>4 DEF ShellInv
<1> QED
  BY <1>1, InitShellInv, PTL DEF Spec

(* For every size of the buffers, every alphabet and every name of the     *)
(* commands, each variable of the shell keeps its type.                    *)
THEOREM ShellTypes == Spec => []TypeOK
<1>1. ShellInv => TypeOK
  <2> SUFFICES ASSUME ShellInv PROVE TypeOK
    OBVIOUS
  <2>1. Line \in Seq(1 .. 127) /\ shellPrompt \in Seq(1 .. 127) /\ shown = shellPrompt \o Line
    BY ShownType
  <2>2. shown \in Seq(1 .. 127)
    BY <2>1, ConcatProperties
  <2> QED
    BY <2>1, <2>2 DEF TypeOK, ShellInv, Settings, BufferInv
<1> QED
  BY <1>1, ShellInvariant, PTL

(* What the user sees is what will be run: the last line of the console    *)
(* is always the prompt and the line in the buffer.                        *)
THEOREM WhatIsShownIsRun == Spec => []LineShown
BY ShellInvariant, PTL DEF ShellInv

(* The prompt stays well formed through shellSetPrompt and the joining of  *)
(* arguments in cmdSetPrompt, for every size of the buffer.                *)
THEOREM PromptStaysWellFormed == Spec => []PromptWellFormed
BY ShellInvariant, PTL DEF ShellInv, Settings

(* A command that prints an error has changed no setting.                  *)
THEOREM RefusalsChangeNothing == Spec => RefusedChangesNothing
<1>1. ShellInv /\ [Next]_vars => [(\E i \in DOMAIN output' : output'[i] \in Errors) => UNCHANGED settings]_vars
  BY OutputInvariant DEF Refused, vars
<1> QED
  BY <1>1, ShellInvariant, PTL DEF Spec, RefusedChangesNothing
=============================================================================
