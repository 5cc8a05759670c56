-------------------------- MODULE LimineToolProofs ---------------------------
(***************************************************************************)
(* Proofs about LimineTool, for every signature, size of a checksum and    *)
(* executable, and every device.                                           *)
(***************************************************************************)
EXTENDS LimineTool, SequenceProofs

(* A function on 1 .. n is n cells.                                        *)
LEMMA CellsOf ==
  ASSUME NEW n \in Nat, NEW s \in [1 .. n -> Nat]
  PROVE  s \in Seq(Nat) /\ Len(s) = n
OBVIOUS

(* The search of enroll-config over the first m characters.                *)
Searched(f, file, m) ==
  f = [i \in 0 .. m |-> IF i = 0 THEN [checked |-> 0, loc |-> 0] ELSE SearchStep(f[i - 1], file, i)]

(* It exists, by induction on m.                                           *)
LEMMA SearchExists == ASSUME NEW file PROVE \A m \in Nat : \E f : Searched(f, file, m)
<1> DEFINE T == {m \in Nat : \E f : Searched(f, file, m)}
<1>1. 0 \in T
  <2> DEFINE f == [i \in 0 .. 0 |-> [checked |-> 0, loc |-> 0]]
  <2>1. f = [i \in 0 .. 0 |-> IF i = 0 THEN [checked |-> 0, loc |-> 0] ELSE SearchStep(f[i - 1], file, i)]
    OBVIOUS
  <2> HIDE DEF f
  <2>2. Searched(f, file, 0)
    BY <2>1 DEF Searched
  <2> QED
    BY <2>2
<1>2. ASSUME NEW m \in Nat, m \in T PROVE m + 1 \in T
  <2>1. PICK f : Searched(f, file, m)
    BY <1>2
  <2> DEFINE g == [i \in 0 .. m + 1 |-> IF i = m + 1 THEN SearchStep(f[m], file, m + 1) ELSE f[i]]
  <2>2. ASSUME NEW i \in 0 .. m + 1
        PROVE  g[i] = IF i = 0 THEN [checked |-> 0, loc |-> 0] ELSE SearchStep(g[i - 1], file, i)
    <3>1. CASE i = m + 1
      <4>1. i # 0 /\ i - 1 = m /\ m \in 0 .. m + 1 /\ m # m + 1
        BY <3>1
      <4>2. g[i] = SearchStep(f[m], file, i) /\ g[i - 1] = f[m]
        BY <3>1, <4>1
      <4> QED
        BY <4>1, <4>2
    <3>2. CASE i # m + 1
      <4>1. i \in 0 .. m /\ g[i] = f[i]
        BY <3>2
      <4>2. f[i] = IF i = 0 THEN [checked |-> 0, loc |-> 0] ELSE SearchStep(f[i - 1], file, i)
        BY <2>1, <4>1 DEF Searched
      <4>3. i # 0 => i - 1 \in 0 .. m + 1 /\ i - 1 # m + 1
        BY <4>1
      <4> QED
        BY <4>1, <4>2, <4>3
    <3> QED
      BY <3>1, <3>2
  <2>3. g = [i \in 0 .. m + 1 |-> IF i = 0 THEN [checked |-> 0, loc |-> 0] ELSE SearchStep(g[i - 1], file, i)]
    BY <2>2
  <2> HIDE DEF g
  <2>4. Searched(g, file, m + 1)
    BY <2>3 DEF Searched
  <2> QED
    BY <2>4
<1> HIDE DEF T
<1>3. \A m \in Nat : m \in T
  BY <1>1, <1>2, SetInduction
<1> QED
  BY <1>3 DEF T

(* What the search knows behind character i: how much of the signature     *)
(* stands in front of the next character, or where all of it ends.         *)
Matched(file, at, n) == \A j \in 1 .. n : file[at + j] = SIGNATURE_B2SUM[j]
SearchKnows(s, file, i) ==
  /\ s \in [checked : Nat, loc : Nat]
  /\ s.loc = 0 => /\ s.checked < Len(SIGNATURE_B2SUM) /\ s.checked <= i
                  /\ Matched(file, i - s.checked, s.checked)
  /\ s.loc # 0 => /\ s.loc > Len(SIGNATURE_B2SUM) /\ s.loc <= i + 1
                  /\ Matched(file, s.loc - 1 - Len(SIGNATURE_B2SUM), Len(SIGNATURE_B2SUM))

(* One character more.                                                     *)
LEMMA SearchStepKnows ==
  ASSUME NEW file, NEW s, NEW i \in Nat, SearchKnows(s, file, i)
  PROVE  SearchKnows(SearchStep(s, file, i + 1), file, i + 1)
<1>0. PICK L \in Nat : L = Len(SIGNATURE_B2SUM) /\ L > 0
  BY EnrollConfigAssumption
<1>a. PICK t : t = SearchStep(s, file, i + 1)
  OBVIOUS
<1>1. CASE s.loc # 0
  <2>1. t = s
    BY <1>a, <1>1 DEF SearchStep
  <2>2. s.loc \in Nat /\ s.loc <= i + 1
    BY <1>1 DEF SearchKnows
  <2>3. SearchKnows(s, file, i + 1)
    BY <1>1, <2>2 DEF SearchKnows
  <2> QED
    BY <1>a, <2>1, <2>3
<1>2. CASE s.loc = 0 /\ file[i + 1] # SIGNATURE_B2SUM[s.checked + 1]
  <2>1. t = [s EXCEPT !.checked = 0]
    BY <1>a, <1>2 DEF SearchStep
  <2>2. t \in [checked : Nat, loc : Nat] /\ t.checked = 0 /\ t.loc = 0
    BY <1>2, <2>1 DEF SearchKnows
  <2>3. SearchKnows(t, file, i + 1)
    BY <1>0, <2>2 DEF SearchKnows, Matched
  <2> QED
    BY <1>a, <2>3
<1>3. CASE s.loc = 0 /\ file[i + 1] = SIGNATURE_B2SUM[s.checked + 1]
  <2>1. PICK c \in Nat : c = s.checked /\ c < L /\ c <= i /\ Matched(file, i - c, c)
    BY <1>0, <1>3 DEF SearchKnows
  <2>2. t = [checked |-> c + 1, loc |-> IF c + 1 = L THEN i + 2 ELSE 0]
    BY <1>0, <1>a, <1>3, <2>1 DEF SearchStep
  <2>3. ASSUME NEW j \in 1 .. c + 1 PROVE file[i - c + j] = SIGNATURE_B2SUM[j]
    <3>1. CASE j = c + 1
      <4>1. i - c + j = i + 1
        BY <2>1, <3>1
      <4> QED
        BY <1>3, <2>1, <3>1, <4>1
    <3>2. CASE j # c + 1
      BY <2>1, <3>2 DEF Matched
    <3> QED
      BY <3>1, <3>2
  <2>4. Matched(file, i - c, c + 1)
    BY <2>3 DEF Matched
  <2>5. CASE c + 1 = L
    <3>1. t \in [checked : Nat, loc : Nat] /\ t.checked = L /\ t.loc = i + 2 /\ i - c = t.loc - 1 - L
      BY <2>1, <2>2, <2>5
    <3>2. Matched(file, t.loc - 1 - L, L)
      BY <2>4, <2>5, <3>1
    <3>3. t.loc # 0 /\ t.loc > L /\ t.loc <= i + 1 + 1
      BY <2>1, <2>5, <3>1
    <3>4. SearchKnows(t, file, i + 1)
      BY <1>0, <3>1, <3>2, <3>3 DEF SearchKnows
    <3> QED
      BY <1>a, <3>4
  <2>6. CASE c + 1 # L
    <3>1. t \in [checked : Nat, loc : Nat] /\ t.checked = c + 1 /\ t.loc = 0 /\ i - c = i + 1 - t.checked
      BY <2>1, <2>2, <2>6
    <3>2. Matched(file, i + 1 - t.checked, t.checked)
      BY <2>4, <3>1
    <3>3. t.checked < L /\ t.checked <= i + 1
      BY <2>1, <2>6, <3>1
    <3>4. SearchKnows(t, file, i + 1)
      BY <1>0, <3>1, <3>2, <3>3 DEF SearchKnows
    <3> QED
      BY <1>a, <3>4
  <2> QED
    BY <2>5, <2>6
<1> QED
  BY <1>1, <1>2, <1>3

(* A place that the search returns is right behind a whole signature.      *)
LEMMA FoundIsSigned ==
  ASSUME NEW file \in Seq(Nat), Len(file) >= Len(SIGNATURE_B2SUM) + SUM_SIZE, SignatureEnd(file) # 0
  PROVE  SignatureEnd(file) \in DOMAIN file /\ SignedAt(file, SignatureEnd(file))
<1>0. PICK L \in Nat, sum \in Nat, N \in Nat :
        /\ L = Len(SIGNATURE_B2SUM) /\ L > 0 /\ sum = SUM_SIZE /\ sum > 0 /\ N = Len(file) /\ N >= L + sum
  <2>1. PICK L \in Nat : L = Len(SIGNATURE_B2SUM) /\ L > 0
    BY EnrollConfigAssumption
  <2>2. SUM_SIZE \in Nat /\ SUM_SIZE > 0 /\ Len(file) \in Nat
    BY EnrollConfigAssumption
  <2> QED
    BY <2>1, <2>2
<1>1. PICK last \in Nat : last = N - (L + sum) + 1 /\ last = Len(file) - (Len(SIGNATURE_B2SUM) + SUM_SIZE) + 1
  <2>1. N - (L + sum) + 1 \in Nat
    BY <1>0
  <2> QED
    BY <1>0, <2>1
<1>2. PICK f : Searched(f, file, last) /\ SignatureEnd(file) = f[last].loc
  <2> DEFINE g == CHOOSE g : Searched(g, file, last)
  <2>1. \E h : Searched(h, file, last)
    BY SearchExists
  <2>2. Searched(g, file, last)
    BY <2>1, Zenon
  <2>3. SignatureEnd(file) = g[last].loc
    BY <1>1 DEF SignatureEnd, Searched
  <2> QED
    BY <2>2, <2>3
<1> DEFINE T == {i \in Nat : i <= last => SearchKnows(f[i], file, i)}
<1>3. 0 \in T
  <2>1. f[0] = [checked |-> 0, loc |-> 0]
    BY <1>2 DEF Searched
  <2> QED
    BY <1>0, <2>1 DEF SearchKnows, Matched
<1>4. ASSUME NEW i \in Nat, i \in T PROVE i + 1 \in T
  <2> SUFFICES ASSUME i + 1 <= last PROVE SearchKnows(f[i + 1], file, i + 1)
    OBVIOUS
  <2>1. f[i + 1] = SearchStep(f[i], file, i + 1)
    <3>1. i + 1 \in 0 .. last /\ i + 1 # 0 /\ (i + 1) - 1 = i
      OBVIOUS
    <3> QED
      BY <1>2, <3>1 DEF Searched
  <2>2. SearchKnows(f[i], file, i)
    BY <1>4
  <2> QED
    BY <2>1, <2>2, SearchStepKnows
<1>5. SearchKnows(f[last], file, last)
  <2> HIDE DEF T
  <2>1. \A i \in Nat : i \in T
    BY <1>3, <1>4, SetInduction
  <2> QED
    BY <2>1 DEF T
<1>6. PICK loc \in Nat : /\ loc = SignatureEnd(file) /\ loc > L /\ loc <= last + 1
                         /\ \A j \in 1 .. L : file[loc - 1 - L + j] = SIGNATURE_B2SUM[j]
  BY <1>0, <1>2, <1>5 DEF SearchKnows, Matched
<1>7. loc \in DOMAIN file /\ loc + sum - 1 <= N /\ loc - L \in 1 .. N /\ loc - 1 \in 1 .. N
  <2>1. loc <= N - (L + sum) + 2 /\ loc > L /\ L > 0 /\ sum > 0
    BY <1>0, <1>1, <1>6
  <2> QED
    BY <1>0, <2>1
<1>8. SubSeq(file, loc - L, loc - 1) = SIGNATURE_B2SUM
  <2>1. loc - L \in 1 .. N /\ loc - 1 \in 1 .. N /\ (loc - 1) - (loc - L) + 1 = L
    BY <1>0, <1>7
  <2>2. SubSeq(file, loc - L, loc - 1) = [j \in 1 .. L |-> file[loc - L + j - 1]]
    BY <1>0, <2>1
  <2>3. SIGNATURE_B2SUM = [j \in 1 .. L |-> SIGNATURE_B2SUM[j]]
    BY <1>0, EnrollConfigAssumption
  <2>4. ASSUME NEW j \in 1 .. L PROVE file[loc - L + j - 1] = SIGNATURE_B2SUM[j]
    <3>1. loc - L + j - 1 = loc - 1 - L + j
      BY <1>0, <1>6
    <3> QED
      BY <1>6, <3>1
  <2> QED
    BY <2>2, <2>3, <2>4
<1> QED
  BY <1>0, <1>6, <1>7, <1>8 DEF SignedAt

(* Only enroll-config touches the executable.                              *)
LEMMA EnrolledKept ==
  ASSUME [Next]_vars
  PROVE  \/ enrolled' = enrolled
         \/ \E argv \in EnrollCommands, file \in Executables : enroll_config(argv, file)
<1>1. CASE main
  BY <1>1 DEF main, bios_install, PrintingCommand
<1>2. CASE Probe \/ SecondaryHeader \/ CheckFlag \/ CheckStart \/ CheckHint
  BY <1>2 DEF Probe, SecondaryHeader, CheckFlag, CheckStart, CheckHint, Read, Skip, Process
<1>3. CASE MendFlag \/ EraseHint \/ Activate
  BY SMTT(30), <1>3 DEF MendFlag, EraseHint, Activate, device_write, Skip, Process
<1>4. CASE Locate \/ UsePartition \/ ScanEntries \/ Embed
  BY <1>4 DEF Locate, UsePartition, ScanEntries, Embed, Killed, Read, Skip, Process
<1>5. CASE ClearPrimary \/ ClearSecondary
  BY <1>5 DEF ClearPrimary, ClearSecondary, ClearEntry, device_write, Skip, Process
<1>6. CASE SumArray \/ WriteHeader \/ WriteSecond \/ SaveStamp \/ SaveTable \/ Install
  BY <1>6 DEF SumArray, WriteHeader, WriteSecond, SaveStamp, SaveTable, Install, Read, device_write, Process
<1>7. CASE Commit \/ Cleanup \/ store_uninstall_data \/ load_uninstall_data
  BY <1>7 DEF Commit, Cleanup, store_uninstall_data, load_uninstall_data, Process
<1>8. CASE UndoEntry \/ Uninstalled \/ Close
  BY <1>8 DEF UndoEntry, Uninstalled, Close, Process
<1>9. CASE UNCHANGED vars
  BY <1>9 DEF vars
<1> QED
  BY <1>1, <1>2, <1>3, <1>4, <1>5, <1>6, <1>7, <1>8, <1>9 DEF Next

(* enroll-config changes an executable behind a signature only.            *)
LEMMA EnrollsBehindSignature ==
  ASSUME NEW argv, NEW file \in Executables, enroll_config(argv, file)
  PROVE  EnrolledBehindSignature'
<1>1. file \in Seq(Nat) /\ Len(file) >= Len(SIGNATURE_B2SUM) + SUM_SIZE
  BY LimineToolAssumption
<1>2. \/ enrolled' = << file, file >>
      \/ /\ SignatureEnd(file) # 0
         /\ \E sum \in {Checksum, Zeros}, k \in 0 .. Len(file) :
              enrolled' = << file, CutOff(file, Patched(file, SignatureEnd(file), sum), k) >>
  <2>1. \/ enrolled' = << file, file >>
        \/ \E sum \in {Checksum, Zeros} : EnrollIn(file, sum)
    BY DEF enroll_config, EnrollDone
  <2>2. ASSUME NEW sum \in {Checksum, Zeros}, EnrollIn(file, sum)
        PROVE  \/ enrolled' = << file, file >>
               \/ /\ SignatureEnd(file) # 0
                  /\ \/ enrolled' = << file, Patched(file, SignatureEnd(file), sum) >>
                     \/ \E k \in 0 .. Len(file) - 1 :
                          enrolled' = << file, CutOff(file, Patched(file, SignatureEnd(file), sum), k) >>
    BY <2>2 DEF EnrollIn, EnrollDone
  <2>3. ASSUME NEW new, DOMAIN new = DOMAIN file, new = [i \in DOMAIN new |-> new[i]]
        PROVE  CutOff(file, new, Len(file)) = new
    BY <1>1, <2>3 DEF CutOff
  <2>4. ASSUME NEW sum PROVE CutOff(file, Patched(file, SignatureEnd(file), sum), Len(file))
                               = Patched(file, SignatureEnd(file), sum)
    BY <2>3 DEF Patched
  <2>5. Len(file) \in 0 .. Len(file) /\ \A k \in 0 .. Len(file) - 1 : k \in 0 .. Len(file)
    BY <1>1
  <2> QED
    BY <2>1, <2>2, <2>4, <2>5
<1>3. CASE enrolled' = << file, file >>
  BY <1>3 DEF EnrolledBehindSignature
<1>4. ASSUME SignatureEnd(file) # 0, NEW sum \in {Checksum, Zeros}, NEW k \in 0 .. Len(file),
             enrolled' = << file, CutOff(file, Patched(file, SignatureEnd(file), sum), k) >>
      PROVE  EnrolledBehindSignature'
  <2>1. PICK loc : loc = SignatureEnd(file) /\ loc \in DOMAIN file /\ SignedAt(file, loc)
    BY <1>1, <1>4, FoundIsSigned
  <2>2. enrolled'[1] = file /\ enrolled'[2] = CutOff(file, Patched(file, loc, sum), k)
    BY <1>4, <2>1
  <2> QED
    BY <2>1, <2>2, Zenon DEF EnrolledBehindSignature
<1> QED
  BY <1>2, <1>3, <1>4

(* For every executable, of any size, and every signature and checksum:    *)
(* what enroll-config writes stands right behind a whole signature, is as  *)
(* long as a checksum or, where the writing was cut off, its beginning,    *)
(* and leaves everything else of the file alone (limine.c:1145-1183).      *)
THEOREM EnrollsWhereSigned == Spec => []EnrolledBehindSignature
<1>1. Init => EnrolledBehindSignature
  BY DEF Init, EnrolledBehindSignature
<1>2. EnrolledBehindSignature /\ [Next]_vars => EnrolledBehindSignature'
  <2>1. CASE enrolled' = enrolled
    BY <2>1 DEF EnrolledBehindSignature
  <2>2. CASE \E argv \in EnrollCommands, file \in Executables : enroll_config(argv, file)
    BY <2>2, EnrollsBehindSignature
  <2> QED
    BY <2>1, <2>2, EnrolledKept
<1> QED
  BY <1>1, <1>2, PTL DEF Spec
-----------------------------------------------------------------------------
(***************************************************************************)
(* The device (BlockCache).  What a transfer does to the cache, the stream *)
(* and the device, each of which may fail.                                 *)
(***************************************************************************)
(* A block of size cells, from first: every number has its place in one.   *)
LEMMA DivMod ==
  ASSUME NEW a \in Int, NEW size \in Nat \ {0}
  PROVE  /\ a \div size \in Int /\ a % size \in 0 .. size - 1
         /\ a = (a \div size) * size + (a % size)
         /\ a \in Nat => a \div size \in Nat
<1>1. a \div size \in Int /\ a % size \in 0 .. size - 1
  OBVIOUS
<1>2. a = size * (a \div size) + (a % size)
  OBVIOUS
<1>3. a \in Nat => a \div size \in Nat
  OBVIOUS
<1> QED
  BY <1>1, <1>2, <1>3

(* A device over the addresses D.                                          *)
Addresses(D) == \A a \in D : a \in Nat /\ \A b \in 0 .. a : b \in D
DeviceOK(d, D) ==
  /\ d \in [disk : [D -> Nat], pending : Nat \cup {NoBlock}, held : Seq(Nat), cached : Nat \cup {NoBlock},
            dirty : BOOLEAN, cache : Seq(Nat), block_size : Nat \ {0}, faults : 0 .. MaxFaults]
  /\ d.pending # NoBlock => Len(d.held) = d.block_size
  /\ d.cached # NoBlock => Len(d.cache) = d.block_size /\ \A a : InBlock(d, d.cached, a) => a \in D
  /\ d.dirty => d.cached # NoBlock

(* What the program would read: the dirty block of the cache before the    *)
(* block pending before the device.                                        *)
View(d) ==
  [a \in DOMAIN d.disk |-> IF d.dirty /\ InBlock(d, d.cached, a)
                             THEN d.cache[a - d.cached * d.block_size + 1] ELSE Stream(d)[a]]
Coherent(d) ==
  d.cached # NoBlock =>
    \A a \in DOMAIN d.disk : InBlock(d, d.cached, a) => d.cache[a - d.cached * d.block_size + 1] = View(d)[a]

(* Moving blocks between cache, stream and device shows nothing else, and  *)
(* the stream only gets what the cache had.                                *)
Moved(d, e, D) ==
  /\ DeviceOK(e, D) /\ e.block_size = d.block_size /\ (d.cached # NoBlock => e.cached # NoBlock)
  /\ \A a \in D : View(e)[a] = View(d)[a]
  /\ \A a \in D : Stream(e)[a] = Stream(d)[a] \/ Stream(e)[a] = View(d)[a]

(* Two moves in a row, and none, are a move.                               *)
LEMMA MovedTwice ==
  ASSUME NEW D, NEW d, NEW e, NEW f, Moved(d, e, D), Moved(e, f, D)
  PROVE  Moved(d, f, D)
BY DEF Moved

(* A device that stays has moved.                                          *)
LEMMA MovedNot ==
  ASSUME NEW D, NEW d, DeviceOK(d, D)
  PROVE  Moved(d, d, D)
BY DEF Moved

(* An address of a block has its place among the block's cells.            *)
LEMMA PlaceInBlock ==
  ASSUME NEW size \in Nat \ {0}, NEW block \in Int, NEW a \in block * size .. block * size + size - 1
  PROVE  a - block * size + 1 \in 1 .. size
<1>1. block * size \in Int
  OBVIOUS
<1> QED
  BY <1>1

(* What the stream holds, and what the program sees, are cells for the     *)
(* same addresses.                                                         *)
LEMMA StreamType ==
  ASSUME NEW D, NEW d, DeviceOK(d, D)
  PROVE  Stream(d) \in [D -> Nat]
<1>1. d.disk \in [D -> Nat] /\ d.block_size \in Nat \ {0} /\ d.held \in Seq(Nat)
  BY DEF DeviceOK
<1>2. ASSUME NEW a \in D PROVE Stream(d)[a] \in Nat
  <2>1. CASE d.pending # NoBlock /\ InBlock(d, d.pending, a)
    <3>1. d.pending \in Int /\ Len(d.held) = d.block_size
      BY <2>1 DEF DeviceOK
    <3>2. a - d.pending * d.block_size + 1 \in 1 .. Len(d.held)
      BY <1>1, <2>1, <3>1, PlaceInBlock DEF InBlock
    <3>3. d.held[a - d.pending * d.block_size + 1] \in Nat
      BY <1>1, <3>2
    <3> QED
      BY <1>1, <2>1, <3>3 DEF Stream
  <2>2. CASE ~(d.pending # NoBlock /\ InBlock(d, d.pending, a))
    BY <1>1, <2>2 DEF Stream
  <2> QED
    BY <2>1, <2>2
<1> QED
  BY <1>1, <1>2 DEF Stream

(* What the program sees are cells for the same addresses.                 *)
LEMMA ViewType ==
  ASSUME NEW D, NEW d, DeviceOK(d, D)
  PROVE  View(d) \in [D -> Nat]
<1>1. d.disk \in [D -> Nat] /\ d.block_size \in Nat \ {0} /\ d.cache \in Seq(Nat) /\ Stream(d) \in [D -> Nat]
  BY StreamType DEF DeviceOK
<1>2. ASSUME NEW a \in D PROVE View(d)[a] \in Nat
  <2>1. CASE d.dirty /\ InBlock(d, d.cached, a)
    <3>1. d.cached \in Int /\ Len(d.cache) = d.block_size
      BY <2>1 DEF DeviceOK
    <3>2. a - d.cached * d.block_size + 1 \in 1 .. Len(d.cache)
      BY <1>1, <2>1, <3>1, PlaceInBlock DEF InBlock
    <3>3. d.cache[a - d.cached * d.block_size + 1] \in Nat
      BY <1>1, <3>2
    <3> QED
      BY <1>1, <2>1, <3>3 DEF View
  <2>2. CASE ~(d.dirty /\ InBlock(d, d.cached, a))
    BY <1>1, <2>2 DEF View
  <2> QED
    BY <2>1, <2>2
<1> QED
  BY <1>1, <1>2 DEF View

(* A transfer the device refuses changes no more than the number of        *)
(* faults.                                                                 *)
LEMMA FaultMoves ==
  ASSUME NEW D, NEW d, DeviceOK(d, D), NEW o \in Fault(d)
  PROVE  /\ o.ok = FALSE /\ Moved(d, o.dev, D)
         /\ o.dev.disk = d.disk /\ o.dev.pending = d.pending /\ o.dev.held = d.held /\ o.dev.cached = d.cached
         /\ o.dev.dirty = d.dirty /\ o.dev.cache = d.cache /\ o.dev.block_size = d.block_size
<1>0. MaxFaults \in Nat
  BY BlockCacheAssumption
<1>1. d.faults < MaxFaults /\ o = [dev |-> [d EXCEPT !.faults = @ + 1], ok |-> FALSE]
  BY DEF Fault, Failed
<1>2. PICK e : e = [d EXCEPT !.faults = d.faults + 1] /\ o.dev = e /\ o.ok = FALSE
  BY <1>1
<1>3. /\ e.disk = d.disk /\ e.pending = d.pending /\ e.held = d.held /\ e.cached = d.cached
      /\ e.dirty = d.dirty /\ e.cache = d.cache /\ e.block_size = d.block_size /\ e.faults = d.faults + 1
  BY <1>2 DEF DeviceOK
<1>4. e.faults \in 0 .. MaxFaults
  BY <1>0, <1>1, <1>3 DEF DeviceOK
<1>5. DeviceOK(e, D)
  BY <1>2, <1>3, <1>4 DEF DeviceOK, InBlock
<1>6. Stream(e) = Stream(d) /\ View(e) = View(d)
  BY <1>3 DEF Stream, View, InBlock
<1> QED
  BY <1>2, <1>3, <1>5, <1>6 DEF Moved

(* fseek and fclose: what the stream held is on the device, or still in    *)
(* the stream.                                                             *)
LEMMA SyncMoves ==
  ASSUME NEW D, NEW d, DeviceOK(d, D), NEW o \in Sync(d)
  PROVE  /\ o.ok \in BOOLEAN /\ Moved(d, o.dev, D) /\ Stream(o.dev) = Stream(d)
         /\ o.dev.cached = d.cached /\ o.dev.cache = d.cache /\ o.dev.dirty = d.dirty
         /\ o.ok => o.dev.pending = NoBlock
         /\ Coherent(d) => Coherent(o.dev)
<1>1. CASE d.pending = NoBlock
  <2>1. o = [dev |-> d, ok |-> TRUE]
    BY <1>1 DEF Sync, Done
  <2> QED
    BY <1>1, <2>1, MovedNot
<1>2. CASE d.pending # NoBlock /\ o \in Fault(d)
  <2>1. o \in Fault(d)
    BY <1>2
  <2>2. PICK e : e = o.dev
    OBVIOUS
  <2>3. /\ o.ok = FALSE /\ Moved(d, e, D)
        /\ e.disk = d.disk /\ e.pending = d.pending /\ e.held = d.held /\ e.cached = d.cached
        /\ e.dirty = d.dirty /\ e.cache = d.cache /\ e.block_size = d.block_size
    BY ZenonT(40), <2>1, <2>2, FaultMoves
  <2>4. Stream(e) = Stream(d) /\ View(e) = View(d)
    BY <2>3 DEF Stream, View, InBlock
  <2>5. Coherent(d) => Coherent(e)
    BY <2>3, <2>4 DEF Coherent, InBlock
  <2> QED
    BY <2>2, <2>3, <2>4, <2>5
<1>3. CASE d.pending # NoBlock /\ o \notin Fault(d)
  <2>1. PICK e : e = [d EXCEPT !.disk = Stream(d), !.pending = NoBlock, !.held = << >>] /\ o = [dev |-> e, ok |-> TRUE]
    BY <1>3 DEF Sync, Done
  <2>2. /\ e.disk = Stream(d) /\ e.pending = NoBlock /\ e.held = << >> /\ e.cached = d.cached
        /\ e.dirty = d.dirty /\ e.cache = d.cache /\ e.block_size = d.block_size
    BY <2>1 DEF DeviceOK
  <2>3. Stream(d) \in [D -> Nat] /\ d.disk \in [D -> Nat]
    BY StreamType DEF DeviceOK
  <2>8. e \in [disk : [D -> Nat], pending : Nat \cup {NoBlock}, held : Seq(Nat), cached : Nat \cup {NoBlock},
               dirty : BOOLEAN, cache : Seq(Nat), block_size : Nat \ {0}, faults : 0 .. MaxFaults]
    <3>1. d \in [disk : [D -> Nat], pending : Nat \cup {NoBlock}, held : Seq(Nat), cached : Nat \cup {NoBlock},
                 dirty : BOOLEAN, cache : Seq(Nat), block_size : Nat \ {0}, faults : 0 .. MaxFaults]
      BY DEF DeviceOK
    <3>2. PICK none \in Seq(Nat), disk \in [D -> Nat] : none = << >> /\ disk = Stream(d)
      <4>1. << >> \in Seq(Nat)
        OBVIOUS
      <4>2. PICK none \in Seq(Nat) : none = << >>
        BY <4>1
      <4> QED
        BY <2>3, <4>2
    <3>3. e = [d EXCEPT !.disk = disk, !.pending = NoBlock, !.held = none]
      BY <2>1, <3>2
    <3> QED
      BY <3>1, <3>3
  <2>4. DeviceOK(e, D)
    BY <2>2, <2>8 DEF DeviceOK, InBlock
  <2>5. Stream(e) = Stream(d)
    <3>1. Stream(e) = [a \in D |-> Stream(d)[a]]
      BY <2>2, <2>3 DEF Stream
    <3> QED
      BY <2>3, <3>1
  <2>6. View(e) = View(d)
    BY <2>2, <2>3, <2>5 DEF View, InBlock
  <2>7. Coherent(d) => Coherent(e)
    BY <2>2, <2>3, <2>6 DEF Coherent, InBlock
  <2> QED
    BY <2>1, <2>2, <2>4, <2>5, <2>6, <2>7 DEF Moved
<1> QED
  BY <1>1, <1>2, <1>3

(* device_flush_cache: the block of the cache is in the stream, or still   *)
(* dirty.                                                                  *)
LEMMA FlushMoves ==
  ASSUME NEW D, NEW d, DeviceOK(d, D), NEW o \in device_flush_cache(d)
  PROVE  /\ o.ok \in BOOLEAN /\ Moved(d, o.dev, D)
         /\ o.dev.cached = d.cached /\ o.dev.cache = d.cache
         /\ o.ok => ~o.dev.dirty
         /\ Coherent(d) => Coherent(o.dev)
<1>1. CASE ~d.dirty
  <2>1. o = [dev |-> d, ok |-> TRUE]
    BY <1>1 DEF device_flush_cache, Done
  <2> QED
    BY <1>1, <2>1, MovedNot
<1>2. CASE d.dirty
  <2>1. PICK s \in Sync(d) :
          \/ s.ok /\ o = [dev |-> [s.dev EXCEPT !.pending = s.dev.cached, !.held = s.dev.cache, !.dirty = FALSE], ok |-> TRUE]
          \/ ~s.ok /\ o = s
    BY <1>2 DEF device_flush_cache, Chain, Done
  <2>2. /\ s.ok \in BOOLEAN /\ Moved(d, s.dev, D) /\ Stream(s.dev) = Stream(d)
        /\ s.dev.cached = d.cached /\ s.dev.cache = d.cache /\ s.dev.dirty = d.dirty
        /\ s.ok => s.dev.pending = NoBlock
        /\ Coherent(d) => Coherent(s.dev)
    BY SyncMoves
  <2>3. CASE ~s.ok
    BY <2>1, <2>2, <2>3
  <2>4. CASE s.ok
    <3>1. PICK c : c = s.dev
      OBVIOUS
    <3>2. PICK e : e = [c EXCEPT !.pending = c.cached, !.held = c.cache, !.dirty = FALSE] /\ o = [dev |-> e, ok |-> TRUE]
      BY <2>1, <2>4, <3>1
    <3>3. DeviceOK(c, D) /\ c.pending = NoBlock /\ c.dirty /\ c.cached # NoBlock
      BY <1>2, <2>2, <2>4, <3>1 DEF Moved, DeviceOK
    <3>4. /\ e.disk = c.disk /\ e.pending = c.cached /\ e.held = c.cache /\ e.cached = c.cached
          /\ e.dirty = FALSE /\ e.cache = c.cache /\ e.block_size = c.block_size
      BY <3>2, <3>3 DEF DeviceOK
    <3>5. DeviceOK(e, D)
      BY <3>2, <3>3, <3>4 DEF DeviceOK, InBlock
    <3>6. c.disk \in [D -> Nat]
      BY <3>3 DEF DeviceOK
    <3>7. Stream(e) = View(c)
      BY <3>3, <3>4, <3>6 DEF Stream, View, InBlock
    <3>8. View(e) = View(c)
      <4>1. View(e) = [a \in D |-> Stream(e)[a]]
        BY <3>4, <3>6 DEF View
      <4>2. View(c) \in [D -> Nat]
        BY <3>3, ViewType
      <4> QED
        BY <3>7, <4>1, <4>2
    <3>9. Coherent(c) => Coherent(e)
      BY <3>4, <3>6, <3>8 DEF Coherent, InBlock
    <3>10. Moved(c, e, D)
      BY <3>4, <3>5, <3>7, <3>8 DEF Moved
    <3>11. Moved(d, e, D)
      BY <2>2, <3>1, <3>10, MovedTwice
    <3> QED
      BY <2>2, <3>1, <3>2, <3>4, <3>9, <3>11
  <2> QED
    BY <2>2, <2>3, <2>4
<1> QED
  BY <1>1, <1>2 DEF DeviceOK

(* A block whose last cell is on the device is on it whole.                *)
LEMMA BlockInside ==
  ASSUME NEW D, Addresses(D), NEW size \in Nat \ {0}, NEW block \in Int, block * size + size - 1 \in D
  PROVE  /\ block \in Nat
         /\ \A a \in block * size .. block * size + size - 1 : a \in D
         /\ \A i \in 1 .. size : block * size + i - 1 \in D
<1>1. block * size + size - 1 \in Nat /\ block * size \in Int
  BY DEF Addresses
<1>2. block >= 0
  <2>1. CASE block <= -1
    <3>1. block * size <= -size
      BY <2>1
    <3> QED
      BY <1>1, <3>1
  <2> QED
    BY <2>1
<1>3. block * size >= 0
  BY <1>2
<1>4. \A b \in 0 .. block * size + size - 1 : b \in D
  BY DEF Addresses
<1> QED
  BY <1>1, <1>2, <1>3, <1>4

(* A device with nothing on its way, and a block read from it.             *)
Clean(d) == d.pending = NoBlock /\ d.dirty = FALSE
BlockRead(o, d, D, block) ==
  /\ o.ok \in BOOLEAN /\ Moved(d, o.dev, D)
  /\ o.ok => o.dev.cached = block /\ block \in Nat /\ Coherent(o.dev)
  /\ o.dev.disk = d.disk /\ Clean(o.dev)
  /\ ~o.ok => o.dev.cached = d.cached

(* A block that is read is what the device has there.                      *)
LEMMA ReadBlockMoves ==
  ASSUME NEW D, Addresses(D), NEW d, DeviceOK(d, D), Clean(d), NEW block \in Int,
         NEW o \in ReadBlock(d, block)
  PROVE  BlockRead(o, d, D, block)
<1> SUFFICES /\ o.ok \in BOOLEAN /\ Moved(d, o.dev, D)
             /\ o.ok => o.dev.cached = block /\ block \in Nat /\ Coherent(o.dev)
             /\ o.dev.disk = d.disk /\ o.dev.pending = NoBlock /\ o.dev.dirty = FALSE
             /\ ~o.ok => o.dev.cached = d.cached
  BY DEF BlockRead, Clean
<1>c. d.pending = NoBlock /\ d.dirty = FALSE
  BY DEF Clean
<1>0. PICK first \in Int, size \in Nat \ {0} : size = d.block_size /\ first = block * size
  BY DEF DeviceOK
<1>d. d.disk \in [D -> Nat]
  BY DEF DeviceOK
<1>r. d \in [disk : [D -> Nat], pending : Nat \cup {NoBlock}, held : Seq(Nat), cached : Nat \cup {NoBlock},
             dirty : BOOLEAN, cache : Seq(Nat), block_size : Nat \ {0}, faults : 0 .. MaxFaults]
  BY DEF DeviceOK
<1>1. CASE first + size - 1 \notin D
  <2>1. o = [dev |-> d, ok |-> FALSE]
    BY <1>0, <1>1, <1>d DEF ReadBlock, Failed
  <2> QED
    BY <1>c, <1>r, <2>1, MovedNot
<1>2. CASE first + size - 1 \in D
  <2>0. /\ block \in Nat /\ \A a \in first .. first + size - 1 : a \in D
        /\ \A i \in 1 .. size : first + i - 1 \in D
    BY <1>0, <1>2, BlockInside
  <2>1. PICK cells : cells = [i \in 1 .. size |-> d.disk[first + i - 1]]
    OBVIOUS
  <2>2. cells \in Seq(Nat) /\ Len(cells) = size
    <3>1. cells \in [1 .. size -> Nat]
      BY <1>d, <2>0, <2>1
    <3>2. size \in Nat
      BY <1>d, <2>0
    <3> QED
      BY <3>1, <3>2, CellsOf
  <2>3. PICK junk : junk = [i \in 1 .. size |-> Junk]
    OBVIOUS
  <2>4. junk \in Seq(Nat) /\ Len(junk) = size
    <3>1. Junk \in Nat
      BY DEF Junk
    <3>2. junk \in [1 .. size -> Nat]
      BY <2>3, <3>1
    <3>3. size \in Nat
      BY <1>d, <2>0
    <3> QED
      BY <3>2, <3>3, CellsOf
  <2>5. \/ o = [dev |-> [d EXCEPT !.cache = cells, !.cached = block], ok |-> TRUE]
        \/ o \in Fault(d)
        \/ o \in Fault([d EXCEPT !.cache = junk])
    BY <1>0, <1>2, <1>d, <2>1, <2>3 DEF ReadBlock, Done
  <2>6. CASE o = [dev |-> [d EXCEPT !.cache = cells, !.cached = block], ok |-> TRUE]
    <3>1. PICK e : e = [d EXCEPT !.cache = cells, !.cached = block] /\ o = [dev |-> e, ok |-> TRUE]
      BY <2>6
    <3>2. /\ e.disk = d.disk /\ e.pending = NoBlock /\ e.held = d.held /\ e.cached = block
          /\ e.dirty = FALSE /\ e.cache = cells /\ e.block_size = size
      BY <1>c, <1>0, <1>r, <3>1
    <3>3. block # NoBlock
      BY <2>0 DEF NoBlock
    <3>4. e \in [disk : [D -> Nat], pending : Nat \cup {NoBlock}, held : Seq(Nat), cached : Nat \cup {NoBlock},
                 dirty : BOOLEAN, cache : Seq(Nat), block_size : Nat \ {0}, faults : 0 .. MaxFaults]
      BY <1>r, <2>0, <2>2, <3>1
    <3>5. DeviceOK(e, D)
      BY <1>0, <2>0, <2>2, <3>2, <3>4 DEF DeviceOK, InBlock
    <3>6. Stream(e) = d.disk /\ Stream(d) = d.disk
      BY <1>c, <1>d, <3>2 DEF Stream
    <3>7. View(e) = d.disk /\ View(d) = d.disk
      BY <1>c, <1>d, <3>2, <3>6 DEF View
    <3>8. ASSUME NEW a \in D, InBlock(e, e.cached, a)
          PROVE  e.cache[a - e.cached * e.block_size + 1] = View(e)[a]
      <4>1. a \in Int /\ a \in first .. first + size - 1
        BY <1>0, <3>2, <3>8 DEF InBlock
      <4>2. a - first + 1 \in 1 .. size /\ first + (a - first + 1) - 1 = a
        BY <4>1
      <4>3. cells[a - first + 1] = d.disk[a]
        BY <2>1, <4>2
      <4> QED
        BY <1>0, <3>2, <3>7, <4>3
    <3>9. Coherent(e)
      BY <1>d, <3>2, <3>8 DEF Coherent
    <3> QED
      BY <1>0, <2>0, <3>1, <3>2, <3>3, <3>5, <3>6, <3>7, <3>9 DEF Moved
  <2>7. CASE o \in Fault(d)
    <3>1. /\ o.ok = FALSE /\ Moved(d, o.dev, D) /\ o.dev.disk = d.disk /\ o.dev.pending = d.pending
          /\ o.dev.dirty = d.dirty /\ o.dev.cached = d.cached
      BY ZenonT(40), <2>7, FaultMoves
    <3>2. d.dirty = FALSE
      BY <1>c, <1>r
    <3> QED
      BY <1>c, <3>1, <3>2
  <2>8. CASE o \in Fault([d EXCEPT !.cache = junk])
    <3>1. PICK e : e = [d EXCEPT !.cache = junk] /\ o \in Fault(e)
      BY <2>8
    <3>2. /\ e.disk = d.disk /\ e.pending = d.pending /\ e.held = d.held /\ e.cached = d.cached
          /\ e.dirty = FALSE /\ e.cache = junk /\ e.block_size = size
      BY <1>c, <1>0, <1>r, <3>1
    <3>4. e \in [disk : [D -> Nat], pending : Nat \cup {NoBlock}, held : Seq(Nat), cached : Nat \cup {NoBlock},
                 dirty : BOOLEAN, cache : Seq(Nat), block_size : Nat \ {0}, faults : 0 .. MaxFaults]
      BY <1>r, <2>4, <3>1
    <3>5. DeviceOK(e, D)
      BY <1>0, <2>4, <3>2, <3>4 DEF DeviceOK, InBlock
    <3>6. Stream(e) = Stream(d) /\ View(e) = View(d)
      BY <1>c, <1>0, <3>2 DEF Stream, View, InBlock
    <3>7. Moved(d, e, D)
      BY <1>0, <3>2, <3>5, <3>6 DEF Moved
    <3>8. /\ o.ok = FALSE /\ Moved(e, o.dev, D) /\ o.dev.disk = e.disk /\ o.dev.pending = e.pending
          /\ o.dev.dirty = e.dirty /\ o.dev.cached = e.cached
      <4>1. o \in Fault(e)
        BY <3>1
      <4> QED
        BY ZenonT(40), <3>5, <4>1, FaultMoves
    <3>9. Moved(d, o.dev, D)
      BY <3>7, <3>8, MovedTwice
    <3> QED
      BY <1>c, <3>2, <3>8, <3>9
  <2> QED
    BY <2>5, <2>6, <2>7, <2>8
<1> QED
  BY <1>1, <1>2

(* A block is brought into the cache without losing what was there.        *)
LEMMA CacheBlockMoves ==
  ASSUME NEW D, Addresses(D), NEW d, DeviceOK(d, D), NEW block \in Int, d.cached # NoBlock \/ block \in Nat,
         NEW o \in device_cache_block(d, block)
  PROVE  /\ o.ok \in BOOLEAN /\ Moved(d, o.dev, D)
         /\ o.ok => o.dev.cached = block /\ block \in Nat /\ block # NoBlock
         /\ o.ok /\ Coherent(d) => Coherent(o.dev)
<1>0. \A n \in Nat : n # NoBlock
  BY DEF NoBlock
<1>1. CASE d.cached = block
  <2>1. o = [dev |-> d, ok |-> TRUE]
    BY <1>1 DEF device_cache_block, Done
  <2> QED
    BY <1>0, <1>1, <2>1, MovedNot DEF DeviceOK
<1>2. CASE d.cached # block
  <2>1. PICK s \in device_flush_cache(d) :
          \/ ~s.ok /\ o = s
          \/ s.ok /\ \E t \in Sync(s.dev) : \/ ~t.ok /\ o = t
                                            \/ t.ok /\ o \in ReadBlock(t.dev, block)
    BY <1>2 DEF device_cache_block, Chain
  <2>2. /\ s.ok \in BOOLEAN /\ Moved(d, s.dev, D)
        /\ s.ok => ~s.dev.dirty
    BY FlushMoves
  <2>3. CASE ~s.ok
    BY <2>1, <2>2, <2>3
  <2>4. CASE s.ok
    <3>1. PICK t \in Sync(s.dev) : \/ ~t.ok /\ o = t
                                   \/ t.ok /\ o \in ReadBlock(t.dev, block)
      BY <2>1, <2>4
    <3>2. DeviceOK(s.dev, D)
      BY <2>2 DEF Moved
    <3>3. /\ t.ok \in BOOLEAN /\ Moved(s.dev, t.dev, D) /\ t.dev.dirty = s.dev.dirty
          /\ t.ok => t.dev.pending = NoBlock
      BY <3>2, SyncMoves
    <3>4. Moved(d, t.dev, D)
      BY <2>2, <3>3, MovedTwice
    <3>5. CASE ~t.ok
      BY <3>1, <3>3, <3>4, <3>5
    <3>6. CASE t.ok
      <4>1. o \in ReadBlock(t.dev, block) /\ DeviceOK(t.dev, D) /\ t.dev.pending = NoBlock /\ ~t.dev.dirty
        BY <2>2, <2>4, <3>1, <3>3, <3>4, <3>6 DEF Moved
      <4>4. Clean(t.dev)
        BY <4>1 DEF Clean, DeviceOK
      <4>2. /\ o.ok \in BOOLEAN /\ Moved(t.dev, o.dev, D)
            /\ o.ok => o.dev.cached = block /\ block \in Nat /\ Coherent(o.dev)
        BY <4>1, <4>4, ReadBlockMoves DEF BlockRead
      <4>3. Moved(d, o.dev, D)
        BY <3>4, <4>2, MovedTwice
      <4> QED
        BY <1>0, <4>2, <4>3
    <3> QED
      BY <3>3, <3>5, <3>6
  <2> QED
    BY <2>2, <2>3, <2>4
<1> QED
  BY <1>1, <1>2

(* A chunk: where it is in the cache and in the range transferred.         *)
ChunkAt(size, loc, n, count, block, offset, chunk, first) ==
  /\ block = (loc + n) \div size /\ offset = (loc + n) % size
  /\ chunk = IF count - n > size - offset THEN size - offset ELSE count - n
  /\ chunk > 0 /\ offset + chunk <= size /\ n + chunk <= count
  /\ first = block * size /\ first + offset = loc + n
  /\ loc \in Nat => block \in Nat

(* The part of a transfer that is in one block, as device_read and         *)
(* device_write cut it.                                                    *)
LEMMA ChunkPlace ==
  ASSUME NEW size \in Nat \ {0}, NEW loc \in Int, NEW n \in Nat, NEW count \in Nat, n < count
  PROVE  \E block \in Int, offset \in 0 .. size - 1, chunk \in Nat, first \in Int :
           ChunkAt(size, loc, n, count, block, offset, chunk, first)
<1>1. PICK at \in Int : at = loc + n /\ (loc \in Nat => at \in Nat)
  OBVIOUS
<1>2. PICK block \in Int, offset \in 0 .. size - 1 :
        /\ block = at \div size /\ offset = at % size /\ at = block * size + offset
        /\ at \in Nat => block \in Nat
  BY <1>1, DivMod
<1>3. PICK first \in Int : first = block * size
  BY <1>2
<1>4. PICK chunk \in Nat : /\ chunk = IF count - n > size - offset THEN size - offset ELSE count - n
                           /\ chunk > 0 /\ offset + chunk <= size /\ n + chunk <= count
  BY <1>2
<1>5. /\ block = (loc + n) \div size /\ offset = (loc + n) % size
      /\ chunk = IF count - n > size - offset THEN size - offset ELSE count - n
      /\ chunk > 0 /\ offset + chunk <= size /\ n + chunk <= count
      /\ first = block * size /\ first + offset = loc + n
      /\ loc \in Nat => block \in Nat
  BY <1>1, <1>2, <1>3, <1>4
<1>6. ChunkAt(size, loc, n, count, block, offset, chunk, first)
  BY <1>5 DEF ChunkAt
<1> QED
  BY <1>6

(* A part of some cells, and two runs of cells put together.               *)
LEMMA PartCells ==
  ASSUME NEW s \in Seq(Nat), NEW from \in Nat, NEW count \in Nat, count > 0, from + count <= Len(s)
  PROVE  /\ SubSeq(s, from + 1, from + count) \in Seq(Nat) /\ Len(SubSeq(s, from + 1, from + count)) = count
         /\ \A i \in 1 .. count : SubSeq(s, from + 1, from + count)[i] = s[from + i]
<1>1. PICK a \in Nat, b \in Nat : a = from + 1 /\ b = from + count /\ b - a + 1 = count
  OBVIOUS
<1>2. PICK part : part = SubSeq(s, a, b)
  OBVIOUS
<1>3. a \in 1 .. Len(s) /\ b \in 1 .. Len(s)
  BY <1>1
<1>4. part = [i \in 1 .. b - a + 1 |-> s[a + i - 1]]
  BY <1>2, <1>3
<1>5. ASSUME NEW i \in 1 .. count PROVE part[i] = s[from + i] /\ part[i] \in Nat
  <2>1. PICK p \in 1 .. Len(s) : p = a + i - 1 /\ p = from + i
    BY <1>1
  <2> QED
    BY <1>1, <1>4, <2>1
<1>6. part \in [1 .. count -> Nat]
  BY <1>1, <1>4, <1>5
<1>7. part \in Seq(Nat) /\ Len(part) = count
  BY <1>6, CellsOf
<1> QED
  BY <1>1, <1>2, <1>5, <1>7

(* Cells with more cells behind them.                                      *)
LEMMA JoinedCells ==
  ASSUME NEW s \in Seq(Nat), NEW t \in Seq(Nat)
  PROVE  /\ s \o t \in Seq(Nat) /\ Len(s \o t) = Len(s) + Len(t)
         /\ \A j \in 1 .. Len(s) : (s \o t)[j] = s[j]
         /\ \A j \in Len(s) + 1 .. Len(s) + Len(t) : (s \o t)[j] = t[j - Len(s)]
OBVIOUS

(* Cells have a length, and a function on 1 .. n is n cells.               *)
LEMMA LenNat == ASSUME NEW s \in Seq(Nat) PROVE Len(s) \in Nat
OBVIOUS

(* The block of the next part is in the cache; the part has been read, or  *)
(* written.                                                                *)
Facing(d, n, loc) == d.cached = (loc + n) \div d.block_size /\ d.cached # NoBlock
HasRead(o, d, D, data, loc, count) ==
  /\ o.ok = TRUE /\ o.dev = d /\ o.data \in Seq(Nat) /\ o = [dev |-> d, ok |-> TRUE, data |-> o.data]
  /\ Len(o.data) \in Len(data) + 1 .. count
  /\ \A j \in 1 .. Len(data) : o.data[j] = data[j]
  /\ Coherent(d) => \A j \in Len(data) + 1 .. Len(o.data) : loc + j - 1 \in D /\ o.data[j] = View(d)[loc + j - 1]
HasPut(o, d, D, data, loc, cells) ==
  /\ o.ok = TRUE /\ o.data \in Seq(Nat) /\ o = [dev |-> o.dev, ok |-> TRUE, data |-> o.data]
  /\ Len(o.data) \in Len(data) + 1 .. Len(cells)
  /\ DeviceOK(o.dev, D) /\ Coherent(o.dev) /\ o.dev.block_size = d.block_size /\ o.dev.cached = d.cached
  /\ Stream(o.dev) = Stream(d)
  /\ Coherent(d) => \A a \in D : View(o.dev)[a] = IF a \in loc + Len(data) .. loc + Len(o.data) - 1
                                                    THEN cells[a - loc + 1] ELSE View(d)[a]
  /\ \A a \in loc + Len(data) .. loc + Len(o.data) - 1 : a \in D

(* Copying from the block in the cache reads what the program sees there.  *)
LEMMA CopiedRead ==
  ASSUME NEW D, NEW d, DeviceOK(d, D), NEW data \in Seq(Nat), NEW loc \in Int, NEW count \in Nat, Len(data) < count,
         Facing(d, Len(data), loc),
         NEW o, o = Copied(d, data, loc, count, << >>)
  PROVE  HasRead(o, d, D, data, loc, count)
<1>1. PICK n \in Nat, size \in Nat \ {0} : n = Len(data) /\ size = d.block_size /\ n < count
  BY DEF DeviceOK
<1>p. PICK block \in Int, offset \in 0 .. size - 1, chunk \in Nat, first \in Int :
        ChunkAt(size, loc, n, count, block, offset, chunk, first)
  BY <1>1, ChunkPlace
<1>2. /\ block = (loc + n) \div size /\ offset = (loc + n) % size
      /\ chunk = IF count - n > size - offset THEN size - offset ELSE count - n
      /\ first = block * size
  BY <1>p DEF ChunkAt
<1>l. chunk > 0 /\ offset + chunk <= size /\ n + chunk <= count /\ first + offset = loc + n
  BY <1>p DEF ChunkAt
<1>f. first = block * size
  BY <1>2
<1>3. d.cached = block /\ d.cache \in Seq(Nat) /\ Len(d.cache) = size /\ d.disk \in [D -> Nat] /\ d.cached # NoBlock
  <2>1. d.cached = block /\ d.cached # NoBlock
    BY <1>1, <1>2 DEF Facing
  <2> QED
    BY <1>1, <2>1 DEF DeviceOK
<1>4. PICK part : part = SubSeq(d.cache, offset + 1, offset + chunk)
  OBVIOUS
<1>5. part \in Seq(Nat) /\ Len(part) = chunk /\ \A i \in 1 .. chunk : part[i] = d.cache[offset + i]
  <2>1. PICK cache \in Seq(Nat), from \in Nat : cache = d.cache /\ from = offset
    BY <1>3
  <2>2. chunk > 0 /\ from + chunk <= Len(cache)
    BY <1>3, <1>l, <2>1
  <2>3. /\ SubSeq(cache, from + 1, from + chunk) \in Seq(Nat) /\ Len(SubSeq(cache, from + 1, from + chunk)) = chunk
        /\ \A i \in 1 .. chunk : SubSeq(cache, from + 1, from + chunk)[i] = cache[from + i]
    BY <2>2, PartCells
  <2> QED
    BY <1>4, <2>1, <2>3
<1>6. o = [dev |-> d, ok |-> TRUE, data |-> data \o part]
  BY <1>1, <1>2, <1>4 DEF Copied
<1>7. PICK moved \in Seq(Nat) : /\ moved = data \o part /\ Len(moved) = n + chunk
                                /\ \A j \in 1 .. n : moved[j] = data[j]
                                /\ \A j \in n + 1 .. n + chunk : moved[j] = part[j - n]
  <2>1. PICK moved : moved = data \o part
    OBVIOUS
  <2>2. /\ moved \in Seq(Nat) /\ Len(moved) = Len(data) + Len(part)
        /\ \A j \in 1 .. Len(data) : moved[j] = data[j]
        /\ \A j \in Len(data) + 1 .. Len(data) + Len(part) : moved[j] = part[j - Len(data)]
    BY <1>5, <2>1, JoinedCells
  <2> QED
    BY <1>1, <1>5, <2>1, <2>2
<1>8. ASSUME Coherent(d), NEW j \in n + 1 .. n + chunk PROVE loc + j - 1 \in D /\ moved[j] = View(d)[loc + j - 1]
  <2>1. PICK a \in Int, i \in 1 .. chunk : a = loc + j - 1 /\ i = j - n
    <3>1. loc + j - 1 \in Int /\ j - n \in 1 .. chunk
      OBVIOUS
    <3> QED
      BY <3>1
  <2>2. a \in first .. first + size - 1 /\ a - first + 1 = offset + i
    BY <1>l, <2>1
  <2>3. InBlock(d, d.cached, a)
    BY <1>1, <1>f, <1>3, <2>2 DEF InBlock
  <2>4. a \in D
    BY <1>3, <2>3 DEF DeviceOK
  <2>5. d.cache[offset + i] = View(d)[a]
    BY <1>1, <1>f, <1>3, <1>8, <2>2, <2>3, <2>4 DEF Coherent
  <2> QED
    BY <1>5, <1>7, <2>1, <2>4, <2>5
<1>9. o.ok = TRUE /\ o.dev = d /\ o.data = moved
  <2>1. o = [dev |-> d, ok |-> TRUE, data |-> moved]
    BY <1>6, <1>7
  <2> HIDE <1>6, <1>7
  <2> QED
    BY <2>1
<1>10. n + chunk \in n + 1 .. count
  BY <1>l
<1> QED
  BY ZenonT(40), <1>1, <1>6, <1>7, <1>8, <1>9, <1>10 DEF HasRead

(* Copying to the block in the cache changes what the program sees there,  *)
(* and nothing else.                                                       *)
LEMMA CopiedWrite ==
  ASSUME NEW D, NEW d, DeviceOK(d, D), NEW data \in Seq(Nat), NEW loc \in Int, NEW cells \in Seq(Nat), cells # << >>,
         Len(data) < Len(cells),
         Facing(d, Len(data), loc),
         NEW o, o = Copied(d, data, loc, Len(cells), cells)
  PROVE  HasPut(o, d, D, data, loc, cells)
<1>1. PICK n \in Nat, size \in Nat \ {0}, count \in Nat : n = Len(data) /\ size = d.block_size /\ count = Len(cells) /\ n < count
  BY DEF DeviceOK
<1>p. PICK block \in Int, offset \in 0 .. size - 1, chunk \in Nat, first \in Int :
        ChunkAt(size, loc, n, count, block, offset, chunk, first)
  BY <1>1, ChunkPlace
<1>2. /\ block = (loc + n) \div size /\ offset = (loc + n) % size
      /\ chunk = IF count - n > size - offset THEN size - offset ELSE count - n
      /\ first = block * size
  BY <1>p DEF ChunkAt
<1>l. chunk > 0 /\ offset + chunk <= size /\ n + chunk <= count /\ first + offset = loc + n
  BY <1>p DEF ChunkAt
<1>f. first = block * size
  BY <1>2
<1>3. d.cached = block /\ d.cache \in Seq(Nat) /\ Len(d.cache) = size /\ d.disk \in [D -> Nat] /\ d.cached # NoBlock
  <2>1. d.cached = block /\ d.cached # NoBlock
    BY <1>1, <1>2 DEF Facing
  <2> QED
    BY <1>1, <2>1 DEF DeviceOK
<1>4. PICK part : part = SubSeq(cells, 1, n + chunk)
  OBVIOUS
<1>5. part \in Seq(Nat) /\ Len(part) = n + chunk
  <2>1. PICK m \in Nat : m = n + chunk /\ m > 0 /\ 0 + m <= Len(cells) /\ 0 + m = m /\ 0 + 1 = 1
    BY <1>1, <1>l
  <2>2. SubSeq(cells, 0 + 1, 0 + m) \in Seq(Nat) /\ Len(SubSeq(cells, 0 + 1, 0 + m)) = m
    BY <2>1, PartCells
  <2> QED
    BY <1>4, <2>1, <2>2
<1>c. \A j \in 1 .. Len(cells) : cells[j] \in Nat
  OBVIOUS
<1>6. PICK cache : cache = [i \in 1 .. size |-> IF i \in offset + 1 .. offset + chunk THEN cells[n + i - offset] ELSE d.cache[i]]
  OBVIOUS
<1>7. cache \in Seq(Nat) /\ Len(cache) = size
  <2>1. ASSUME NEW i \in 1 .. size PROVE cache[i] \in Nat
    <3>1. CASE i \in offset + 1 .. offset + chunk
      <4>1. PICK j \in 1 .. count : j = n + i - offset
        BY <1>l, <3>1
      <4>2. cells[j] \in Nat
        BY <1>1, <1>c, <4>1
      <4> QED
        BY <1>6, <3>1, <4>1, <4>2
    <3>2. CASE i \notin offset + 1 .. offset + chunk
      <4>1. d.cache[i] \in Nat
        BY <1>3
      <4> QED
        BY <1>6, <3>2, <4>1
    <3> QED
      BY <3>1, <3>2
  <2>2. cache \in [1 .. size -> Nat] /\ size \in Nat
    BY <1>6, <2>1
  <2> QED
    BY <2>2, CellsOf
<1>8. o = [dev |-> [d EXCEPT !.dirty = TRUE, !.cache = cache], ok |-> TRUE, data |-> part]
  <2>1. DOMAIN d.cache = 1 .. size
    BY <1>3
  <2> QED
    BY <1>1, <1>2, <1>4, <1>6, <2>1 DEF Copied
<1>9. PICK e : e = [d EXCEPT !.dirty = TRUE, !.cache = cache] /\ o = [dev |-> e, ok |-> TRUE, data |-> part]
  BY <1>8
<1>r. d \in [disk : [D -> Nat], pending : Nat \cup {NoBlock}, held : Seq(Nat), cached : Nat \cup {NoBlock},
             dirty : BOOLEAN, cache : Seq(Nat), block_size : Nat \ {0}, faults : 0 .. MaxFaults]
  BY DEF DeviceOK
<1>10. /\ e.disk = d.disk /\ e.pending = d.pending /\ e.held = d.held /\ e.cached = block
       /\ e.dirty = TRUE /\ e.cache = cache /\ e.block_size = size
  BY <1>1, <1>3, <1>9, <1>r
<1>11. DeviceOK(e, D)
  <2>1. e \in [disk : [D -> Nat], pending : Nat \cup {NoBlock}, held : Seq(Nat), cached : Nat \cup {NoBlock},
               dirty : BOOLEAN, cache : Seq(Nat), block_size : Nat \ {0}, faults : 0 .. MaxFaults]
    BY <1>7, <1>9, <1>r
  <2> QED
    BY <1>1, <1>3, <1>7, <1>10, <2>1 DEF DeviceOK, InBlock
<1>12. Stream(e) = Stream(d)
  BY <1>1, <1>10 DEF Stream, InBlock
<1>13. ASSUME NEW a \in D, InBlock(d, block, a) PROVE View(e)[a] = cache[a - first + 1]
  BY <1>1, <1>2, <1>3, <1>10, <1>13 DEF View, InBlock
<1>14. Coherent(e)
  <2>1. InBlock(e, e.cached, 0) = InBlock(d, block, 0)
    BY <1>1, <1>10 DEF InBlock
  <2>2. ASSUME NEW a \in D, InBlock(e, e.cached, a) PROVE e.cache[a - e.cached * e.block_size + 1] = View(e)[a]
    <3>1. InBlock(d, block, a)
      BY <1>1, <1>10, <2>2 DEF InBlock
    <3> QED
      BY <1>2, <1>10, <1>13, <3>1
  <2> QED
    BY <1>3, <1>10, <2>2 DEF Coherent
<1>15. ASSUME Coherent(d), NEW a \in D
       PROVE  View(e)[a] = IF a \in loc + n .. loc + (n + chunk) - 1 THEN cells[a - loc + 1] ELSE View(d)[a]
  <2>0. DOMAIN e.disk = D /\ DOMAIN d.disk = D
    BY <1>3, <1>10
  <2>1. CASE InBlock(d, block, a)
    <3>1. a \in first .. first + size - 1
      BY <1>1, <1>2, <2>1 DEF InBlock
    <3>2. PICK i \in 1 .. size : i = a - first + 1
      BY <3>1
    <3>3. View(e)[a] = cache[i]
      BY <1>13, <2>1, <3>2
    <3>4. CASE i \in offset + 1 .. offset + chunk
      <4>1. a \in loc + n .. loc + (n + chunk) - 1 /\ n + i - offset = a - loc + 1
        BY <1>l, <3>1, <3>2, <3>4
      <4> QED
        BY <1>6, <3>3, <3>4, <4>1
    <3>5. CASE i \notin offset + 1 .. offset + chunk
      <4>1. a \notin loc + n .. loc + (n + chunk) - 1
        BY <1>l, <3>1, <3>2, <3>5
      <4>2. d.cache[i] = View(d)[a]
        BY <1>1, <1>2, <1>3, <1>15, <2>0, <2>1, <3>2 DEF Coherent
      <4> QED
        BY <1>6, <3>3, <3>5, <4>1, <4>2
    <3> QED
      BY <3>4, <3>5
  <2>2. CASE ~InBlock(d, block, a)
    <3>1. a \notin first .. first + size - 1
      BY <1>1, <1>2, <2>2 DEF InBlock
    <3>2. a \notin loc + n .. loc + (n + chunk) - 1
      BY <1>l, <3>1
    <3>3. ~InBlock(e, e.cached, a)
      BY <1>1, <1>10, <2>2 DEF InBlock
    <3>4. View(e)[a] = Stream(e)[a]
      BY <2>0, <3>3 DEF View
    <3>5. View(d)[a] = Stream(d)[a]
      BY <1>3, <2>0, <2>2 DEF View
    <3> QED
      BY <1>12, <3>2, <3>4, <3>5
  <2> QED
    BY <2>1, <2>2
<1>16. ASSUME NEW a \in loc + n .. loc + (n + chunk) - 1 PROVE a \in D
  <2>1. a \in first .. first + size - 1
    BY <1>l
  <2>2. InBlock(d, d.cached, a)
    BY <1>1, <1>f, <1>3, <2>1 DEF InBlock
  <2> QED
    BY <1>3, <2>2 DEF DeviceOK
<1>17. o.dev = e /\ o.data = part /\ o.ok = TRUE /\ Len(o.data) = n + chunk /\ n + chunk \in n + 1 .. count
  BY <1>1, <1>l, <1>5, <1>9
<1> QED
  BY <1>1, <1>3, <1>5, <1>9, <1>10, <1>11, <1>12, <1>14, <1>15, <1>16, <1>17 DEF HasPut

(* A transfer, after k blocks.                                             *)
Devices(D) ==
  {d \in [disk : [D -> Nat], pending : Nat \cup {NoBlock}, held : Seq(Nat), cached : Nat \cup {NoBlock},
          dirty : BOOLEAN, cache : Seq(Nat), block_size : Nat \ {0}, faults : 0 .. MaxFaults] : DeviceOK(d, D)}
Outcomes(D) == [dev : Devices(D), ok : BOOLEAN, data : Seq(Nat)]

(* How far a transfer has come, and what is to be seen then.               *)
Put(o, loc, cells, a) == cells # << >> /\ a \in loc .. loc + Len(o.data) - 1
Content(o, d, D, loc, cells) ==
  /\ o.ok => Coherent(o.dev)
  /\ cells = << >> => \A j \in 1 .. Len(o.data) : loc + j - 1 \in D /\ o.data[j] = View(d)[loc + j - 1]
  /\ cells # << >> => \A a \in loc .. loc + Len(o.data) - 1 : a \in D
  /\ \A a \in D : Put(o, loc, cells, a) => View(o.dev)[a] = cells[a - loc + 1]
  /\ \A a \in D : ~Put(o, loc, cells, a) =>
       View(o.dev)[a] = View(d)[a] /\ (Stream(o.dev)[a] = Stream(d)[a] \/ Stream(o.dev)[a] = View(d)[a])
Reached(o, k, d, D, loc, count, cells) ==
  /\ o \in Outcomes(D) /\ o.dev.block_size = d.block_size
  /\ d.cached # NoBlock => o.dev.cached # NoBlock
  /\ Len(o.data) <= count
  /\ o.ok => Len(o.data) >= k
  /\ Coherent(d) => Content(o, d, D, loc, cells)

(* The devices of the set are those that are as they should be.            *)
LEMMA DeviceIs ==
  ASSUME NEW D, NEW d
  PROVE  d \in Devices(D) <=> DeviceOK(d, D)
BY DEF Devices, DeviceOK

(* Before a part is copied, its block is in the cache or the transfer has  *)
(* failed.                                                                 *)
LEMMA BlockCached ==
  ASSUME NEW D, Addresses(D), NEW d, NEW loc \in Int, NEW count \in Nat, NEW cells \in Seq(Nat), NEW k \in Nat,
         d.cached # NoBlock \/ loc \in Nat,
         NEW o, Reached(o, k, d, D, loc, count, cells), o.ok, Len(o.data) < count,
         NEW c \in device_cache_block(o.dev, (loc + Len(o.data)) \div o.dev.block_size)
  PROVE  /\ Reached([dev |-> c.dev, ok |-> c.ok, data |-> o.data], k, d, D, loc, count, cells)
         /\ c.ok => Facing(c.dev, Len(o.data), loc)
<1>1. DeviceOK(o.dev, D) /\ o.data \in Seq(Nat) /\ o.ok \in BOOLEAN
  BY DeviceIs DEF Reached, Outcomes
<1>2. PICK n \in Nat, size \in Nat \ {0}, at \in Int :
        /\ n = Len(o.data) /\ size = o.dev.block_size /\ at = loc + n
        /\ loc \in Nat => at \in Nat
  <2>1. PICK n \in Nat, size \in Nat \ {0} : n = Len(o.data) /\ size = o.dev.block_size
    BY <1>1 DEF DeviceOK
  <2>2. PICK at \in Int : at = loc + n /\ (loc \in Nat => at \in Nat)
    OBVIOUS
  <2> QED
    BY <2>1, <2>2
<1>3. PICK block \in Int : /\ block = (loc + Len(o.data)) \div o.dev.block_size
                           /\ loc \in Nat => block \in Nat
  BY <1>2, DivMod
<1>4. o.dev.cached # NoBlock \/ block \in Nat
  BY <1>3 DEF Reached
<1>5. /\ c.ok \in BOOLEAN /\ Moved(o.dev, c.dev, D)
      /\ c.ok => c.dev.cached = block /\ block # NoBlock
      /\ c.ok /\ Coherent(o.dev) => Coherent(c.dev)
  BY <1>1, <1>3, <1>4, CacheBlockMoves
<1>6. PICK p : p = [dev |-> c.dev, ok |-> c.ok, data |-> o.data]
  OBVIOUS
<1>7. p.dev = c.dev /\ p.ok = c.ok /\ p.data = o.data
  BY <1>6
<1>8. DeviceOK(c.dev, D) /\ c.dev.block_size = o.dev.block_size
  BY <1>5 DEF Moved
<1>9. p \in Outcomes(D)
  BY <1>1, <1>5, <1>6, <1>8, DeviceIs DEF Outcomes
<1>10. Coherent(d) => Content(p, d, D, loc, cells)
  <2> SUFFICES ASSUME Coherent(d) PROVE Content(p, d, D, loc, cells)
    OBVIOUS
  <2>1. Content(o, d, D, loc, cells)
    BY DEF Reached
  <2>2. p.ok => Coherent(p.dev)
    BY <1>5, <1>7, <2>1 DEF Content
  <2>3. \A a : Put(p, loc, cells, a) = Put(o, loc, cells, a)
    BY <1>7 DEF Put
  <2>4. \A a \in D : Put(p, loc, cells, a) => View(p.dev)[a] = cells[a - loc + 1]
    BY <1>5, <1>7, <2>1, <2>3 DEF Content, Moved
  <2>5. \A a \in D : ~Put(p, loc, cells, a) =>
          View(p.dev)[a] = View(d)[a] /\ (Stream(p.dev)[a] = Stream(d)[a] \/ Stream(p.dev)[a] = View(d)[a])
    BY <1>5, <1>7, <2>1, <2>3 DEF Content, Moved
  <2> QED
    BY <1>7, <2>1, <2>2, <2>4, <2>5 DEF Content
<1>11. Reached(p, k, d, D, loc, count, cells)
  BY <1>5, <1>7, <1>8, <1>9, <1>10 DEF Reached, Moved
<1>12. c.ok => Facing(c.dev, Len(o.data), loc)
  BY <1>3, <1>5, <1>8 DEF Facing
<1> QED
  BY <1>6, <1>11, <1>12

(* A part that is copied takes the transfer one part further.              *)
LEMMA CopiedReaches ==
  ASSUME NEW D, NEW d, NEW loc \in Int, NEW count \in Nat, NEW cells \in Seq(Nat), NEW k \in Nat,
         cells = << >> \/ Len(cells) = count,
         NEW p, Reached(p, k, d, D, loc, count, cells), p.ok, Len(p.data) < count,
         Facing(p.dev, Len(p.data), loc),
         NEW q, q = Copied(p.dev, p.data, loc, count, cells)
  PROVE  Reached(q, k + 1, d, D, loc, count, cells)
<1>1. DeviceOK(p.dev, D) /\ p.data \in Seq(Nat)
  BY DeviceIs DEF Reached, Outcomes
<1>2. PICK n \in Nat : n = Len(p.data) /\ n >= k /\ n < count
  BY <1>1 DEF Reached
<1>3. CASE cells = << >>
  <2>1. /\ q.ok = TRUE /\ q.dev = p.dev /\ q.data \in Seq(Nat) /\ q = [dev |-> p.dev, ok |-> TRUE, data |-> q.data]
        /\ Len(q.data) \in Len(p.data) + 1 .. count
        /\ \A j \in 1 .. Len(p.data) : q.data[j] = p.data[j]
        /\ Coherent(p.dev) =>
             \A j \in Len(p.data) + 1 .. Len(q.data) : loc + j - 1 \in D /\ q.data[j] = View(p.dev)[loc + j - 1]
    <3>1. q = Copied(p.dev, p.data, loc, count, << >>)
      BY <1>3
    <3>2. HasRead(q, p.dev, D, p.data, loc, count)
      BY <1>1, <3>1, CopiedRead, Zenon
    <3> QED
      BY <3>2 DEF HasRead
  <2>2. q \in Outcomes(D)
    BY <1>1, <2>1, DeviceIs DEF Outcomes
  <2>3. PICK m \in Nat : m = Len(q.data) /\ m >= n + 1 /\ m <= count
    <3>0. q.data \in Seq(Nat)
      BY <2>1, Zenon
    <3>1. PICK m \in Nat : m = Len(q.data)
      BY <3>0, LenNat, Zenon
    <3>2. m \in n + 1 .. count
      BY <1>2, <2>1, <3>1
    <3> QED
      BY <3>1, <3>2
  <2>4. ASSUME Coherent(d) PROVE Content(q, d, D, loc, cells)
    <3>1. Content(p, d, D, loc, cells)
      BY <2>4 DEF Reached
    <3>2. Coherent(p.dev)
      BY <3>1 DEF Content
    <3>3. \A a \in D : View(p.dev)[a] = View(d)[a] /\ (Stream(p.dev)[a] = Stream(d)[a] \/ Stream(p.dev)[a] = View(d)[a])
      BY <1>3, <3>1 DEF Content, Put
    <3>4. ASSUME NEW j \in 1 .. m PROVE loc + j - 1 \in D /\ q.data[j] = View(d)[loc + j - 1]
      <4>1. CASE j <= n
        <5>1. j \in 1 .. n
          BY <4>1
        <5> QED
          BY <1>2, <1>3, <2>1, <3>1, <5>1 DEF Content
      <4>2. CASE j > n
        <5>1. j \in n + 1 .. m
          BY <4>2
        <5>2. loc + j - 1 \in D /\ q.data[j] = View(p.dev)[loc + j - 1]
          BY <1>2, <2>1, <2>3, <3>2, <5>1
        <5> QED
          BY <3>3, <5>2
      <4> QED
        BY <4>1, <4>2
    <3> QED
      BY <1>3, <2>1, <2>3, <3>2, <3>3, <3>4 DEF Content, Put
  <2>5. q.dev.block_size = d.block_size /\ (d.cached # NoBlock => q.dev.cached # NoBlock)
    BY <2>1 DEF Reached
  <2>6. m >= k + 1
    BY <1>2, <2>3
  <2> QED
    BY <2>2, <2>3, <2>4, <2>5, <2>6 DEF Reached
<1>4. CASE cells # << >>
  <2>0. Len(cells) = count
    BY <1>4
  <2>1. /\ q.ok = TRUE /\ q.data \in Seq(Nat) /\ q = [dev |-> q.dev, ok |-> TRUE, data |-> q.data]
        /\ Len(q.data) \in Len(p.data) + 1 .. Len(cells)
        /\ DeviceOK(q.dev, D) /\ Coherent(q.dev) /\ q.dev.block_size = p.dev.block_size /\ q.dev.cached = p.dev.cached
        /\ Stream(q.dev) = Stream(p.dev)
        /\ Coherent(p.dev) => \A a \in D : View(q.dev)[a] = IF a \in loc + Len(p.data) .. loc + Len(q.data) - 1
                                                              THEN cells[a - loc + 1] ELSE View(p.dev)[a]
        /\ \A a \in loc + Len(p.data) .. loc + Len(q.data) - 1 : a \in D
    <3>1. q = Copied(p.dev, p.data, loc, Len(cells), cells) /\ Len(p.data) < Len(cells)
      BY <2>0
    <3>2. HasPut(q, p.dev, D, p.data, loc, cells)
      BY <1>1, <1>4, <3>1, CopiedWrite, Zenon
    <3> QED
      BY <3>2 DEF HasPut
  <2>2. q \in Outcomes(D)
    BY <2>1, DeviceIs DEF Outcomes
  <2>3. PICK m \in Nat : m = Len(q.data) /\ m >= n + 1 /\ m <= count
    <3>0. q.data \in Seq(Nat)
      BY <2>1, Zenon
    <3>1. PICK m \in Nat : m = Len(q.data)
      BY <3>0, LenNat, Zenon
    <3>2. m \in n + 1 .. count
      BY <1>2, <2>0, <2>1, <3>1
    <3> QED
      BY <3>1, <3>2
  <2>4. ASSUME Coherent(d) PROVE Content(q, d, D, loc, cells)
    <3>1. Content(p, d, D, loc, cells)
      BY <2>4 DEF Reached
    <3>2. Coherent(p.dev)
      BY <3>1 DEF Content
    <3>3. \A a \in D : View(q.dev)[a] = IF a \in loc + n .. loc + m - 1 THEN cells[a - loc + 1] ELSE View(p.dev)[a]
      BY <1>2, <2>1, <2>3, <3>2
    <3>4. ASSUME NEW a \in loc .. loc + m - 1 PROVE a \in D
      <4>1. CASE a \in loc .. loc + n - 1
        BY <1>2, <1>4, <3>1, <4>1 DEF Content
      <4>2. CASE a \notin loc .. loc + n - 1
        <5>1. a \in loc + n .. loc + m - 1
          BY <4>2
        <5> QED
          BY <1>2, <2>1, <2>3, <5>1
      <4> QED
        BY <4>1, <4>2
    <3>5. ASSUME NEW a \in D, Put(q, loc, cells, a) PROVE View(q.dev)[a] = cells[a - loc + 1]
      <4>1. a \in loc .. loc + m - 1
        BY <2>3, <3>5 DEF Put
      <4>2. CASE a \in loc + n .. loc + m - 1
        BY <3>3, <4>2
      <4>3. CASE a \notin loc + n .. loc + m - 1
        <5>1. a \in loc .. loc + n - 1
          BY <4>1, <4>3
        <5>2. Put(p, loc, cells, a)
          BY <1>2, <1>4, <5>1 DEF Put
        <5> QED
          BY <3>1, <3>3, <4>3, <5>2 DEF Content
      <4> QED
        BY <4>2, <4>3
    <3>6. ASSUME NEW a \in D, ~Put(q, loc, cells, a)
          PROVE  View(q.dev)[a] = View(d)[a] /\ (Stream(q.dev)[a] = Stream(d)[a] \/ Stream(q.dev)[a] = View(d)[a])
      <4>1. a \notin loc .. loc + m - 1
        BY <1>4, <2>3, <3>6 DEF Put
      <4>2. a \notin loc .. loc + n - 1 /\ a \notin loc + n .. loc + m - 1
        BY <2>3, <4>1
      <4>3. ~Put(p, loc, cells, a)
        BY <1>2, <4>2 DEF Put
      <4> QED
        BY <2>1, <3>1, <3>3, <4>2, <4>3 DEF Content
    <3> QED
      BY <1>4, <2>1, <2>3, <3>4, <3>5, <3>6 DEF Content
  <2>5. q.dev.block_size = d.block_size /\ (d.cached # NoBlock => q.dev.cached # NoBlock)
    BY <2>1 DEF Reached
  <2>6. m >= k + 1
    BY <1>2, <2>3
  <2> QED
    BY <2>2, <2>3, <2>4, <2>5, <2>6 DEF Reached
<1> QED
  BY <1>3, <1>4

(* One step of the loop of device_read and device_write.                   *)
LEMMA NextBlockReaches ==
  ASSUME NEW D, Addresses(D), NEW d, NEW loc \in Int, NEW count \in Nat, NEW cells \in Seq(Nat), NEW k \in Nat,
         k < count, cells = << >> \/ Len(cells) = count, d.cached # NoBlock \/ loc \in Nat,
         NEW o, Reached(o, k, d, D, loc, count, cells),
         NEW q \in NextBlock(o, loc, count, cells)
  PROVE  Reached(q, k + 1, d, D, loc, count, cells)
<1>0. o.ok \in BOOLEAN /\ o.data \in Seq(Nat) /\ Len(o.data) \in Nat /\ Len(o.data) <= count
  BY DEF Reached, Outcomes
<1>1. CASE ~o.ok \/ Len(o.data) = count
  <2>1. q = o
    BY <1>1 DEF NextBlock
  <2>2. o.ok => Len(o.data) >= k + 1
    BY <1>0, <1>1
  <2> QED
    BY <2>1, <2>2 DEF Reached
<1>2. CASE o.ok /\ Len(o.data) # count
  <2>0. Len(o.data) < count
    BY <1>0, <1>2
  <2>1. PICK c \in device_cache_block(o.dev, (loc + Len(o.data)) \div o.dev.block_size) :
          q = IF c.ok THEN Copied(c.dev, o.data, loc, count, cells) ELSE [dev |-> c.dev, ok |-> FALSE, data |-> o.data]
    BY <1>2 DEF NextBlock
  <2>2. PICK p : p = [dev |-> c.dev, ok |-> c.ok, data |-> o.data]
    OBVIOUS
  <2>3. /\ Reached(p, k, d, D, loc, count, cells)
        /\ c.ok => Facing(c.dev, Len(o.data), loc)
    BY <1>2, <2>0, <2>2, BlockCached
  <2>4. p.dev = c.dev /\ p.ok = c.ok /\ p.data = o.data /\ c.ok \in BOOLEAN
    <3>1. p.dev = c.dev /\ p.ok = c.ok /\ p.data = o.data
      BY <2>2
    <3> QED
      BY <2>3, <3>1 DEF Reached, Outcomes
  <2>5. CASE c.ok
    <3>1. q = Copied(p.dev, p.data, loc, count, cells)
      BY <2>1, <2>4, <2>5
    <3>2. p.ok /\ Len(p.data) < count
      BY <2>0, <2>4, <2>5
    <3>3. Facing(p.dev, Len(p.data), loc)
      BY <2>3, <2>4, <2>5
    <3> QED
      BY <2>3, <3>1, <3>2, <3>3, CopiedReaches
  <2>6. CASE ~c.ok
    <3>1. q = p
      BY <2>1, <2>2, <2>4, <2>6
    <3>2. ~p.ok
      BY <2>4, <2>6
    <3> QED
      BY <2>3, <3>1, <3>2 DEF Reached
  <2> QED
    BY <2>4, <2>5, <2>6
<1> QED
  BY <1>0, <1>1, <1>2

(* The recursion of a transfer.                                            *)
Transferred(g, d, loc, count, cells) ==
  g = [k \in 0 .. count |->
         IF k = 0 THEN {[dev |-> d, ok |-> TRUE, data |-> << >>]}
         ELSE UNION {NextBlock(o, loc, count, cells) : o \in g[k - 1]}]

(* Before its first step a transfer has done nothing.                      *)
LEMMA StartReached ==
  ASSUME NEW D, NEW d, DeviceOK(d, D), NEW loc \in Int, NEW count \in Nat, NEW cells,
         NEW o, o = [dev |-> d, ok |-> TRUE, data |-> << >>]
  PROVE  Reached(o, 0, d, D, loc, count, cells)
<1>1. o.dev = d /\ o.ok = TRUE /\ o.data = << >>
  OBVIOUS
<1>2. << >> \in Seq(Nat) /\ Len(<< >>) = 0 /\ 0 <= count /\ 0 >= 0
  OBVIOUS
<1>3. o \in Outcomes(D)
  BY <1>2, DeviceIs DEF Outcomes
<1>4. Coherent(d) => Content(o, d, D, loc, cells)
  <2> SUFFICES ASSUME Coherent(d) PROVE Content(o, d, D, loc, cells)
    OBVIOUS
  <2>1. \A a : a \notin 1 .. Len(o.data)
    BY <1>1, <1>2
  <2>2. \A a : a \notin loc .. loc + Len(o.data) - 1
    BY <1>1, <1>2
  <2> QED
    BY <1>1, <2>1, <2>2 DEF Content, Put
<1> QED
  BY <1>1, <1>2, <1>3, <1>4 DEF Reached

(* A whole transfer: all steps of the loop.                                *)
LEMMA TransferReaches ==
  ASSUME NEW D, Addresses(D), NEW d, DeviceOK(d, D), NEW loc \in Int, NEW count \in Nat, NEW cells \in Seq(Nat),
         cells = << >> \/ Len(cells) = count, d.cached # NoBlock \/ loc \in Nat,
         NEW o \in Transfer(d, loc, count, cells)
  PROVE  Reached(o, count, d, D, loc, count, cells)
<1> DEFINE Set(k) == {q \in Outcomes(D) : Reached(q, k, d, D, loc, count, cells)}
<1> DEFINE Step(s) == UNION {NextBlock(q, loc, count, cells) : q \in s}
<1> DEFINE start == {[dev |-> d, ok |-> TRUE, data |-> << >>]}
<1>1. start \subseteq Set(0)
  BY StartReached DEF Reached
<1>2. ASSUME NEW k \in Nat, k < count, NEW s \in SUBSET Set(k) PROVE Step(s) \subseteq Set(k + 1)
  <2>1. ASSUME NEW q \in s, NEW p \in NextBlock(q, loc, count, cells) PROVE p \in Set(k + 1)
    <3>1. Reached(q, k, d, D, loc, count, cells)
      BY <1>2
    <3>2. Reached(p, k + 1, d, D, loc, count, cells)
      BY <1>2, <2>1, <3>1, NextBlockReaches
    <3> QED
      BY <3>2 DEF Reached
  <2> QED
    BY <2>1
<1>3. ASSUME NEW s \in SUBSET Set(0) PROVE Step(s) \subseteq Set(0)
  <2>1. CASE count = 0
    <3>1. ASSUME NEW q \in s PROVE NextBlock(q, loc, count, cells) = {q}
      <4>1. q.data \in Seq(Nat) /\ Len(q.data) <= 0
        BY <2>1 DEF Reached, Outcomes
      <4>2. Len(q.data) = count
        BY <2>1, <4>1, LenNat
      <4> QED
        BY <4>2 DEF NextBlock
    <3> QED
      BY <3>1
  <2>2. CASE count # 0
    <3>1. Step(s) \subseteq Set(0 + 1)
      <4>1. 0 \in Nat /\ 0 < count
        BY <2>2
      <4> HIDE DEF Step, Set
      <4> QED
        BY <1>2, <4>1
    <3>2. ASSUME NEW q, Reached(q, 0 + 1, d, D, loc, count, cells) PROVE Reached(q, 0, d, D, loc, count, cells)
      <4>1. q.data \in Seq(Nat)
        BY <3>2 DEF Reached, Outcomes
      <4>2. Len(q.data) >= 0 + 1 => Len(q.data) >= 0
        BY <4>1, LenNat
      <4> QED
        BY <3>2, <4>2 DEF Reached
    <3> HIDE DEF Step
    <3> QED
      BY <3>1, <3>2
  <2> QED
    BY <2>1, <2>2
<1>4. \E g : Transferred(g, d, loc, count, cells)
  <2> DEFINE S == SUBSET Set(0)
  <2> DEFINE F == [i \in Nat |-> [s \in S |-> Step(s)]]
  <2>1. \A i \in Nat, s \in S : F[i][s] = Step(s)
    <3> HIDE DEF Step, S
    <3> QED
      OBVIOUS
  <2>2. \A i \in Nat, s \in S : F[i][s] \in S
    <3>1. ASSUME NEW i \in Nat, NEW s \in S PROVE F[i][s] \in S
      <4>1. F[i][s] = Step(s)
        BY <2>1
      <4> HIDE DEF F, Step, Set
      <4> QED
        BY <1>3, <4>1
    <3> QED
      BY <3>1
  <2>3. start \in S
    BY <1>1
  <2>4. PICK f \in [0 .. count -> S] : f[0] = start /\ \A i \in 1 .. count : f[i] = F[i][f[i - 1]]
    <3> HIDE DEF F, S, start
    <3>1. Closed(F, S)
      BY <2>2 DEF Closed
    <3>2. PICK f \in [0 .. count -> S] : Recursion(f, F, start, count)
      BY <2>3, <3>1, RecursionExists
    <3> QED
      BY <3>2 DEF Recursion
  <2>5. ASSUME NEW k \in 0 .. count PROVE f[k] = IF k = 0 THEN start ELSE Step(f[k - 1])
    <3>1. CASE k = 0
      <4> HIDE DEF F, S, start, Step
      <4> QED
        BY <2>4, <3>1
    <3>2. CASE k # 0
      <4>1. k \in 1 .. count /\ k - 1 \in 0 .. count /\ k \in Nat
        BY <3>2
      <4> HIDE DEF F, S, start, Step
      <4>2. f[k - 1] \in S
        BY <2>4, <4>1
      <4>3. f[k] = F[k][f[k - 1]]
        BY <2>4, <4>1
      <4>4. F[k][f[k - 1]] = Step(f[k - 1])
        BY <2>1, <4>1, <4>2
      <4> QED
        BY <3>2, <4>3, <4>4
    <3> QED
      BY <3>1, <3>2
  <2>6. f = [k \in 0 .. count |-> IF k = 0 THEN start ELSE Step(f[k - 1])]
    <3> HIDE DEF F, S, start, Step
    <3> QED
      BY <2>4, <2>5
  <2>7. Transferred(f, d, loc, count, cells)
    BY <2>6 DEF Transferred
  <2> QED
    BY <2>7
<1>5. PICK g : Transferred(g, d, loc, count, cells) /\ Transfer(d, loc, count, cells) = g[count]
  <2> DEFINE h == CHOOSE h : Transferred(h, d, loc, count, cells)
  <2>1. Transferred(h, d, loc, count, cells)
    BY <1>4, Zenon
  <2>2. Transfer(d, loc, count, cells) = h[count]
    BY DEF Transfer, Transferred
  <2> HIDE DEF h
  <2> QED
    BY <2>1, <2>2
<1> DEFINE T == [i \in Nat |-> SUBSET Set(i)]
<1>6. g[0] \in T[0]
  <2>1. g[0] = start
    BY <1>5 DEF Transferred
  <2>2. T[0] = SUBSET Set(0)
    OBVIOUS
  <2> HIDE DEF T, Set, start
  <2> QED
    BY <1>1, <2>1, <2>2
<1>7. ASSUME NEW i \in Nat, i < count, g[i] \in T[i] PROVE g[i + 1] \in T[i + 1]
  <2>1. i + 1 \in 0 .. count /\ i + 1 # 0 /\ (i + 1) - 1 = i /\ i + 1 \in Nat
    BY <1>7
  <2>2. g[i + 1] = Step(g[i])
    <3>1. g[i + 1] = Step(g[(i + 1) - 1])
      BY <1>5, <2>1 DEF Transferred
    <3> QED
      BY <2>1, <3>1
  <2>3. T[i] = SUBSET Set(i) /\ T[i + 1] = SUBSET Set(i + 1)
    BY <2>1
  <2> HIDE DEF T, Set, Step
  <2> QED
    BY <1>2, <1>7, <2>2, <2>3
<1>8. \A i \in 0 .. count : g[i] \in T[i]
  <2> HIDE DEF T
  <2> QED
    BY <1>6, <1>7, RecursionKeeps
<1>9. g[count] \in T[count] /\ T[count] = SUBSET Set(count)
  <2>1. T[count] = SUBSET Set(count)
    OBVIOUS
  <2>2. count \in 0 .. count
    OBVIOUS
  <2> HIDE DEF T
  <2> QED
    BY <1>8, <2>1, <2>2
<1> HIDE DEF T
<1> QED
  BY <1>5, <1>9

(* A device that has just been opened, whatever size is tried on it.       *)
Idle(d, D) ==
  /\ d \in [disk : [D -> Nat], pending : Nat \cup {NoBlock}, held : Seq(Nat), cached : Nat \cup {NoBlock},
            dirty : BOOLEAN, cache : Seq(Nat), block_size : Nat, faults : 0 .. MaxFaults]
  /\ d.pending = NoBlock /\ d.cached = NoBlock /\ d.dirty = FALSE
Tried(o, D, disk) ==
  /\ o = [dev |-> o.dev, ok |-> o.ok] /\ o.ok \in BOOLEAN /\ o.dev.disk = disk
  /\ o.ok => /\ DeviceOK(o.dev, D) /\ Coherent(o.dev) /\ o.dev.cached # NoBlock
             /\ o.dev.pending = NoBlock /\ o.dev.dirty = FALSE
  /\ ~o.ok => Idle(o.dev, D)

(* The recursion of device_init.                                           *)
AllTried(g, disk, faults) ==
  g = [k \in 0 .. Len(BlockSizes) |->
         IF k = 0 THEN Failed(Opened(disk, faults))
         ELSE UNION {IF o.ok THEN {o} ELSE ReadBlock([o.dev EXCEPT !.block_size = BlockSizes[k]], 0) : o \in g[k - 1]}]

(* A device just opened has nothing on its way.                            *)
LEMMA OpenedIdle ==
  ASSUME NEW D, NEW disk \in [D -> Nat], NEW faults \in 0 .. MaxFaults
  PROVE  Idle(Opened(disk, faults), D) /\ Opened(disk, faults).disk = disk /\ Opened(disk, faults).faults = faults
<1>1. PICK none \in Seq(Nat) : none = << >>
  <2>1. << >> \in Seq(Nat)
    OBVIOUS
  <2> QED
    BY <2>1
<1>2. PICK d : d = Opened(disk, faults)
  OBVIOUS
<1>3. d = [disk |-> disk, pending |-> NoBlock, held |-> none, cached |-> NoBlock, dirty |-> FALSE,
           cache |-> none, block_size |-> 0, faults |-> faults]
  BY <1>1, <1>2 DEF Opened
<1>4. Idle(d, D) /\ d.disk = disk /\ d.faults = faults
  BY <1>3 DEF Idle
<1> QED
  BY <1>2, <1>4

(* device_init tries one size after the other, until a block can be read.  *)
LEMMA TryBlock ==
  ASSUME NEW D, Addresses(D), NEW disk \in [D -> Nat], NEW size \in Nat \ {0},
         NEW o, Tried(o, D, disk),
         NEW q \in IF o.ok THEN {o} ELSE ReadBlock([o.dev EXCEPT !.block_size = size], 0)
  PROVE  Tried(q, D, disk)
<1>1. CASE o.ok
  BY <1>1
<1>2. CASE ~o.ok
  <2>1. PICK d : d = [o.dev EXCEPT !.block_size = size] /\ q \in ReadBlock(d, 0)
    BY <1>2
  <2>2. Idle(o.dev, D) /\ o.dev.disk = disk
    BY <1>2 DEF Tried
  <2>3. /\ d \in [disk : [D -> Nat], pending : Nat \cup {NoBlock}, held : Seq(Nat), cached : Nat \cup {NoBlock},
                   dirty : BOOLEAN, cache : Seq(Nat), block_size : Nat \ {0}, faults : 0 .. MaxFaults]
        /\ d.pending = NoBlock /\ d.cached = NoBlock /\ d.dirty = FALSE /\ d.disk = disk
    BY <2>1, <2>2 DEF Idle
  <2>4. DeviceOK(d, D)
    BY <2>3 DEF DeviceOK
  <2>0. PICK block \in Int : block = 0
    OBVIOUS
  <2>10. q \in ReadBlock(d, block) /\ Clean(d)
    BY <2>0, <2>1, <2>3 DEF Clean
  <2>12. BlockRead(q, d, D, block)
    BY <2>0, <2>4, <2>10, ReadBlockMoves
  <2>5. /\ q.ok \in BOOLEAN /\ Moved(d, q.dev, D)
        /\ q.ok => q.dev.cached = block /\ block \in Nat /\ Coherent(q.dev)
        /\ q.dev.disk = d.disk /\ q.dev.pending = NoBlock /\ q.dev.dirty = FALSE
        /\ ~q.ok => q.dev.cached = d.cached
    BY <2>12 DEF BlockRead, Clean
  <2>6. q = [dev |-> q.dev, ok |-> q.ok]
    BY <2>1 DEF ReadBlock, Done, Failed, Fault
  <2>7. DeviceOK(q.dev, D)
    BY <2>5 DEF Moved
  <2>8. block # NoBlock
    BY <2>0 DEF NoBlock
  <2>9. ~q.ok => Idle(q.dev, D)
    BY <2>3, <2>5, <2>7 DEF DeviceOK, Idle
  <2> QED
    BY <2>3, <2>5, <2>6, <2>7, <2>8, <2>9 DEF Tried
<1> QED
  BY <1>1, <1>2

(* device_init leaves the device alone.                                    *)
LEMMA DeviceInit ==
  ASSUME NEW D, Addresses(D), NEW disk \in [D -> Nat], NEW faults \in 0 .. MaxFaults,
         NEW o \in device_init(disk, faults)
  PROVE  Tried(o, D, disk)
<1>0. BlockSizes \in Seq(Nat \ {0}) /\ Len(BlockSizes) \in Nat
  BY BlockCacheAssumption
<1> DEFINE All == [disk : [D -> Nat], pending : Nat \cup {NoBlock}, held : Seq(Nat), cached : Nat \cup {NoBlock},
                   dirty : BOOLEAN, cache : Seq(Nat), block_size : Nat, faults : 0 .. MaxFaults]
<1> DEFINE Set == {q \in [dev : All, ok : BOOLEAN] : Tried(q, D, disk)}
<1> DEFINE Step(i, s) == UNION {IF q.ok THEN {q} ELSE ReadBlock([q.dev EXCEPT !.block_size = BlockSizes[i]], 0) : q \in s}
<1> DEFINE start == Failed(Opened(disk, faults))
<1> DEFINE S == SUBSET Set
<1> DEFINE F == [i \in Nat |-> [s \in S |-> IF i \in 1 .. Len(BlockSizes) THEN Step(i, s) ELSE s]]
<1>1. ASSUME NEW q, Tried(q, D, disk) PROVE q \in Set
  <2>1. q = [dev |-> q.dev, ok |-> q.ok] /\ q.ok \in BOOLEAN
    BY <1>1 DEF Tried
  <2>2. q.dev \in All
    <3>1. q.ok => q.dev \in All
      BY <1>1 DEF Tried, DeviceOK
    <3>2. ~q.ok => q.dev \in All
      BY <1>1 DEF Tried, Idle
    <3> QED
      BY <3>1, <3>2
  <2> HIDE DEF All
  <2> QED
    BY <1>1, <2>1, <2>2
<1>2. start \in S
  <2>1. PICK d : d = Opened(disk, faults)
    OBVIOUS
  <2>2. Idle(d, D) /\ d.disk = disk
    BY <2>1, OpenedIdle
  <2>3. ASSUME NEW q \in start PROVE Tried(q, D, disk)
    <3>1. q = [dev |-> d, ok |-> FALSE]
      BY <2>1 DEF Failed
    <3>2. q.dev = d /\ q.ok = FALSE
      BY <3>1
    <3> QED
      BY <2>2, <3>1, <3>2 DEF Tried
  <2> HIDE DEF Set, start
  <2> QED
    BY <1>1, <2>3
<1>3. ASSUME NEW i \in 1 .. Len(BlockSizes), NEW s \in S PROVE Step(i, s) \in S
  <2>0. BlockSizes[i] \in Nat \ {0}
    BY <1>0
  <2>1. ASSUME NEW q \in s, NEW p \in IF q.ok THEN {q} ELSE ReadBlock([q.dev EXCEPT !.block_size = BlockSizes[i]], 0)
        PROVE  p \in Set
    <3>1. Tried(q, D, disk)
      OBVIOUS
    <3>2. Tried(p, D, disk)
      BY <2>0, <2>1, <3>1, TryBlock
    <3> HIDE DEF Set
    <3> QED
      BY <1>1, <3>2
  <2> HIDE DEF Set
  <2> QED
    BY <2>1
<1>4. \A i \in 1 .. Len(BlockSizes), s \in S : F[i][s] = Step(i, s)
  <2> HIDE DEF Step, S
  <2> QED
    BY <1>0
<1>5. Closed(F, S)
  <2>1. ASSUME NEW i \in Nat, NEW s \in S PROVE F[i][s] \in S
    <3>1. CASE i \in 1 .. Len(BlockSizes)
      <4> HIDE DEF F, S, Step
      <4> QED
        BY <1>3, <1>4, <3>1
    <3>2. CASE i \notin 1 .. Len(BlockSizes)
      <4> HIDE DEF S, Step
      <4> QED
        BY <3>2
    <3> QED
      BY <3>1, <3>2
  <2> HIDE DEF F, S
  <2> QED
    BY <2>1 DEF Closed
<1>6. PICK f \in [0 .. Len(BlockSizes) -> S] : Recursion(f, F, start, Len(BlockSizes))
  <2> HIDE DEF F, S, start
  <2> QED
    BY <1>0, <1>2, <1>5, RecursionExists
<1>7. ASSUME NEW k \in 0 .. Len(BlockSizes) PROVE f[k] = IF k = 0 THEN start ELSE Step(k, f[k - 1])
  <2>1. CASE k = 0
    <3> HIDE DEF F, S, start, Step
    <3> QED
      BY <1>6, <2>1 DEF Recursion
  <2>2. CASE k # 0
    <3>1. k \in 1 .. Len(BlockSizes) /\ k - 1 \in 0 .. Len(BlockSizes)
      BY <1>0, <2>2
    <3> HIDE DEF F, S, start, Step
    <3>2. f[k - 1] \in S
      BY <1>6, <3>1
    <3>3. f[k] = F[k][f[k - 1]]
      BY <1>6, <3>1 DEF Recursion
    <3>4. F[k][f[k - 1]] = Step(k, f[k - 1])
      BY <1>4, <3>1, <3>2
    <3> QED
      BY <2>2, <3>3, <3>4
  <2> QED
    BY <2>1, <2>2
<1>8. \E g : AllTried(g, disk, faults)
  <2>1. f = [k \in 0 .. Len(BlockSizes) |-> IF k = 0 THEN start ELSE Step(k, f[k - 1])]
    <3> HIDE DEF F, S, start, Step
    <3> QED
      BY <1>6, <1>7
  <2>2. AllTried(f, disk, faults)
    BY <2>1 DEF AllTried
  <2> QED
    BY <2>2
<1>9. PICK g : AllTried(g, disk, faults) /\ device_init(disk, faults) = g[Len(BlockSizes)]
  <2> DEFINE h == CHOOSE h : AllTried(h, disk, faults)
  <2>1. AllTried(h, disk, faults)
    BY <1>8, Zenon
  <2>2. device_init(disk, faults) = h[Len(BlockSizes)]
    BY DEF device_init, AllTried
  <2> HIDE DEF h
  <2> QED
    BY <2>1, <2>2
<1> DEFINE T == [i \in Nat |-> S]
<1>10. g[0] \in T[0]
  <2>1. g[0] = start
    BY <1>0, <1>9 DEF AllTried
  <2>2. T[0] = S
    OBVIOUS
  <2> HIDE DEF T, S, start
  <2> QED
    BY <1>2, <2>1, <2>2
<1>11. ASSUME NEW i \in Nat, i < Len(BlockSizes), g[i] \in T[i] PROVE g[i + 1] \in T[i + 1]
  <2>1. i + 1 \in 1 .. Len(BlockSizes) /\ i + 1 \in 0 .. Len(BlockSizes) /\ i + 1 # 0 /\ (i + 1) - 1 = i /\ i + 1 \in Nat
    BY <1>0, <1>11
  <2>2. g[i + 1] = Step(i + 1, g[i])
    <3>1. g[i + 1] = Step(i + 1, g[(i + 1) - 1])
      BY <1>9, <2>1 DEF AllTried
    <3> QED
      BY <2>1, <3>1
  <2>3. T[i] = S /\ T[i + 1] = S
    BY <2>1
  <2> HIDE DEF T, S, Step
  <2> QED
    BY <1>3, <1>11, <2>1, <2>2, <2>3
<1>12. \A i \in 0 .. Len(BlockSizes) : g[i] \in T[i]
  <2> HIDE DEF T
  <2> QED
    BY <1>0, <1>10, <1>11, RecursionKeeps
<1>13. g[Len(BlockSizes)] \in S
  <2>1. Len(BlockSizes) \in 0 .. Len(BlockSizes)
    BY <1>0
  <2>2. T[Len(BlockSizes)] = S
    BY <1>0
  <2> HIDE DEF T, S
  <2> QED
    BY <1>12, <2>1, <2>2
<1> QED
  BY <1>9, <1>13
-----------------------------------------------------------------------------
(***************************************************************************)
(* The inductive invariant.  While an installation works, what the program *)
(* sees is what was there before, except where an entry of the undo data   *)
(* says what was; the first entry of a place counts, and the last one when *)
(* they have been reversed.                                                *)
(***************************************************************************)
(* The addresses of the device.                                            *)
D == DOMAIN original

(* The undo data: each entry is a place and what was in it.                *)
Entries == [loc : Nat, data : Seq(Nat)]
Uncovered(u, from, a) == \A k \in from .. Len(u) : ~Covers(u[k], a)

(* The first entry of a place, or the last, has what b holds there.        *)
FirstHolds(u, b, A) ==
  \A k \in 1 .. Len(u), a \in A :
    Covers(u[k], a) /\ (\A j \in 1 .. k - 1 : ~Covers(u[j], a)) => u[k].data[a - u[k].loc + 1] = b[a]
LastHolds(u, b, A) ==
  \A k \in 1 .. Len(u), a \in A :
    Covers(u[k], a) /\ Uncovered(u, k + 1, a) => u[k].data[a - u[k].loc + 1] = b[a]

(* The device while nothing has failed, and right after a failure.         *)
Working(d, u, b, A) ==
  /\ DeviceOK(d, A) /\ Coherent(d) /\ d.cached # NoBlock
  /\ FirstHolds(u, b, A)
  /\ \A a \in A : Uncovered(u, 1, a) => View(d)[a] = b[a] /\ Stream(d)[a] = b[a]
Halted(d, u, b, A, half) ==
  /\ DeviceOK(d, A)
  /\ FirstHolds(u, b, A)
  /\ ~half => \A a \in A : Uncovered(u, 1, a) => Stream(d)[a] = b[a]

(* The entries from i on are still to be written back, to make it t.       *)
Undoing(d, u, i, t, A) ==
  /\ LastHolds(u, t, A)
  /\ \A a \in A : Uncovered(u, i, a) => View(d)[a] = t[a]

(* Since the installation of the data file, b has only changed inside.     *)
Fits(b, file, A) == \A a \in A : b[a] = file.of[a] \/ ~Uncovered(file.entries, 1, a)
FileOK(file, A) ==
  Len(file.entries) = file.n =>
    /\ file.entries \in Seq(Entries) /\ Len(file.entries) <= UNINSTALL_DATA_MAX
    /\ file.of \in [A -> Nat] /\ LastHolds(file.entries, file.of, A)
-----------------------------------------------------------------------------
(* The registers of the program, and the steps that need more of them.     *)
Registers ==
  [uninstall : BOOLEAN, file : BOOLEAN, force : BOOLEAN, part : SUBSET Nat, lb : Nat, gpt : BOOLEAN, mbr : BOOLEAN,
   active : BOOLEAN, i : Nat, header : Seq(Nat), second : Seq(Nat), used : Int, count : Int,
   flag : Nat, a : Int, b : Int, stamp : Seq(Nat), table : Seq(Nat), failed : BOOLEAN]

OnMBR == {"probe", "flags", "mend", "start", "hints", "erase", "active"}
OnGPT == {"partition", "scan", "embed", "clear1", "clear2", "sum", "header1", "header2"}
Embedding == {"clear1", "clear2", "sum", "header1", "header2"}
Installing == {"save", "table", "install"}
Preparing ==
  {"secondary", "locate", "commit"} \cup OnMBR \cup OnGPT \cup Installing

(* What the program has found out, where it is used.                       *)
Known(p, s) ==
  /\ s \in Registers /\ s.used >= -1
  /\ s.gpt \/ p = "secondary" \/ p \in OnGPT => s.lb > 0 /\ Len(s.header) = HEADER_SIZE
  /\ (p = "locate" /\ s.gpt) \/ p \in OnGPT => Len(s.second) = HEADER_SIZE
  /\ p \in OnMBR => ~s.gpt
  /\ p \in {"probe", "hints"} => s.i >= 1
  /\ p = "erase" => s.i \in 1 .. Len(Hints)
  /\ p \in Embedding => s.count >= 0
  /\ p \in Embedding \cup Installing /\ SizeB = 0 => s.b \in Nat
  /\ p = "install" => s.i \in 1 .. 9 /\ (s.i > 2 => s.a \in Nat) /\ (s.i > 3 => s.b \in Nat)
  /\ p \in Preparing => ~s.uninstall /\ ~s.failed

(* The invariant, by the place of the program.                             *)
Typed ==
  /\ original \in [D -> Nat] /\ Addresses(D) /\ before \in [D -> Nat]
  /\ pc \in Pcs /\ exit \in {"none", "success", "failure", "killed"} /\ runs \in 0 .. MaxRuns
  /\ torn \in BOOLEAN /\ unwritten \in BOOLEAN
  /\ undo \in Seq(Entries) /\ Len(undo) <= UNINSTALL_DATA_MAX
  /\ FileOK(udfile, D)
  /\ Known(pc, r)

Resting ==
  pc = "shell" =>
    /\ Idle(dev, D)
    /\ FailedInstallUndone /\ UninstallRestores
Loading ==
  pc = "load" =>
    /\ DeviceOK(dev, D) /\ Coherent(dev) /\ Clean(dev) /\ dev.disk = before
    /\ r.uninstall /\ ~r.failed /\ r.i = 1
Prepared == pc \in Preparing => Working(dev, undo, before, D) /\ ~torn
Turning ==
  pc = "cleanup" =>
    /\ Halted(dev, undo, before, D, torn) /\ ~r.uninstall /\ ~r.failed
    /\ exit = "failure" \/ (exit = "success" /\ Coherent(dev))
Storing ==
  pc = "store" =>
    /\ DeviceOK(dev, D) /\ Coherent(dev) /\ LastHolds(undo, before, D) /\ exit = "success" /\ ~r.uninstall /\ ~r.failed
Reverting ==
  pc = "uninstall" =>
    /\ DeviceOK(dev, D) /\ r.i \in 1 .. Len(undo) + 1
    /\ r.uninstall => undo = udfile.entries /\ Len(undo) = udfile.n
    /\ ~r.uninstall => exit = "failure"
    /\ ~r.failed =>
         /\ Coherent(dev)
         /\ r.uninstall /\ Fits(before, udfile, D) => Undoing(dev, undo, r.i, udfile.of, D)
         /\ ~r.uninstall /\ ~torn => Undoing(dev, undo, r.i, before, D)
Closing ==
  pc = "close" =>
    /\ DeviceOK(dev, D) \/ Idle(dev, D)
    /\ exit \in {"success", "failure"}
    /\ exit = "failure" /\ ~r.uninstall /\ ~r.failed /\ ~torn => \A a \in D : Stream(dev)[a] = before[a]
    /\ exit = "success" /\ r.uninstall =>
         /\ udfile.entries \in Seq(Entries) /\ udfile.of \in [D -> Nat]
         /\ Fits(before, udfile, D) => \A a \in D : Stream(dev)[a] = udfile.of[a]

IInv == Typed /\ Resting /\ Loading /\ Prepared /\ Turning /\ Storing /\ Reverting /\ Closing
-----------------------------------------------------------------------------
(* What a read from a coherent device gives.                               *)
GoodRead(o, d, A, loc, count) ==
  /\ o.ok \in BOOLEAN /\ Moved(d, o.dev, A) /\ o.dev.cached # NoBlock
  /\ o.ok => /\ Coherent(o.dev) /\ o.data \in Seq(Nat) /\ Len(o.data) = count
             /\ \A j \in 1 .. count : loc + j - 1 \in A /\ o.data[j] = View(d)[loc + j - 1]

(* device_read gives what the program should see.                          *)
LEMMA DeviceRead ==
  ASSUME NEW A, Addresses(A), NEW d, DeviceOK(d, A), Coherent(d), d.cached # NoBlock, NEW loc \in Int, NEW count \in Nat,
         NEW o \in device_read(d, loc, count)
  PROVE  GoodRead(o, d, A, loc, count)
<1>1. PICK none \in Seq(Nat) : none = << >>
  <2>1. << >> \in Seq(Nat)
    OBVIOUS
  <2> QED
    BY <2>1
<1>2. Reached(o, count, d, A, loc, count, none)
  <2>1. o \in Transfer(d, loc, count, none) /\ (none = << >> \/ Len(none) = count) /\ (d.cached # NoBlock \/ loc \in Nat)
    BY <1>1 DEF device_read
  <2> QED
    BY <1>1, <2>1, TransferReaches
<1>3. o.dev \in Devices(A) /\ o.ok \in BOOLEAN /\ o.data \in Seq(Nat)
  BY <1>2 DEF Reached, Outcomes
<1>4. DeviceOK(o.dev, A)
  BY <1>3, DeviceIs
<1>5. Content(o, d, A, loc, none)
  BY <1>2 DEF Reached
<1>6. /\ \A a \in A : View(o.dev)[a] = View(d)[a] /\ (Stream(o.dev)[a] = Stream(d)[a] \/ Stream(o.dev)[a] = View(d)[a])
      /\ o.ok => Coherent(o.dev)
      /\ \A j \in 1 .. Len(o.data) : loc + j - 1 \in A /\ o.data[j] = View(d)[loc + j - 1]
  BY <1>1, <1>5 DEF Content, Put
<1>7. o.ok => Len(o.data) = count
  <2>1. PICK n \in Nat : n = Len(o.data)
    BY <1>3, LenNat
  <2>2. n <= count /\ (o.ok => n >= count)
    BY <1>2, <2>1 DEF Reached
  <2> QED
    BY <2>1, <2>2
<1>8. Moved(d, o.dev, A) /\ o.dev.cached # NoBlock
  BY <1>2, <1>4, <1>6 DEF Reached, Moved
<1> QED
  BY <1>3, <1>6, <1>7, <1>8 DEF GoodRead

(* And what a write does, whole or in part.                                *)
Reaches(o, loc, a) == a \in loc .. loc + Len(o.data) - 1

(* What a write leaves.                                                    *)
GoodPut(o, d, A, loc, cells) ==
  /\ o.ok \in BOOLEAN /\ DeviceOK(o.dev, A) /\ (d.cached # NoBlock => o.dev.cached # NoBlock)
  /\ o.data \in Seq(Nat) /\ Len(o.data) <= Len(cells) /\ (o.ok => Coherent(o.dev) /\ Len(o.data) = Len(cells))
  /\ \A a : Reaches(o, loc, a) => a \in A /\ View(o.dev)[a] = cells[a - loc + 1]
  /\ \A a \in A : ~Reaches(o, loc, a) =>
       View(o.dev)[a] = View(d)[a] /\ (Stream(o.dev)[a] = Stream(d)[a] \/ Stream(o.dev)[a] = View(d)[a])
PutTypes(o, d, A, loc, cells) ==
  o.ok \in BOOLEAN /\ DeviceOK(o.dev, A) /\ o.dev.block_size = d.block_size

(* device_write leaves the cells to be seen at their places, as far as it  *)
(* got.                                                                    *)
LEMMA DevicePut ==
  ASSUME NEW A, Addresses(A), NEW d, DeviceOK(d, A), NEW loc \in Int, NEW cells \in Seq(Nat),
         d.cached # NoBlock \/ loc \in Nat, NEW o \in device_put(d, loc, cells)
  PROVE  /\ PutTypes(o, d, A, loc, cells)
         /\ Coherent(d) => GoodPut(o, d, A, loc, cells)
<1>0. PICK count \in Nat : count = Len(cells)
  BY LenNat
<1>2. Reached(o, count, d, A, loc, count, cells)
  <2>1. o \in Transfer(d, loc, count, cells) /\ (cells = << >> \/ Len(cells) = count)
    BY <1>0 DEF device_put
  <2> QED
    BY <1>0, <2>1, TransferReaches
<1>3. o.dev \in Devices(A) /\ o.ok \in BOOLEAN /\ o.data \in Seq(Nat)
  BY <1>2 DEF Reached, Outcomes
<1>4. DeviceOK(o.dev, A)
  BY <1>3, DeviceIs
<1>5. PutTypes(o, d, A, loc, cells)
  BY <1>2, <1>3, <1>4 DEF PutTypes, Reached
<1>6. ASSUME Coherent(d) PROVE GoodPut(o, d, A, loc, cells)
  <2>1. Content(o, d, A, loc, cells)
    BY <1>2, <1>6 DEF Reached
  <2>2. PICK n \in Nat : n = Len(o.data)
    BY <1>3, LenNat
  <2>3. n <= count /\ (o.ok => n >= count)
    BY <1>2, <2>2 DEF Reached
  <2>4. cells = << >> => n = 0
    BY <1>0, <2>3
  <2>5. \A a : Put(o, loc, cells, a) <=> Reaches(o, loc, a)
    <3>1. CASE cells = << >>
      BY <2>2, <2>4, <3>1 DEF Put, Reaches
    <3>2. CASE cells # << >>
      BY <3>2 DEF Put, Reaches
    <3> QED
      BY <3>1, <3>2
  <2>6. \A a : Reaches(o, loc, a) => a \in A
    BY <2>1, <2>5 DEF Content, Put, Reaches
  <2>7. \A a : Reaches(o, loc, a) => a \in A /\ View(o.dev)[a] = cells[a - loc + 1]
    BY <2>1, <2>5, <2>6 DEF Content
  <2>8. \A a \in A : ~Reaches(o, loc, a) =>
          View(o.dev)[a] = View(d)[a] /\ (Stream(o.dev)[a] = Stream(d)[a] \/ Stream(o.dev)[a] = View(d)[a])
    BY <2>1, <2>5 DEF Content
  <2>9. o.ok => Coherent(o.dev) /\ Len(o.data) = Len(cells)
    BY <1>0, <2>1, <2>2, <2>3 DEF Content
  <2>10. Len(o.data) <= Len(cells)
    BY <1>0, <2>2, <2>3
  <2> QED
    BY <1>2, <1>3, <1>4, <2>7, <2>8, <2>9, <2>10 DEF GoodPut, Reached
<1> QED
  BY <1>5, <1>6

(* Reading goes on, or stops without a loss.                               *)
LEMMA WorkingHalts ==
  ASSUME NEW A, NEW d, NEW u, NEW b, Working(d, u, b, A), NEW half
  PROVE  Halted(d, u, b, A, half)
BY DEF Working, Halted

(* A read during an installation: the undo data stay right, and nothing is *)
(* lost when it fails.                                                     *)
LEMMA WorkingRead ==
  ASSUME NEW A, Addresses(A), NEW d, NEW u, NEW b, Working(d, u, b, A), NEW loc \in Int, NEW count \in Nat,
         NEW o \in device_read(d, loc, count)
  PROVE  /\ o.ok \in BOOLEAN
         /\ o.ok => Working(o.dev, u, b, A)
         /\ Halted(o.dev, u, b, A, FALSE)
         /\ o.ok => o.data \in Seq(Nat) /\ Len(o.data) = count
<1>1. GoodRead(o, d, A, loc, count)
  BY DeviceRead DEF Working
<1>2. DeviceOK(o.dev, A)
  BY <1>1 DEF GoodRead, Moved
<1>3. \A a \in A : Uncovered(u, 1, a) => View(o.dev)[a] = b[a] /\ Stream(o.dev)[a] = b[a]
  BY <1>1 DEF GoodRead, Moved, Working
<1>4. o.ok => Working(o.dev, u, b, A)
  BY <1>1, <1>2, <1>3 DEF Working, GoodRead
<1>5. Halted(o.dev, u, b, A, FALSE)
  BY <1>2, <1>3 DEF Working, Halted
<1> QED
  BY <1>1, <1>4, <1>5 DEF GoodRead

(* A place an entry covers is a place among its cells.                     *)
LEMMA CoveredPlace ==
  ASSUME NEW entry \in Entries, NEW a, Covers(entry, a)
  PROVE  a \in Int /\ a - entry.loc + 1 \in 1 .. Len(entry.data) /\ entry.loc + (a - entry.loc + 1) - 1 = a
<1>1. PICK n \in Nat, loc \in Nat : n = Len(entry.data) /\ loc = entry.loc
  <2>1. entry.data \in Seq(Nat) /\ entry.loc \in Nat
    BY DEF Entries
  <2> QED
    BY <2>1, LenNat
<1>2. a \in loc .. loc + n - 1
  BY <1>1 DEF Covers
<1>3. a \in Int /\ a - loc + 1 \in 1 .. n /\ loc + (a - loc + 1) - 1 = a
  BY <1>2
<1> QED
  BY <1>1, <1>3

(* An entry more, of what the device had.                                  *)
LEMMA Appended ==
  ASSUME NEW u \in Seq(Entries), NEW entry \in Entries, NEW v, v = Append(u, entry)
  PROVE  /\ v \in Seq(Entries) /\ Len(v) = Len(u) + 1 /\ v[Len(v)] = entry
         /\ \A k \in 1 .. Len(u) : v[k] = u[k]
         /\ \A a : Uncovered(v, 1, a) <=> Uncovered(u, 1, a) /\ ~Covers(entry, a)
<1>1. PICK n \in Nat : n = Len(u)
  OBVIOUS
<1>2. /\ v \in Seq(Entries) /\ Len(v) = n + 1 /\ v[n + 1] = entry
      /\ \A k \in 1 .. n : v[k] = u[k]
  BY <1>1
<1>3. \A k \in 1 .. n + 1 : k \in 1 .. n \/ k = n + 1
  OBVIOUS
<1>4. n + 1 \in 1 .. n + 1 /\ \A k \in 1 .. n : k \in 1 .. n + 1
  OBVIOUS
<1>5. ASSUME NEW a PROVE Uncovered(v, 1, a) <=> Uncovered(u, 1, a) /\ ~Covers(entry, a)
  <2> HIDE <1>1
  <2> QED
    BY <1>1, <1>2, <1>3, <1>4 DEF Uncovered
<1> QED
  BY <1>1, <1>2, <1>5

(* An entry saved before its write is right when it is the first of its    *)
(* place.                                                                  *)
LEMMA FirstHoldsAppended ==
  ASSUME NEW A, NEW u \in Seq(Entries), NEW b, FirstHolds(u, b, A), NEW entry \in Entries,
         \A a \in A : Uncovered(u, 1, a) /\ Covers(entry, a) => entry.data[a - entry.loc + 1] = b[a],
         NEW v, v = Append(u, entry)
  PROVE  FirstHolds(v, b, A)
<1>1. PICK n \in Nat : n = Len(u)
  OBVIOUS
<1>2. /\ v \in Seq(Entries) /\ Len(v) = n + 1 /\ v[n + 1] = entry
      /\ \A k \in 1 .. n : v[k] = u[k]
  BY <1>1, Appended
<1>3. ASSUME NEW k \in 1 .. n + 1, NEW a \in A, Covers(v[k], a), \A j \in 1 .. k - 1 : ~Covers(v[j], a)
      PROVE  v[k].data[a - v[k].loc + 1] = b[a]
  <2>1. CASE k = n + 1
    <3>1. Uncovered(u, 1, a)
      <4>1. ASSUME NEW j \in 1 .. n PROVE ~Covers(u[j], a)
        <5>1. j \in 1 .. k - 1
          BY <2>1
        <5> QED
          BY <1>2, <1>3, <5>1
      <4> QED
        BY <1>1, <4>1 DEF Uncovered
    <3> QED
      BY <1>2, <1>3, <2>1, <3>1
  <2>2. CASE k # n + 1
    <3>1. k \in 1 .. n /\ \A j \in 1 .. k - 1 : j \in 1 .. n
      BY <2>2
    <3>2. Covers(u[k], a) /\ \A j \in 1 .. k - 1 : ~Covers(u[j], a)
      BY <1>2, <1>3, <3>1
    <3>3. u[k].data[a - u[k].loc + 1] = b[a]
      BY <1>1, <3>1, <3>2 DEF FirstHolds
    <3> QED
      BY <1>2, <3>1, <3>3
  <2> QED
    BY <2>1, <2>2
<1> QED
  BY <1>2, <1>3 DEF FirstHolds

(* A write that succeeds is one more entry; one that fails before it has   *)
(* changed anything leaves everything to be found.                         *)
LEMMA WorkingWrite ==
  ASSUME NEW A, Addresses(A), NEW d, NEW u \in Seq(Entries), NEW b, Working(d, u, b, A),
         NEW loc \in Int, NEW cells \in Seq(Nat), cells = << >> => loc \in Nat,
         NEW s \in device_read(d, loc, Len(cells)), s.ok,
         NEW o \in device_put(s.dev, loc, cells)
  PROVE  /\ o.ok \in BOOLEAN
         /\ o.ok => /\ loc \in Nat /\ [loc |-> loc, data |-> s.data] \in Entries
                    /\ Working(o.dev, Append(u, [loc |-> loc, data |-> s.data]), b, A)
         /\ ~o.ok => Halted(o.dev, u, b, A, o.data # << >>)
<1>0. PICK n \in Nat : n = Len(cells)
  BY LenNat
<1>1. GoodRead(s, d, A, loc, n)
  BY <1>0, DeviceRead DEF Working
<1>2. DeviceOK(s.dev, A) /\ Coherent(s.dev) /\ s.dev.cached # NoBlock /\ s.data \in Seq(Nat) /\ Len(s.data) = n
  BY <1>1 DEF GoodRead, Moved
<1>3. Working(s.dev, u, b, A)
  BY <1>0, WorkingRead
<1>4. GoodPut(o, s.dev, A, loc, cells)
  BY <1>2, DevicePut
<1>5. ASSUME o.ok
      PROVE  /\ loc \in Nat /\ [loc |-> loc, data |-> s.data] \in Entries
             /\ Working(o.dev, Append(u, [loc |-> loc, data |-> s.data]), b, A)
  <2>1. loc \in Nat
    <3>1. CASE n = 0
      <4>1. cells = << >>
        BY <1>0, <3>1, EmptySeq
      <4> QED
        BY <4>1
    <3>2. CASE n # 0
      <4>1. 1 \in 1 .. n /\ loc + 1 - 1 = loc
        BY <3>2
      <4>2. loc \in A
        BY <1>1, <1>2, <4>1 DEF GoodRead
      <4> QED
        BY <4>2 DEF Addresses
    <3> QED
      BY <3>1, <3>2
  <2>9. PICK data \in Seq(Nat) : data = s.data
    BY <1>2
  <2>10. [loc |-> loc, data |-> data] \in Entries
    BY <2>1 DEF Entries
  <2>11. PICK entry \in Entries : entry = [loc |-> loc, data |-> data]
    BY <2>10
  <2>2. entry = [loc |-> loc, data |-> s.data] /\ entry.loc = loc /\ entry.data = s.data
    BY <2>9, <2>11
  <2>3. PICK v : v = Append(u, entry)
    OBVIOUS
  <2>4. \A a : Reaches(o, loc, a) <=> Covers(entry, a)
    BY <1>0, <1>2, <1>4, <1>5, <2>2 DEF GoodPut, Reaches, Covers
  <2>5. ASSUME NEW a \in A, Uncovered(u, 1, a), Covers(entry, a) PROVE entry.data[a - entry.loc + 1] = b[a]
    <3>1. PICK j \in 1 .. n : j = a - loc + 1 /\ loc + j - 1 = a
      <4>1. a - entry.loc + 1 \in 1 .. Len(entry.data) /\ entry.loc + (a - entry.loc + 1) - 1 = a
        BY <2>5, CoveredPlace
      <4> QED
        BY <1>2, <2>2, <4>1
    <3>2. s.data[j] = View(d)[a]
      BY <1>1, <1>2, <3>1 DEF GoodRead
    <3>3. View(d)[a] = b[a]
      BY <2>5 DEF Working
    <3> QED
      BY <2>2, <3>1, <3>2, <3>3
  <2>6. FirstHolds(v, b, A)
    <3>1. FirstHolds(u, b, A)
      BY DEF Working
    <3> QED
      BY <2>3, <2>5, <3>1, FirstHoldsAppended
  <2>7. ASSUME NEW a \in A, Uncovered(v, 1, a) PROVE View(o.dev)[a] = b[a] /\ Stream(o.dev)[a] = b[a]
    <3>1. Uncovered(u, 1, a) /\ ~Covers(entry, a)
      BY <2>3, <2>7, Appended
    <3> QED
      BY <1>3, <1>4, <2>4, <3>1 DEF Working, GoodPut
  <2>8. Working(o.dev, v, b, A)
    BY <1>2, <1>4, <1>5, <2>6, <2>7 DEF Working, GoodPut
  <2> QED
    BY <2>1, <2>2, <2>3, <2>8
<1>6. ASSUME ~o.ok PROVE Halted(o.dev, u, b, A, o.data # << >>)
  <2>1. ASSUME o.data = << >>, NEW a \in A, Uncovered(u, 1, a) PROVE Stream(o.dev)[a] = b[a]
    <3>1. Len(o.data) = 0
      BY <2>1
    <3>2. ~Reaches(o, loc, a)
      BY <3>1 DEF Reaches
    <3> QED
      BY <1>3, <1>4, <2>1, <3>2 DEF Working, GoodPut
  <2> QED
    BY <1>3, <1>4, <2>1 DEF Working, Halted, GoodPut
<1> QED
  BY <1>4, <1>5, <1>6 DEF GoodPut
-----------------------------------------------------------------------------
(* The entries in the other order: what the first one held, the last does. *)
LEMMA Reversed ==
  ASSUME NEW A, NEW b, NEW u \in Seq(Entries), NEW v, v = Reverse(u)
  PROVE  /\ v \in Seq(Entries) /\ Len(v) = Len(u)
         /\ FirstHolds(u, b, A) => LastHolds(v, b, A)
         /\ \A a : Uncovered(v, 1, a) => Uncovered(u, 1, a)
<1>1. PICK n \in Nat : n = Len(u)
  OBVIOUS
<1>2. v = [i \in 1 .. n |-> u[(n - i) + 1]]
  BY <1>1 DEF Reverse
<1>3. \A i \in 1 .. n : (n - i) + 1 \in 1 .. n /\ (n - ((n - i) + 1)) + 1 = i
  OBVIOUS
<1>4. v \in [1 .. n -> Entries]
  BY <1>1, <1>2, <1>3
<1>5. v \in Seq(Entries) /\ Len(v) = n
  BY <1>4
<1>6. \A i \in 1 .. n : v[i] = u[(n - i) + 1]
  BY <1>2
<1>7. ASSUME FirstHolds(u, b, A), NEW k \in 1 .. n, NEW a \in A, Covers(v[k], a), Uncovered(v, k + 1, a)
      PROVE  v[k].data[a - v[k].loc + 1] = b[a]
  <2>1. PICK m \in 1 .. n : m = (n - k) + 1
    BY <1>3
  <2>2. v[k] = u[m]
    BY <1>6, <2>1
  <2>3. ASSUME NEW j \in 1 .. m - 1 PROVE ~Covers(u[j], a)
    <3>1. PICK i \in k + 1 .. n : i = (n - j) + 1 /\ (n - i) + 1 = j
      BY <2>1
    <3>2. i \in 1 .. n /\ v[i] = u[j]
      BY <1>6, <3>1
    <3> QED
      BY <1>5, <1>7, <3>1, <3>2 DEF Uncovered
  <2> QED
    BY <1>1, <1>7, <2>2, <2>3 DEF FirstHolds
<1>8. ASSUME NEW a, Uncovered(v, 1, a) PROVE Uncovered(u, 1, a)
  <2>1. ASSUME NEW j \in 1 .. n PROVE ~Covers(u[j], a)
    <3>1. PICK i \in 1 .. n : i = (n - j) + 1 /\ (n - i) + 1 = j
      BY <1>3
    <3>2. v[i] = u[j]
      BY <1>6, <3>1
    <3> QED
      BY <1>5, <1>8, <3>2 DEF Uncovered
  <2> QED
    BY <1>1, <2>1 DEF Uncovered
<1> QED
  BY <1>1, <1>5, <1>7, <1>8 DEF LastHolds

(* Giving the cache up leaves what the stream has.                         *)
LEMMA DroppedDevice ==
  ASSUME NEW A, NEW d, DeviceOK(d, A), NEW e, e = Dropped(d)
  PROVE  /\ DeviceOK(e, A) /\ Coherent(e) /\ e.cached = NoBlock /\ e.block_size = d.block_size
         /\ Stream(e) = Stream(d) /\ View(e) = Stream(d)
<1>1. d.disk \in [A -> Nat] /\ Stream(d) \in [A -> Nat]
  BY StreamType DEF DeviceOK
<1>2. /\ e.disk = d.disk /\ e.pending = d.pending /\ e.held = d.held /\ e.cached = NoBlock
      /\ e.dirty = FALSE /\ e.cache = d.cache /\ e.block_size = d.block_size
  BY DEF Dropped, DeviceOK
<1>3. e \in [disk : [A -> Nat], pending : Nat \cup {NoBlock}, held : Seq(Nat), cached : Nat \cup {NoBlock},
             dirty : BOOLEAN, cache : Seq(Nat), block_size : Nat \ {0}, faults : 0 .. MaxFaults]
  BY DEF Dropped, DeviceOK
<1>4. DeviceOK(e, A)
  BY <1>2, <1>3 DEF DeviceOK
<1>5. Stream(e) = Stream(d)
  BY <1>2 DEF Stream, InBlock
<1>6. View(e) = [a \in A |-> Stream(e)[a]]
  BY <1>1, <1>2 DEF View
<1> QED
  BY <1>1, <1>2, <1>4, <1>5, <1>6 DEF Coherent

(* One entry is written back, at the first try or the second.              *)
LEMMA PutBack ==
  ASSUME NEW A, NEW u \in Seq(Entries), NEW i \in 1 .. Len(u), NEW t, NEW d, NEW e, Undoing(d, u, i, t, A),
         \A a \in A : View(e)[a] = IF Covers(u[i], a) THEN u[i].data[a - u[i].loc + 1] ELSE View(d)[a]
  PROVE  Undoing(e, u, i + 1, t, A)
<1>1. ASSUME NEW a \in A, Uncovered(u, i + 1, a) PROVE View(e)[a] = t[a]
  <2>1. CASE Covers(u[i], a)
    BY <1>1, <2>1 DEF Undoing, LastHolds
  <2>2. CASE ~Covers(u[i], a)
    <3>1. ASSUME NEW k \in i .. Len(u) PROVE ~Covers(u[k], a)
      <4>1. k = i \/ k \in i + 1 .. Len(u)
        OBVIOUS
      <4> QED
        BY <1>1, <2>2, <4>1 DEF Uncovered
    <3>2. Uncovered(u, i, a)
      BY <3>1 DEF Uncovered
    <3> QED
      BY <2>2, <3>2 DEF Undoing
  <2> QED
    BY <2>1, <2>2
<1> QED
  BY <1>1 DEF Undoing

(* An entry that is written back is seen at its place; so it is when the   *)
(* second try succeeds.                                                    *)
LEMMA PutOnce ==
  ASSUME NEW A, Addresses(A), NEW d, DeviceOK(d, A), Coherent(d), NEW entry \in Entries,
         NEW o \in device_put(d, entry.loc, entry.data), o.ok
  PROVE  /\ DeviceOK(o.dev, A) /\ Coherent(o.dev)
         /\ \A a \in A : View(o.dev)[a] = IF Covers(entry, a) THEN entry.data[a - entry.loc + 1] ELSE View(d)[a]
<1>1. PICK loc \in Int, cells \in Seq(Nat) : loc = entry.loc /\ cells = entry.data /\ loc \in Nat
  BY DEF Entries
<1>2. GoodPut(o, d, A, loc, cells)
  BY <1>1, DevicePut
<1>3. \A a : Reaches(o, loc, a) <=> Covers(entry, a)
  BY <1>1, <1>2 DEF GoodPut, Reaches, Covers
<1> QED
  BY <1>1, <1>2, <1>3 DEF GoodPut

(* An entry written back at the second try, after the cache was flushed    *)
(* and dropped.                                                            *)
LEMMA PutAgain ==
  ASSUME NEW A, Addresses(A), NEW d, DeviceOK(d, A), Coherent(d), NEW entry \in Entries,
         NEW o \in device_put(d, entry.loc, entry.data),
         NEW f \in device_flush_cache(o.dev), f.ok,
         NEW o2 \in device_put(Dropped(f.dev), entry.loc, entry.data), o2.ok
  PROVE  /\ DeviceOK(o2.dev, A) /\ Coherent(o2.dev)
         /\ \A a \in A : View(o2.dev)[a] = IF Covers(entry, a) THEN entry.data[a - entry.loc + 1] ELSE View(d)[a]
<1>1. PICK loc \in Int, cells \in Seq(Nat), n \in Nat : loc = entry.loc /\ cells = entry.data /\ loc \in Nat /\ n = Len(cells)
  BY LenNat DEF Entries
<1>2. GoodPut(o, d, A, loc, cells)
  BY <1>1, DevicePut
<1>3. DeviceOK(o.dev, A)
  BY <1>2 DEF GoodPut
<1>4. Moved(o.dev, f.dev, A) /\ ~f.dev.dirty
  BY <1>3, FlushMoves
<1>5. DeviceOK(f.dev, A) /\ View(f.dev) = Stream(f.dev)
  <2>1. DeviceOK(f.dev, A) /\ f.dev.disk \in [A -> Nat] /\ Stream(f.dev) \in [A -> Nat]
    BY <1>4, StreamType DEF Moved, DeviceOK
  <2>2. View(f.dev) = [a \in A |-> Stream(f.dev)[a]]
    BY <1>4, <2>1 DEF View
  <2> QED
    BY <2>1, <2>2
<1>6. PICK e : e = Dropped(f.dev)
  OBVIOUS
<1>7. DeviceOK(e, A) /\ Coherent(e) /\ View(e) = View(f.dev)
  BY <1>5, <1>6, DroppedDevice
<1>8. /\ DeviceOK(o2.dev, A) /\ Coherent(o2.dev)
      /\ \A a \in A : View(o2.dev)[a] = IF Covers(entry, a) THEN entry.data[a - entry.loc + 1] ELSE View(e)[a]
  BY <1>6, <1>7, PutOnce
<1>9. ASSUME NEW a \in A, ~Covers(entry, a) PROVE View(e)[a] = View(d)[a]
  <2>1. ~Reaches(o, loc, a)
    <3>1. PICK m \in Nat : m = Len(o.data) /\ m <= n
      BY <1>1, <1>2, LenNat DEF GoodPut
    <3>2. a \notin loc .. loc + n - 1
      BY <1>1, <1>9 DEF Covers
    <3> QED
      BY <3>1, <3>2 DEF Reaches
  <2> QED
    BY <1>2, <1>4, <1>7, <2>1 DEF GoodPut, Moved
<1> QED
  BY <1>8, <1>9

(* A checksum is a number.                                                 *)
SumStep(x, c) == (31 * x + c + 1) % 10007
Summed(g, cells) == g = [k \in 0 .. Len(cells) |-> IF k = 0 THEN 0 ELSE SumStep(g[k - 1], cells[k])]

(* A checksum of cells is a cell.                                          *)
LEMMA ChecksumIsNumber ==
  ASSUME NEW cells \in Seq(Nat)
  PROVE  crc32(cells) \in Nat
<1>1. PICK n \in Nat : n = Len(cells)
  BY LenNat
<1>0. \A k \in 1 .. n : cells[k] \in Nat
  BY <1>1
<1> DEFINE F == [i \in Nat |-> [s \in Nat |-> IF i \in 1 .. n THEN SumStep(s, cells[i]) ELSE 0]]
<1>2. \A i \in 1 .. n, s \in Nat : F[i][s] = SumStep(s, cells[i])
  OBVIOUS
<1>3. \A i \in 1 .. n, s \in Nat : SumStep(s, cells[i]) \in Nat
  <2>1. ASSUME NEW c \in Nat, NEW s \in Nat PROVE (31 * s + c + 1) % 10007 \in Nat
    OBVIOUS
  <2> QED
    BY <1>0, <2>1 DEF SumStep
<1>4. Closed(F, Nat)
  <2>1. ASSUME NEW i \in Nat, NEW s \in Nat PROVE F[i][s] \in Nat
    <3>1. CASE i \in 1 .. n
      <4> HIDE DEF F
      <4> QED
        BY <1>2, <1>3, <3>1
    <3>2. CASE i \notin 1 .. n
      BY <3>2
    <3> QED
      BY <3>1, <3>2
  <2> HIDE DEF F
  <2> QED
    BY <2>1 DEF Closed
<1> HIDE DEF F
<1>5. PICK f \in [0 .. n -> Nat] : Recursion(f, F, 0, n)
  <2>1. 0 \in Nat
    OBVIOUS
  <2> QED
    BY <1>4, <2>1, RecursionExists
<1>6. ASSUME NEW k \in 0 .. n PROVE f[k] = IF k = 0 THEN 0 ELSE SumStep(f[k - 1], cells[k])
  <2>1. CASE k = 0
    BY <1>5, <2>1 DEF Recursion
  <2>2. CASE k # 0
    <3>1. k \in 1 .. n /\ k - 1 \in 0 .. n
      BY <2>2
    <3>2. f[k - 1] \in Nat /\ f[k] = F[k][f[k - 1]]
      BY <1>5, <3>1 DEF Recursion
    <3> QED
      BY <1>2, <2>2, <3>1, <3>2
  <2> QED
    BY <2>1, <2>2
<1>7. Summed(f, cells)
  <2>1. f = [k \in 0 .. n |-> IF k = 0 THEN 0 ELSE SumStep(f[k - 1], cells[k])]
    BY <1>6
  <2> QED
    BY <1>1, <2>1 DEF Summed
<1>8. PICK g : Summed(g, cells) /\ crc32(cells) = 1000 + g[n]
  <2> DEFINE h == CHOOSE h : Summed(h, cells)
  <2>1. Summed(h, cells)
    BY <1>7, Zenon
  <2>2. crc32(cells) = 1000 + h[Len(cells)]
    BY DEF crc32, Summed, SumStep
  <2> HIDE DEF h
  <2> QED
    BY <1>1, <2>1, <2>2
<1> DEFINE T == [i \in Nat |-> Nat]
<1>9. g[0] \in T[0]
  BY <1>1, <1>8 DEF Summed
<1>10. ASSUME NEW i \in Nat, i < n, g[i] \in T[i] PROVE g[i + 1] \in T[i + 1]
  <2>1. i + 1 \in 1 .. n /\ i + 1 \in 0 .. n /\ i + 1 # 0 /\ (i + 1) - 1 = i /\ g[i] \in Nat
    BY <1>10
  <2>2. g[i + 1] = SumStep(g[(i + 1) - 1], cells[i + 1])
    BY <1>1, <1>8, <2>1 DEF Summed
  <2>3. g[i + 1] \in Nat
    BY <1>3, <2>1, <2>2
  <2> QED
    BY <2>3
<1>11. \A i \in 0 .. n : g[i] \in T[i]
  <2> HIDE DEF T
  <2> QED
    BY <1>9, <1>10, RecursionKeeps
<1>12. g[n] \in Nat
  BY <1>11
<1> QED
  BY <1>8, <1>12

(* The sizes of the sectors and of the two halves of stage 2.              *)
LEMMA Sizes ==
  /\ Partitions \in Nat /\ ARRAY_LBAS \in Nat /\ STAGE2_SIZE \in Nat
  /\ TABLE_SIZE \in Nat /\ SECTOR \in Nat \ {0} /\ EXT \in Nat
  /\ SizeA \in Nat \ {0} /\ SizeB \in Nat
  /\ SizeB # 0 => STAGE2_SIZE - SizeA > 0
<1>1. Partitions \in Nat /\ ARRAY_LBAS \in Nat /\ STAGE2_SIZE \in Nat \ {0}
  BY LimineToolAssumption
<1>2. TABLE_SIZE \in Nat /\ SECTOR \in Nat \ {0} /\ EXT \in Nat
  BY <1>1 DEF TABLE_SIZE, SECTOR, EXT, DISK_ID
<1>3. PICK s \in Nat \ {0}, z \in Nat \ {0} : s = SECTOR /\ z = STAGE2_SIZE
  BY <1>1, <1>2
<1>4. PICK q \in Int, rem \in 0 .. s - 1, P \in Int : /\ q = (z + s - 1) \div s /\ P = q * s /\ z + s - 1 = P + rem
  <2>1. PICK x \in Int : x = z + s - 1
    OBVIOUS
  <2>2. x \div s \in Int /\ x % s \in 0 .. s - 1 /\ x = (x \div s) * s + (x % s)
    BY <2>1, DivMod
  <2>3. PICK q \in Int : q = x \div s
    BY <2>2
  <2>4. PICK P \in Int : P = q * s
    BY <2>3
  <2> QED
    BY <2>1, <2>2, <2>3, <2>4
<1>5. q >= 1
  <2>1. P >= z
    BY <1>4
  <2>2. CASE q <= 0
    <3>1. q * s <= 0
      BY <2>2
    <3> QED
      BY <1>4, <2>1, <3>1
  <2> QED
    BY <2>2
<1>6. PICK half \in Nat, odd \in 0 .. 1 : half = q \div 2 /\ odd = q % 2 /\ q = 2 * half + odd
  <2>1. q \div 2 \in Nat /\ q % 2 \in 0 .. 1 /\ q = 2 * (q \div 2) + (q % 2)
    BY <1>5
  <2> QED
    BY <2>1
<1>7. PICK b \in Nat : b = half * s
  BY <1>6
<1>8. P = 2 * b + (IF odd = 1 THEN s ELSE 0)
  <2>1. CASE odd = 0
    <3>1. q * s = 2 * (half * s)
      BY <1>6, <2>1
    <3> QED
      BY <1>4, <1>7, <2>1, <3>1
  <2>2. CASE odd = 1
    <3>1. q * s = 2 * (half * s) + s
      BY <1>6, <2>2
    <3> QED
      BY <1>4, <1>7, <2>2, <3>1
  <2> QED
    BY <1>6, <2>1, <2>2
<1>9. half = 0 => b = 0 /\ odd = 1
  BY <1>5, <1>6, <1>7
<1>10. half # 0 => b >= s
  <2> SUFFICES ASSUME half >= 1 PROVE half * s >= s
    BY <1>7
  <2> QED
    OBVIOUS
<1>11. Sectors = q
  BY <1>3, <1>4 DEF Sectors
<1>12. SizeB = b /\ SizeA = b + (IF odd = 1 THEN s ELSE 0)
  BY <1>3, <1>6, <1>7, <1>11 DEF SizeA, SizeB
<1>13. b + (IF odd = 1 THEN s ELSE 0) \in Nat \ {0}
  BY <1>9, <1>10
<1>14. b # 0 => z - (b + (IF odd = 1 THEN s ELSE 0)) > 0
  BY <1>4, <1>8, <1>9, <1>10
<1> QED
  BY <1>1, <1>2, <1>3, <1>12, <1>13, <1>14

(* A part of the image, and one number, are cells.                         *)
LEMMA ImageCells ==
  ASSUME NEW from \in Nat, NEW count \in Int
  PROVE  ImagePart(from, count) \in Seq(Nat) /\ (count > 0 => ImagePart(from, count) # << >>)
<1>1. PICK f : f = ImagePart(from, count)
  OBVIOUS
<1>2. f \in [1 .. count -> Nat]
  <2>1. \A k \in 1 .. count : Image(from + k - 1) \in Nat
    BY DEF Image
  <2> QED
    BY <1>1, <2>1 DEF ImagePart
<1>3. f \in Seq(Nat)
  <2>1. CASE count >= 0
    <3>1. count \in Nat
      BY <2>1
    <3> QED
      BY <1>2, <3>1, CellsOf
  <2>2. CASE count < 0
    <3>1. 1 .. count = 1 .. 0
      BY <2>2
    <3>2. f \in [1 .. 0 -> Nat] /\ 0 \in Nat
      BY <1>2, <3>1
    <3> QED
      BY <3>2, CellsOf
  <2> QED
    BY <2>1, <2>2
<1>4. count > 0 => f # << >>
  <2> SUFFICES ASSUME count > 0, f = << >> PROVE FALSE
    OBVIOUS
  <2>1. DOMAIN f = 1 .. count /\ 1 \in 1 .. count
    BY <1>2
  <2>2. DOMAIN f = {}
    OBVIOUS
  <2> QED
    BY <2>1, <2>2
<1> QED
  BY <1>1, <1>3, <1>4

(* One number is one cell.                                                 *)
LEMMA OneCell ==
  ASSUME NEW c \in Nat
  PROVE  << c >> \in Seq(Nat) /\ << c >> # << >>
OBVIOUS

(* The fields of a header are numbers.                                     *)
LEMMA Headers ==
  ASSUME NEW h \in Seq(Nat), Len(h) = HEADER_SIZE
  PROVE  /\ h[1 + SIGNATURE] \in Nat /\ h[1 + ALTERNATE] \in Nat /\ h[1 + ENTRY_LBA] \in Nat /\ h[1 + COUNT] \in Nat
         /\ h[1 + ENTRY_SIZE] \in Nat
<1>1. \A k \in 1 .. Len(h) : h[k] \in Nat
  OBVIOUS
<1>2. \A k \in 1 .. 7 : h[k] \in Nat
  BY <1>1 DEF HEADER_SIZE
<1>3. h[1] \in Nat /\ h[2] \in Nat /\ h[3] \in Nat /\ h[4] \in Nat /\ h[5] \in Nat
  BY <1>2
<1>4. 1 + SIGNATURE = 1 /\ 1 + ALTERNATE = 2 /\ 1 + ENTRY_LBA = 3 /\ 1 + COUNT = 4 /\ 1 + ENTRY_SIZE = 5
  BY DEF SIGNATURE, ALTERNATE, ENTRY_LBA, COUNT, ENTRY_SIZE
<1> QED
  BY <1>3, <1>4

(* A header with a new count and new checksums is still a header.          *)
LEMMA ResealedHeader ==
  ASSUME NEW h \in Seq(Nat), Len(h) = HEADER_SIZE, NEW array \in Seq(Nat), r.count \in Nat
  PROVE  Resealed(h, array) \in Seq(Nat) /\ Len(Resealed(h, array)) = HEADER_SIZE
<1>1. PICK crc \in Nat, count \in Nat : crc = crc32(array) /\ count = r.count
  BY ChecksumIsNumber
<1>2. PICK e : e = [h EXCEPT ![4] = count, ![6] = crc, ![7] = 0]
  OBVIOUS
<1>8. PICK n \in Nat : n = 7 /\ h \in [1 .. n -> Nat] /\ n = Len(h)
  <2>1. h \in [1 .. Len(h) -> Nat] /\ Len(h) \in Nat
    OBVIOUS
  <2>2. PICK n \in Nat : n = Len(h)
    BY <2>1
  <2>3. n = 7
    BY <2>2 DEF HEADER_SIZE
  <2> QED
    BY <2>1, <2>2, <2>3
<1>9. e \in [1 .. n -> Nat]
  BY <1>2, <1>8
<1>3. e \in Seq(Nat)
  BY <1>9, CellsOf
<1>4. PICK sum \in Nat : sum = crc32(e)
  BY <1>3, ChecksumIsNumber
<1>5. PICK g : g = [e EXCEPT ![7] = sum]
  OBVIOUS
<1>10. g \in [1 .. n -> Nat]
  BY <1>4, <1>5, <1>9
<1>6. g \in Seq(Nat) /\ Len(g) = HEADER_SIZE
  BY <1>8, <1>10, CellsOf
<1>7. Resealed(h, array) = g
  BY <1>1, <1>2, <1>4, <1>5 DEF Resealed, COUNT, ARRAY_CRC, HEADER_CRC
<1> QED
  BY <1>6, <1>7
-----------------------------------------------------------------------------
(***************************************************************************)
(* The steps of an installation.  Each keeps the invariant.                *)
(***************************************************************************)
(* What only a command changes.                                            *)
Steady == Process /\ UNCHANGED << udfile, unwritten >>

(* Steps within an installation: to the next transfer, or to the cleanup.  *)
LEMMA ToPreparing ==
  ASSUME Typed, Steady, pc' \in Preparing, exit' = exit, Known(pc', r'), torn' = FALSE,
         undo' \in Seq(Entries), Len(undo') <= UNINSTALL_DATA_MAX, Working(dev', undo', before, D)
  PROVE  IInv'
<1>1. /\ original' = original /\ before' = before /\ runs' = runs /\ udfile' = udfile /\ unwritten' = unwritten
      /\ D' = D
  BY DEF Steady, Process, D
<1>2. pc' \in Pcs /\ pc' \notin {"shell", "load", "cleanup", "store", "uninstall", "close"}
  BY DEF Preparing, OnMBR, OnGPT, Installing, Pcs
<1>3. Typed'
  BY <1>1, <1>2 DEF Typed
<1>4. Prepared'
  BY <1>1 DEF Prepared
<1>5. Resting' /\ Loading' /\ Turning' /\ Storing' /\ Reverting' /\ Closing'
  BY <1>2 DEF Resting, Loading, Turning, Storing, Reverting, Closing
<1> QED
  BY <1>3, <1>4, <1>5 DEF IInv

(* The undo data may be trusted once the program turns to its cleanup.     *)
LEMMA ToCleanup ==
  ASSUME Typed, Steady, pc \in Preparing, pc' = "cleanup", r' = r, torn' \in BOOLEAN,
         undo' \in Seq(Entries), Len(undo') <= UNINSTALL_DATA_MAX, Halted(dev', undo', before, D, torn'),
         exit' = "failure" \/ (exit' = "success" /\ Coherent(dev'))
  PROVE  IInv'
<1>1. /\ original' = original /\ before' = before /\ runs' = runs /\ udfile' = udfile /\ unwritten' = unwritten
      /\ D' = D
  BY DEF Steady, Process, D
<1>2. pc' \in Pcs /\ pc' \notin {"shell", "load", "store", "uninstall", "close"} \cup Preparing
  BY DEF Pcs, Preparing, OnMBR, OnGPT, Installing
<1>3. Known(pc', r') /\ ~r'.uninstall /\ ~r'.failed
  <2>1. Known(pc, r)
    BY DEF Typed
  <2>2. r \in Registers /\ r.used >= -1 /\ ~r.uninstall /\ ~r.failed /\ (r.gpt => r.lb > 0 /\ Len(r.header) = HEADER_SIZE)
    BY <2>1 DEF Known
  <2>3. pc' \notin OnGPT /\ pc' \notin Embedding /\ pc' \notin Installing /\ pc' \notin OnMBR
    BY DEF OnMBR, OnGPT, Embedding, Installing
  <2> QED
    BY <1>2, <2>2, <2>3 DEF Known
<1>4. Typed'
  BY <1>1, <1>2, <1>3 DEF Typed
<1>5. Turning'
  BY <1>1, <1>3 DEF Turning
<1>6. Resting' /\ Loading' /\ Prepared' /\ Storing' /\ Reverting' /\ Closing'
  BY <1>2 DEF Resting, Loading, Prepared, Storing, Reverting, Closing
<1> QED
  BY <1>4, <1>5, <1>6 DEF IInv

(* What holds before every step of an installation.                        *)
LEMMA Preparings ==
  ASSUME IInv, pc \in Preparing
  PROVE  /\ Typed /\ Working(dev, undo, before, D) /\ torn = FALSE /\ undo \in Seq(Entries) /\ Len(undo) <= UNINSTALL_DATA_MAX
         /\ Addresses(D) /\ Known(pc, r)
BY DEF IInv, Prepared, Typed

(* A step that touches nothing but what the program knows.                 *)
LEMMA SkipKeeps ==
  ASSUME IInv, pc \in Preparing, Process, UNCHANGED << dev, undo, udfile, torn, unwritten >>,
         Abort \/ (exit' = exit /\ pc' \in Preparing /\ Known(pc', r'))
  PROVE  IInv'
<1>1. /\ Typed /\ Working(dev, undo, before, D) /\ torn = FALSE /\ undo \in Seq(Entries) /\ Len(undo) <= UNINSTALL_DATA_MAX
  BY Preparings
<1>2. Steady
  BY DEF Steady
<1>3. CASE Abort
  <2>1. Halted(dev', undo', before, D, torn')
    <3>1. Halted(dev, undo, before, D, torn)
      BY <1>1, WorkingHalts
    <3> QED
      BY <3>1
  <2> QED
    BY <1>1, <1>2, <1>3, <2>1, ToCleanup DEF Abort
<1>4. CASE exit' = exit /\ pc' \in Preparing /\ Known(pc', r')
  <2>1. Working(dev', undo', before, D)
    BY <1>1
  <2> QED
    BY <1>1, <1>2, <1>4, <2>1, ToPreparing
<1> QED
  BY <1>3, <1>4

(* A step that reads.                                                      *)
LEMMA ReadKeeps ==
  ASSUME IInv, pc \in Preparing, NEW loc \in Int, NEW count \in Nat, NEW o \in device_read(dev, loc, count), dev' = o.dev,
         Process, UNCHANGED << undo, udfile, torn, unwritten >>,
         o.ok /\ o.data \in Seq(Nat) /\ Len(o.data) = count => Abort \/ (exit' = exit /\ pc' \in Preparing /\ Known(pc', r')),
         ~o.ok => Abort
  PROVE  IInv'
<1>1. /\ Typed /\ Working(dev, undo, before, D) /\ torn = FALSE /\ undo \in Seq(Entries) /\ Len(undo) <= UNINSTALL_DATA_MAX
      /\ Addresses(D)
  BY Preparings
<1>2. Steady /\ undo' = undo /\ torn' = FALSE
  BY <1>1 DEF Steady
<1>3. /\ o.ok \in BOOLEAN
      /\ o.ok => Working(o.dev, undo, before, D)
      /\ Halted(o.dev, undo, before, D, FALSE)
      /\ o.ok => o.data \in Seq(Nat) /\ Len(o.data) = count
  BY <1>1, WorkingRead
<1>4. CASE Abort
  <2>1. Halted(dev', undo', before, D, torn')
    BY <1>2, <1>3
  <2>2. undo' \in Seq(Entries) /\ Len(undo') <= UNINSTALL_DATA_MAX /\ torn' \in BOOLEAN
    BY <1>1, <1>2
  <2> QED
    BY <1>1, <1>2, <1>4, <2>1, <2>2, ToCleanup DEF Abort
<1>5. CASE o.ok /\ exit' = exit /\ pc' \in Preparing /\ Known(pc', r')
  <2>1. Working(dev', undo', before, D)
    BY <1>2, <1>3, <1>5
  <2>2. undo' \in Seq(Entries) /\ Len(undo') <= UNINSTALL_DATA_MAX
    BY <1>1, <1>2
  <2> QED
    BY <1>1, <1>2, <1>5, <2>1, <2>2, ToPreparing
<1> QED
  BY <1>3, <1>4, <1>5

(* A step that writes.                                                     *)
LEMMA WriteKeeps ==
  ASSUME IInv, pc \in Preparing, NEW loc \in Int, NEW cells \in Seq(Nat), cells = << >> => loc \in Nat,
         NEW to \in Preparing, NEW next, loc \in Nat => Known(to, next),
         device_write(loc, cells, to, next)
  PROVE  IInv'
<1>1. /\ Typed /\ Working(dev, undo, before, D) /\ torn = FALSE /\ undo \in Seq(Entries) /\ Len(undo) <= UNINSTALL_DATA_MAX
      /\ Addresses(D)
  BY Preparings
<1>2. Steady
  BY DEF device_write, Steady
<1>0. Len(cells) \in Nat /\ Len(undo) \in Nat /\ UNINSTALL_DATA_MAX \in Nat
  BY <1>1, LimineToolAssumption
<1>3. CASE UndoFull
  <2>1. Process /\ UNCHANGED << dev, undo, udfile, torn, unwritten >> /\ Abort
    BY <1>3 DEF device_write
  <2> QED
    BY <2>1, SkipKeeps
<1>4. CASE ~UndoFull
  <2>1. PICK s \in device_read(dev, loc, Len(cells)) :
          \/ ~s.ok /\ dev' = s.dev /\ Abort /\ UNCHANGED << undo, torn >>
          \/ s.ok /\ \E o \in device_put(s.dev, loc, cells) :
               /\ dev' = o.dev
               /\ IF o.ok THEN /\ undo' = Append(undo, [loc |-> loc, data |-> s.data])
                               /\ Only(to, next) /\ UNCHANGED torn
                  ELSE Abort /\ torn' = (o.data # << >>) /\ UNCHANGED undo
    BY <1>4 DEF device_write
  <2>2. CASE ~s.ok /\ dev' = s.dev /\ Abort /\ UNCHANGED << undo, torn >>
    <3>1. Process /\ UNCHANGED << undo, udfile, torn, unwritten >> /\ ~s.ok /\ Abort /\ dev' = s.dev
      BY <1>2, <2>2 DEF Steady
    <3>2. PICK count \in Nat : count = Len(cells) /\ s \in device_read(dev, loc, count)
      BY <1>0, <2>1
    <3> QED
      BY <3>1, <3>2, ReadKeeps
  <2>3. CASE s.ok
    <3>1. PICK o \in device_put(s.dev, loc, cells) :
            /\ dev' = o.dev
            /\ IF o.ok THEN /\ undo' = Append(undo, [loc |-> loc, data |-> s.data])
                            /\ Only(to, next) /\ UNCHANGED torn
               ELSE Abort /\ torn' = (o.data # << >>) /\ UNCHANGED undo
      BY <2>1, <2>3
    <3>2. /\ o.ok \in BOOLEAN
          /\ o.ok => /\ loc \in Nat /\ [loc |-> loc, data |-> s.data] \in Entries
                     /\ Working(o.dev, Append(undo, [loc |-> loc, data |-> s.data]), before, D)
          /\ ~o.ok => Halted(o.dev, undo, before, D, o.data # << >>)
      BY <1>1, <2>3, WorkingWrite
    <3>3. CASE o.ok
      <4>1. PICK entry \in Entries : entry = [loc |-> loc, data |-> s.data]
        BY <3>2, <3>3
      <4>2. undo' = Append(undo, entry) /\ undo' \in Seq(Entries) /\ Len(undo') = Len(undo) + 1
        BY <1>1, <3>1, <3>3, <4>1, Appended
      <4>3. Len(undo') <= UNINSTALL_DATA_MAX
        BY <1>0, <1>4, <4>2 DEF UndoFull
      <4>4. pc' = to /\ r' = next /\ exit' = exit /\ torn' = FALSE /\ Known(to, next)
        BY <1>1, <3>1, <3>2, <3>3 DEF Only
      <4>5. Working(dev', undo', before, D)
        BY <3>1, <3>2, <3>3, <4>1, <4>2
      <4> QED
        BY <1>1, <1>2, <4>2, <4>3, <4>4, <4>5, ToPreparing
    <3>4. CASE ~o.ok
      <4>1. Abort /\ torn' = (o.data # << >>) /\ undo' = undo
        BY <3>1, <3>4
      <4>2. torn' \in BOOLEAN
        BY <4>1
      <4>3. Halted(dev', undo', before, D, torn')
        BY <3>1, <3>2, <3>4, <4>1
      <4> QED
        BY <1>1, <1>2, <4>1, <4>2, <4>3, ToCleanup DEF Abort
    <3> QED
      BY <3>2, <3>3, <3>4
  <2>4. s.ok \in BOOLEAN
    BY <1>0, <1>1, WorkingRead
  <2> QED
    BY <2>1, <2>2, <2>3
<1> QED
  BY <1>3, <1>4

(* What is known everywhere on the way to an installation.                 *)
Base(s) ==
  /\ s \in Registers /\ s.used >= -1 /\ s.uninstall = FALSE /\ s.failed = FALSE
  /\ s.gpt => s.lb > 0 /\ Len(s.header) = HEADER_SIZE

(* What is known at a step is known of the registers everywhere, and the   *)
(* other way where no more is needed.                                      *)
LEMMA KnownBase ==
  ASSUME NEW p \in Preparing, NEW s, Known(p, s)
  PROVE  Base(s)
BY DEF Known, Base, Registers

(* Where nothing else is asked of the registers.                           *)
LEMMA BaseKnown ==
  ASSUME NEW s, Base(s)
  PROVE  /\ \A p \in {"flags", "mend", "start", "active"} : s.gpt = FALSE => Known(p, s)
         /\ Known("commit", s)
         /\ s.gpt = FALSE => Known("locate", s)
BY DEF Base, Known, OnMBR, OnGPT, Embedding, Installing, Preparing

(* The registers before a step of an installation.                         *)
LEMMA Shown ==
  ASSUME IInv, pc \in Preparing
  PROVE  Known(pc, r) /\ Base(r) /\ r \in Registers
BY Preparings, KnownBase DEF Base

(* Counting on keeps what is known.                                        *)
LEMMA BaseAt ==
  ASSUME NEW s, Base(s), NEW i \in Nat, NEW t, t = [s EXCEPT !.i = i]
  PROVE  /\ Base(t) /\ t.i = i /\ t.gpt = s.gpt /\ t.lb = s.lb /\ t.header = s.header /\ t.second = s.second
         /\ t.used = s.used /\ t.count = s.count /\ t.a = s.a /\ t.b = s.b
BY DEF Base, Registers

(* Each step of the probing keeps the invariant: the search for a GPT      *)
(* header.                                                                 *)
LEMMA ProbeKeeps == ASSUME IInv, Probe PROVE IInv'
<1>1. pc = "probe" /\ pc \in Preparing
  BY DEF Probe, Preparing, OnMBR
<1>2. Known(pc, r) /\ Base(r) /\ r \in Registers
  BY <1>1, Shown
<1>3. r.i \in Nat /\ r.i >= 1 /\ r.gpt = FALSE
  BY <1>1, <1>2 DEF Known, Registers, OnMBR
<1>4. LbSizes \in Seq(Nat \ {0})
  BY LimineToolAssumption
<1>5. CASE r.i > Len(LbSizes)
  <2>1. Skip("flags", [r EXCEPT !.i = 1])
    BY <1>5 DEF Probe
  <2>2. Base([r EXCEPT !.i = 1]) /\ [r EXCEPT !.i = 1].gpt = FALSE
    BY <1>2, <1>3 DEF Base, Registers
  <2>3. pc' = "flags" /\ r' = [r EXCEPT !.i = 1] /\ exit' = exit /\ Process /\ UNCHANGED << dev, undo, udfile, torn, unwritten >>
    BY <2>1 DEF Skip, Only
  <2>4. pc' \in Preparing /\ Known(pc', r')
    BY <2>2, <2>3, BaseKnown DEF Preparing, OnMBR
  <2> QED
    BY <1>1, <2>3, <2>4, SkipKeeps
<1>6. CASE ~(r.i > Len(LbSizes))
  <2>1. r.i \in 1 .. Len(LbSizes)
    BY <1>3, <1>4, <1>6
  <2>2. PICK lb \in Nat : lb = LbSizes[r.i] /\ lb > 0
    BY <1>4, <2>1
  <2>3. PICK o \in device_read(dev, lb, HEADER_SIZE) :
          /\ dev' = o.dev
          /\ IF o.ok THEN IF o.data[1 + SIGNATURE] # EFI_PART THEN Only("probe", [r EXCEPT !.i = @ + 1])
                          ELSE IF r.force THEN Abort
                          ELSE Only("secondary", [r EXCEPT !.gpt = TRUE, !.lb = LbSizes[r.i], !.header = o.data])
             ELSE Abort
    BY <1>6, <2>2 DEF Probe, Read
  <2>4. Process /\ UNCHANGED << undo, udfile, torn, unwritten >>
    BY <1>6 DEF Probe, Read
  <2>5. ASSUME o.ok, o.data \in Seq(Nat), Len(o.data) = HEADER_SIZE
        PROVE  Abort \/ (exit' = exit /\ pc' \in Preparing /\ Known(pc', r'))
    <3>1. CASE Only("probe", [r EXCEPT !.i = @ + 1])
      <4>1. pc' = "probe" /\ r' = [r EXCEPT !.i = r.i + 1] /\ exit' = exit
        BY <3>1 DEF Only
      <4>3. PICK i \in Nat : i = r.i + 1 /\ i >= 1
        BY <1>3
      <4>2. Base(r') /\ r'.gpt = FALSE /\ r'.i >= 1
        BY <1>2, <1>3, <4>1, <4>3, BaseAt
      <4> QED
        BY <4>1, <4>2 DEF Base, Known, OnMBR, OnGPT, Embedding, Installing, Preparing
    <3>2. CASE Only("secondary", [r EXCEPT !.gpt = TRUE, !.lb = LbSizes[r.i], !.header = o.data])
      <4>1. PICK data \in Seq(Nat) : data = o.data /\ Len(data) = HEADER_SIZE
        BY <2>5
      <4>2. pc' = "secondary" /\ r' = [r EXCEPT !.gpt = TRUE, !.lb = lb, !.header = data] /\ exit' = exit
        BY <2>2, <3>2, <4>1 DEF Only
      <4>3. Base(r') /\ r'.lb > 0 /\ Len(r'.header) = HEADER_SIZE
        BY <1>2, <2>2, <4>1, <4>2 DEF Base, Registers
      <4> QED
        BY <4>2, <4>3 DEF Base, Known, OnMBR, OnGPT, Embedding, Installing, Preparing
    <3> QED
      BY <2>3, <2>5, <3>1, <3>2
  <2>6. HEADER_SIZE \in Nat /\ lb \in Int
    BY DEF HEADER_SIZE
  <2> QED
    BY <1>1, <2>3, <2>4, <2>5, <2>6, ReadKeeps
<1> QED
  BY <1>5, <1>6

(* The second GPT header.                                                  *)
LEMMA SecondaryHeaderKeeps == ASSUME IInv, SecondaryHeader PROVE IInv'
<1>1. pc = "secondary" /\ pc \in Preparing
  BY DEF SecondaryHeader, Preparing
<1>2. Known(pc, r) /\ Base(r) /\ r \in Registers
  BY <1>1, Shown
<1>3. r.lb \in Nat /\ r.lb > 0 /\ r.header \in Seq(Nat) /\ Len(r.header) = HEADER_SIZE
  BY <1>1, <1>2 DEF Known, Registers
<1>4. PICK loc \in Int : loc = r.lb * r.header[1 + ALTERNATE]
  <2>1. PICK x \in Nat, lb \in Nat : x = r.header[1 + ALTERNATE] /\ lb = r.lb
    BY <1>3, Headers
  <2>2. lb * x \in Int
    OBVIOUS
  <2> QED
    BY <2>1, <2>2
<1>5. PICK o \in device_read(dev, loc, HEADER_SIZE) :
        /\ dev' = o.dev
        /\ IF o.ok THEN IF o.data[1 + SIGNATURE] = EFI_PART THEN Only("locate", [r EXCEPT !.second = o.data]) ELSE Abort
           ELSE Abort
  BY <1>4 DEF SecondaryHeader, Read
<1>6. Process /\ UNCHANGED << undo, udfile, torn, unwritten >>
  BY DEF SecondaryHeader, Read
<1>7. ASSUME o.ok, o.data \in Seq(Nat), Len(o.data) = HEADER_SIZE, Only("locate", [r EXCEPT !.second = o.data])
      PROVE  exit' = exit /\ pc' \in Preparing /\ Known(pc', r')
  <2>1. PICK data \in Seq(Nat) : data = o.data /\ Len(data) = HEADER_SIZE
    BY <1>7
  <2>2. pc' = "locate" /\ r' = [r EXCEPT !.second = data] /\ exit' = exit
    BY <1>7, <2>1 DEF Only
  <2>3. Base(r') /\ Len(r'.second) = HEADER_SIZE
    BY <1>2, <2>1, <2>2 DEF Base, Registers
  <2> QED
    BY <2>2, <2>3 DEF Base, Known, OnMBR, OnGPT, Embedding, Installing, Preparing
<1>8. HEADER_SIZE \in Nat
  BY DEF HEADER_SIZE
<1> QED
  BY <1>1, <1>5, <1>6, <1>7, <1>8, ReadKeeps

(* The fields of the boot sector have their places.                        *)
LEMMA Places ==
  ASSUME NEW p \in Nat
  PROVE  Flag(p) \in Nat /\ Start(p) \in Nat
BY DEF Flag, Start, DISK_ID

(* The active flags.                                                       *)
LEMMA CheckFlagKeeps == ASSUME IInv, CheckFlag PROVE IInv'
<1>1. pc = "flags" /\ pc \in Preparing
  BY DEF CheckFlag, Preparing, OnMBR
<1>2. Known(pc, r) /\ Base(r) /\ r \in Registers
  BY <1>1, Shown
<1>3. r.i \in Nat /\ r.gpt = FALSE /\ r.mbr \in BOOLEAN /\ r.active \in BOOLEAN
  BY <1>1, <1>2 DEF Known, Registers, OnMBR
<1>4. PICK loc \in Int : loc = Flag(r.i)
  BY <1>3, Places
<1>5. PICK o \in device_read(dev, loc, 1) :
        /\ dev' = o.dev
        /\ IF o.ok
             THEN IF Sane(o.data[1]) \/ ~r.force
                    THEN Only("start", [r EXCEPT !.mbr = @ /\ Sane(o.data[1]), !.active = @ \/ o.data[1] >= 128])
                    ELSE Only("mend", [r EXCEPT !.flag = (o.data[1] \div 128) * 128])
             ELSE Abort
  BY <1>4 DEF CheckFlag, Read
<1>6. Process /\ UNCHANGED << undo, udfile, torn, unwritten >>
  BY DEF CheckFlag, Read
<1>7. ASSUME o.ok, o.data \in Seq(Nat), Len(o.data) = 1
      PROVE  exit' = exit /\ pc' \in Preparing /\ Known(pc', r')
  <2>1. PICK c \in Nat : c = o.data[1]
    BY <1>7
  <2>2. CASE Sane(c) \/ ~r.force
    <3>1. PICK m \in BOOLEAN, act \in BOOLEAN : m = (r.mbr /\ Sane(c)) /\ act = (r.active \/ c >= 128)
      OBVIOUS
    <3>2. pc' = "start" /\ r' = [r EXCEPT !.mbr = m, !.active = act] /\ exit' = exit
      BY <1>5, <1>7, <2>1, <2>2, <3>1 DEF Only
    <3>3. Base(r') /\ r'.gpt = FALSE
      BY <1>2, <1>3, <3>2 DEF Base, Registers
    <3> QED
      BY <3>2, <3>3, BaseKnown DEF Preparing, OnMBR
  <2>3. CASE ~(Sane(c) \/ ~r.force)
    <3>1. PICK f \in Nat : f = (c \div 128) * 128
      <4>1. c \div 128 \in Nat
        OBVIOUS
      <4> QED
        BY <4>1
    <3>2. pc' = "mend" /\ r' = [r EXCEPT !.flag = f] /\ exit' = exit
      BY <1>5, <1>7, <2>1, <2>3, <3>1 DEF Only
    <3>3. Base(r') /\ r'.gpt = FALSE
      BY <1>2, <1>3, <3>2 DEF Base, Registers
    <3> QED
      BY <3>2, <3>3, BaseKnown DEF Preparing, OnMBR
  <2> QED
    BY <2>2, <2>3
<1>8. 1 \in Nat
  OBVIOUS
<1> QED
  BY <1>1, <1>5, <1>6, <1>7, <1>8, ReadKeeps

(* A flag that is made sane.                                               *)
LEMMA MendFlagKeeps == ASSUME IInv, MendFlag PROVE IInv'
<1>1. pc = "mend" /\ pc \in Preparing
  BY DEF MendFlag, Preparing, OnMBR
<1>2. Known(pc, r) /\ Base(r) /\ r \in Registers
  BY <1>1, Shown
<1>3. r.i \in Nat /\ r.flag \in Nat /\ r.gpt = FALSE /\ r.active \in BOOLEAN
  BY <1>1, <1>2 DEF Known, Registers, OnMBR
<1>4. PICK loc \in Int, cells \in Seq(Nat) : loc = Flag(r.i) /\ cells = << r.flag >> /\ cells # << >>
  <2>1. PICK loc \in Int : loc = Flag(r.i)
    BY <1>3, Places
  <2>2. << r.flag >> \in Seq(Nat) /\ << r.flag >> # << >>
    BY <1>3, OneCell
  <2> QED
    BY <2>1, <2>2
<1>5. PICK act \in BOOLEAN : act = (r.active \/ r.flag = 128)
  OBVIOUS
<1>6. PICK next : next = [r EXCEPT !.active = act]
  OBVIOUS
<1>7. Base(next) /\ next.gpt = FALSE
  BY <1>2, <1>3, <1>6 DEF Base, Registers
<1>8. Known("start", next) /\ "start" \in Preparing
  BY <1>7, BaseKnown DEF Preparing, OnMBR
<1>9. device_write(loc, cells, "start", next)
  BY <1>4, <1>5, <1>6 DEF MendFlag
<1> QED
  BY <1>1, <1>4, <1>8, <1>9, WriteKeeps

(* The first blocks of the partitions.                                     *)
LEMMA CheckStartKeeps == ASSUME IInv, CheckStart PROVE IInv'
<1>1. pc = "start" /\ pc \in Preparing
  BY DEF CheckStart, Preparing, OnMBR
<1>2. Known(pc, r) /\ Base(r) /\ r \in Registers
  BY <1>1, Shown
<1>3. r.i \in Nat /\ r.gpt = FALSE
  BY <1>1, <1>2 DEF Known, Registers, OnMBR
<1>4. PICK loc \in Int : loc = Start(r.i)
  BY <1>3, Places
<1>5. PICK o \in device_read(dev, loc, 1) :
        /\ dev' = o.dev
        /\ IF o.ok THEN IF Low(o.data[1]) THEN Abort
                        ELSE IF r.i < Partitions THEN Only("flags", [r EXCEPT !.i = @ + 1])
                        ELSE Only("hints", [r EXCEPT !.i = 1])
           ELSE Abort
  BY <1>4 DEF CheckStart, Read
<1>6. Process /\ UNCHANGED << undo, udfile, torn, unwritten >>
  BY DEF CheckStart, Read
<1>7. CASE Only("flags", [r EXCEPT !.i = @ + 1])
  <2>1. pc' = "flags" /\ r' = [r EXCEPT !.i = r.i + 1] /\ exit' = exit
    BY <1>7 DEF Only
  <2>4. PICK i \in Nat : i = r.i + 1
    BY <1>3
  <2>2. Base(r') /\ r'.gpt = FALSE
    BY <1>2, <1>3, <2>1, <2>4, BaseAt
  <2>3. pc' \in Preparing /\ Known(pc', r')
    BY <2>1, <2>2, BaseKnown DEF Preparing, OnMBR
  <2> QED
    BY <1>1, <1>5, <1>6, <2>1, <2>3, ReadKeeps DEF Only
<1>8. CASE Only("hints", [r EXCEPT !.i = 1])
  <2>1. pc' = "hints" /\ r' = [r EXCEPT !.i = 1] /\ exit' = exit
    BY <1>8 DEF Only
  <2>4. PICK i \in Nat : i = 1
    OBVIOUS
  <2>2. Base(r') /\ r'.gpt = FALSE /\ r'.i >= 1
    BY <1>2, <1>3, <2>1, <2>4, BaseAt
  <2>3. pc' \in Preparing /\ Known(pc', r')
    BY <2>1, <2>2 DEF Base, Known, OnMBR, OnGPT, Embedding, Installing, Preparing
  <2> QED
    BY <1>1, <1>5, <1>6, <2>1, <2>3, ReadKeeps DEF Only
<1>9. CASE Abort
  BY <1>1, <1>5, <1>6, <1>9, ReadKeeps
<1> QED
  BY <1>5, <1>7, <1>8, <1>9

(* The names of file systems have their places.                            *)
LEMMA HintPlaces ==
  /\ Len(Hints) = 6 /\ \A k \in 1 .. 6 : Hints[k][1] \in Nat
<1>1. EXT \in Nat /\ OEM \in Nat /\ FAT16 \in Nat /\ FAT32 \in Nat
  BY Sizes DEF OEM, FAT16, FAT32
<1>2. Len(Hints) = 6
  BY DEF Hints
<1>3. Hints[1][1] = OEM /\ Hints[2][1] = OEM /\ Hints[3][1] = FAT16 /\ Hints[4][1] = FAT32 /\ Hints[5][1] = OEM /\ Hints[6][1] = EXT
  BY DEF Hints
<1>4. \A k \in 1 .. 6 : k = 1 \/ k = 2 \/ k = 3 \/ k = 4 \/ k = 5 \/ k = 6
  OBVIOUS
<1> QED
  BY <1>1, <1>2, <1>3, <1>4

(* The names of file systems.                                              *)
LEMMA CheckHintKeeps == ASSUME IInv, CheckHint PROVE IInv'
<1>1. pc = "hints" /\ pc \in Preparing
  BY DEF CheckHint, Preparing, OnMBR
<1>2. Known(pc, r) /\ Base(r) /\ r \in Registers
  BY <1>1, Shown
<1>3. r.i \in Nat /\ r.i >= 1 /\ r.gpt = FALSE
  BY <1>1, <1>2 DEF Known, Registers, OnMBR
<1>4. CASE r.i > Len(Hints)
  <2>1. pc' = "active" /\ r' = r /\ exit' = exit /\ Process /\ UNCHANGED << dev, undo, udfile, torn, unwritten >>
    BY <1>4 DEF CheckHint, Skip, Only
  <2>2. pc' \in Preparing /\ Known(pc', r')
    BY <1>2, <1>3, <2>1, BaseKnown DEF Preparing, OnMBR
  <2> QED
    BY <1>1, <2>1, <2>2, SkipKeeps
<1>5. CASE ~(r.i > Len(Hints))
  <2>1. r.i \in 1 .. 6
    BY <1>3, <1>5, HintPlaces
  <2>2. PICK loc \in Int : loc = Hints[r.i][1]
    BY <2>1, HintPlaces
  <2>3. PICK o \in device_read(dev, loc, 1) :
          /\ dev' = o.dev
          /\ IF o.ok THEN IF o.data[1] # Hints[r.i][2] THEN Only("hints", [r EXCEPT !.i = @ + 1])
                          ELSE IF r.force THEN Only("erase", r)
                          ELSE Only("hints", [r EXCEPT !.i = @ + 1, !.mbr = FALSE])
             ELSE Abort
    BY <1>5, <2>2 DEF CheckHint, Read
  <2>4. Process /\ UNCHANGED << undo, udfile, torn, unwritten >>
    BY <1>5 DEF CheckHint, Read
  <2>5. PICK i \in Nat : i = r.i + 1 /\ i >= 1
    BY <1>3
  <2>6. CASE Only("hints", [r EXCEPT !.i = @ + 1]) \/ Only("hints", [r EXCEPT !.i = @ + 1, !.mbr = FALSE])
    <3>1. pc' = "hints" /\ exit' = exit /\ (r' = [r EXCEPT !.i = i] \/ r' = [r EXCEPT !.i = i, !.mbr = FALSE])
      BY <2>5, <2>6 DEF Only
    <3>2. Base(r') /\ r'.gpt = FALSE /\ r'.i >= 1
      <4>1. CASE r' = [r EXCEPT !.i = i]
        BY <1>2, <1>3, <2>5, <4>1, BaseAt
      <4>2. CASE r' = [r EXCEPT !.i = i, !.mbr = FALSE]
        BY <1>2, <1>3, <2>5, <4>2 DEF Base, Registers
      <4> QED
        BY <3>1, <4>1, <4>2
    <3>3. pc' \in Preparing /\ Known(pc', r')
      BY <3>1, <3>2 DEF Base, Known, OnMBR, OnGPT, Embedding, Installing, Preparing
    <3> QED
      BY <1>1, <2>3, <2>4, <3>1, <3>3, ReadKeeps DEF Only
  <2>7. CASE Only("erase", r)
    <3>1. pc' = "erase" /\ exit' = exit /\ r' = r
      BY <2>7 DEF Only
    <3>2. r'.i \in 1 .. Len(Hints)
      BY <2>1, <3>1, HintPlaces
    <3>3. pc' \in Preparing /\ Known(pc', r')
      BY <1>2, <1>3, <3>1, <3>2 DEF Base, Known, OnMBR, OnGPT, Embedding, Installing, Preparing
    <3> QED
      BY <1>1, <2>3, <2>4, <3>1, <3>3, ReadKeeps DEF Only
  <2>8. CASE Abort
    BY <1>1, <2>3, <2>4, <2>8, ReadKeeps
  <2> QED
    BY <2>3, <2>6, <2>7, <2>8
<1> QED
  BY <1>4, <1>5

(* A name that is erased.                                                  *)
LEMMA EraseHintKeeps == ASSUME IInv, EraseHint PROVE IInv'
<1>1. pc = "erase" /\ pc \in Preparing
  BY DEF EraseHint, Preparing, OnMBR
<1>2. Known(pc, r) /\ Base(r) /\ r \in Registers
  BY <1>1, Shown
<1>3. r.i \in 1 .. 6 /\ r.gpt = FALSE
  BY <1>1, <1>2, HintPlaces DEF Known, Registers, OnMBR
<1>4. PICK loc \in Int : loc = Hints[r.i][1]
  BY <1>3, HintPlaces
<1>5. PICK cells \in Seq(Nat) : cells = << 0 >> /\ cells # << >>
  BY OneCell
<1>6. PICK i \in Nat : i = r.i + 1 /\ i >= 1
  BY <1>3
<1>7. PICK next : next = [r EXCEPT !.i = i]
  OBVIOUS
<1>8. Base(next) /\ next.gpt = FALSE /\ next.i >= 1
  BY <1>2, <1>3, <1>6, <1>7, BaseAt
<1>9. Known("hints", next) /\ "hints" \in Preparing
  BY <1>8 DEF Base, Known, OnMBR, OnGPT, Embedding, Installing, Preparing
<1>10. device_write(loc, cells, "hints", next)
  BY <1>4, <1>5, <1>6, <1>7 DEF EraseHint
<1> QED
  BY <1>1, <1>5, <1>9, <1>10, WriteKeeps

(* The first partition is made active.                                     *)
LEMMA ActivateKeeps == ASSUME IInv, Activate PROVE IInv'
<1>1. pc = "active" /\ pc \in Preparing
  BY DEF Activate, Preparing, OnMBR
<1>2. Known(pc, r) /\ Base(r) /\ r \in Registers
  BY <1>1, Shown
<1>3. r.gpt = FALSE
  BY <1>1, <1>2 DEF Known, Registers, OnMBR
<1>4. Known("locate", r) /\ "locate" \in Preparing
  BY <1>2, <1>3, BaseKnown DEF Preparing
<1>5. CASE ~r.mbr
  BY <1>1, <1>5, SkipKeeps DEF Activate
<1>6. CASE r.mbr /\ r.active
  <2>1. pc' = "locate" /\ r' = r /\ exit' = exit /\ Process /\ UNCHANGED << dev, undo, udfile, torn, unwritten >>
    BY <1>6 DEF Activate, Skip, Only
  <2> QED
    BY <1>1, <1>4, <2>1, SkipKeeps
<1>7. CASE r.mbr /\ ~r.active
  <2>0. 1 \in Nat
    OBVIOUS
  <2>1. PICK loc \in Int : loc = Flag(1)
    BY <2>0, Places
  <2>2. PICK cells \in Seq(Nat) : cells = << 128 >> /\ cells # << >>
    BY OneCell
  <2>3. PICK next : next = r
    OBVIOUS
  <2>4. device_write(loc, cells, "locate", next)
    BY <1>7, <2>1, <2>2, <2>3 DEF Activate
  <2> QED
    BY <1>1, <1>4, <2>2, <2>3, <2>4, WriteKeeps
<1> QED
  BY <1>5, <1>6, <1>7

(* The choice of a place for stage 2.                                      *)
LEMMA LocateKeeps == ASSUME IInv, Locate PROVE IInv'
<1>1. pc = "locate" /\ pc \in Preparing
  BY DEF Locate, Preparing
<1>2. Known(pc, r) /\ Base(r) /\ r \in Registers
  BY <1>1, Shown
<1>3. CASE ~r.gpt
  <2>1. PICK a \in Nat, b \in Nat : a = SECTOR /\ b = SECTOR + SizeA
    <3>1. PICK x \in Nat, y \in Nat : x = SECTOR /\ y = SizeA
      BY Sizes
    <3>2. x + y \in Nat
      OBVIOUS
    <3> QED
      BY <3>1, <3>2
  <2>2. pc' = "save" /\ r' = [r EXCEPT !.a = a, !.b = b] /\ exit' = exit /\ Process
        /\ UNCHANGED << dev, undo, udfile, torn, unwritten >>
    BY <1>3, <2>1 DEF Locate, Skip, Only
  <2>3. a \in Int /\ b \in Int
    OBVIOUS
  <2>4. Base(r') /\ r'.b = b
    BY <1>2, <2>2, <2>3 DEF Base, Registers
  <2>5. pc' \in Preparing /\ Known(pc', r')
    BY <2>2, <2>4 DEF Base, Known, OnMBR, OnGPT, Embedding, Installing, Preparing
  <2> QED
    BY <1>1, <2>2, <2>5, SkipKeeps
<1>4. CASE r.gpt
  <2>1. PICK i \in Nat : i = 0
    OBVIOUS
  <2>2. pc' \in {"partition", "scan"} /\ r' = [r EXCEPT !.i = i] /\ exit' = exit /\ Process
        /\ UNCHANGED << dev, undo, udfile, torn, unwritten >>
    BY <1>4, <2>1 DEF Locate, Skip, Only
  <2>3. r.lb > 0 /\ Len(r.header) = HEADER_SIZE /\ Len(r.second) = HEADER_SIZE
    BY <1>1, <1>2, <1>4 DEF Known
  <2>4. Base(r') /\ r'.lb > 0 /\ Len(r'.header) = HEADER_SIZE /\ Len(r'.second) = HEADER_SIZE
    BY <1>2, <2>2, <2>3, BaseAt
  <2>5. pc' \in Preparing /\ Known(pc', r')
    BY <2>2, <2>4 DEF Base, Known, OnMBR, OnGPT, Embedding, Installing, Preparing
  <2> QED
    BY <1>1, <2>2, <2>5, SkipKeeps
<1> QED
  BY <1>3, <1>4

(* What is known on the way of a GPT.                                      *)
BaseGPT(s) == Base(s) /\ s.lb > 0 /\ Len(s.header) = HEADER_SIZE /\ Len(s.second) = HEADER_SIZE

(* On a GPT, both headers have been read.                                  *)
LEMMA ShownGPT ==
  ASSUME IInv, pc \in OnGPT
  PROVE  /\ pc \in Preparing /\ Known(pc, r) /\ BaseGPT(r) /\ Base(r) /\ r \in Registers
         /\ r.lb \in Nat \ {0} /\ r.header \in Seq(Nat) /\ r.second \in Seq(Nat) /\ r.i \in Nat
         /\ r.header[1 + ENTRY_LBA] \in Nat /\ r.header[1 + COUNT] \in Nat /\ r.header[1 + ENTRY_SIZE] \in Nat
         /\ r.header[1 + ALTERNATE] \in Nat
         /\ r.second[1 + ENTRY_LBA] \in Nat /\ r.second[1 + COUNT] \in Nat /\ r.second[1 + ENTRY_SIZE] \in Nat
<1>1. pc \in Preparing
  BY DEF Preparing
<1>2. Known(pc, r) /\ Base(r) /\ r \in Registers
  BY <1>1, Shown
<1>3. r.lb > 0 /\ Len(r.header) = HEADER_SIZE /\ Len(r.second) = HEADER_SIZE
  BY <1>2 DEF Known
<1>4. r.lb \in Nat \ {0} /\ r.header \in Seq(Nat) /\ r.second \in Seq(Nat) /\ r.i \in Nat
  BY <1>2, <1>3 DEF Registers
<1> QED
  BY <1>1, <1>2, <1>3, <1>4, Headers DEF BaseGPT

(* An entry of an array has an address.                                    *)
LEMMA EntryPlace ==
  ASSUME NEW h, h[1 + ENTRY_LBA] \in Nat, h[1 + ENTRY_SIZE] \in Nat, r.lb \in Nat, NEW i \in Nat
  PROVE  Entry(h, i) \in Nat
<1>1. PICK x \in Nat, y \in Nat, lb \in Nat : x = h[1 + ENTRY_LBA] /\ y = h[1 + ENTRY_SIZE] /\ lb = r.lb
  OBVIOUS
<1>2. x * lb \in Nat /\ i * y \in Nat
  OBVIOUS
<1>3. x * lb + i * y \in Nat
  BY <1>2
<1> QED
  BY <1>1, <1>3 DEF Entry

(* Alignment gives an address, rounding up no smaller one.                 *)
LEMMA Aligned ==
  ASSUME NEW loc \in Int, r.lb \in Nat \ {0}
  PROVE  AlignedDown(loc) \in Int /\ (loc \in Nat => AlignedDown(loc) \in Nat /\ AlignedUp(loc) \in Nat)
<1>1. PICK lb \in Nat \ {0} : lb = r.lb
  OBVIOUS
<1>2. ASSUME NEW x \in Int PROVE (x \div lb) * lb \in Int /\ (x \in Nat => (x \div lb) * lb \in Nat)
  <2>1. PICK q \in Int : q = x \div lb /\ (x \in Nat => q \in Nat)
    BY DivMod
  <2>2. q * lb \in Int /\ (q \in Nat => q * lb \in Nat)
    OBVIOUS
  <2> QED
    BY <2>1, <2>2
<1>3. ASSUME NEW x \in Int PROVE AlignedDown(x) \in Int /\ (x \in Nat => AlignedDown(x) \in Nat)
  BY <1>1, <1>2 DEF AlignedDown
<1>4. loc + lb \in Int /\ (loc \in Nat => loc + lb \in Nat)
  OBVIOUS
<1>5. loc \in Nat => AlignedDown(loc + lb) \in Nat
  BY <1>3, <1>4
<1>6. loc \in Nat => AlignedUp(loc) \in Nat
  BY <1>1, <1>5 DEF AlignedUp
<1> QED
  BY <1>3, <1>6

(* What the steps on a GPT need to know.                                   *)
LEMMA KnownOnGPT ==
  ASSUME NEW s, BaseGPT(s)
  PROVE  /\ Known("scan", s) /\ Known("embed", s)
         /\ s.count >= 0 /\ (SizeB = 0 => s.b \in Nat) => \A p \in Embedding : Known(p, s)
         /\ (SizeB = 0 => s.b \in Nat) => Known("save", s) /\ Known("table", s)
BY DEF BaseGPT, Base, Known, OnMBR, OnGPT, Embedding, Installing, Preparing

(* Stage 2 goes into a partition.                                          *)
LEMMA UsePartitionKeeps == ASSUME IInv, UsePartition PROVE IInv'
<1>1. pc = "partition" /\ pc \in OnGPT
  BY DEF UsePartition, OnGPT
<1>2. /\ pc \in Preparing /\ Known(pc, r) /\ BaseGPT(r) /\ Base(r) /\ r \in Registers
      /\ r.lb \in Nat \ {0} /\ r.header[1 + ENTRY_LBA] \in Nat /\ r.header[1 + ENTRY_SIZE] \in Nat
  BY <1>1, ShownGPT
<1>3. PICK n \in r.part :
        IF n = 0 \/ n - 1 > r.header[1 + COUNT]
          THEN Abort /\ Process /\ UNCHANGED << dev, undo, udfile, torn, unwritten >>
          ELSE Read(Entry(r.header, n - 1), 2, LAMBDA entry :
                 IF entry[1] = 0 THEN Abort
                 ELSE Only("save", [r EXCEPT !.a = entry[2] * r.lb, !.b = AlignedUp(entry[2] * r.lb + SizeA)]))
  BY DEF UsePartition
<1>4. n \in Nat
  BY <1>2 DEF Registers
<1>5. CASE n = 0 \/ n - 1 > r.header[1 + COUNT]
  BY <1>2, <1>3, <1>5, SkipKeeps
<1>6. CASE ~(n = 0 \/ n - 1 > r.header[1 + COUNT])
  <2>1. PICK loc \in Int : loc = Entry(r.header, n - 1)
    <3>1. PICK i \in Nat : i = n - 1
      BY <1>4, <1>6
    <3>2. Entry(r.header, i) \in Nat
      BY <1>2, EntryPlace
    <3> QED
      BY <3>1, <3>2
  <2>2. Process /\ UNCHANGED << undo, udfile, torn, unwritten >>
    BY <1>3, <1>6 DEF Read
  <2>3. PICK o \in device_read(dev, loc, 2) :
          /\ dev' = o.dev
          /\ IF o.ok THEN IF o.data[1] = 0 THEN Abort
                          ELSE Only("save", [r EXCEPT !.a = o.data[2] * r.lb, !.b = AlignedUp(o.data[2] * r.lb + SizeA)])
             ELSE Abort
    BY <1>3, <1>6, <2>1 DEF Read
  <2>4. ASSUME o.ok, o.data \in Seq(Nat), Len(o.data) = 2,
               Only("save", [r EXCEPT !.a = o.data[2] * r.lb, !.b = AlignedUp(o.data[2] * r.lb + SizeA)])
        PROVE  exit' = exit /\ pc' \in Preparing /\ Known(pc', r')
    <3>1. PICK x \in Nat, lb \in Nat : x = o.data[2] /\ lb = r.lb
      <4>1. \A k \in 1 .. Len(o.data) : o.data[k] \in Nat
        BY <2>4
      <4>2. o.data[2] \in Nat
        BY <2>4, <4>1
      <4> QED
        BY <1>2, <4>2
    <3>2. PICK a \in Nat : a = x * lb
      OBVIOUS
    <3>3. PICK top \in Nat : top = a + SizeA
      BY Sizes
    <3>4. PICK b \in Nat : b = AlignedUp(top)
      BY <1>2, Aligned
    <3>5. pc' = "save" /\ exit' = exit /\ r' = [r EXCEPT !.a = a, !.b = b]
      BY <2>4, <3>1, <3>2, <3>3, <3>4 DEF Only
    <3>6. a \in Int /\ b \in Int
      OBVIOUS
    <3>7. Base(r') /\ r'.b = b
      BY <1>2, <3>5, <3>6 DEF Base, Registers
    <3> QED
      BY <3>5, <3>7 DEF Base, Known, OnMBR, OnGPT, Embedding, Installing, Preparing
  <2>5. 2 \in Nat
    OBVIOUS
  <2> QED
    BY <1>2, <2>2, <2>3, <2>4, <2>5, ReadKeeps
<1> QED
  BY <1>5, <1>6

(* The search for the last entry in use.                                   *)
LEMMA ScanEntriesKeeps == ASSUME IInv, ScanEntries PROVE IInv'
<1>1. pc = "scan" /\ pc \in OnGPT
  BY DEF ScanEntries, OnGPT
<1>2. /\ pc \in Preparing /\ Known(pc, r) /\ BaseGPT(r) /\ Base(r) /\ r \in Registers
      /\ r.lb \in Nat \ {0} /\ r.header[1 + ENTRY_LBA] \in Nat /\ r.header[1 + ENTRY_SIZE] \in Nat /\ r.i \in Nat
  BY <1>1, ShownGPT
<1>3. CASE r.i < r.header[1 + COUNT]
  <2>1. PICK loc \in Int : loc = Entry(r.header, r.i)
    BY <1>2, EntryPlace
  <2>2. Process /\ UNCHANGED << undo, udfile, torn, unwritten >>
    BY <1>3 DEF ScanEntries, Read
  <2>3. PICK o \in device_read(dev, loc, 2) :
          /\ dev' = o.dev
          /\ IF o.ok THEN Only("scan", [r EXCEPT !.i = @ + 1, !.used = IF o.data[1] # 0 THEN r.i ELSE @]) ELSE Abort
    BY <1>3, <2>1 DEF ScanEntries, Read
  <2>4. ASSUME Only("scan", [r EXCEPT !.i = @ + 1, !.used = IF o.data[1] # 0 THEN r.i ELSE @])
        PROVE  exit' = exit /\ pc' \in Preparing /\ Known(pc', r')
    <3>1. PICK i \in Nat : i = r.i + 1
      BY <1>2
    <3>2. PICK used \in Int : used = (IF o.data[1] # 0 THEN r.i ELSE r.used) /\ used >= -1
      BY <1>2 DEF Base, Registers
    <3>3. pc' = "scan" /\ exit' = exit /\ r' = [r EXCEPT !.i = i, !.used = used]
      BY <2>4, <3>1, <3>2 DEF Only
    <3>4. BaseGPT(r')
      BY <1>2, <3>2, <3>3 DEF BaseGPT, Base, Registers
    <3> QED
      BY <3>3, <3>4, KnownOnGPT DEF Preparing, OnGPT
  <2>5. 2 \in Nat
    OBVIOUS
  <2> QED
    BY <1>2, <2>2, <2>3, <2>4, <2>5, ReadKeeps
<1>4. CASE ~(r.i < r.header[1 + COUNT])
  <2>1. pc' = "embed" /\ r' = r /\ exit' = exit /\ Process /\ UNCHANGED << dev, undo, udfile, torn, unwritten >>
    BY <1>4 DEF ScanEntries, Skip, Only
  <2>2. pc' \in Preparing /\ Known(pc', r')
    BY <1>2, <2>1, KnownOnGPT DEF Preparing, OnGPT
  <2> QED
    BY <1>2, <2>1, <2>2, SkipKeeps
<1> QED
  BY <1>3, <1>4

(* A program that is killed says nothing of the device.                    *)
LEMMA KilledKeeps == ASSUME IInv, pc \in Preparing, Killed PROVE IInv'
<1>1. Typed /\ DeviceOK(dev, D) /\ Known(pc, r)
  BY Preparings DEF Working
<1>2. /\ pc' = "shell" /\ exit' = "killed" /\ dev' = Opened(dev.disk, dev.faults) /\ r' = r
      /\ original' = original /\ before' = before /\ runs' = runs /\ D' = D
      /\ undo' = undo /\ udfile' = udfile /\ torn' = torn /\ unwritten' = unwritten
  BY DEF Killed, Process, D
<1>3. Known(pc', r')
  BY <1>1, <1>2 DEF Known, OnMBR, OnGPT, Embedding, Installing, Preparing
<1>4. Typed'
  BY <1>1, <1>2, <1>3 DEF Typed, Pcs
<1>5. Idle(dev', D)
  <2>1. PICK disk \in [D -> Nat], faults \in 0 .. MaxFaults : disk = dev.disk /\ faults = dev.faults
    BY <1>1 DEF DeviceOK
  <2> QED
    BY <1>2, <2>1, OpenedIdle
<1>6. Resting'
  BY <1>2, <1>5 DEF Resting, FailedInstallUndone, UninstallRestores, Exited
<1>7. Loading' /\ Prepared' /\ Turning' /\ Storing' /\ Reverting' /\ Closing'
  BY <1>2 DEF Loading, Prepared, Turning, Storing, Reverting, Closing, Preparing, OnMBR, OnGPT, Installing
<1> QED
  BY <1>4, <1>6, <1>7 DEF IInv

(* Stage 2 goes into the ends of the arrays, if there is room.             *)
LEMMA EmbedKeeps == ASSUME IInv, Embed PROVE IInv'
<1>1. pc = "embed" /\ pc \in OnGPT
  BY DEF Embed, OnGPT
<1>2. /\ pc \in Preparing /\ Known(pc, r) /\ BaseGPT(r) /\ Base(r) /\ r \in Registers
      /\ r.lb \in Nat \ {0} /\ r.header[1 + ENTRY_LBA] \in Nat /\ r.header[1 + ENTRY_SIZE] \in Nat
      /\ r.second[1 + ENTRY_LBA] \in Nat
  BY <1>1, ShownGPT
<1>3. CASE r.header[1 + ENTRY_SIZE] = 0
  BY <1>2, <1>3, KilledKeeps DEF Embed
<1>4. CASE r.header[1 + ENTRY_SIZE] # 0
  <2>1. PICK lb \in Nat \ {0}, x \in Nat, y \in Nat \ {0}, z \in Nat, lbas \in Nat, sa \in Nat, sb \in Nat :
          /\ lb = r.lb /\ x = r.header[1 + ENTRY_LBA] /\ y = r.header[1 + ENTRY_SIZE] /\ z = r.second[1 + ENTRY_LBA]
          /\ lbas = ARRAY_LBAS /\ sa = SizeA /\ sb = SizeB
    BY <1>2, <1>4, Sizes
  <2>2. PICK a \in Int : a = AlignedDown((x + lbas) * lb - sa)
    <3>1. PICK w \in Int : w = (x + lbas) * lb - sa
      OBVIOUS
    <3> QED
      BY <1>2, <3>1, Aligned
  <2>3. PICK b \in Int : b = AlignedDown((z + lbas) * lb - sb) /\ (sb = 0 => b \in Nat)
    <3>1. PICK v \in Nat : v = (z + lbas) * lb
      OBVIOUS
    <3>2. PICK w \in Int : w = v - sb /\ (sb = 0 => w \in Nat)
      OBVIOUS
    <3> QED
      BY <1>2, <3>1, <3>2, Aligned
  <2>4. PICK count \in Int : count = (a \div lb - x) * (lb \div y)
    <3>1. PICK p \in Int, q \in Int : p = a \div lb /\ q = lb \div y
      BY DivMod
    <3>2. (p - x) * q \in Int
      OBVIOUS
    <3> QED
      BY <3>1, <3>2
  <2>5. IF NoRoom(count) THEN Abort /\ Process /\ UNCHANGED << dev, undo, udfile, torn, unwritten >>
        ELSE Skip("clear1", [r EXCEPT !.a = a, !.b = b, !.count = count, !.i = r.used + 1])
    BY <1>4, <2>1, <2>2, <2>3, <2>4 DEF Embed
  <2>6. CASE NoRoom(count)
    BY <1>2, <2>5, <2>6, SkipKeeps
  <2>7. CASE ~NoRoom(count)
    <3>1. PICK i \in Nat : i = r.used + 1
      BY <1>2 DEF Base, Registers
    <3>2. count >= 0
      <4>1. r.used \in Int /\ r.used >= -1
        BY <1>2 DEF Base, Registers
      <4> QED
        BY <2>7, <4>1 DEF NoRoom
    <3>3. pc' = "clear1" /\ r' = [r EXCEPT !.a = a, !.b = b, !.count = count, !.i = i] /\ exit' = exit
          /\ Process /\ UNCHANGED << dev, undo, udfile, torn, unwritten >>
      BY <2>5, <2>7, <3>1 DEF Skip, Only
    <3>4. BaseGPT(r') /\ r'.count >= 0 /\ r'.b = b
      BY <1>2, <3>2, <3>3 DEF BaseGPT, Base, Registers
    <3>5. pc' \in Preparing /\ Known(pc', r')
      BY <2>1, <2>3, <3>3, <3>4, KnownOnGPT DEF Preparing, OnGPT, Embedding
    <3> QED
      BY <1>2, <3>3, <3>5, SkipKeeps
  <2> QED
    BY <2>6, <2>7
<1> QED
  BY <1>3, <1>4

(* The zeros for an unused entry.                                          *)
LEMMA ZeroCells ==
  ASSUME NEW n \in Nat
  PROVE  [k \in 1 .. n |-> 0] \in Seq(Nat)
<1>1. PICK f : f = [k \in 1 .. n |-> 0]
  OBVIOUS
<1>2. f \in [1 .. n -> Nat]
  BY <1>1
<1>3. f \in Seq(Nat)
  BY <1>2, CellsOf
<1> QED
  BY <1>1, <1>3

(* Embedding: the registers that stay.                                     *)
LEMMA ShownEmbedding ==
  ASSUME IInv, pc \in Embedding
  PROVE  /\ pc \in OnGPT /\ pc \in Preparing /\ BaseGPT(r) /\ Base(r) /\ r.count \in Nat /\ (SizeB = 0 => r.b \in Nat)
<1>1. pc \in OnGPT
  BY DEF OnGPT, Embedding
<1>2. pc \in Preparing /\ Known(pc, r) /\ BaseGPT(r) /\ Base(r) /\ r \in Registers
  BY <1>1, ShownGPT
<1> QED
  BY <1>1, <1>2 DEF Known, Registers

(* An entry is cleared, in either array.                                   *)
LEMMA ClearEntryKeeps ==
  ASSUME IInv, NEW from \in Embedding, NEW to \in Embedding, NEW h,
         h[1 + ENTRY_LBA] \in Nat, h[1 + ENTRY_SIZE] \in Nat, ClearEntry(from, h, to)
  PROVE  IInv'
<1>1. pc = from /\ pc \in Embedding
  BY DEF ClearEntry
<1>2. /\ pc \in OnGPT /\ pc \in Preparing /\ BaseGPT(r) /\ Base(r) /\ r.count \in Nat /\ (SizeB = 0 => r.b \in Nat)
  BY <1>1, ShownEmbedding
<1>3. r.i \in Nat /\ r.lb \in Nat /\ r.used \in Int /\ r.used >= -1
  BY <1>2 DEF Base, Registers
<1>4. to \in Preparing /\ from \in Preparing
  BY DEF Embedding, Preparing, OnGPT
<1>5. CASE r.i < r.count
  <2>1. PICK loc \in Int : loc = Entry(h, r.i) /\ loc \in Nat
    BY <1>3, EntryPlace
  <2>2. PICK cells \in Seq(Nat) : cells = [k \in 1 .. h[1 + ENTRY_SIZE] |-> 0]
    BY ZeroCells
  <2>3. PICK i \in Nat : i = r.i + 1
    BY <1>3
  <2>4. PICK next : next = [r EXCEPT !.i = i]
    OBVIOUS
  <2>5. Base(next) /\ BaseGPT(next) /\ next.count >= 0 /\ (SizeB = 0 => next.b \in Nat)
    BY <1>2, <2>4, BaseAt DEF BaseGPT
  <2>6. Known(from, next)
    BY <2>5, KnownOnGPT
  <2>7. device_write(loc, cells, from, next)
    BY <1>5, <2>1, <2>2, <2>3, <2>4 DEF ClearEntry
  <2> QED
    BY <1>2, <1>4, <2>1, <2>6, <2>7, WriteKeeps
<1>6. CASE ~(r.i < r.count)
  <2>1. PICK i \in Nat : i = r.used + 1
    BY <1>3
  <2>2. pc' = to /\ r' = [r EXCEPT !.i = i] /\ exit' = exit /\ Process /\ UNCHANGED << dev, undo, udfile, torn, unwritten >>
    BY <1>6, <2>1 DEF ClearEntry, Skip, Only
  <2>3. Base(r') /\ BaseGPT(r') /\ r'.count >= 0 /\ (SizeB = 0 => r'.b \in Nat)
    BY <1>2, <2>2, BaseAt DEF BaseGPT
  <2>4. pc' \in Preparing /\ Known(pc', r')
    BY <1>4, <2>2, <2>3, KnownOnGPT
  <2> QED
    BY <1>2, <2>2, <2>4, SkipKeeps
<1> QED
  BY <1>5, <1>6

(* The entries of the primary array.                                       *)
LEMMA ClearPrimaryKeeps == ASSUME IInv, ClearPrimary PROVE IInv'
<1>1. ClearEntry("clear1", r.header, "clear2") /\ pc = "clear1"
  BY DEF ClearPrimary, ClearEntry
<1>2. "clear1" \in Embedding /\ "clear2" \in Embedding /\ pc \in OnGPT
  BY <1>1 DEF Embedding, OnGPT
<1>3. PICK h : h = r.header /\ h[1 + ENTRY_LBA] \in Nat /\ h[1 + ENTRY_SIZE] \in Nat
  BY <1>2, ShownGPT
<1> QED
  BY <1>1, <1>2, <1>3, ClearEntryKeeps

(* The entries of the secondary array.                                     *)
LEMMA ClearSecondaryKeeps == ASSUME IInv, ClearSecondary PROVE IInv'
<1>1. ClearEntry("clear2", r.second, "sum") /\ pc = "clear2"
  BY DEF ClearSecondary, ClearEntry
<1>2. "clear2" \in Embedding /\ "sum" \in Embedding /\ pc \in OnGPT
  BY <1>1 DEF Embedding, OnGPT
<1>3. PICK h : h = r.second /\ h[1 + ENTRY_LBA] \in Nat /\ h[1 + ENTRY_SIZE] \in Nat
  BY <1>2, ShownGPT
<1> QED
  BY <1>1, <1>2, <1>3, ClearEntryKeeps

(* The checksum of the array goes into both headers.                       *)
LEMMA SumArrayKeeps == ASSUME IInv, SumArray PROVE IInv'
<1>1. pc = "sum" /\ pc \in Embedding /\ pc \in OnGPT
  BY DEF SumArray, Embedding, OnGPT
<1>2. /\ pc \in Preparing /\ BaseGPT(r) /\ Base(r) /\ r.count \in Nat /\ (SizeB = 0 => r.b \in Nat)
      /\ r.header[1 + ENTRY_SIZE] \in Nat /\ r.header[1 + ENTRY_LBA] \in Nat /\ r.lb \in Nat
      /\ r.header \in Seq(Nat) /\ r.second \in Seq(Nat)
  BY <1>1, ShownEmbedding, ShownGPT
<1>3. PICK loc \in Int : loc = Entry(r.header, 0)
  <2>1. PICK i \in Nat : i = 0
    OBVIOUS
  <2>2. Entry(r.header, i) \in Nat
    BY <1>2, EntryPlace
  <2> QED
    BY <2>1, <2>2
<1>4. PICK count \in Nat : count = r.count * r.header[1 + ENTRY_SIZE]
  <2>1. PICK x \in Nat, y \in Nat : x = r.count /\ y = r.header[1 + ENTRY_SIZE]
    BY <1>2
  <2>2. x * y \in Nat
    OBVIOUS
  <2> QED
    BY <2>1, <2>2
<1>5. PICK o \in device_read(dev, loc, count) :
        /\ dev' = o.dev
        /\ IF o.ok THEN Only("header1", [r EXCEPT !.header = Resealed(@, o.data), !.second = Resealed(@, o.data)]) ELSE Abort
  BY <1>3, <1>4 DEF SumArray, Read
<1>6. Process /\ UNCHANGED << undo, udfile, torn, unwritten >>
  BY DEF SumArray, Read
<1>7. ASSUME o.ok, o.data \in Seq(Nat), Len(o.data) = count
      PROVE  exit' = exit /\ pc' \in Preparing /\ Known(pc', r')
  <2>1. PICK first \in Seq(Nat), second \in Seq(Nat) :
          /\ first = Resealed(r.header, o.data) /\ second = Resealed(r.second, o.data)
          /\ Len(first) = HEADER_SIZE /\ Len(second) = HEADER_SIZE
    <3>1. PICK data \in Seq(Nat) : data = o.data
      BY <1>7
    <3>2. PICK h \in Seq(Nat), g \in Seq(Nat) : h = r.header /\ g = r.second /\ Len(h) = HEADER_SIZE /\ Len(g) = HEADER_SIZE
      BY <1>2 DEF BaseGPT
    <3>3. Resealed(h, data) \in Seq(Nat) /\ Len(Resealed(h, data)) = HEADER_SIZE
      BY <1>2, <3>2, ResealedHeader
    <3>4. Resealed(g, data) \in Seq(Nat) /\ Len(Resealed(g, data)) = HEADER_SIZE
      BY <1>2, <3>2, ResealedHeader
    <3> QED
      BY <3>1, <3>2, <3>3, <3>4
  <2>2. pc' = "header1" /\ exit' = exit /\ r' = [r EXCEPT !.header = first, !.second = second]
    BY <1>5, <1>7, <2>1 DEF Only
  <2>3. BaseGPT(r') /\ r'.count >= 0 /\ (SizeB = 0 => r'.b \in Nat)
    <3>1. Base(r) /\ r \in Registers
      BY <1>2 DEF Base
    <3>2. /\ r'.header = first /\ r'.second = second /\ r'.lb = r.lb /\ r'.gpt = r.gpt /\ r'.used = r.used
          /\ r'.count = r.count /\ r'.b = r.b /\ r'.uninstall = r.uninstall /\ r'.failed = r.failed
      BY <2>2, <3>1 DEF Registers
    <3>3. r' \in Registers
      BY <2>1, <2>2, <3>1 DEF Registers
    <3> QED
      BY <1>2, <2>1, <3>1, <3>2, <3>3 DEF BaseGPT, Base
  <2> QED
    BY <2>2, <2>3, KnownOnGPT DEF Preparing, OnGPT, Embedding
<1> QED
  BY <1>2, <1>5, <1>6, <1>7, ReadKeeps

(* The primary header is written.                                          *)
LEMMA WriteHeaderKeeps == ASSUME IInv, WriteHeader PROVE IInv'
<1>1. pc = "header1" /\ pc \in Embedding /\ pc \in OnGPT
  BY DEF WriteHeader, Embedding, OnGPT
<1>2. /\ pc \in Preparing /\ BaseGPT(r) /\ r.count \in Nat /\ (SizeB = 0 => r.b \in Nat)
      /\ r.lb \in Nat /\ r.header \in Seq(Nat)
  BY <1>1, ShownEmbedding, ShownGPT
<1>3. PICK loc \in Int, cells \in Seq(Nat) : loc = r.lb /\ loc \in Nat /\ cells = r.header
  BY <1>2
<1>4. PICK next : next = r
  OBVIOUS
<1>5. Known("header2", next) /\ "header2" \in Preparing
  BY <1>2, <1>4, KnownOnGPT DEF Embedding, Preparing, OnGPT
<1>6. device_write(loc, cells, "header2", next)
  BY <1>3, <1>4 DEF WriteHeader
<1> QED
  BY <1>2, <1>3, <1>5, <1>6, WriteKeeps

(* The secondary header is written.                                        *)
LEMMA WriteSecondKeeps == ASSUME IInv, WriteSecond PROVE IInv'
<1>1. pc = "header2" /\ pc \in Embedding /\ pc \in OnGPT
  BY DEF WriteSecond, Embedding, OnGPT
<1>2. /\ pc \in Preparing /\ BaseGPT(r) /\ r.count \in Nat /\ (SizeB = 0 => r.b \in Nat)
      /\ r.lb \in Nat /\ r.second \in Seq(Nat) /\ r.header[1 + ALTERNATE] \in Nat
  BY <1>1, ShownEmbedding, ShownGPT
<1>3. PICK loc \in Int : loc = r.lb * r.header[1 + ALTERNATE] /\ loc \in Nat
  <2>1. PICK x \in Nat, y \in Nat : x = r.lb /\ y = r.header[1 + ALTERNATE]
    BY <1>2
  <2>2. x * y \in Nat
    OBVIOUS
  <2> QED
    BY <2>1, <2>2
<1>4. PICK cells \in Seq(Nat) : cells = r.second
  BY <1>2
<1>5. PICK next : next = r
  OBVIOUS
<1>6. Known("save", next) /\ "save" \in Preparing
  BY <1>2, <1>5, KnownOnGPT DEF Preparing, Installing
<1>7. device_write(loc, cells, "save", next)
  BY <1>3, <1>4, <1>5 DEF WriteSecond
<1> QED
  BY <1>2, <1>3, <1>6, <1>7, WriteKeeps

(* The registers while stage 2 is written.                                 *)
LEMMA ShownInstalling ==
  ASSUME IInv, pc \in Installing
  PROVE  pc \in Preparing /\ Known(pc, r) /\ Base(r) /\ r \in Registers /\ (SizeB = 0 => r.b \in Nat)
<1>1. pc \in Preparing
  BY DEF Preparing
<1>2. Known(pc, r) /\ Base(r) /\ r \in Registers
  BY <1>1, Shown
<1> QED
  BY <1>1, <1>2 DEF Known

(* The timestamp is saved.                                                 *)
LEMMA SaveStampKeeps == ASSUME IInv, SaveStamp PROVE IInv'
<1>1. pc = "save" /\ pc \in Installing
  BY DEF SaveStamp, Installing
<1>2. pc \in Preparing /\ Base(r) /\ (SizeB = 0 => r.b \in Nat)
  BY <1>1, ShownInstalling
<1>3. PICK loc \in Int : loc = STAMP
  BY DEF STAMP
<1>4. PICK o \in device_read(dev, loc, 1) :
        /\ dev' = o.dev /\ IF o.ok THEN Only("table", [r EXCEPT !.stamp = o.data]) ELSE Abort
  BY <1>3 DEF SaveStamp, Read
<1>5. Process /\ UNCHANGED << undo, udfile, torn, unwritten >>
  BY DEF SaveStamp, Read
<1>6. ASSUME o.ok, o.data \in Seq(Nat)
      PROVE  exit' = exit /\ pc' \in Preparing /\ Known(pc', r')
  <2>1. PICK data \in Seq(Nat) : data = o.data
    BY <1>6
  <2>2. pc' = "table" /\ exit' = exit /\ r' = [r EXCEPT !.stamp = data]
    BY <1>4, <1>6, <2>1 DEF Only
  <2>3. Base(r') /\ (SizeB = 0 => r'.b \in Nat)
    BY <1>2, <2>2 DEF Base, Registers
  <2> QED
    BY <2>2, <2>3 DEF Base, Known, OnMBR, OnGPT, Embedding, Installing, Preparing
<1>7. 1 \in Nat
  OBVIOUS
<1> QED
  BY <1>2, <1>4, <1>5, <1>6, <1>7, ReadKeeps

(* The partition table is saved.                                           *)
LEMMA SaveTableKeeps == ASSUME IInv, SaveTable PROVE IInv'
<1>1. pc = "table" /\ pc \in Installing
  BY DEF SaveTable, Installing
<1>2. pc \in Preparing /\ Base(r) /\ (SizeB = 0 => r.b \in Nat)
  BY <1>1, ShownInstalling
<1>3. PICK loc \in Int, count \in Nat : loc = DISK_ID /\ count = TABLE_SIZE
  BY Sizes DEF DISK_ID
<1>4. PICK o \in device_read(dev, loc, count) :
        /\ dev' = o.dev /\ IF o.ok THEN Only("install", [r EXCEPT !.table = o.data, !.i = 1]) ELSE Abort
  BY <1>3 DEF SaveTable, Read
<1>5. Process /\ UNCHANGED << undo, udfile, torn, unwritten >>
  BY DEF SaveTable, Read
<1>6. ASSUME o.ok, o.data \in Seq(Nat)
      PROVE  exit' = exit /\ pc' \in Preparing /\ Known(pc', r')
  <2>1. PICK data \in Seq(Nat), i \in Nat : data = o.data /\ i = 1
    BY <1>6
  <2>2. pc' = "install" /\ exit' = exit /\ r' = [r EXCEPT !.table = data, !.i = i]
    BY <1>4, <1>6, <2>1 DEF Only
  <2>3. Base(r') /\ (SizeB = 0 => r'.b \in Nat) /\ r'.i = 1
    BY <1>2, <2>1, <2>2 DEF Base, Registers
  <2> QED
    BY <2>2, <2>3 DEF Base, Known, OnMBR, OnGPT, Embedding, Installing, Preparing
<1> QED
  BY <1>2, <1>4, <1>5, <1>6, ReadKeeps

(* Each write of the installation is of cells, and has its place before it *)
(* is stored in the boot sector.                                           *)
LEMMA InstallWrite ==
  ASSUME Base(r), SizeB = 0 => r.b \in Nat, r.i \in 1 .. 9, r.i > 2 => r.a \in Nat, r.i > 3 => r.b \in Nat
  PROVE  \E loc \in Int, cells \in Seq(Nat) :
           /\ loc = InstallWrites[r.i][1] /\ cells = InstallWrites[r.i][2]
           /\ cells = << >> => loc \in Nat
           /\ loc \in Nat => (r.i >= 2 => r.a \in Nat) /\ (r.i >= 3 => r.b \in Nat)
<1>1. r.a \in Int /\ r.b \in Int /\ r.stamp \in Seq(Nat) /\ r.table \in Seq(Nat)
  BY DEF Base, Registers
<1>2. SECTOR \in Nat /\ SizeA \in Nat /\ SizeA > 0 /\ SizeB \in Nat /\ STAGE2_SIZE - SizeA \in Int /\ SECTOR + SizeA \in Nat
      /\ (SizeB # 0 => STAGE2_SIZE - SizeA > 0)
  BY Sizes
<1>3. CASE r.i = 1
  <2>1. InstallWrites[r.i] = << 0, ImagePart(0, SECTOR) >>
    BY <1>3 DEF InstallWrites
  <2>2. ImagePart(0, SECTOR) \in Seq(Nat)
    BY <1>2, ImageCells
  <2> QED
    BY <1>3, <2>1, <2>2
<1>4. CASE r.i = 2
  <2>1. InstallWrites[r.i] = << r.a, ImagePart(SECTOR, SizeA) >>
    BY <1>4 DEF InstallWrites
  <2>2. ImagePart(SECTOR, SizeA) \in Seq(Nat) /\ ImagePart(SECTOR, SizeA) # << >>
    <3>1. PICK from \in Nat, count \in Int : from = SECTOR /\ count = SizeA /\ count > 0
      BY <1>2
    <3>2. ImagePart(from, count) \in Seq(Nat) /\ ImagePart(from, count) # << >>
      BY <3>1, ImageCells
    <3> QED
      BY <3>1, <3>2
  <2> QED
    BY <1>1, <1>4, <2>1, <2>2
<1>5. CASE r.i = 3
  <2>1. InstallWrites[r.i] = << r.b, ImagePart(SECTOR + SizeA, STAGE2_SIZE - SizeA) >>
    BY <1>5 DEF InstallWrites
  <2>2. PICK cells \in Seq(Nat) : cells = ImagePart(SECTOR + SizeA, STAGE2_SIZE - SizeA) /\ (SizeB # 0 => cells # << >>)
    BY <1>2, ImageCells
  <2>3. cells = << >> => r.b \in Nat
    BY <2>2
  <2>4. r.a \in Nat
    BY <1>5
  <2> QED
    BY <1>1, <1>5, <2>1, <2>2, <2>3, <2>4
<1>6. CASE r.i > 3
  <2>1. r.a \in Nat /\ r.b \in Nat
    BY <1>6
  <2>2. PICK loc \in Nat, cells \in Seq(Nat) : loc = InstallWrites[r.i][1] /\ cells = InstallWrites[r.i][2]
    <3>1. << SizeA >> \in Seq(Nat) /\ << SizeB >> \in Seq(Nat) /\ << r.a >> \in Seq(Nat) /\ << r.b >> \in Seq(Nat)
      BY <1>2, <2>1, OneCell
    <3>2. PARAMS \in Nat /\ PARAMS + 1 \in Nat /\ PARAMS + 2 \in Nat /\ PARAMS + 3 \in Nat /\ STAMP \in Nat /\ DISK_ID \in Nat
      BY DEF PARAMS, STAMP, DISK_ID
    <3>3. CASE r.i = 4
      <4>1. PICK loc \in Nat, cells \in Seq(Nat) : loc = PARAMS /\ cells = << SizeA >>
        BY <3>1, <3>2
      <4>2. InstallWrites[r.i] = << loc, cells >>
        BY <3>3, <4>1 DEF InstallWrites
      <4>3. loc = InstallWrites[r.i][1] /\ cells = InstallWrites[r.i][2]
        BY <4>2
      <4> QED
        BY <4>1, <4>3
    <3>4. CASE r.i = 5
      <4>1. PICK loc \in Nat, cells \in Seq(Nat) : loc = PARAMS + 1 /\ cells = << SizeB >>
        BY <3>1, <3>2
      <4>2. InstallWrites[r.i] = << loc, cells >>
        BY <3>4, <4>1 DEF InstallWrites
      <4>3. loc = InstallWrites[r.i][1] /\ cells = InstallWrites[r.i][2]
        BY <4>2
      <4> QED
        BY <4>1, <4>3
    <3>5. CASE r.i = 6
      <4>1. PICK loc \in Nat, cells \in Seq(Nat) : loc = PARAMS + 2 /\ cells = << r.a >>
        BY <3>1, <3>2
      <4>2. InstallWrites[r.i] = << loc, cells >>
        BY <3>5, <4>1 DEF InstallWrites
      <4>3. loc = InstallWrites[r.i][1] /\ cells = InstallWrites[r.i][2]
        BY <4>2
      <4> QED
        BY <4>1, <4>3
    <3>6. CASE r.i = 7
      <4>1. PICK loc \in Nat, cells \in Seq(Nat) : loc = PARAMS + 3 /\ cells = << r.b >>
        BY <3>1, <3>2
      <4>2. InstallWrites[r.i] = << loc, cells >>
        BY <3>6, <4>1 DEF InstallWrites
      <4>3. loc = InstallWrites[r.i][1] /\ cells = InstallWrites[r.i][2]
        BY <4>2
      <4> QED
        BY <4>1, <4>3
    <3>7. CASE r.i = 8
      <4>1. InstallWrites[r.i] = << STAMP, r.stamp >>
        BY <3>7 DEF InstallWrites
      <4> QED
        BY <1>1, <3>2, <4>1
    <3>8. CASE r.i = 9
      <4>1. InstallWrites[r.i] = << DISK_ID, r.table >>
        BY <3>8 DEF InstallWrites
      <4> QED
        BY <1>1, <3>2, <4>1
    <3>9. r.i = 4 \/ r.i = 5 \/ r.i = 6 \/ r.i = 7 \/ r.i = 8 \/ r.i = 9
      BY <1>6
    <3> QED
      BY <3>3, <3>4, <3>5, <3>6, <3>7, <3>8, <3>9
  <2>3. loc \in Int
    OBVIOUS
  <2> QED
    BY <2>1, <2>2, <2>3
<1>7. r.i = 1 \/ r.i = 2 \/ r.i = 3 \/ r.i > 3
  OBVIOUS
<1> QED
  BY <1>3, <1>4, <1>5, <1>6, <1>7

(* One write of the installation.                                          *)
LEMMA InstallKeeps == ASSUME IInv, Install PROVE IInv'
<1>1. pc = "install" /\ pc \in Installing
  BY DEF Install, Installing
<1>2. pc \in Preparing /\ Known(pc, r) /\ Base(r) /\ (SizeB = 0 => r.b \in Nat)
  BY <1>1, ShownInstalling
<1>3. r.i \in 1 .. 9 /\ (r.i > 2 => r.a \in Nat) /\ (r.i > 3 => r.b \in Nat)
  BY <1>1, <1>2 DEF Known
<1>4. PICK loc \in Int, cells \in Seq(Nat) :
        /\ loc = InstallWrites[r.i][1] /\ cells = InstallWrites[r.i][2]
        /\ cells = << >> => loc \in Nat
        /\ loc \in Nat => (r.i >= 2 => r.a \in Nat) /\ (r.i >= 3 => r.b \in Nat)
  BY <1>2, <1>3, InstallWrite
<1>5. PICK i \in Nat : i = r.i + 1
  BY <1>3
<1>6. PICK next : next = [r EXCEPT !.i = i]
  OBVIOUS
<1>7. Len(InstallWrites) = 9
  BY DEF InstallWrites
<1>8. PICK to : to = IF r.i < Len(InstallWrites) THEN "install" ELSE "commit"
  OBVIOUS
<1>9. to \in Preparing
  BY <1>8 DEF Preparing, Installing
<1>10. Base(next) /\ next.i = i /\ next.a = r.a /\ next.b = r.b
  BY <1>2, <1>6, BaseAt
<1>11. ASSUME loc \in Nat PROVE Known(to, next)
  <2>1. CASE r.i < 9
    <3>1. to = "install" /\ next.i \in 1 .. 9
      BY <1>3, <1>5, <1>7, <1>8, <1>10, <2>1
    <3>2. (next.i > 2 => next.a \in Nat) /\ (next.i > 3 => next.b \in Nat)
      BY SMTT(30), <1>3, <1>4, <1>5, <1>10, <1>11
    <3> QED
      BY <1>2, <1>10, <3>1, <3>2 DEF Base, Known, OnMBR, OnGPT, Embedding, Installing, Preparing
  <2>2. CASE ~(r.i < 9)
    <3>1. to = "commit"
      BY <1>7, <1>8, <2>2
    <3> QED
      BY <1>10, <3>1, BaseKnown
  <2> QED
    BY <2>1, <2>2
<1>12. device_write(loc, cells, to, next)
  BY <1>4, <1>5, <1>6, <1>8 DEF Install
<1> QED
  BY <1>2, <1>4, <1>9, <1>11, <1>12, WriteKeeps

(* The last flush of an installation.                                      *)
LEMMA CommitKeeps == ASSUME IInv, Commit PROVE IInv'
<1>1. pc = "commit" /\ pc \in Preparing
  BY DEF Commit, Preparing
<1>2. /\ Typed /\ Working(dev, undo, before, D) /\ torn = FALSE /\ undo \in Seq(Entries) /\ Len(undo) <= UNINSTALL_DATA_MAX
  BY <1>1, Preparings
<1>3. PICK o \in device_flush_cache(dev) :
        /\ dev' = o.dev
        /\ IF o.ok THEN pc' = "cleanup" /\ exit' = "success" /\ UNCHANGED r ELSE Abort
  BY DEF Commit
<1>4. Steady /\ undo' = undo /\ torn' = FALSE
  BY <1>2 DEF Commit, Steady
<1>5. /\ o.ok \in BOOLEAN /\ Moved(dev, o.dev, D)
      /\ Coherent(dev) => Coherent(o.dev)
  BY <1>2, FlushMoves DEF Working
<1>6. Halted(dev', undo', before, D, torn')
  <2>1. \A a \in D : Uncovered(undo, 1, a) => Stream(o.dev)[a] = before[a]
    BY <1>2, <1>5 DEF Working, Moved
  <2>2. DeviceOK(o.dev, D) /\ FirstHolds(undo, before, D)
    BY <1>2, <1>5 DEF Working, Moved
  <2> QED
    BY <1>3, <1>4, <2>1, <2>2 DEF Halted
<1>7. pc' = "cleanup" /\ r' = r /\ (exit' = "failure" \/ (exit' = "success" /\ Coherent(dev')))
  BY <1>2, <1>3, <1>5 DEF Abort, Working
<1>8. undo' \in Seq(Entries) /\ Len(undo') <= UNINSTALL_DATA_MAX /\ torn' \in BOOLEAN
  BY <1>2, <1>4
<1> QED
  BY <1>1, <1>2, <1>4, <1>6, <1>7, <1>8, ToCleanup
-----------------------------------------------------------------------------
(***************************************************************************)
(* The steps of the cleanup and of an uninstallation.                      *)
(***************************************************************************)
(* The steps away from an installation, and what is known there.           *)
Outside == {"shell", "load", "cleanup", "store", "uninstall", "close"}
General(s) == s \in Registers /\ s.used >= -1 /\ (s.gpt => s.lb > 0 /\ Len(s.header) = HEADER_SIZE)

(* Away from an installation only the types of the registers are known.    *)
LEMMA KnownOutside ==
  ASSUME NEW p \in Outside, NEW s
  PROVE  Known(p, s) <=> General(s)
<1>1. p \notin OnGPT /\ p \notin Embedding /\ p \notin Installing /\ p \notin OnMBR /\ p \notin Preparing
  BY DEF Outside, OnMBR, OnGPT, Embedding, Installing, Preparing
<1>2. p # "secondary" /\ p # "locate" /\ p \notin {"probe", "hints"} /\ p # "erase" /\ p # "install"
  BY DEF Outside
<1> QED
  BY <1>1, <1>2 DEF Known, General

(* A step to outside an installation keeps the types.                      *)
LEMMA TypedOutside ==
  ASSUME Typed, Process, pc' \in Outside, exit' \in {"none", "success", "failure", "killed"},
         torn' \in BOOLEAN, unwritten' \in BOOLEAN, undo' \in Seq(Entries), Len(undo') <= UNINSTALL_DATA_MAX,
         FileOK(udfile', D), General(r')
  PROVE  Typed' /\ D' = D /\ before' = before /\ pc' \notin Preparing
<1>1. original' = original /\ before' = before /\ runs' = runs /\ D' = D
  BY DEF Process, D
<1>2. pc' \in Pcs /\ pc' \notin Preparing
  BY DEF Outside, Pcs, Preparing, OnMBR, OnGPT, Installing
<1>3. Known(pc', r')
  BY KnownOutside
<1> QED
  BY <1>1, <1>2, <1>3 DEF Typed

(* The undo data are reversed, and used or kept.                           *)
LEMMA CleanupKeeps == ASSUME IInv, Cleanup PROVE IInv'
<1>1. /\ pc = "cleanup" /\ Typed /\ Halted(dev, undo, before, D, torn) /\ r.uninstall = FALSE /\ r.failed = FALSE
      /\ exit = "failure" \/ (exit = "success" /\ Coherent(dev))
  <2>1. pc = "cleanup" /\ Typed /\ Turning
    BY DEF Cleanup, IInv
  <2>2. r \in Registers
    BY <2>1 DEF Typed, Known
  <2> QED
    BY <2>1, <2>2 DEF Turning, Registers
<1>2. undo \in Seq(Entries) /\ Len(undo) <= UNINSTALL_DATA_MAX /\ FileOK(udfile, D) /\ General(r)
      /\ torn \in BOOLEAN /\ unwritten \in BOOLEAN
  BY <1>1, KnownOutside DEF Typed, Outside
<1>3. /\ Process /\ UNCHANGED << udfile, exit, torn, unwritten >> /\ undo' = Reverse(undo) /\ r' = [r EXCEPT !.i = 1]
      /\ IF exit = "failure" THEN pc' = "uninstall" /\ dev' = Dropped(dev)
         ELSE pc' = (IF r.file THEN "store" ELSE "close") /\ dev' = dev
  BY DEF Cleanup, reverse_uninstall_data
<1>4. PICK v : v = Reverse(undo)
  OBVIOUS
<1>5. /\ undo' = v /\ v \in Seq(Entries) /\ Len(v) = Len(undo) /\ LastHolds(v, before, D)
      /\ \A a : Uncovered(v, 1, a) => Uncovered(undo, 1, a)
  BY <1>1, <1>2, <1>3, <1>4, Reversed DEF Halted
<1>6. General(r') /\ r'.i = 1 /\ r'.uninstall = FALSE /\ r'.failed = FALSE
  BY <1>1, <1>2, <1>3 DEF General, Registers
<1>7. pc' \in Outside
  BY <1>1, <1>3 DEF Outside
<1>8. Typed' /\ D' = D /\ before' = before /\ pc' \notin Preparing
  BY <1>1, <1>2, <1>3, <1>5, <1>6, <1>7, TypedOutside
<1>9. CASE exit = "failure"
  <2>1. PICK e : e = Dropped(dev)
    OBVIOUS
  <2>2. pc' = "uninstall" /\ dev' = e /\ exit' = "failure" /\ torn' = torn
    BY <1>3, <1>9, <2>1
  <2>3. DeviceOK(e, D) /\ Coherent(e) /\ View(e) = Stream(dev)
    BY <1>1, <2>1, DroppedDevice DEF Halted
  <2>4. ~torn => Undoing(e, v, 1, before, D)
    BY <1>1, <1>5, <2>3 DEF Halted, Undoing
  <2>5. PICK n \in Nat : n = Len(v)
    BY <1>5
  <2>6. 1 \in 1 .. n + 1
    OBVIOUS
  <2>7. Reverting'
    BY <1>5, <1>6, <1>8, <2>2, <2>3, <2>4, <2>5, <2>6 DEF Reverting
  <2>8. Resting' /\ Loading' /\ Prepared' /\ Turning' /\ Storing' /\ Closing'
    BY <1>8, <2>2 DEF Resting, Loading, Prepared, Turning, Storing, Closing
  <2> QED
    BY <1>8, <2>7, <2>8 DEF IInv
<1>10. CASE exit = "success" /\ Coherent(dev)
  <2>1. pc' \in {"store", "close"} /\ dev' = dev /\ exit' = "success" /\ DeviceOK(dev, D)
    BY <1>1, <1>3, <1>10 DEF Halted
  <2>2. Storing'
    BY <1>5, <1>6, <1>8, <1>10, <2>1 DEF Storing
  <2>3. Closing'
    BY <1>6, <1>8, <2>1 DEF Closing
  <2>4. Resting' /\ Loading' /\ Prepared' /\ Turning' /\ Reverting'
    BY <1>8, <2>1 DEF Resting, Loading, Prepared, Turning, Reverting
  <2> QED
    BY <1>8, <2>2, <2>3, <2>4 DEF IInv
<1> QED
  BY <1>1, <1>9, <1>10

(* A file with all of the undo data, or one that shows it has not.         *)
LEMMA FileStored ==
  ASSUME NEW A, NEW b \in [A -> Nat], NEW u \in Seq(Entries), Len(u) <= UNINSTALL_DATA_MAX, LastHolds(u, b, A),
         NEW e, e = u \/ e = << >> \/ e = Front(u),
         NEW file, file = [n |-> Len(u), entries |-> e, of |-> b]
  PROVE  FileOK(file, A)
<1>1. PICK n \in Nat : n = Len(u)
  OBVIOUS
<1>2. CASE e = u
  BY <1>2 DEF FileOK
<1>3. CASE n > 0 /\ e # u
  <2>1. Len(e) # n
    <3>1. CASE e = << >>
      BY <1>3, <3>1
    <3>2. CASE e = Front(u)
      <4>1. e = SubSeq(u, 1, n - 1) /\ n - 1 \in Nat
        BY <1>1, <1>3, <3>2 DEF Front
      <4>2. Len(e) = n - 1
        BY <1>1, <4>1
      <4> QED
        BY <4>2
    <3> QED
      BY <1>3, <3>1, <3>2
  <2> QED
    BY <1>1, <2>1 DEF FileOK
<1>4. CASE n = 0
  <2>1. e = u
    <3>1. u = << >>
      BY <1>1, <1>4, EmptySeq
    <3>2. Front(u) = << >>
      BY <3>1 DEF Front
    <3> QED
      BY <3>1, <3>2
  <2> QED
    BY <1>2, <2>1
<1> QED
  BY <1>2, <1>3, <1>4

(* The undo data go to their file.                                         *)
LEMMA StoreKeeps == ASSUME IInv, store_uninstall_data PROVE IInv'
<1>1. /\ pc = "store" /\ Typed /\ DeviceOK(dev, D) /\ LastHolds(undo, before, D) /\ exit = "success" /\ ~r.uninstall
  BY DEF store_uninstall_data, IInv, Storing
<1>2. /\ undo \in Seq(Entries) /\ Len(undo) <= UNINSTALL_DATA_MAX /\ FileOK(udfile, D) /\ General(r)
      /\ torn \in BOOLEAN /\ unwritten \in BOOLEAN /\ before \in [D -> Nat]
  BY <1>1, KnownOutside DEF Typed, Outside
<1>3. Process /\ UNCHANGED << undo, r, exit, torn, unwritten >> /\ pc' = "close"
  BY DEF store_uninstall_data
<1>4. DeviceOK(dev', D)
  <2>1. dev' = dev \/ (dev.faults < MaxFaults /\ dev' = [dev EXCEPT !.faults = @ + 1])
    BY DEF store_uninstall_data
  <2>2. ASSUME dev.faults < MaxFaults, dev' = [dev EXCEPT !.faults = @ + 1]
        PROVE  DeviceOK(dev', D)
    <3>1. PICK o : o = [dev |-> dev', ok |-> FALSE]
      OBVIOUS
    <3>2. o \in Fault(dev) /\ o.dev = dev'
      BY <2>2, <3>1 DEF Fault, Failed
    <3>3. PICK d : d = dev
      OBVIOUS
    <3>4. Moved(d, o.dev, D)
      BY <1>1, <3>2, <3>3, FaultMoves
    <3> QED
      BY <3>2, <3>4 DEF Moved
  <2> QED
    BY <1>1, <2>1, <2>2
<1>5. FileOK(udfile', D)
  <2>1. \/ udfile' = udfile
        \/ \E e \in {undo, << >>, Front(undo)} : udfile' = [n |-> Len(undo), entries |-> e, of |-> before]
    BY DEF store_uninstall_data
  <2>2. ASSUME NEW e \in {undo, << >>, Front(undo)}, udfile' = [n |-> Len(undo), entries |-> e, of |-> before]
        PROVE  FileOK(udfile', D)
    <3>1. PICK u : u = undo
      OBVIOUS
    <3>2. PICK c \in {u, << >>, Front(u)}, b \in [D -> Nat] : c = e /\ b = before
      BY <1>2, <3>1
    <3>3. PICK file : file = [n |-> Len(u), entries |-> c, of |-> b]
      OBVIOUS
    <3>4. FileOK(file, D)
      BY <1>1, <1>2, <3>1, <3>2, <3>3, FileStored
    <3> QED
      BY <2>2, <3>1, <3>2, <3>3, <3>4
  <2> QED
    BY <1>2, <2>1, <2>2
<1>6. Typed' /\ D' = D /\ before' = before /\ pc' \notin Preparing
  BY <1>1, <1>2, <1>3, <1>5, TypedOutside DEF Outside
<1>7. Closing'
  BY <1>1, <1>3, <1>4, <1>6 DEF Closing
<1>8. Resting' /\ Loading' /\ Prepared' /\ Turning' /\ Storing' /\ Reverting'
  BY <1>3, <1>6 DEF Resting, Loading, Prepared, Turning, Storing, Reverting
<1> QED
  BY <1>6, <1>7, <1>8 DEF IInv

(* The undo data come from their file.                                     *)
LEMMA LoadKeeps == ASSUME IInv, load_uninstall_data PROVE IInv'
<1>1. /\ pc = "load" /\ Typed /\ DeviceOK(dev, D) /\ Coherent(dev) /\ Clean(dev) /\ dev.disk = before
      /\ r.uninstall = TRUE /\ r.failed = FALSE /\ r.i = 1
  <2>1. pc = "load" /\ Typed /\ Loading
    BY DEF load_uninstall_data, IInv
  <2>2. r \in Registers
    BY <2>1 DEF Typed, Known
  <2> QED
    BY <2>1, <2>2 DEF Loading, Registers
<1>2. /\ undo \in Seq(Entries) /\ Len(undo) <= UNINSTALL_DATA_MAX /\ FileOK(udfile, D) /\ General(r)
      /\ torn \in BOOLEAN /\ unwritten \in BOOLEAN /\ before \in [D -> Nat]
      /\ exit \in {"none", "success", "failure", "killed"}
  BY <1>1, KnownOutside DEF Typed, Outside
<1>3. Process /\ UNCHANGED << udfile, r, torn, unwritten >>
  BY DEF load_uninstall_data
<1>4. CASE pc' = "uninstall" /\ undo' = udfile.entries /\ dev' = Dropped(dev) /\ exit' = exit /\ Len(udfile.entries) = udfile.n
  <2>1. PICK e, u : e = Dropped(dev) /\ u = udfile.entries
    OBVIOUS
  <2>2. DeviceOK(e, D) /\ Coherent(e) /\ View(e) = Stream(dev)
    BY <1>1, <2>1, DroppedDevice
  <2>3. \A a \in D : Stream(dev)[a] = before[a]
    BY <1>1, <1>2 DEF Stream, Clean
  <2>4. u \in Seq(Entries) /\ Len(u) <= UNINSTALL_DATA_MAX /\ LastHolds(u, udfile.of, D)
    BY <1>2, <1>4, <2>1 DEF FileOK
  <2>5. Fits(before, udfile, D) => Undoing(e, u, 1, udfile.of, D)
    BY <2>1, <2>2, <2>3, <2>4 DEF Fits, Undoing
  <2>6. PICK n \in Nat : n = Len(u)
    BY <2>4
  <2>7. 1 \in 1 .. n + 1
    OBVIOUS
  <2>8. Typed' /\ D' = D /\ before' = before /\ pc' \notin Preparing
    BY <1>1, <1>2, <1>3, <1>4, <2>1, <2>4, TypedOutside DEF Outside
  <2>9. Reverting'
    BY <1>1, <1>3, <1>4, <2>1, <2>2, <2>5, <2>6, <2>7, <2>8 DEF Reverting
  <2>10. Resting' /\ Loading' /\ Prepared' /\ Turning' /\ Storing' /\ Closing'
    BY <1>4, <2>8 DEF Resting, Loading, Prepared, Turning, Storing, Closing
  <2> QED
    BY <2>8, <2>9, <2>10 DEF IInv
<1>5. CASE pc' = "close" /\ exit' = "failure" /\ UNCHANGED << undo, dev >>
  <2>1. Typed' /\ D' = D /\ before' = before /\ pc' \notin Preparing
    BY <1>1, <1>2, <1>3, <1>5, TypedOutside DEF Outside
  <2>2. Closing'
    BY <1>1, <1>3, <1>5, <2>1 DEF Closing
  <2>3. Resting' /\ Loading' /\ Prepared' /\ Turning' /\ Storing' /\ Reverting'
    BY <1>5, <2>1 DEF Resting, Loading, Prepared, Turning, Storing, Reverting
  <2> QED
    BY <2>1, <2>2, <2>3 DEF IInv
<1> QED
  BY <1>4, <1>5 DEF load_uninstall_data

(* What one entry does to the device: it is there, unless that is noted.   *)
EntryPut(d, e, A, entry, failed) ==
  /\ DeviceOK(e, A)
  /\ ~failed /\ Coherent(d) =>
       /\ Coherent(e)
       /\ \A a \in A : View(e)[a] = IF Covers(entry, a) THEN entry.data[a - entry.loc + 1] ELSE View(d)[a]

(* An entry is put back, or it is known that it is not.                    *)
LEMMA FirstTry ==
  ASSUME NEW A, Addresses(A), NEW d, DeviceOK(d, A), NEW entry \in Entries,
         NEW o \in device_put(d, entry.loc, entry.data)
  PROVE  o.ok \in BOOLEAN /\ EntryPut(d, o.dev, A, entry, ~o.ok)
<1>1. PICK loc \in Int, cells \in Seq(Nat) : loc = entry.loc /\ cells = entry.data /\ loc \in Nat
  BY DEF Entries
<1>2. PutTypes(o, d, A, loc, cells)
  BY <1>1, DevicePut
<1>3. ASSUME o.ok, Coherent(d)
      PROVE  /\ Coherent(o.dev)
             /\ \A a \in A : View(o.dev)[a] = IF Covers(entry, a) THEN entry.data[a - entry.loc + 1] ELSE View(d)[a]
  BY <1>3, PutOnce
<1> QED
  BY <1>2, <1>3 DEF PutTypes, EntryPut

(* The retry on an empty cache.                                            *)
LEMMA SecondTry ==
  ASSUME NEW A, Addresses(A), NEW d, DeviceOK(d, A), NEW entry \in Entries,
         NEW o \in device_put(d, entry.loc, entry.data),
         NEW f \in device_flush_cache(o.dev),
         NEW again \in device_put(Dropped(f.dev), entry.loc, entry.data)
  PROVE  f.ok \in BOOLEAN /\ again.ok \in BOOLEAN /\ EntryPut(d, again.dev, A, entry, ~f.ok \/ ~again.ok)
<1>1. DeviceOK(o.dev, A)
  BY FirstTry DEF EntryPut
<1>2. f.ok \in BOOLEAN /\ DeviceOK(f.dev, A)
  BY <1>1, FlushMoves DEF Moved
<1>3. PICK e : e = Dropped(f.dev)
  OBVIOUS
<1>4. DeviceOK(e, A)
  BY <1>2, <1>3, DroppedDevice
<1>5. again.ok \in BOOLEAN /\ DeviceOK(again.dev, A)
  BY <1>3, <1>4, FirstTry DEF EntryPut
<1>6. ASSUME f.ok, again.ok, Coherent(d)
      PROVE  /\ Coherent(again.dev)
             /\ \A a \in A : View(again.dev)[a] = IF Covers(entry, a) THEN entry.data[a - entry.loc + 1] ELSE View(d)[a]
  BY <1>6, PutAgain
<1> QED
  BY <1>2, <1>5, <1>6 DEF EntryPut

(* What holds while entries are put back.                                  *)
LEMMA RevertingShown ==
  ASSUME IInv, pc = "uninstall"
  PROVE  /\ Typed /\ Reverting /\ DeviceOK(dev, D) /\ r.uninstall \in BOOLEAN /\ r.failed \in BOOLEAN
         /\ undo \in Seq(Entries) /\ Len(undo) <= UNINSTALL_DATA_MAX /\ Addresses(D)
         /\ FileOK(udfile, D) /\ General(r) /\ torn \in BOOLEAN /\ unwritten \in BOOLEAN
         /\ exit \in {"none", "success", "failure", "killed"}
         /\ r.i \in 1 .. Len(undo) + 1 /\ Len(undo) \in Nat
<1>1. Typed /\ Reverting /\ General(r)
  BY KnownOutside DEF IInv, Typed, Outside
<1>2. r.uninstall \in BOOLEAN /\ r.failed \in BOOLEAN
  BY <1>1 DEF General, Registers
<1> QED
  BY <1>1, <1>2 DEF Typed, Reverting

(* One entry is put back.                                                  *)
LEMMA UndoEntryKeeps == ASSUME IInv, UndoEntry PROVE IInv'
<1>1. /\ pc = "uninstall" /\ pc' = "uninstall" /\ Process /\ UNCHANGED << undo, udfile, exit, torn, unwritten >>
      /\ r.i <= Len(undo)
  BY DEF UndoEntry
<1>2. /\ Typed /\ Reverting /\ DeviceOK(dev, D) /\ r.uninstall \in BOOLEAN /\ r.failed \in BOOLEAN
      /\ undo \in Seq(Entries) /\ Len(undo) <= UNINSTALL_DATA_MAX /\ Addresses(D)
      /\ FileOK(udfile, D) /\ General(r) /\ torn \in BOOLEAN /\ unwritten \in BOOLEAN
      /\ exit \in {"none", "success", "failure", "killed"}
      /\ r.i \in 1 .. Len(undo) + 1 /\ Len(undo) \in Nat
  BY <1>1, RevertingShown
<1>3. PICK k \in 1 .. Len(undo), i \in Nat : k = r.i /\ i = k + 1 /\ i \in 1 .. Len(undo) + 1
  BY <1>1, <1>2
<1>4. PICK entry \in Entries : entry = undo[k]
  BY <1>2
<1>5. PICK d : d = dev
  BY SMTT(30)
<1>6. PICK o \in device_put(d, entry.loc, entry.data) :
        IF o.ok THEN dev' = o.dev /\ r' = [r EXCEPT !.i = @ + 1]
        ELSE \E f \in device_flush_cache(o.dev) :
             \E again \in device_put(Dropped(f.dev), entry.loc, entry.data) :
               /\ dev' = again.dev
               /\ r' = [r EXCEPT !.i = @ + 1, !.failed = @ \/ ~f.ok \/ ~again.ok]
  BY <1>3, <1>4, <1>5 DEF UndoEntry
<1>7. /\ General(r') /\ r'.i = i /\ r'.uninstall = r.uninstall /\ r'.failed \in BOOLEAN
      /\ DeviceOK(dev', D) /\ (~r'.failed => ~r.failed /\ EntryPut(d, dev', D, entry, FALSE))
  <2>1. CASE o.ok
    <3>1. o.ok = TRUE /\ EntryPut(d, o.dev, D, entry, ~o.ok)
      BY <1>2, <1>5, <2>1, FirstTry
    <3>2. EntryPut(d, o.dev, D, entry, FALSE)
      BY <3>1 DEF EntryPut
    <3>3. r' = [r EXCEPT !.i = i] /\ dev' = o.dev
      BY <1>3, <1>6, <2>1
    <3>4. General(r') /\ r'.i = i /\ r'.uninstall = r.uninstall /\ r'.failed = r.failed
      BY <1>2, <3>3 DEF General, Registers
    <3> QED
      BY <1>2, <3>2, <3>3, <3>4 DEF EntryPut
  <2>2. CASE ~o.ok
    <3>0. PICK f \in device_flush_cache(o.dev) :
            \E again \in device_put(Dropped(f.dev), entry.loc, entry.data) :
              /\ dev' = again.dev
              /\ r' = [r EXCEPT !.i = @ + 1, !.failed = @ \/ ~f.ok \/ ~again.ok]
      BY <1>6, <2>2
    <3>1. PICK again \in device_put(Dropped(f.dev), entry.loc, entry.data) :
            /\ dev' = again.dev
            /\ r' = [r EXCEPT !.i = @ + 1, !.failed = @ \/ ~f.ok \/ ~again.ok]
      BY <3>0
    <3>2. f.ok \in BOOLEAN /\ again.ok \in BOOLEAN /\ EntryPut(d, again.dev, D, entry, ~f.ok \/ ~again.ok)
      BY <1>2, <1>5, <3>0, <3>1, SecondTry
    <3>3. PICK failed \in BOOLEAN : failed = (r.failed \/ ~f.ok \/ ~again.ok)
      OBVIOUS
    <3>4. r' = [r EXCEPT !.i = i, !.failed = failed]
      BY <1>3, <3>1, <3>3
    <3>5. General(r') /\ r'.i = i /\ r'.failed = failed /\ r'.uninstall = r.uninstall
      BY ZenonT(40), <1>2, <1>3, <3>3, <3>4 DEF General, Registers
    <3>6. ~failed => ~r.failed /\ f.ok /\ again.ok
      BY <1>2, <3>2, <3>3
    <3>7. ~failed => EntryPut(d, again.dev, D, entry, FALSE)
      BY <3>2, <3>6 DEF EntryPut
    <3> QED
      BY <3>1, <3>2, <3>5, <3>6, <3>7 DEF EntryPut
  <2> QED
    BY <2>1, <2>2
<1>8. Typed' /\ D' = D /\ before' = before /\ pc' \notin Preparing
  BY <1>1, <1>2, <1>7, TypedOutside DEF Outside
<1>9. ASSUME ~r'.failed
      PROVE  /\ Coherent(dev')
             /\ r.uninstall /\ Fits(before, udfile, D) => Undoing(dev', undo, i, udfile.of, D)
             /\ ~r.uninstall /\ ~torn => Undoing(dev', undo, i, before, D)
  <2>1. PICK e : e = dev'
    OBVIOUS
  <2>2. EntryPut(d, e, D, entry, FALSE) /\ ~r.failed
    BY <1>7, <1>9, <2>1
  <2>3. /\ Coherent(d)
        /\ r.uninstall /\ Fits(before, udfile, D) => Undoing(d, undo, k, udfile.of, D)
        /\ ~r.uninstall /\ ~torn => Undoing(d, undo, k, before, D)
    BY <1>1, <1>2, <1>3, <1>5, <2>2 DEF Reverting
  <2>4. PICK u \in Seq(Entries) : u = undo
    BY <1>2
  <2>5. ASSUME NEW t, Undoing(d, u, k, t, D) PROVE Undoing(e, u, i, t, D)
    <3>1. k \in 1 .. Len(u) /\ entry = u[k]
      BY <1>4, <2>4
    <3>2. \A a \in D : View(e)[a] = IF Covers(u[k], a) THEN u[k].data[a - u[k].loc + 1] ELSE View(d)[a]
      BY <2>2, <2>3, <3>1 DEF EntryPut
    <3>3. Undoing(e, u, k + 1, t, D)
      BY <2>5, <3>1, <3>2, PutBack
    <3> QED
      BY <1>3, <3>3
  <2>6. Coherent(e)
    BY <2>2, <2>3 DEF EntryPut
  <2> QED
    BY <2>1, <2>3, <2>4, <2>5, <2>6
<1>10. Reverting'
  BY <1>1, <1>2, <1>3, <1>7, <1>8, <1>9 DEF Reverting
<1>11. Resting' /\ Loading' /\ Prepared' /\ Turning' /\ Storing' /\ Closing'
  BY <1>1, <1>8 DEF Resting, Loading, Prepared, Turning, Storing, Closing
<1> QED
  BY <1>8, <1>10, <1>11 DEF IInv

(* With nothing left to write back and a clean cache, the stream has all.  *)
LEMMA UndoneAll ==
  ASSUME NEW A, NEW d, NEW e, Moved(d, e, A), ~e.dirty, NEW u \in Seq(Entries), NEW i, i = Len(u) + 1, NEW t,
         Undoing(d, u, i, t, A)
  PROVE  \A a \in A : Stream(e)[a] = t[a]
<1>1. DeviceOK(e, A) /\ e.disk \in [A -> Nat]
  BY DEF Moved, DeviceOK
<1>2. ASSUME NEW a \in A PROVE Stream(e)[a] = t[a]
  <2>1. PICK n \in Nat : n = Len(u)
    OBVIOUS
  <2>2. Uncovered(u, i, a)
    BY <2>1 DEF Uncovered
  <2>3. View(d)[a] = t[a]
    BY <2>2 DEF Undoing
  <2>4. View(e)[a] = View(d)[a]
    BY DEF Moved
  <2>5. View(e)[a] = Stream(e)[a]
    BY <1>1 DEF View
  <2> QED
    BY <2>3, <2>4, <2>5
<1> QED
  BY <1>2

(* The last flush of an uninstallation.                                    *)
LEMMA UninstalledKeeps == ASSUME IInv, Uninstalled PROVE IInv'
<1>1. /\ pc = "uninstall" /\ pc' = "close" /\ Process /\ UNCHANGED << undo, udfile, torn, unwritten >>
      /\ r.i > Len(undo)
  BY DEF Uninstalled
<1>2. /\ Typed /\ Reverting /\ DeviceOK(dev, D) /\ r.uninstall \in BOOLEAN /\ r.failed \in BOOLEAN
      /\ undo \in Seq(Entries) /\ Len(undo) <= UNINSTALL_DATA_MAX /\ Addresses(D)
      /\ FileOK(udfile, D) /\ General(r) /\ torn \in BOOLEAN /\ unwritten \in BOOLEAN
      /\ exit \in {"none", "success", "failure", "killed"}
      /\ r.i \in 1 .. Len(undo) + 1 /\ Len(undo) \in Nat
  BY <1>1, RevertingShown
<1>0. PICK d : d = dev
  OBVIOUS
<1>3. PICK i \in Nat, u \in Seq(Entries) : i = r.i /\ u = undo /\ i = Len(u) + 1
  BY <1>1, <1>2
<1>4. PICK o \in device_flush_cache(d) :
        /\ dev' = o.dev
        /\ r' = [r EXCEPT !.failed = @ \/ ~o.ok]
        /\ exit' = IF ~r.uninstall THEN exit ELSE IF r'.failed THEN "failure" ELSE "success"
  BY <1>0 DEF Uninstalled
<1>5. o.ok \in BOOLEAN /\ Moved(d, o.dev, D) /\ (o.ok => ~o.dev.dirty)
  BY <1>0, <1>2, FlushMoves
<1>6. PICK failed \in BOOLEAN : failed = (r.failed \/ ~o.ok)
  OBVIOUS
<1>7. General(r') /\ r'.failed = failed /\ r'.uninstall = r.uninstall
  <2>1. r' = [r EXCEPT !.failed = failed]
    BY <1>4, <1>6
  <2> QED
    BY <1>2, <2>1 DEF General, Registers
<1>8. /\ r.uninstall => exit' = (IF failed THEN "failure" ELSE "success")
      /\ ~r.uninstall => exit' = "failure"
  BY <1>1, <1>2, <1>4, <1>7 DEF Reverting
<1>9. Typed' /\ D' = D /\ before' = before /\ pc' \notin Preparing
  <2>1. exit' \in {"none", "success", "failure", "killed"}
    BY <1>2, <1>8
  <2> QED
    BY <1>1, <1>2, <1>7, <2>1, TypedOutside DEF Outside
<1>10. ASSUME ~failed
       PROVE  /\ r.uninstall => udfile.entries \in Seq(Entries) /\ udfile.of \in [D -> Nat]
              /\ r.uninstall /\ Fits(before, udfile, D) => \A a \in D : Stream(o.dev)[a] = udfile.of[a]
              /\ ~r.uninstall /\ ~torn => \A a \in D : Stream(o.dev)[a] = before[a]
  <2>1. ~r.failed /\ ~o.dev.dirty
    BY <1>5, <1>6, <1>10
  <2>2. /\ r.uninstall /\ Fits(before, udfile, D) => Undoing(d, u, i, udfile.of, D)
        /\ ~r.uninstall /\ ~torn => Undoing(d, u, i, before, D)
        /\ r.uninstall => undo = udfile.entries /\ Len(undo) = udfile.n
    BY <1>0, <1>1, <1>2, <1>3, <2>1 DEF Reverting
  <2>3. r.uninstall => udfile.entries \in Seq(Entries) /\ udfile.of \in [D -> Nat]
    BY <1>2, <2>2 DEF FileOK
  <2>4. ASSUME NEW t, Undoing(d, u, i, t, D) PROVE \A a \in D : Stream(o.dev)[a] = t[a]
    BY <1>3, <1>5, <2>1, <2>4, UndoneAll
  <2> QED
    BY <2>2, <2>3, <2>4
<1>11. Closing'
  <2>1. DeviceOK(dev', D)
    BY <1>4, <1>5 DEF Moved
  <2>2. exit' \in {"success", "failure"}
    BY <1>2, <1>8
  <2>3. ASSUME exit' = "failure", ~r'.uninstall, ~r'.failed, ~torn' PROVE \A a \in D : Stream(dev')[a] = before[a]
    BY <1>1, <1>4, <1>7, <1>10, <2>3
  <2>4. ASSUME exit' = "success", r'.uninstall
        PROVE  /\ udfile'.entries \in Seq(Entries) /\ udfile'.of \in [D -> Nat]
               /\ Fits(before, udfile, D) => \A a \in D : Stream(dev')[a] = udfile'.of[a]
    <3>1. ~failed /\ r.uninstall
      BY <1>7, <1>8, <2>4
    <3> QED
      BY <1>1, <1>4, <1>10, <3>1
  <2> QED
    BY <1>1, <1>9, <2>1, <2>2, <2>3, <2>4 DEF Closing
<1>12. Resting' /\ Loading' /\ Prepared' /\ Turning' /\ Storing' /\ Reverting'
  BY <1>1, <1>9 DEF Resting, Loading, Prepared, Turning, Storing, Reverting
<1> QED
  BY <1>9, <1>11, <1>12 DEF IInv
-----------------------------------------------------------------------------
(* What is on the device when the program ends.                            *)
LEMMA ClosedDevice ==
  ASSUME NEW A, NEW d, DeviceOK(d, A) \/ Idle(d, A), NEW o \in Sync(d)
  PROVE  /\ o.ok \in BOOLEAN /\ o.dev.disk \in [A -> Nat] /\ o.dev.faults \in 0 .. MaxFaults
         /\ o.ok => o.dev.disk = Stream(d)
<1>1. CASE DeviceOK(d, A)
  <2>1. o.ok \in BOOLEAN /\ Moved(d, o.dev, A) /\ Stream(o.dev) = Stream(d) /\ (o.ok => o.dev.pending = NoBlock)
    BY <1>1, SyncMoves
  <2>2. o.dev.disk \in [A -> Nat] /\ o.dev.faults \in 0 .. MaxFaults
    BY <2>1 DEF Moved, DeviceOK
  <2>3. ASSUME o.ok PROVE o.dev.disk = Stream(o.dev)
    BY <2>1, <2>2, <2>3 DEF Stream
  <2> QED
    BY <2>1, <2>2, <2>3
<1>2. CASE Idle(d, A)
  <2>1. d.pending = NoBlock /\ d.disk \in [A -> Nat] /\ d.faults \in 0 .. MaxFaults
    BY <1>2 DEF Idle
  <2>2. o = [dev |-> d, ok |-> TRUE]
    BY <2>1 DEF Sync, Done
  <2>3. Stream(d) = d.disk
    BY <2>1 DEF Stream
  <2> QED
    BY <2>1, <2>2, <2>3
<1> QED
  BY <1>1, <1>2

(* The stream is closed, and the promises of the command are kept.         *)
LEMMA CloseKeeps == ASSUME IInv, Close PROVE IInv'
<1>1. pc = "close" /\ pc' = "shell" /\ Process /\ UNCHANGED << undo, udfile, r, exit, torn >>
  BY DEF Close
<1>2. /\ Typed /\ Closing
      /\ undo \in Seq(Entries) /\ Len(undo) <= UNINSTALL_DATA_MAX /\ FileOK(udfile, D) /\ General(r)
      /\ torn \in BOOLEAN /\ before \in [D -> Nat]
  BY <1>1, KnownOutside DEF IInv, Typed, Outside
<1>3. PICK d : d = dev
  OBVIOUS
<1>4. PICK o \in Sync(d) : dev' = Opened(o.dev.disk, o.dev.faults) /\ unwritten' = ~o.ok
  BY <1>3 DEF Close
<1>5. /\ o.ok \in BOOLEAN /\ o.dev.disk \in [D -> Nat] /\ o.dev.faults \in 0 .. MaxFaults
      /\ o.ok => o.dev.disk = Stream(d)
  <2>1. DeviceOK(d, D) \/ Idle(d, D)
    BY <1>1, <1>2, <1>3 DEF Closing
  <2> QED
    BY <2>1, ClosedDevice
<1>6. PICK disk \in [D -> Nat], faults \in 0 .. MaxFaults : disk = o.dev.disk /\ faults = o.dev.faults
  BY <1>5
<1>7. Idle(dev', D) /\ dev'.disk = disk
  <2>1. Idle(Opened(disk, faults), D) /\ Opened(disk, faults).disk = disk
    BY OpenedIdle
  <2> QED
    BY <1>4, <1>6, <2>1
<1>8. unwritten' \in BOOLEAN /\ (~unwritten' => disk = Stream(d))
  BY <1>4, <1>5, <1>6
<1>9. Typed' /\ D' = D /\ before' = before /\ pc' \notin Preparing
  <2>1. exit' \in {"none", "success", "failure", "killed"}
    BY <1>1, <1>2 DEF Typed
  <2> QED
    BY <1>1, <1>2, <1>8, <2>1, TypedOutside DEF Outside
<1>10. FailedInstallUndone'
  <2>1. ASSUME exit = "failure", ~r.uninstall, ~r.failed, ~unwritten', ~torn PROVE disk = before
    <3>1. \A a \in D : disk[a] = before[a]
      BY <1>1, <1>2, <1>3, <1>8, <2>1 DEF Closing
    <3> QED
      BY <1>2, <3>1
  <2> QED
    BY <1>1, <1>7, <1>9, <2>1 DEF FailedInstallUndone, Exited, Disk
<1>11. UninstallRestores'
  <2>1. ASSUME exit = "success", r.uninstall, ~unwritten',
               \A a \in D : before[a] = udfile.of[a] \/ \E k \in DOMAIN udfile.entries : Covers(udfile.entries[k], a)
        PROVE  disk = udfile.of
    <3>1. udfile.entries \in Seq(Entries) /\ udfile.of \in [D -> Nat]
      BY <1>1, <1>2, <2>1 DEF Closing
    <3>2. Fits(before, udfile, D)
      <4>1. DOMAIN udfile.entries = 1 .. Len(udfile.entries)
        BY <3>1
      <4> QED
        BY <2>1, <4>1 DEF Fits, Uncovered
    <3>3. \A a \in D : disk[a] = udfile.of[a]
      BY <1>1, <1>2, <1>3, <1>8, <2>1, <3>2 DEF Closing
    <3> QED
      BY <3>1, <3>3
  <2>2. DOMAIN dev'.disk = D
    BY <1>7
  <2> QED
    BY <1>1, <1>7, <1>9, <2>1, <2>2 DEF UninstallRestores, Exited, Disk
<1>12. Resting'
  BY <1>7, <1>9, <1>10, <1>11 DEF Resting
<1>13. Loading' /\ Prepared' /\ Turning' /\ Storing' /\ Reverting' /\ Closing'
  BY <1>1, <1>9 DEF Loading, Prepared, Turning, Storing, Reverting, Closing
<1> QED
  BY <1>9, <1>12, <1>13 DEF IInv
-----------------------------------------------------------------------------
(***************************************************************************)
(* The commands, and the theorems.                                         *)
(***************************************************************************)
(* What the options leave in the registers.                                *)
Started(s) ==
  s \in Registers /\ s.used = -1 /\ s.gpt = FALSE /\ s.i = 1 /\ s.failed = FALSE

(* The registers at the start of the program.                              *)
LEMMA NothingStarted == Started(Nothing) /\ General(Nothing)
<1>1. << >> \in Seq(Nat)
  OBVIOUS
<1>2. Started(Nothing)
  BY <1>1 DEF Started, Nothing, Registers
<1> QED
  BY <1>2 DEF Started, General

(* The number of a partition is a number, whatever the argument is.        *)
LEMMA PartNumbers == \A arg : NumberOf(arg) \in SUBSET Nat
<1>1. \A arg \in DOMAIN Numbers : Numbers[arg] \in Nat
  BY DEF Numbers
<1>2. AnyNumber \in SUBSET Nat
  BY DEF AnyNumber
<1> QED
  BY <1>1, <1>2 DEF NumberOf

(* Every argument list is run, printed about or refused.                   *)
LEMMA OptionsRead ==
  ASSUME NEW argv
  PROVE  Parsed(argv).verdict \in {"run", "success", "failure"} /\ Started(Parsed(argv).r)
<1>1. PICK m \in BOOLEAN, n \in BOOLEAN, o \in BOOLEAN :
        m = Given(argv, "--force-mbr") /\ n = Given(argv, "--uninstall") /\ o = Given(argv, "--uninstall-data-file=")
  BY DEF Given
<1>2. \E part \in SUBSET Nat :
        Parsed(argv).r = [Nothing EXCEPT !.force = m, !.uninstall = n, !.file = o, !.part = part]
  BY <1>1, PartNumbers DEF Parsed
<1>3. PICK part \in SUBSET Nat :
        Parsed(argv).r = [Nothing EXCEPT !.force = m, !.uninstall = n, !.file = o, !.part = part]
  BY <1>2
<1>4. Started(Parsed(argv).r)
  BY ZenonT(40), <1>1, <1>3, NothingStarted DEF Started, Registers
<1>5. Parsed(argv).verdict \in {"run", "success", "failure"}
  BY DEF Parsed
<1> QED
  BY <1>4, <1>5

(* The shell, before a command.                                            *)
LEMMA ReadyShown ==
  ASSUME IInv, Ready
  PROVE  /\ pc = "shell" /\ Typed /\ Idle(dev, D) /\ Addresses(D) /\ original \in [D -> Nat]
         /\ dev.disk \in [D -> Nat] /\ dev.faults \in 0 .. MaxFaults /\ FileOK(udfile, D) /\ runs + 1 \in 0 .. MaxRuns
<1>1. pc = "shell" /\ Typed /\ Idle(dev, D)
  BY DEF Ready, IInv, Resting
<1>2. runs + 1 \in 0 .. MaxRuns
  BY <1>1, LimineToolAssumption DEF Ready, Typed
<1> QED
  BY <1>1, <1>2 DEF Typed, Idle

(* A command that has not opened the device.                               *)
LEMMA Printed ==
  ASSUME IInv, Ready, runs' = runs + 1, r' = Nothing, exit' \in {"success", "failure"}, pc' = pc, Idle(dev', D),
         udfile' = udfile, original' = original, before' \in [D -> Nat], torn' \in BOOLEAN, unwritten' \in BOOLEAN,
         undo' \in Seq(Entries), Len(undo') <= UNINSTALL_DATA_MAX
  PROVE  IInv'
<1>1. /\ pc = "shell" /\ Typed /\ Idle(dev, D) /\ Addresses(D) /\ original \in [D -> Nat]
      /\ FileOK(udfile, D) /\ runs + 1 \in 0 .. MaxRuns
  BY ReadyShown
<1>2. D' = D /\ pc' = "shell"
  BY <1>1 DEF D
<1>3. Known(pc', r')
  BY <1>2, NothingStarted, KnownOutside DEF Outside
<1>4. Typed'
  BY <1>1, <1>2, <1>3 DEF Typed, Pcs
<1>5. Resting'
  BY <1>1, <1>2 DEF Resting, FailedInstallUndone, UninstallRestores, Exited
<1>6. Loading' /\ Prepared' /\ Turning' /\ Storing' /\ Reverting' /\ Closing'
  BY <1>2 DEF Loading, Prepared, Turning, Storing, Reverting, Closing, Preparing, OnMBR, OnGPT, Installing
<1> QED
  BY <1>4, <1>5, <1>6 DEF IInv

(* The commands that only print.                                           *)
LEMMA PrintingCommandKeeps ==
  ASSUME IInv, NEW status \in {"success", "failure"}, PrintingCommand(status)
  PROVE  IInv'
<1>1. /\ Ready /\ runs' = runs + 1 /\ exit' = status /\ r' = Nothing
      /\ UNCHANGED << pc, dev, undo, udfile, original, before, torn, unwritten, enrolled >>
  BY DEF PrintingCommand
<1>2. /\ before \in [D -> Nat] /\ torn \in BOOLEAN /\ unwritten \in BOOLEAN
      /\ undo \in Seq(Entries) /\ Len(undo) <= UNINSTALL_DATA_MAX /\ Idle(dev', D)
  BY <1>1, ReadyShown DEF Typed
<1> QED
  BY <1>1, <1>2, Printed

(* enroll-config touches nothing of bios-install but the count of faults.  *)
LEMMA EnrollKeeps ==
  ASSUME IInv, Ready, NEW argv, NEW file, enroll_config(argv, file)
  PROVE  IInv'
<1>1. /\ runs' = runs + 1 /\ r' = Nothing
      /\ UNCHANGED << pc, undo, udfile, original, before, torn, unwritten >>
  BY DEF enroll_config
<1>2. \/ dev' = dev /\ exit' \in {"success", "failure"}
      \/ \E sum \in {Checksum, Zeros} : EnrollIn(file, sum)
  BY DEF enroll_config, EnrollDone
<1>3. ASSUME NEW sum, EnrollIn(file, sum)
      PROVE  /\ exit' \in {"success", "failure"}
             /\ dev' = dev \/ (dev.faults < MaxFaults /\ dev' = [dev EXCEPT !.faults = @ + 1])
  BY <1>3 DEF EnrollIn, EnrollDone
<1>4. Idle(dev', D)
  <2>1. Idle(dev, D) /\ dev.faults \in 0 .. MaxFaults /\ MaxFaults \in Nat
    BY ReadyShown, BlockCacheAssumption
  <2>2. ASSUME dev.faults < MaxFaults, dev' = [dev EXCEPT !.faults = @ + 1]
        PROVE  Idle(dev', D)
    <3>1. PICK n \in 0 .. MaxFaults : n = dev.faults + 1
      BY <2>1, <2>2
    <3>2. dev' = [dev EXCEPT !.faults = n]
      BY <2>2, <3>1
    <3> QED
      BY <2>1, <3>2 DEF Idle
  <2> QED
    BY <1>2, <1>3, <2>1, <2>2
<1>5. exit' \in {"success", "failure"}
  BY <1>2, <1>3
<1>6. /\ before \in [D -> Nat] /\ torn \in BOOLEAN /\ unwritten \in BOOLEAN
      /\ undo \in Seq(Entries) /\ Len(undo) <= UNINSTALL_DATA_MAX
  BY <1>1, ReadyShown DEF Typed
<1> QED
  BY <1>1, <1>4, <1>5, <1>6, Printed

(* A command is refused, fails to open the device, or starts to install or *)
(* uninstall.                                                              *)
LEMMA BiosInstallKeeps ==
  ASSUME IInv, NEW argv, bios_install(argv)
  PROVE  IInv'
<1>1. PICK s : s = Parsed(argv)
  OBVIOUS
<1>2. /\ Ready
      /\ runs' = runs + 1 /\ before' = dev.disk /\ undo' = << >> /\ torn' = FALSE /\ unwritten' = FALSE
      /\ UNCHANGED << original, udfile, enrolled >>
      /\ IF s.verdict # "run" THEN exit' = s.verdict /\ r' = Nothing /\ UNCHANGED << pc, dev >>
         ELSE /\ r' = s.r
              /\ \E o \in device_init(dev.disk, dev.faults) :
                   /\ dev' = o.dev
                   /\ IF o.ok THEN pc' = (IF s.r.uninstall THEN "load" ELSE "probe") /\ exit' = "none"
                      ELSE pc' = "close" /\ exit' = "failure"
  BY <1>1 DEF bios_install
<1>3. s.verdict \in {"run", "success", "failure"} /\ Started(s.r)
  BY <1>1, OptionsRead
<1>4. /\ pc = "shell" /\ Typed /\ Idle(dev, D) /\ Addresses(D) /\ original \in [D -> Nat]
      /\ dev.disk \in [D -> Nat] /\ dev.faults \in 0 .. MaxFaults /\ FileOK(udfile, D) /\ runs + 1 \in 0 .. MaxRuns
  BY <1>2, ReadyShown
<1>5. D' = D
  BY <1>2 DEF D
<1>6. << >> \in Seq(Entries) /\ Len(<< >>) = 0 /\ 0 <= UNINSTALL_DATA_MAX
  BY LimineToolAssumption
<1>7. CASE s.verdict # "run"
  <2>1. exit' \in {"success", "failure"} /\ r' = Nothing /\ UNCHANGED << pc, dev >>
    BY <1>2, <1>3, <1>7
  <2>2. Idle(dev', D)
    BY <1>4, <2>1
  <2> QED
    BY <1>2, <1>4, <1>6, <2>1, <2>2, Printed
<1>8. CASE s.verdict = "run"
  <2>1. PICK disk \in [D -> Nat], faults \in 0 .. MaxFaults : disk = dev.disk /\ faults = dev.faults
    BY <1>4
  <2>2. PICK o \in device_init(disk, faults) :
          /\ dev' = o.dev
          /\ IF o.ok THEN pc' = (IF s.r.uninstall THEN "load" ELSE "probe") /\ exit' = "none"
             ELSE pc' = "close" /\ exit' = "failure"
    BY <1>2, <1>8, <2>1
  <2>3. Tried(o, D, disk)
    BY <1>4, <2>1, <2>2, DeviceInit
  <2>4. r' = s.r /\ General(r') /\ r'.i = 1 /\ r'.failed = FALSE /\ r'.gpt = FALSE /\ r'.used = -1 /\ r'.uninstall \in BOOLEAN
    BY <1>2, <1>3, <1>8 DEF Started, General, Registers
  <2>5. pc' \in {"load", "probe", "close"} /\ exit' \in {"none", "failure"}
    BY <2>2
  <2>6. ASSUME Known(pc', r') PROVE Typed'
    BY <1>2, <1>4, <1>5, <1>6, <2>5, <2>6 DEF Typed, Pcs
  <2>7. Resting' /\ Turning' /\ Storing' /\ Reverting'
    BY <2>5 DEF Resting, Turning, Storing, Reverting
  <2>8. before' = disk /\ o.ok \in BOOLEAN
    BY <1>2, <2>1, <2>3 DEF Tried
  <2>9. CASE o.ok /\ r'.uninstall
    <3>1. pc' = "load"
      BY <2>2, <2>4, <2>9
    <3>2. Known(pc', r')
      BY <2>4, <3>1, KnownOutside DEF Outside
    <3>3. Loading'
      BY <1>5, <2>2, <2>3, <2>4, <2>8, <2>9 DEF Loading, Tried, Clean
    <3>4. Prepared' /\ Closing'
      BY <3>1 DEF Prepared, Closing, Preparing, OnMBR, OnGPT, Installing
    <3> QED
      BY <2>6, <2>7, <3>2, <3>3, <3>4 DEF IInv
  <2>10. CASE o.ok /\ ~r'.uninstall
    <3>1. pc' = "probe"
      BY <2>2, <2>4, <2>10
    <3>2. Known(pc', r')
      BY <2>4, <2>10, <3>1 DEF General, Known, Preparing, OnMBR, OnGPT, Installing, Embedding
    <3>3. DeviceOK(o.dev, D) /\ Coherent(o.dev) /\ o.dev.cached # NoBlock /\ \A a \in D : View(o.dev)[a] = disk[a] /\ Stream(o.dev)[a] = disk[a]
      <4>1. /\ DeviceOK(o.dev, D) /\ Coherent(o.dev) /\ o.dev.cached # NoBlock
            /\ o.dev.pending = NoBlock /\ o.dev.dirty = FALSE /\ o.dev.disk = disk
        BY <2>3, <2>10 DEF Tried
      <4>2. \A a \in D : Stream(o.dev)[a] = disk[a]
        BY <4>1 DEF Stream
      <4>3. \A a \in D : View(o.dev)[a] = Stream(o.dev)[a]
        BY <4>1 DEF View
      <4> QED
        BY <4>1, <4>2, <4>3
    <3>4. FirstHolds(<< >>, disk, D)
      BY DEF FirstHolds
    <3>5. Working(o.dev, << >>, disk, D)
      BY <3>3, <3>4 DEF Working
    <3>6. Prepared'
      BY <1>2, <1>5, <2>2, <2>8, <3>5 DEF Prepared
    <3>7. Loading' /\ Closing'
      BY <3>1 DEF Loading, Closing
    <3> QED
      BY <2>6, <2>7, <3>2, <3>6, <3>7 DEF IInv
  <2>11. CASE ~o.ok
    <3>1. pc' = "close" /\ exit' = "failure"
      BY <2>2, <2>11
    <3>2. Known(pc', r')
      BY <2>4, <3>1, KnownOutside DEF Outside
    <3>3. Idle(o.dev, D) /\ o.dev.disk = disk
      BY <2>3, <2>11 DEF Tried
    <3>4. \A a \in D : Stream(o.dev)[a] = disk[a]
      BY <3>3 DEF Stream, Idle
    <3>5. Closing'
      BY <1>5, <2>2, <2>8, <3>1, <3>3, <3>4 DEF Closing
    <3>6. Loading' /\ Prepared'
      BY <3>1 DEF Loading, Prepared, Preparing, OnMBR, OnGPT, Installing
    <3> QED
      BY <2>6, <2>7, <3>2, <3>5, <3>6 DEF IInv
  <2> QED
    BY <2>4, <2>8, <2>9, <2>10, <2>11
<1> QED
  BY <1>7, <1>8

(* The invariant holds at first, when nothing happens, and after every     *)
(* step.                                                                   *)
LEMMA InitIInv == ASSUME Init PROVE IInv
<1>1. original \in Disks /\ D = DOMAIN original
  BY DEF Init, D
<1>2. original \in [D -> Nat] /\ Addresses(D)
  <2>1. original \in [DOMAIN original -> Nat]
    BY <1>1, LimineToolAssumption
  <2>2. \A a \in D : a \in Nat /\ 0 .. a \subseteq D
    BY <1>1, LimineToolAssumption
  <2> QED
    BY <1>1, <2>1, <2>2 DEF Addresses
<1>3. PICK disk \in [D -> Nat], faults \in 0 .. MaxFaults : disk = original /\ faults = 0
  BY <1>2, BlockCacheAssumption
<1>4. Idle(dev, D)
  <2>1. Idle(Opened(disk, faults), D)
    BY OpenedIdle
  <2> QED
    BY <1>3, <2>1 DEF Init
<1>5. FileOK(udfile, D)
  <2>1. PICK none : none = << >>
    OBVIOUS
  <2>2. udfile.entries = << none >> /\ udfile.n = 0
    BY <2>1 DEF Init, NoFile
  <2>3. Len(<< none >>) = 1
    OBVIOUS
  <2> QED
    BY <2>2, <2>3 DEF FileOK
<1>6. Known(pc, r)
  BY NothingStarted, KnownOutside DEF Outside, Init
<1>7. undo \in Seq(Entries) /\ Len(undo) <= UNINSTALL_DATA_MAX
  BY LimineToolAssumption DEF Init
<1>8. Typed
  <2>1. pc = "shell" /\ before = original /\ exit = "none" /\ runs = 0 /\ torn = FALSE /\ unwritten = FALSE
    BY DEF Init
  <2>2. runs \in 0 .. MaxRuns
    BY <2>1, LimineToolAssumption
  <2>3. pc \in Pcs
    BY <2>1 DEF Pcs
  <2> QED
    BY <1>2, <1>5, <1>6, <1>7, <2>1, <2>2, <2>3 DEF Typed
<1>9. Resting
  BY <1>4 DEF Init, Resting, FailedInstallUndone, UninstallRestores, Exited
<1>10. Loading /\ Prepared /\ Turning /\ Storing /\ Reverting /\ Closing
  BY DEF Init, Loading, Prepared, Turning, Storing, Reverting, Closing, Preparing, OnMBR, OnGPT, Installing
<1> QED
  BY <1>8, <1>9, <1>10 DEF IInv

(* The invariant when nothing happens.                                     *)
LEMMA StutterKeeps == ASSUME IInv, UNCHANGED vars PROVE IInv'
<1>1. /\ pc' = pc /\ dev' = dev /\ undo' = undo /\ udfile' = udfile /\ r' = r /\ exit' = exit /\ runs' = runs
      /\ original' = original /\ before' = before /\ torn' = torn /\ unwritten' = unwritten
  BY DEF vars
<1>2. D' = D
  BY <1>1 DEF D
<1>3. Typed'
  BY <1>1, <1>2 DEF IInv, Typed
<1>4. Resting'
  BY <1>1, <1>2 DEF IInv, Resting, FailedInstallUndone, UninstallRestores, Exited, Disk
<1>5. Loading' /\ Prepared' /\ Turning' /\ Storing' /\ Reverting' /\ Closing'
  BY <1>1, <1>2 DEF IInv, Loading, Prepared, Turning, Storing, Reverting, Closing
<1> QED
  BY <1>3, <1>4, <1>5 DEF IInv

(* The invariant after every step.                                         *)
LEMMA StepKeeps == ASSUME IInv, [Next]_vars PROVE IInv'
<1>1. ASSUME main PROVE IInv'
  <2>1. CASE \E argv \in Commands : bios_install(argv)
    BY <2>1, BiosInstallKeeps
  <2>2. CASE Ready /\ \E argv \in EnrollCommands, file \in Executables : enroll_config(argv, file)
    BY <2>2, EnrollKeeps
  <2>3. CASE \E status \in {"success", "failure"} : PrintingCommand(status)
    BY <2>3, PrintingCommandKeeps
  <2> QED
    BY <1>1, <2>1, <2>2, <2>3 DEF main
<1>2. ASSUME Probe \/ SecondaryHeader \/ CheckFlag \/ MendFlag \/ CheckStart \/ CheckHint \/ EraseHint \/ Activate PROVE IInv'
  BY <1>2, ProbeKeeps, SecondaryHeaderKeeps, CheckFlagKeeps, MendFlagKeeps, CheckStartKeeps, CheckHintKeeps,
     EraseHintKeeps, ActivateKeeps
<1>3. ASSUME Locate \/ UsePartition \/ ScanEntries \/ Embed \/ ClearPrimary \/ ClearSecondary PROVE IInv'
  BY <1>3, LocateKeeps, UsePartitionKeeps, ScanEntriesKeeps, EmbedKeeps, ClearPrimaryKeeps, ClearSecondaryKeeps
<1>4. ASSUME SumArray \/ WriteHeader \/ WriteSecond \/ SaveStamp \/ SaveTable \/ Install \/ Commit PROVE IInv'
  BY <1>4, SumArrayKeeps, WriteHeaderKeeps, WriteSecondKeeps, SaveStampKeeps, SaveTableKeeps, InstallKeeps, CommitKeeps
<1>5. ASSUME Cleanup \/ store_uninstall_data \/ load_uninstall_data \/ UndoEntry \/ Uninstalled \/ Close PROVE IInv'
  BY <1>5, CleanupKeeps, StoreKeeps, LoadKeeps, UndoEntryKeeps, UninstalledKeeps, CloseKeeps
<1>6. ASSUME UNCHANGED vars PROVE IInv'
  BY <1>6, StutterKeeps
<1> QED
  BY <1>1, <1>2, <1>3, <1>4, <1>5, <1>6 DEF Next

(* The inductive invariant: whatever a read, a write or a flush does, the  *)
(* undo data and what the program sees of the device together still have   *)
(* the contents from before.                                               *)
THEOREM InvariantHolds == Spec => []IInv
<1>1. Init => IInv
  BY InitIInv
<1>2. IInv /\ [Next]_vars => IInv'
  BY StepKeeps
<1> QED
  BY <1>1, <1>2, PTL DEF Spec

(* Where the program is, and what it can say of its device there.          *)
LEMMA DeviceShown ==
  ASSUME IInv
  PROVE  /\ DeviceOK(dev, D) \/ Idle(dev, D)
         /\ pc \notin {"shell", "cleanup", "close"} /\ ~r.failed => DeviceOK(dev, D) /\ Coherent(dev)
<1>1. pc \in Outside \cup Preparing
  BY DEF IInv, Typed, Pcs, Outside, Preparing, OnMBR, OnGPT, Installing
<1>2. CASE pc \in Preparing
  BY <1>2, Preparings DEF Working
<1>3. CASE pc \in Outside
  BY <1>3 DEF IInv, Outside, Resting, Loading, Turning, Halted, Storing, Reverting, Closing
<1> QED
  BY <1>1, <1>2, <1>3

(* The program keeps its types: every place in the undo data is an         *)
(* address, and the block in the cache is one of the device, whatever is   *)
(* on it (limine.c:286-311, 453-456).                                      *)
THEOREM TypesHold == Spec => []TypeOK
<1>1. ASSUME IInv PROVE TypeOK
  <2>1. DeviceOK(dev, D) \/ Idle(dev, D)
    BY <1>1, DeviceShown
  <2>2. DOMAIN Disk = DOMAIN original /\ dev.faults \in 0 .. MaxFaults
    BY <2>1 DEF DeviceOK, Idle, Disk, D
  <2>3. ASSUME dev.cached # NoBlock
        PROVE  Len(dev.cache) = dev.block_size /\ dev.cached * dev.block_size \in DOMAIN Disk
    <3>1. DeviceOK(dev, D)
      BY <2>1, <2>3 DEF Idle
    <3>2. PICK block \in Nat, size \in Nat \ {0} : block = dev.cached /\ size = dev.block_size
      BY <2>3, <3>1 DEF DeviceOK
    <3>3. PICK first \in Nat : first = block * size
      OBVIOUS
    <3>4. first \in first .. first + size - 1
      OBVIOUS
    <3>5. InBlock(dev, dev.cached, first)
      BY <3>2, <3>3, <3>4 DEF InBlock
    <3>6. first \in D /\ Len(dev.cache) = dev.block_size
      BY <2>3, <3>1, <3>5 DEF DeviceOK
    <3> QED
      BY <2>2, <3>2, <3>3, <3>6 DEF D
  <2>4. undo \in Seq(Entries) /\ \A i \in DOMAIN undo : undo[i].loc \in Nat
    <3>1. PICK u \in Seq(Entries) : u = undo
      BY <1>1 DEF IInv, Typed
    <3>2. \A i \in DOMAIN u : u[i] \in Entries
      OBVIOUS
    <3> QED
      BY <3>1, <3>2 DEF Entries
  <2> QED
    BY <1>1, <2>2, <2>3, <2>4 DEF IInv, Typed, TypeOK
<1> QED
  BY <1>1, InvariantHolds, PTL

(* Nobody who goes on after a failed transfer uses a block of the cache    *)
(* that is not the device's: it is dropped before (limine.c:286-311,       *)
(* 504-528).                                                               *)
THEOREM CacheStaysCoherent == Spec => []CacheCoherent
<1>1. ASSUME IInv, pc \notin {"shell", "cleanup", "close"}, ~r.failed, dev.cached # NoBlock, ~dev.dirty
      PROVE  dev.cache = Cells(Stream(dev), dev.cached * dev.block_size, dev.block_size)
  <2>1. DeviceOK(dev, D) /\ Coherent(dev)
    BY <1>1, DeviceShown
  <2>2. PICK block \in Nat, size \in Nat \ {0} : block = dev.cached /\ size = dev.block_size
    BY <1>1, <2>1 DEF DeviceOK
  <2>3. PICK first \in Nat : first = block * size
    OBVIOUS
  <2>4. dev.cache \in Seq(Nat) /\ Len(dev.cache) = size /\ \A a : InBlock(dev, dev.cached, a) => a \in D
    BY <1>1, <2>1, <2>2 DEF DeviceOK
  <2>5. ASSUME NEW k \in 1 .. size PROVE dev.cache[k] = Stream(dev)[first + k - 1]
    <3>1. PICK a \in first .. first + size - 1 : a = first + k - 1 /\ a - first + 1 = k
      OBVIOUS
    <3>2. InBlock(dev, dev.cached, a)
      BY <2>2, <2>3, <3>1 DEF InBlock
    <3>3. a \in D
      BY <2>4, <3>2
    <3>4. DOMAIN dev.disk = D
      BY <2>1 DEF DeviceOK
    <3>5. dev.cache[a - dev.cached * dev.block_size + 1] = View(dev)[a]
      BY <1>1, <2>1, <3>2, <3>3, <3>4 DEF Coherent
    <3>6. View(dev)[a] = Stream(dev)[a]
      BY <1>1, <3>3, <3>4 DEF View
    <3> QED
      BY <2>2, <2>3, <3>1, <3>5, <3>6
  <2>6. dev.cache = [k \in 1 .. size |-> Stream(dev)[first + k - 1]]
    <3>1. PICK cache \in Seq(Nat) : cache = dev.cache /\ Len(cache) = size
      BY <2>4
    <3>2. cache = [k \in 1 .. size |-> cache[k]]
      BY <3>1
    <3>3. \A k \in 1 .. size : cache[k] = Stream(dev)[first + k - 1]
      BY <2>5, <3>1
    <3> QED
      BY <3>1, <3>2, <3>3
  <2> QED
    BY <2>2, <2>3, <2>6 DEF Cells
<1>2. IInv => CacheCoherent
  BY <1>1 DEF CacheCoherent
<1> QED
  BY <1>2, InvariantHolds, PTL

(* An installation that fails leaves every device as it was, unless it     *)
(* says that something could not be written back, or its last write had    *)
(* been done in part (limine.c:448-497, 1062-1078).                        *)
THEOREM FailedInstallIsUndone == Spec => []FailedInstallUndone
<1>1. IInv => FailedInstallUndone
  BY DEF IInv, Resting, FailedInstallUndone, Exited
<1> QED
  BY <1>1, InvariantHolds, PTL

(* An uninstallation that reports success gives every device its contents  *)
(* from before the installation of its data file, if nothing else has      *)
(* changed since (limine.c:327-424, 499-548).                              *)
THEOREM UninstallRestoresDisk == Spec => []UninstallRestores
<1>1. IInv => UninstallRestores
  BY DEF IInv, Resting, UninstallRestores, Exited
<1> QED
  BY <1>1, InvariantHolds, PTL
-----------------------------------------------------------------------------
(***************************************************************************)
(* Where the loader finds stage 2.  On a GPT the places that stage 2 and   *)
(* the headers get are read from the device, and the program checks little *)
(* of them; what has to be true of them is said here.                      *)
(***************************************************************************)
(* The logical blocks are no smaller than the boot sector; the array, the  *)
(* second header and the partition for stage 2 are behind the first block, *)
(* and the second array is behind the first one.                           *)
Apart(s) ==
  s.gpt =>
    /\ s.lb >= SECTOR
    /\ s.part # {} => s.a >= s.lb
    /\ s.part = {} =>
         /\ s.header[1 + ALTERNATE] >= 1 /\ s.header[1 + ENTRY_LBA] >= 1
         /\ s.header[1 + ENTRY_SIZE] \in 1 .. s.lb
         /\ s.second[1 + ENTRY_LBA] >= s.header[1 + ENTRY_LBA] + ARRAY_LBAS

(* The first sector as it was; the cells of it that stay on an MBR disk;   *)
(* and one of the first n partitions active.                               *)
First(v, b, A) == \A k \in A : k < SECTOR => v[k] = b[k]
Fixed == {STAMP, DISK_ID} \cup {Start(p) : p \in 1 .. Partitions}
FixedKept(v, b, A) == \A k \in A : k \in Fixed => v[k] = b[k]
Bootable(v, A, n) == \E q \in 1 .. n : Flag(q) \in A /\ v[Flag(q)] = 128
Preserved(s, v, b, A) == IF s.gpt THEN First(v, b, A) ELSE FixedKept(v, b, A) /\ Bootable(v, A, Partitions)

(* How far the flags have been looked at.                                  *)
Flagged(p, s) == CASE p \in {"flags", "mend"} -> s.i - 1 [] p = "start" -> s.i [] OTHER -> Partitions

(* The halves of stage 2 have room for themselves.                         *)
Room(s) == s.a >= SECTOR /\ s.b >= s.a + SizeA

(* What has been saved of the boot sector.                                 *)
StampKept(s, b) == s.stamp = << b[STAMP] >>
TableKept(s, b) ==
  /\ Len(s.table) = TABLE_SIZE
  /\ \A k \in 1 .. TABLE_SIZE : s.gpt \/ DISK_ID + k - 1 \in Fixed => s.table[k] = b[DISK_ID + k - 1]
  /\ ~s.gpt => \E q \in 1 .. Partitions : s.table[2 * q] = 128

(* What the writes before the i-th one have left.                          *)
Corrected == {STAMP} \cup PARAMS .. PARAMS + 3 \cup DISK_ID .. DISK_ID + TABLE_SIZE - 1
Written(s, v, A, i) ==
  /\ i > 1 => \A k \in 0 .. SECTOR - 1 : k \in A /\ (v[k] = Image(k) \/ k \in Corrected)
  /\ i > 2 => \A k \in 1 .. SizeA : s.a + k - 1 \in A /\ v[s.a + k - 1] = Image(SECTOR + k - 1)
  /\ i > 3 => \A k \in 1 .. STAGE2_SIZE - SizeA : s.b + k - 1 \in A /\ v[s.b + k - 1] = Image(SECTOR + SizeA + k - 1)
  /\ i > 4 => v[PARAMS] = SizeA
  /\ i > 6 => v[PARAMS + 2] = s.a
  /\ i > 7 => v[PARAMS + 3] = s.b
  /\ i > 8 => v[STAMP] = s.stamp[1]
  /\ i > 9 => \A k \in 1 .. TABLE_SIZE : v[DISK_ID + k - 1] = s.table[k]
Stands(s, v, b, A, i) == Room(s) /\ StampKept(s, b) /\ TableKept(s, b) /\ Written(s, v, A, i)

(* What the program sees, by its place.                                    *)
AtProbe(p, s, v, b, A) == p = "probe" => ~s.active /\ First(v, b, A)
AtGPT(p, s, v, b, A) ==
  p \in {"secondary", "partition", "scan", "embed"} =>
    /\ s.gpt /\ First(v, b, A)
    /\ p \in {"scan", "embed"} => s.part = {}
    /\ p = "partition" => s.part # {}
AtMBR(p, s, v, b, A) ==
  p \in OnMBR \ {"probe"} =>
    /\ FixedKept(v, b, A)
    /\ s.mbr /\ s.active => Bootable(v, A, Flagged(p, s))
    /\ p \in {"flags", "mend", "start"} => s.i \in 1 .. Partitions
AtLocate(p, s, v, b, A) == p = "locate" => Preserved(s, v, b, A)
AtEmbed(p, s, v, b, A) ==
  p \in Embedding => s.gpt /\ s.part = {} /\ (Apart(s) => First(v, b, A) /\ Room(s))
AtSave(p, s, v, b, A) == p = "save" /\ Apart(s) => Room(s) /\ Preserved(s, v, b, A)
AtTable(p, s, v, b, A) == p = "table" /\ Apart(s) => Room(s) /\ Preserved(s, v, b, A) /\ StampKept(s, b)
AtInstall(p, s, v, b, A) == p = "install" /\ Apart(s) => Stands(s, v, b, A, s.i)
AtCommit(p, s, v, b, A) == p = "commit" /\ Apart(s) => Stands(s, v, b, A, 10)
Sees(p, s, v, b, A) ==
  /\ AtProbe(p, s, v, b, A) /\ AtGPT(p, s, v, b, A) /\ AtMBR(p, s, v, b, A) /\ AtLocate(p, s, v, b, A)
  /\ AtEmbed(p, s, v, b, A) /\ AtSave(p, s, v, b, A) /\ AtTable(p, s, v, b, A) /\ AtInstall(p, s, v, b, A)
  /\ AtCommit(p, s, v, b, A)

(* And what is left when it is done.                                       *)
Succeeded == exit = "success" /\ ~r.uninstall /\ Apart(r)
LInv ==
  /\ pc \in Preparing => Sees(pc, r, View(dev), before, D)
  /\ pc \in {"cleanup", "store", "close"} /\ Succeeded => Stands(r, Stream(dev), before, D, 10)
  /\ pc = "shell" /\ Installed /\ Apart(r) => Stands(r, dev.disk, before, D, 10)

(* Nothing is asked of an installation that has failed.                    *)
Stopped == pc' = "cleanup" /\ exit' = "failure"

(* A step that stops asks for nothing.                                     *)
LEMMA StoppedKeeps == ASSUME Stopped PROVE LInv'
<1>1. pc' \notin Preparing /\ pc' # "shell" /\ exit' # "success"
  BY DEF Stopped, Preparing, OnMBR, OnGPT, Installing
<1> QED
  BY <1>1 DEF LInv, Succeeded

(* Between the transfers only the registers and the device matter.         *)
LEMMA SeenAfter ==
  ASSUME Process, pc' \in Preparing, NEW v, v = View(dev'), Sees(pc', r', v, before, D)
  PROVE  LInv'
<1>1. before' = before /\ D' = D
  BY DEF Process, D
<1>2. pc' \notin {"cleanup", "store", "close", "shell"}
  BY DEF Preparing, OnMBR, OnGPT, Installing
<1> QED
  BY <1>1, <1>2 DEF LInv

(* What is seen before a step.                                             *)
LEMMA SeenBefore ==
  ASSUME IInv, LInv, pc \in Preparing
  PROVE  \E v \in [D -> Nat] : v = View(dev) /\ Sees(pc, r, v, before, D)
<1>1. DeviceOK(dev, D)
  BY Preparings DEF Working
<1>2. View(dev) \in [D -> Nat]
  BY <1>1, ViewType
<1> QED
  BY <1>2 DEF LInv

(* A device that has only moved blocks shows the same.                     *)
LEMMA MovedShows ==
  ASSUME NEW A, NEW d, DeviceOK(d, A), NEW e, Moved(d, e, A)
  PROVE  View(e) = View(d)
<1>1. DeviceOK(e, A) /\ \A a \in A : View(e)[a] = View(d)[a]
  BY DEF Moved
<1>2. View(d) \in [A -> Nat] /\ View(e) \in [A -> Nat]
  BY <1>1, ViewType
<1>3. PICK v \in [A -> Nat], w \in [A -> Nat] : v = View(d) /\ w = View(e)
  BY <1>2
<1>4. \A a \in A : v[a] = w[a]
  BY <1>1, <1>3
<1>5. v = w
  BY <1>4
<1> QED
  BY <1>3, <1>5

(* A read that succeeds gives what is seen, and changes nothing of it.     *)
ReadOf(data, v, A, loc, count) ==
  data \in Seq(Nat) /\ Len(data) = count /\ \A j \in 1 .. count : loc + j - 1 \in A /\ data[j] = v[loc + j - 1]

(* A read, whether it succeeds or not, leaves what is seen.                *)
LEMMA ReadShows ==
  ASSUME IInv, pc \in Preparing, NEW loc \in Int, NEW count \in Nat, NEW o \in device_read(dev, loc, count), dev' = o.dev
  PROVE  /\ o.ok \in BOOLEAN
         /\ View(dev') = View(dev)
         /\ o.ok => ReadOf(o.data, View(dev), D, loc, count)
<1>1. /\ Working(dev, undo, before, D) /\ Addresses(D)
  BY Preparings
<1>2. GoodRead(o, dev, D, loc, count) /\ DeviceOK(dev, D)
  BY <1>1, DeviceRead DEF Working
<1>3. View(dev') = View(dev)
  BY <1>2, MovedShows DEF GoodRead
<1> QED
  BY <1>2, <1>3 DEF GoodRead, ReadOf

(* A write that succeeds lays its cells over what is seen.                 *)
Laid(w, v, A, loc, cells) ==
  /\ w \in [A -> Nat]
  /\ \A a \in loc .. loc + Len(cells) - 1 : a \in A /\ w[a] = cells[a - loc + 1]
  /\ \A a \in A : a \notin loc .. loc + Len(cells) - 1 => w[a] = v[a]

(* So a write that succeeds shows its cells.                               *)
LEMMA PutShows ==
  ASSUME NEW A, NEW d, DeviceOK(d, A), NEW loc \in Int, NEW cells \in Seq(Nat), NEW o, GoodPut(o, d, A, loc, cells), o.ok
  PROVE  Laid(View(o.dev), View(d), A, loc, cells)
<1>1. DeviceOK(o.dev, A) /\ Len(o.data) = Len(cells)
  BY DEF GoodPut
<1>2. View(o.dev) \in [A -> Nat]
  BY <1>1, ViewType
<1>3. \A a : Reaches(o, loc, a) <=> a \in loc .. loc + Len(cells) - 1
  BY <1>1 DEF Reaches
<1> QED
  BY <1>2, <1>3 DEF Laid, GoodPut

(* A write of the program stops it, or lays its cells over what is seen.   *)
LEMMA WriteShows ==
  ASSUME IInv, pc \in Preparing, NEW loc \in Int, NEW cells \in Seq(Nat), cells = << >> => loc \in Nat,
         NEW to, NEW next, device_write(loc, cells, to, next)
  PROVE  /\ Process
         /\ \/ Stopped
            \/ pc' = to /\ r' = next /\ Laid(View(dev'), View(dev), D, loc, cells)
<1>1. /\ Working(dev, undo, before, D) /\ Addresses(D) /\ DeviceOK(dev, D)
  BY Preparings DEF Working
<1>2. Process
  BY DEF device_write
<1>3. CASE UndoFull
  BY <1>2, <1>3 DEF device_write, Abort, Stopped
<1>4. CASE ~UndoFull
  <2>0. PICK count \in Nat : count = Len(cells)
    BY LenNat
  <2>1. PICK s \in device_read(dev, loc, count) :
          \/ ~s.ok /\ Abort
          \/ s.ok /\ \E o \in device_put(s.dev, loc, cells) :
               dev' = o.dev /\ IF o.ok THEN Only(to, next) ELSE Abort
    BY <1>4, <2>0 DEF device_write
  <2>2. CASE Abort
    BY <1>2, <2>2 DEF Abort, Stopped
  <2>3. CASE s.ok /\ ~Abort
    <3>1. PICK o \in device_put(s.dev, loc, cells) : dev' = o.dev /\ o.ok /\ Only(to, next)
      BY <2>1, <2>3
    <3>2. GoodRead(s, dev, D, loc, count)
      BY <1>1, DeviceRead DEF Working
    <3>3. DeviceOK(s.dev, D) /\ Coherent(s.dev) /\ s.dev.cached # NoBlock /\ Moved(dev, s.dev, D)
      BY <2>3, <3>2 DEF GoodRead, Moved
    <3>4. GoodPut(o, s.dev, D, loc, cells)
      BY <1>1, <3>3, DevicePut
    <3>5. Laid(View(o.dev), View(s.dev), D, loc, cells)
      BY <3>1, <3>3, <3>4, PutShows
    <3>6. View(s.dev) = View(dev)
      BY <1>1, <3>3, MovedShows
    <3> QED
      BY <1>2, <3>1, <3>5, <3>6 DEF Only
  <2> QED
    BY <2>1, <2>2, <2>3
<1> QED
  BY <1>3, <1>4

(* Each place of the program asks for what is seen there.                  *)
LEMMA SeesAt ==
  ASSUME NEW s, NEW v, NEW b, NEW A
  PROVE  /\ AtProbe("probe", s, v, b, A) => Sees("probe", s, v, b, A)
         /\ \A p \in {"secondary", "partition", "scan", "embed"} : AtGPT(p, s, v, b, A) => Sees(p, s, v, b, A)
         /\ \A p \in OnMBR \ {"probe"} : AtMBR(p, s, v, b, A) => Sees(p, s, v, b, A)
         /\ AtLocate("locate", s, v, b, A) => Sees("locate", s, v, b, A)
         /\ \A p \in Embedding : AtEmbed(p, s, v, b, A) => Sees(p, s, v, b, A)
         /\ AtSave("save", s, v, b, A) => Sees("save", s, v, b, A)
         /\ AtTable("table", s, v, b, A) => Sees("table", s, v, b, A)
         /\ AtInstall("install", s, v, b, A) => Sees("install", s, v, b, A)
         /\ AtCommit("commit", s, v, b, A) => Sees("commit", s, v, b, A)
BY DEF Sees, AtProbe, AtGPT, AtMBR, AtLocate, AtEmbed, AtSave, AtTable, AtInstall, AtCommit, OnMBR, Embedding

(* The fields of the boot sector have places of their own.                 *)
LEMMA SectorPlaces ==
  /\ SECTOR \in Nat /\ TABLE_SIZE \in Nat /\ Partitions \in Nat /\ Partitions >= 1
  /\ \A k \in Fixed : k \in Nat /\ k < SECTOR
  /\ \A q \in 1 .. Partitions : Flag(q) \in Nat /\ Flag(q) < SECTOR /\ Flag(q) \notin Fixed
  /\ \A p \in 1 .. Partitions, q \in 1 .. Partitions : Flag(p) = Flag(q) => p = q
  /\ \A k \in 1 .. 6 : Hints[k][1] \in Nat /\ Hints[k][1] \notin Fixed /\ \A q \in 1 .. Partitions : Hints[k][1] # Flag(q)
<1>1. PICK n \in Nat : n = Partitions /\ n >= 1
  BY LimineToolAssumption
<1>2. SECTOR = 2 * n + 11 /\ TABLE_SIZE = 2 * n + 1 /\ EXT = 4 * n + 25
  BY <1>1 DEF SECTOR, TABLE_SIZE, DISK_ID, EXT
<1>3. \A q \in 1 .. n : Flag(q) = 8 + 2 * q /\ Start(q) = 9 + 2 * q
  BY DEF Flag, Start, DISK_ID
<1>4. \A k : k \in Fixed <=> k = 4 \/ k = 9 \/ \E q \in 1 .. n : k = 9 + 2 * q
  BY <1>1, <1>3 DEF Fixed, STAMP, DISK_ID
<1>5. \A k \in Fixed : k \in Nat /\ k < SECTOR
  BY <1>2, <1>4
<1>6. \A q \in 1 .. n : Flag(q) \in Nat /\ Flag(q) < SECTOR /\ Flag(q) \notin Fixed
  BY <1>2, <1>3, <1>4
<1>7. \A p \in 1 .. n, q \in 1 .. n : Flag(p) = Flag(q) => p = q
  BY <1>3
<1>8. ASSUME NEW k \in 1 .. 6
      PROVE  Hints[k][1] \in Nat /\ Hints[k][1] \notin Fixed /\ \A q \in 1 .. n : Hints[k][1] # Flag(q)
  <2>1. Hints[k][1] = 1 \/ Hints[k][1] = 2 \/ Hints[k][1] = 3 \/ Hints[k][1] = 4 * n + 25
    <3>1. Hints[1][1] = OEM /\ Hints[2][1] = OEM /\ Hints[3][1] = FAT16 /\ Hints[4][1] = FAT32 /\ Hints[5][1] = OEM /\ Hints[6][1] = EXT
      BY DEF Hints
    <3>2. k = 1 \/ k = 2 \/ k = 3 \/ k = 4 \/ k = 5 \/ k = 6
      OBVIOUS
    <3> QED
      BY <1>2, <3>1, <3>2 DEF OEM, FAT16, FAT32
  <2> QED
    BY <1>3, <1>4, <2>1
<1> QED
  BY <1>1, <1>2, <1>5, <1>6, <1>7, <1>8

(* What the first sector had keeps what an MBR needs of it.                *)
LEMMA FirstFixed ==
  ASSUME NEW v, NEW b, NEW A, First(v, b, A)
  PROVE  FixedKept(v, b, A)
BY SectorPlaces DEF First, FixedKept

(* The registers that only count.                                          *)
LEMMA Counted ==
  ASSUME NEW s \in Registers, NEW i \in Nat, NEW t, t = [s EXCEPT !.i = i]
  PROVE  /\ t \in Registers /\ t.i = i /\ t.gpt = s.gpt /\ t.part = s.part /\ t.lb = s.lb /\ t.header = s.header /\ t.second = s.second
         /\ t.mbr = s.mbr /\ t.active = s.active /\ t.a = s.a /\ t.b = s.b /\ t.stamp = s.stamp /\ t.table = s.table
         /\ t.used = s.used /\ t.count = s.count /\ t.uninstall = s.uninstall
BY DEF Registers

(* The search for a GPT sees the first sector as it was.                   *)
LEMMA ProbeSees == ASSUME IInv, LInv, Probe PROVE LInv'
<1>1. pc = "probe" /\ pc \in Preparing
  BY DEF Probe, Preparing, OnMBR
<1>2. r \in Registers /\ r.i \in Nat /\ r.i >= 1
  BY <1>1, Shown DEF Known, Registers
<1>3. PICK v \in [D -> Nat] : v = View(dev) /\ Sees(pc, r, v, before, D)
  BY <1>1, SeenBefore
<1>4. ~r.active /\ First(v, before, D)
  BY <1>1, <1>3 DEF Sees, AtProbe
<1>5. CASE r.i > Len(LbSizes)
  <2>1. PICK i \in Nat : i = 1
    OBVIOUS
  <2>2. pc' = "flags" /\ r' = [r EXCEPT !.i = i] /\ Process /\ dev' = dev
    BY <1>5, <2>1 DEF Probe, Skip, Only
  <2>3. r'.active = r.active /\ r'.i = 1
    BY <1>2, <2>1, <2>2, Counted
  <2>4. pc' \in OnMBR \ {"probe"} /\ pc' \in Preparing
    BY <2>2 DEF OnMBR, Preparing
  <2>5. AtMBR(pc', r', v, before, D)
    BY <1>4, <2>3, FirstFixed, SectorPlaces DEF AtMBR
  <2>6. v = View(dev')
    BY <1>3, <2>2
  <2> QED
    BY <2>2, <2>4, <2>5, <2>6, SeesAt, SeenAfter
<1>6. CASE ~(r.i > Len(LbSizes))
  <2>1. PICK lb \in Nat : lb = LbSizes[r.i]
    <3>1. r.i \in 1 .. Len(LbSizes) /\ LbSizes \in Seq(Nat \ {0})
      BY <1>2, <1>6, LimineToolAssumption
    <3> QED
      BY <3>1
  <2>2. PICK o \in device_read(dev, lb, HEADER_SIZE) :
          /\ dev' = o.dev
          /\ \/ Only("probe", [r EXCEPT !.i = @ + 1])
             \/ Only("secondary", [r EXCEPT !.gpt = TRUE, !.lb = lb, !.header = o.data])
             \/ Abort
    BY <1>6, <2>1 DEF Probe, Read
  <2>3. Process
    BY <1>6 DEF Probe, Read
  <2>4. HEADER_SIZE \in Nat /\ lb \in Int
    BY DEF HEADER_SIZE
  <2>5. v = View(dev')
    BY <1>1, <1>3, <2>2, <2>4, ReadShows
  <2>6. CASE Only("probe", [r EXCEPT !.i = @ + 1])
    <3>1. PICK i \in Nat : i = r.i + 1
      BY <1>2
    <3>2. pc' = "probe" /\ r' = [r EXCEPT !.i = i] /\ pc' \in Preparing
      BY <2>6, <3>1 DEF Only, Preparing, OnMBR
    <3>3. r'.active = r.active
      BY <1>2, <3>2, Counted
    <3>4. AtProbe(pc', r', v, before, D)
      BY <1>4, <3>3 DEF AtProbe
    <3> QED
      BY <2>3, <2>5, <3>2, <3>4, SeesAt, SeenAfter
  <2>7. CASE Only("secondary", [r EXCEPT !.gpt = TRUE, !.lb = lb, !.header = o.data])
    <3>1. pc' = "secondary" /\ r' = [r EXCEPT !.gpt = TRUE, !.lb = lb, !.header = o.data] /\ pc' \in Preparing
      BY <2>7 DEF Only, Preparing
    <3>2. r'.gpt = TRUE
      BY <1>2, <3>1 DEF Registers
    <3>3. AtGPT(pc', r', v, before, D)
      BY <1>4, <3>1, <3>2 DEF AtGPT
    <3> QED
      BY <2>3, <2>5, <3>1, <3>3, SeesAt, SeenAfter
  <2>8. CASE Abort
    BY <2>8, StoppedKeeps DEF Abort, Stopped
  <2> QED
    BY <2>2, <2>6, <2>7, <2>8
<1> QED
  BY <1>5, <1>6

(* So does the check of the second header.                                 *)
LEMMA SecondaryHeaderSees == ASSUME IInv, LInv, SecondaryHeader PROVE LInv'
<1>1. pc = "secondary" /\ pc \in Preparing
  BY DEF SecondaryHeader, Preparing
<1>2. r \in Registers /\ r.lb \in Nat /\ r.header \in Seq(Nat) /\ Len(r.header) = HEADER_SIZE
  BY <1>1, Shown DEF Known, Registers
<1>3. PICK v \in [D -> Nat] : v = View(dev) /\ Sees(pc, r, v, before, D)
  BY <1>1, SeenBefore
<1>4. r.gpt /\ First(v, before, D)
  BY <1>1, <1>3 DEF Sees, AtGPT
<1>5. PICK loc \in Int : loc = r.lb * r.header[1 + ALTERNATE]
  <2>1. PICK x \in Nat, lb \in Nat : x = r.header[1 + ALTERNATE] /\ lb = r.lb
    BY <1>2, Headers
  <2>2. lb * x \in Int
    OBVIOUS
  <2> QED
    BY <2>1, <2>2
<1>6. PICK o \in device_read(dev, loc, HEADER_SIZE) :
        dev' = o.dev /\ (Only("locate", [r EXCEPT !.second = o.data]) \/ Abort)
  BY <1>5 DEF SecondaryHeader, Read
<1>7. Process /\ HEADER_SIZE \in Nat
  BY DEF SecondaryHeader, Read, HEADER_SIZE
<1>8. v = View(dev')
  BY <1>1, <1>3, <1>6, <1>7, ReadShows
<1>9. CASE Only("locate", [r EXCEPT !.second = o.data])
  <2>1. pc' = "locate" /\ r' = [r EXCEPT !.second = o.data] /\ pc' \in Preparing
    BY <1>9 DEF Only, Preparing
  <2>2. r'.gpt = r.gpt
    BY <1>2, <2>1 DEF Registers
  <2>3. AtLocate(pc', r', v, before, D)
    BY <1>4, <2>2 DEF AtLocate, Preserved
  <2> QED
    BY <1>7, <1>8, <2>1, <2>3, SeesAt, SeenAfter
<1>10. CASE Abort
  BY <1>10, StoppedKeeps DEF Abort, Stopped
<1> QED
  BY <1>6, <1>9, <1>10

(* One cell is laid over what is seen.                                     *)
OneLaid(w, v, A, loc, c) == loc \in A /\ w[loc] = c /\ \A a \in A : a # loc => w[a] = v[a]
LEMMA LaidOne ==
  ASSUME NEW w, NEW v, NEW A, NEW loc \in Int, NEW c, Laid(w, v, A, loc, << c >>)
  PROVE  OneLaid(w, v, A, loc, c)
<1>1. PICK cells : cells = << c >> /\ Len(cells) = 1 /\ cells[1] = c
  OBVIOUS
<1>2. Laid(w, v, A, loc, cells)
  BY <1>1
<1>3. \A a : a \in loc .. loc + 1 - 1 <=> a = loc
  OBVIOUS
<1>4. loc - loc + 1 = 1
  OBVIOUS
<1> QED
  BY <1>1, <1>2, <1>3, <1>4 DEF Laid, OneLaid

(* More flags looked at, and cells that are neither a flag nor fixed, take *)
(* nothing away.                                                           *)
LEMMA BootableMore ==
  ASSUME NEW v, NEW A, NEW m \in Nat, NEW n \in Nat, m <= n, Bootable(v, A, m)
  PROVE  Bootable(v, A, n)
BY DEF Bootable

(* Nor do cells that are neither.                                          *)
LEMMA BootableStays ==
  ASSUME NEW v, NEW w, NEW A, NEW m \in Nat, \A q \in 1 .. m : Flag(q) \in A => w[Flag(q)] = v[Flag(q)], Bootable(v, A, m)
  PROVE  Bootable(w, A, m)
BY DEF Bootable

(* A partition whose flag has been looked at is counted.                   *)
LEMMA CheckFlagSees == ASSUME IInv, LInv, CheckFlag PROVE LInv'
<1>1. pc = "flags" /\ pc \in Preparing /\ pc \in OnMBR \ {"probe"}
  BY DEF CheckFlag, Preparing, OnMBR
<1>2. r \in Registers
  BY <1>1, Shown DEF Known
<1>3. PICK v \in [D -> Nat] : v = View(dev) /\ Sees(pc, r, v, before, D)
  BY <1>1, SeenBefore
<1>4. PICK i \in 1 .. Partitions : i = r.i
  BY <1>1, <1>3 DEF Sees, AtMBR
<1>5. Flagged(pc, r) = i - 1
  BY <1>1, <1>4 DEF Flagged
<1>6. FixedKept(v, before, D) /\ (r.mbr /\ r.active => Bootable(v, D, i - 1))
  BY <1>1, <1>3, <1>5 DEF Sees, AtMBR
<1>7. PICK loc \in Int : loc = Flag(i)
  BY SectorPlaces
<1>8. PICK o \in device_read(dev, loc, 1) :
        /\ dev' = o.dev
        /\ IF o.ok
             THEN IF Sane(o.data[1]) \/ ~r.force
                    THEN Only("start", [r EXCEPT !.mbr = @ /\ Sane(o.data[1]), !.active = @ \/ o.data[1] >= 128])
                    ELSE Only("mend", [r EXCEPT !.flag = (o.data[1] \div 128) * 128])
             ELSE Abort
  BY <1>4, <1>7 DEF CheckFlag, Read
<1>9. Process /\ 1 \in Nat
  BY DEF CheckFlag, Read
<1>10. o.ok \in BOOLEAN /\ v = View(dev') /\ (o.ok => ReadOf(o.data, v, D, loc, 1))
  BY <1>1, <1>3, <1>8, <1>9, ReadShows
<1>11. CASE ~o.ok
  BY <1>8, <1>11, StoppedKeeps DEF Abort, Stopped
<1>12. CASE o.ok
  <2>1. PICK c \in Nat : c = o.data[1] /\ loc \in D /\ c = v[loc]
    <3>1. 1 \in 1 .. 1 /\ loc + 1 - 1 = loc
      OBVIOUS
    <3> QED
      BY <1>10, <1>12, <3>1 DEF ReadOf
  <2>2. CASE Sane(c) \/ ~r.force
    <3>1. PICK m \in BOOLEAN, act \in BOOLEAN : m = (r.mbr /\ Sane(c)) /\ act = (r.active \/ c >= 128)
      OBVIOUS
    <3>2. pc' = "start" /\ r' = [r EXCEPT !.mbr = m, !.active = act]
      BY <1>8, <1>12, <2>1, <2>2, <3>1 DEF Only
    <3>3. r'.mbr = m /\ r'.active = act /\ r'.i = i
      BY <1>2, <1>4, <3>2 DEF Registers
    <3>4. pc' \in OnMBR \ {"probe"} /\ pc' \in Preparing /\ Flagged(pc', r') = i
      BY <3>2, <3>3 DEF OnMBR, Preparing, Flagged
    <3>5. ASSUME m, act PROVE Bootable(v, D, i)
      <4>1. CASE r.active
        <5>1. i - 1 \in Nat /\ i \in Nat /\ i - 1 <= i
          OBVIOUS
        <5>2. Bootable(v, D, i - 1)
          BY <1>6, <3>1, <3>5, <4>1
        <5> QED
          BY <5>1, <5>2, BootableMore
      <4>2. CASE c >= 128
        <5>1. Sane(c)
          BY <3>1, <3>5, Zenon
        <5>2. c = 128
          BY <4>2, <5>1 DEF Sane
        <5>3. Flag(i) \in D /\ v[Flag(i)] = 128 /\ i \in 1 .. i
          BY <1>7, <2>1, <5>2
        <5> QED
          BY <5>3 DEF Bootable
      <4> QED
        BY <3>1, <3>5, <4>1, <4>2
    <3>6. AtMBR(pc', r', v, before, D)
      BY <1>6, <3>3, <3>4, <3>5 DEF AtMBR
    <3> QED
      BY <1>9, <1>10, <3>4, <3>6, SeesAt, SeenAfter
  <2>3. CASE ~(Sane(c) \/ ~r.force)
    <3>1. PICK f : f = (c \div 128) * 128
      OBVIOUS
    <3>2. pc' = "mend" /\ r' = [r EXCEPT !.flag = f]
      BY <1>8, <1>12, <2>1, <2>3, <3>1 DEF Only
    <3>3. r'.mbr = r.mbr /\ r'.active = r.active /\ r'.i = i
      BY <1>2, <1>4, <3>2 DEF Registers
    <3>4. pc' \in OnMBR \ {"probe"} /\ pc' \in Preparing /\ Flagged(pc', r') = i - 1
      BY <3>2, <3>3 DEF OnMBR, Preparing, Flagged
    <3>5. AtMBR(pc', r', v, before, D)
      BY <1>6, <3>3, <3>4 DEF AtMBR
    <3> QED
      BY <1>9, <1>10, <3>4, <3>5, SeesAt, SeenAfter
  <2> QED
    BY <2>2, <2>3
<1> QED
  BY <1>10, <1>11, <1>12

(* A flag that has been mended does not hide the others.                   *)
LEMMA MendFlagSees == ASSUME IInv, LInv, MendFlag PROVE LInv'
<1>1. pc = "mend" /\ pc \in Preparing /\ pc \in OnMBR \ {"probe"}
  BY DEF MendFlag, Preparing, OnMBR
<1>2. r \in Registers /\ r.flag \in Nat
  BY <1>1, Shown DEF Known, Registers
<1>3. PICK v \in [D -> Nat] : v = View(dev) /\ Sees(pc, r, v, before, D)
  BY <1>1, SeenBefore
<1>4. PICK i \in 1 .. Partitions : i = r.i
  BY <1>1, <1>3 DEF Sees, AtMBR
<1>5. Flagged(pc, r) = i - 1
  BY <1>1, <1>4 DEF Flagged
<1>6. FixedKept(v, before, D) /\ (r.mbr /\ r.active => Bootable(v, D, i - 1))
  BY <1>1, <1>3, <1>5 DEF Sees, AtMBR
<1>7. PICK loc \in Int, cells \in Seq(Nat) : loc = Flag(i) /\ cells = << r.flag >> /\ cells # << >>
  <2>1. PICK loc \in Int : loc = Flag(i)
    BY SectorPlaces
  <2>2. << r.flag >> \in Seq(Nat) /\ << r.flag >> # << >>
    BY <1>2, OneCell
  <2> QED
    BY <2>1, <2>2
<1>8. PICK act \in BOOLEAN : act = (r.active \/ r.flag = 128)
  OBVIOUS
<1>9. PICK next : next = [r EXCEPT !.active = act]
  OBVIOUS
<1>10. device_write(loc, cells, "start", next)
  BY <1>4, <1>7, <1>8, <1>9 DEF MendFlag
<1>11. Process /\ (Stopped \/ (pc' = "start" /\ r' = next /\ Laid(View(dev'), v, D, loc, cells)))
  BY <1>1, <1>3, <1>7, <1>10, WriteShows
<1>12. CASE pc' = "start" /\ r' = next /\ Laid(View(dev'), v, D, loc, cells)
  <2>1. PICK w : w = View(dev')
    OBVIOUS
  <2>20. OneLaid(w, v, D, loc, r.flag)
    BY <1>7, <1>12, <2>1, LaidOne
  <2>2. loc \in D /\ w[loc] = r.flag /\ \A a \in D : a # loc => w[a] = v[a]
    BY <2>20 DEF OneLaid
  <2>3. FixedKept(w, before, D)
    BY <1>6, <1>7, <2>2, SectorPlaces DEF FixedKept
  <2>4. next.mbr = r.mbr /\ next.active = act /\ next.i = i
    BY <1>2, <1>4, <1>9 DEF Registers
  <2>5. ASSUME r.mbr, act PROVE Bootable(w, D, i)
    <3>1. i - 1 \in Nat /\ i \in Nat /\ i - 1 <= i
      OBVIOUS
    <3>2. CASE r.active
      <4>1. Bootable(v, D, i - 1)
        BY <1>6, <2>5, <3>2
      <4>2. \A q \in 1 .. i - 1 : q \in 1 .. Partitions /\ q # i
        BY SectorPlaces
      <4>3. \A q \in 1 .. i - 1 : Flag(q) # loc
        BY <1>7, <4>2, SectorPlaces
      <4>4. \A q \in 1 .. i - 1 : Flag(q) \in D => w[Flag(q)] = v[Flag(q)]
        BY <2>2, <4>3
      <4>5. Bootable(w, D, i - 1)
        BY <3>1, <4>1, <4>4, BootableStays
      <4> QED
        BY <3>1, <4>5, BootableMore
    <3>3. CASE r.flag = 128
      <4>1. Flag(i) \in D /\ w[Flag(i)] = 128 /\ i \in 1 .. i
        BY <1>7, <2>2, <3>3
      <4> QED
        BY <4>1 DEF Bootable
    <3> QED
      BY <1>8, <2>5, <3>2, <3>3
  <2>6. pc' \in OnMBR \ {"probe"} /\ pc' \in Preparing /\ Flagged(pc', r') = i
    BY <1>12, <2>4 DEF OnMBR, Preparing, Flagged
  <2>7. AtMBR(pc', r', w, before, D)
    BY <1>12, <2>3, <2>4, <2>5, <2>6 DEF AtMBR
  <2> QED
    BY <1>11, <2>1, <2>6, <2>7, SeesAt, SeenAfter
<1> QED
  BY <1>11, <1>12, StoppedKeeps

(* The first blocks are only looked at.                                    *)
LEMMA CheckStartSees == ASSUME IInv, LInv, CheckStart PROVE LInv'
<1>1. pc = "start" /\ pc \in Preparing /\ pc \in OnMBR \ {"probe"}
  BY DEF CheckStart, Preparing, OnMBR
<1>2. r \in Registers
  BY <1>1, Shown DEF Known
<1>3. PICK v \in [D -> Nat] : v = View(dev) /\ Sees(pc, r, v, before, D)
  BY <1>1, SeenBefore
<1>4. PICK i \in 1 .. Partitions : i = r.i
  BY <1>1, <1>3 DEF Sees, AtMBR
<1>5. Flagged(pc, r) = i
  BY <1>1, <1>4 DEF Flagged
<1>6. FixedKept(v, before, D) /\ (r.mbr /\ r.active => Bootable(v, D, i))
  BY <1>1, <1>3, <1>5 DEF Sees, AtMBR
<1>7. PICK loc \in Int : loc = Start(i)
  BY Places
<1>8. PICK o \in device_read(dev, loc, 1) :
        /\ dev' = o.dev
        /\ \/ i < Partitions /\ Only("flags", [r EXCEPT !.i = @ + 1])
           \/ Only("hints", [r EXCEPT !.i = 1])
           \/ Abort
  BY <1>4, <1>7 DEF CheckStart, Read
<1>9. Process /\ 1 \in Nat
  BY DEF CheckStart, Read
<1>10. v = View(dev')
  BY <1>1, <1>3, <1>8, <1>9, ReadShows
<1>11. CASE i < Partitions /\ Only("flags", [r EXCEPT !.i = @ + 1])
  <2>1. PICK j \in Nat : j = i + 1 /\ j \in 1 .. Partitions /\ j - 1 = i
    BY <1>11, SectorPlaces
  <2>2. pc' = "flags" /\ r' = [r EXCEPT !.i = j]
    BY <1>4, <1>11, <2>1 DEF Only
  <2>3. r'.mbr = r.mbr /\ r'.active = r.active /\ r'.i = j
    BY <1>2, <2>2, Counted
  <2>4. pc' \in OnMBR \ {"probe"} /\ pc' \in Preparing /\ Flagged(pc', r') = i
    BY <2>1, <2>2, <2>3 DEF OnMBR, Preparing, Flagged
  <2>5. AtMBR(pc', r', v, before, D)
    BY <1>6, <2>1, <2>3, <2>4 DEF AtMBR
  <2> QED
    BY <1>9, <1>10, <2>4, <2>5, SeesAt, SeenAfter
<1>12. CASE Only("hints", [r EXCEPT !.i = 1])
  <2>1. PICK j \in Nat : j = 1
    OBVIOUS
  <2>2. pc' = "hints" /\ r' = [r EXCEPT !.i = j]
    BY <1>12, <2>1 DEF Only
  <2>3. r'.mbr = r.mbr /\ r'.active = r.active
    BY <1>2, <2>2, Counted
  <2>4. pc' \in OnMBR \ {"probe"} /\ pc' \in Preparing /\ Flagged(pc', r') = Partitions /\ pc' \notin {"flags", "mend", "start"}
    BY <2>2 DEF OnMBR, Preparing, Flagged
  <2>5. i \in Nat /\ Partitions \in Nat /\ i <= Partitions
    BY SectorPlaces
  <2>6. r.mbr /\ r.active => Bootable(v, D, Partitions)
    BY <1>6, <2>5, BootableMore
  <2>7. AtMBR(pc', r', v, before, D)
    BY <1>6, <2>3, <2>4, <2>6 DEF AtMBR
  <2> QED
    BY <1>9, <1>10, <2>4, <2>7, SeesAt, SeenAfter
<1>13. CASE Abort
  BY <1>13, StoppedKeeps DEF Abort, Stopped
<1> QED
  BY <1>8, <1>11, <1>12, <1>13

(* The names of file systems are looked at, and do not make a device a     *)
(* partitioned one.                                                        *)
LEMMA CheckHintSees == ASSUME IInv, LInv, CheckHint PROVE LInv'
<1>1. pc = "hints" /\ pc \in Preparing /\ pc \in OnMBR \ {"probe"}
  BY DEF CheckHint, Preparing, OnMBR
<1>2. r \in Registers /\ r.i \in Nat /\ r.i >= 1
  BY <1>1, Shown DEF Known, Registers
<1>3. PICK v \in [D -> Nat] : v = View(dev) /\ Sees(pc, r, v, before, D)
  BY <1>1, SeenBefore
<1>4. \A s : \A p \in {"hints", "erase", "active"} :
        Flagged(p, s) = Partitions /\ p \in OnMBR \ {"probe"} /\ p \in Preparing
        /\ p \notin {"flags", "mend", "start"}
  BY DEF Flagged, OnMBR, Preparing
<1>5. FixedKept(v, before, D) /\ (r.mbr /\ r.active => Bootable(v, D, Partitions))
  BY <1>1, <1>3, <1>4 DEF Sees, AtMBR
<1>6. ASSUME pc' \in {"hints", "erase", "active"}, r'.active = r.active, r'.mbr = TRUE => r.mbr = TRUE, Process, v = View(dev')
      PROVE  LInv'
  <2>1. AtMBR(pc', r', v, before, D)
    BY <1>4, <1>5, <1>6 DEF AtMBR
  <2> QED
    BY <1>4, <1>6, <2>1, SeesAt, SeenAfter
<1>7. CASE r.i > Len(Hints)
  <2>1. pc' = "active" /\ r' = r /\ Process /\ dev' = dev
    BY <1>7 DEF CheckHint, Skip, Only
  <2> QED
    BY <1>3, <1>6, <2>1
<1>8. CASE ~(r.i > Len(Hints))
  <2>1. r.i \in 1 .. 6
    BY <1>2, <1>8, HintPlaces
  <2>2. PICK loc \in Int : loc = Hints[r.i][1]
    BY <2>1, HintPlaces
  <2>3. PICK o \in device_read(dev, loc, 1) :
          /\ dev' = o.dev
          /\ \/ Only("hints", [r EXCEPT !.i = @ + 1])
             \/ Only("erase", r)
             \/ Only("hints", [r EXCEPT !.i = @ + 1, !.mbr = FALSE])
             \/ Abort
    BY <1>8, <2>2 DEF CheckHint, Read
  <2>4. Process /\ 1 \in Nat
    BY <1>8 DEF CheckHint, Read
  <2>5. v = View(dev')
    BY <1>1, <1>3, <2>3, <2>4, ReadShows
  <2>6. PICK i \in Nat : i = r.i + 1
    BY <1>2
  <2>7. CASE Only("hints", [r EXCEPT !.i = @ + 1])
    <3>1. pc' = "hints" /\ r' = [r EXCEPT !.i = i]
      BY <2>6, <2>7 DEF Only
    <3>2. r'.active = r.active /\ r'.mbr = r.mbr
      BY <1>2, <3>1, Counted
    <3> QED
      BY <1>6, <2>4, <2>5, <3>1, <3>2
  <2>8. CASE Only("hints", [r EXCEPT !.i = @ + 1, !.mbr = FALSE])
    <3>1. pc' = "hints" /\ r' = [r EXCEPT !.i = i, !.mbr = FALSE]
      BY <2>6, <2>8 DEF Only
    <3>2. r'.active = r.active /\ r'.mbr = FALSE
      BY <1>2, <3>1 DEF Registers
    <3> QED
      BY <1>6, <2>4, <2>5, <3>1, <3>2
  <2>9. CASE Only("erase", r)
    <3>1. pc' = "erase" /\ r' = r
      BY <2>9 DEF Only
    <3> QED
      BY <1>6, <2>4, <2>5, <3>1
  <2>10. CASE Abort
    BY <2>10, StoppedKeeps DEF Abort, Stopped
  <2> QED
    BY <2>3, <2>7, <2>8, <2>9, <2>10
<1> QED
  BY <1>7, <1>8

(* A name that is erased is neither a flag nor fixed.                      *)
LEMMA EraseHintSees == ASSUME IInv, LInv, EraseHint PROVE LInv'
<1>1. pc = "erase" /\ pc \in Preparing /\ pc \in OnMBR \ {"probe"}
  BY DEF EraseHint, Preparing, OnMBR
<1>2. r \in Registers /\ r.i \in 1 .. 6
  BY <1>1, Shown, HintPlaces DEF Known
<1>3. PICK v \in [D -> Nat] : v = View(dev) /\ Sees(pc, r, v, before, D)
  BY <1>1, SeenBefore
<1>4. \A s : Flagged("erase", s) = Partitions /\ Flagged("hints", s) = Partitions
  BY DEF Flagged
<1>5. FixedKept(v, before, D) /\ (r.mbr /\ r.active => Bootable(v, D, Partitions))
  BY <1>1, <1>3, <1>4 DEF Sees, AtMBR
<1>6. PICK loc \in Int : loc = Hints[r.i][1] /\ loc \notin Fixed /\ \A q \in 1 .. Partitions : loc # Flag(q)
  BY <1>2, SectorPlaces
<1>7. PICK i \in Nat : i = r.i + 1
  BY <1>2
<1>8. PICK next : next = [r EXCEPT !.i = i]
  OBVIOUS
<1>9. PICK c \in Nat, cells \in Seq(Nat) : cells = << c >> /\ cells # << >> /\ c = 0
  BY OneCell
<1>10. device_write(loc, cells, "hints", next)
  BY <1>6, <1>7, <1>8, <1>9 DEF EraseHint
<1>11. Process /\ (Stopped \/ (pc' = "hints" /\ r' = next /\ Laid(View(dev'), v, D, loc, cells)))
  BY <1>1, <1>3, <1>9, <1>10, WriteShows
<1>12. CASE pc' = "hints" /\ r' = next /\ Laid(View(dev'), v, D, loc, cells)
  <2>1. PICK w : w = View(dev')
    OBVIOUS
  <2>20. OneLaid(w, v, D, loc, 0)
    BY <1>9, <1>12, <2>1, LaidOne
  <2>2. \A a \in D : a # loc => w[a] = v[a]
    BY <2>20 DEF OneLaid
  <2>3. FixedKept(w, before, D)
    BY <1>5, <1>6, <2>2 DEF FixedKept
  <2>4. \A q \in 1 .. Partitions : Flag(q) \in D => w[Flag(q)] = v[Flag(q)]
    BY <1>6, <2>2
  <2>5. next.mbr = r.mbr /\ next.active = r.active
    BY <1>2, <1>8, Counted
  <2>6. r.mbr /\ r.active => Bootable(w, D, Partitions)
    BY <1>5, <2>4, SectorPlaces, BootableStays
  <2>7. pc' \in OnMBR \ {"probe"} /\ pc' \in Preparing /\ pc' \notin {"flags", "mend", "start"}
    BY <1>12 DEF OnMBR, Preparing
  <2>8. AtMBR(pc', r', w, before, D)
    BY <1>4, <1>12, <2>3, <2>5, <2>6, <2>7 DEF AtMBR
  <2> QED
    BY <1>11, <2>1, <2>7, <2>8, SeesAt, SeenAfter
<1> QED
  BY <1>11, <1>12, StoppedKeeps

(* With a partition table, some partition is active in the end.            *)
LEMMA ActivateSees == ASSUME IInv, LInv, Activate PROVE LInv'
<1>1. pc = "active" /\ pc \in Preparing /\ pc \in OnMBR \ {"probe"}
  BY DEF Activate, Preparing, OnMBR
<1>2. r \in Registers /\ r.gpt = FALSE
  BY <1>1, Shown DEF Known, Registers, OnMBR
<1>3. PICK v \in [D -> Nat] : v = View(dev) /\ Sees(pc, r, v, before, D)
  BY <1>1, SeenBefore
<1>4. Flagged("active", r) = Partitions
  BY DEF Flagged
<1>5. FixedKept(v, before, D) /\ (r.mbr /\ r.active => Bootable(v, D, Partitions))
  BY <1>1, <1>3, <1>4 DEF Sees, AtMBR
<1>6. CASE ~r.mbr
  BY <1>6, StoppedKeeps DEF Activate, Abort, Stopped
<1>7. "locate" \in Preparing
  BY DEF Preparing
<1>8. CASE r.mbr /\ r.active
  <2>1. pc' = "locate" /\ r' = r /\ Process /\ dev' = dev
    BY <1>8 DEF Activate, Skip, Only
  <2>2. AtLocate(pc', r', v, before, D)
    BY <1>2, <1>5, <1>8, <2>1 DEF AtLocate, Preserved
  <2> QED
    BY <1>3, <1>7, <2>1, <2>2, SeesAt, SeenAfter
<1>9. CASE r.mbr /\ ~r.active
  <2>1. PICK loc \in Int : loc = Flag(1) /\ loc \notin Fixed /\ 1 \in 1 .. Partitions
    BY SectorPlaces
  <2>2. PICK c \in Nat, cells \in Seq(Nat) : cells = << c >> /\ cells # << >> /\ c = 128
    BY OneCell
  <2>3. PICK next : next = r
    OBVIOUS
  <2>4. device_write(loc, cells, "locate", next)
    BY <1>9, <2>1, <2>2, <2>3 DEF Activate
  <2>5. Process /\ (Stopped \/ (pc' = "locate" /\ r' = next /\ Laid(View(dev'), v, D, loc, cells)))
    BY <1>1, <1>3, <2>2, <2>4, WriteShows
  <2>6. CASE pc' = "locate" /\ r' = next /\ Laid(View(dev'), v, D, loc, cells)
    <3>1. PICK w : w = View(dev')
      OBVIOUS
    <3>20. OneLaid(w, v, D, loc, c)
      BY <2>2, <2>6, <3>1, LaidOne
    <3>2. loc \in D /\ w[loc] = c /\ \A a \in D : a # loc => w[a] = v[a]
      BY <3>20 DEF OneLaid
    <3>3. FixedKept(w, before, D)
      BY <1>5, <2>1, <3>2 DEF FixedKept
    <3>4. Bootable(w, D, Partitions)
      BY <2>1, <2>2, <3>2 DEF Bootable
    <3>5. AtLocate(pc', r', w, before, D)
      BY <1>2, <2>3, <2>6, <3>3, <3>4 DEF AtLocate, Preserved
    <3> QED
      BY <1>7, <2>5, <2>6, <3>1, <3>5, SeesAt, SeenAfter
  <2> QED
    BY <2>5, <2>6, StoppedKeeps
<1> QED
  BY <1>6, <1>8, <1>9

(* The place of stage 2 on an MBR disk is right behind the boot sector.    *)
LEMMA LocateSees == ASSUME IInv, LInv, Locate PROVE LInv'
<1>1. pc = "locate" /\ pc \in Preparing
  BY DEF Locate, Preparing
<1>2. r \in Registers
  BY <1>1, Shown DEF Known
<1>3. PICK v \in [D -> Nat] : v = View(dev) /\ Sees(pc, r, v, before, D)
  BY <1>1, SeenBefore
<1>4. Preserved(r, v, before, D)
  BY <1>1, <1>3 DEF Sees, AtLocate
<1>5. CASE ~r.gpt
  <2>1. PICK sector \in Nat, size \in Nat : sector = SECTOR /\ size = SizeA
    BY Sizes
  <2>2. PICK a \in Int, b \in Int : a = sector /\ b = sector + size
    OBVIOUS
  <2>3. pc' = "save" /\ r' = [r EXCEPT !.a = a, !.b = b] /\ Process /\ dev' = dev /\ "save" \in Preparing
    BY <1>5, <2>1, <2>2 DEF Locate, Skip, Only, Preparing, Installing
  <2>4. r'.gpt = r.gpt /\ r'.a = a /\ r'.b = b
    BY <1>2, <2>3 DEF Registers
  <2>5. Room(r')
    BY <2>1, <2>2, <2>4 DEF Room
  <2>6. AtSave(pc', r', v, before, D)
    BY <1>4, <2>4, <2>5 DEF AtSave, Preserved
  <2> QED
    BY <1>3, <2>3, <2>6, SeesAt, SeenAfter
<1>6. CASE r.gpt
  <2>1. PICK i \in Nat : i = 0
    OBVIOUS
  <2>2. pc' = (IF r.part # {} THEN "partition" ELSE "scan") /\ r' = [r EXCEPT !.i = i] /\ Process /\ dev' = dev
    BY <1>6, <2>1 DEF Locate, Skip, Only
  <2>3. r'.gpt = r.gpt /\ r'.part = r.part
    BY <1>2, <2>2, Counted
  <2>4. pc' \in {"secondary", "partition", "scan", "embed"} /\ pc' \in Preparing
    BY <2>2 DEF Preparing, OnGPT
  <2>5. AtGPT(pc', r', v, before, D)
    BY <1>4, <1>6, <2>2, <2>3 DEF AtGPT, Preserved
  <2> QED
    BY <1>3, <2>2, <2>4, <2>5, SeesAt, SeenAfter
<1> QED
  BY <1>5, <1>6

(* Alignment goes up from a place, or down from it by less than a block.   *)
LEMMA AlignedBounds ==
  ASSUME NEW loc \in Int, r.lb \in Nat \ {0}
  PROVE  /\ AlignedDown(loc) <= loc /\ AlignedDown(loc) \div r.lb = loc \div r.lb
         /\ loc \div r.lb \in Int /\ AlignedDown(loc) = (loc \div r.lb) * r.lb
         /\ AlignedUp(loc) >= loc
<1>1. PICK lb \in Nat \ {0} : lb = r.lb
  OBVIOUS
<1>2. ASSUME NEW x \in Int
      PROVE  (x \div lb) * lb <= x /\ x < (x \div lb) * lb + lb /\ ((x \div lb) * lb) \div lb = x \div lb
  <2>1. PICK q \in Int : q = x \div lb
    BY DivMod
  <2>2. PICK rem \in 0 .. lb - 1 : rem = x % lb
    BY DivMod
  <2>3. PICK m \in Int : m = q * lb
    OBVIOUS
  <2>4. x = m + rem
    BY <2>1, <2>2, <2>3, DivMod
  <2>5. m \div lb = q
    <3>1. (q * lb) \div lb = q
      OBVIOUS
    <3> QED
      BY <2>3, <3>1
  <2> QED
    BY <2>1, <2>2, <2>3, <2>4, <2>5
<1>3. ASSUME NEW x \in Int PROVE AlignedDown(x) <= x /\ x < AlignedDown(x) + lb
  BY <1>1, <1>2 DEF AlignedDown
<1>4. AlignedUp(loc) >= loc
  <2>1. CASE loc % lb = 0
    BY <1>1, <2>1 DEF AlignedUp
  <2>2. CASE loc % lb # 0
    <3>1. PICK x \in Int, y \in Int : x = loc + lb /\ y = AlignedDown(x)
      <4>1. PICK x \in Int : x = loc + lb
        OBVIOUS
      <4> QED
        BY <4>1, Aligned
    <3>2. x < y + lb
      BY <1>3, <3>1
    <3>3. AlignedUp(loc) = y
      BY <1>1, <2>2, <3>1 DEF AlignedUp
    <3> QED
      BY <3>1, <3>2, <3>3
  <2> QED
    BY <2>1, <2>2
<1>5. loc \div lb \in Int
  BY DivMod
<1> QED
  BY <1>1, <1>2, <1>4, <1>5 DEF AlignedDown

(* In a partition the second half is behind the first one.                 *)
LEMMA UsePartitionSees == ASSUME IInv, LInv, UsePartition PROVE LInv'
<1>1. pc = "partition" /\ pc \in OnGPT
  BY DEF UsePartition, OnGPT
<1>2. /\ pc \in Preparing /\ r \in Registers /\ r.lb \in Nat \ {0}
      /\ r.header[1 + ENTRY_LBA] \in Nat /\ r.header[1 + COUNT] \in Nat /\ r.header[1 + ENTRY_SIZE] \in Nat
  BY <1>1, ShownGPT
<1>3. PICK v \in [D -> Nat] : v = View(dev) /\ Sees(pc, r, v, before, D)
  BY <1>1, <1>2, SeenBefore
<1>4. r.gpt = TRUE /\ r.part # {} /\ First(v, before, D)
  BY <1>1, <1>2, <1>3 DEF Sees, AtGPT, Registers
<1>5. PICK n \in r.part :
        IF n = 0 \/ n - 1 > r.header[1 + COUNT]
          THEN Abort /\ Process /\ UNCHANGED << dev, undo, udfile, torn, unwritten >>
          ELSE Read(Entry(r.header, n - 1), 2, LAMBDA entry :
                 IF entry[1] = 0 THEN Abort
                 ELSE Only("save", [r EXCEPT !.a = entry[2] * r.lb, !.b = AlignedUp(entry[2] * r.lb + SizeA)]))
  BY DEF UsePartition
<1>6. n \in Nat
  BY <1>2 DEF Registers
<1>7. CASE n = 0 \/ n - 1 > r.header[1 + COUNT]
  BY <1>5, <1>7, StoppedKeeps DEF Abort, Stopped
<1>8. CASE ~(n = 0 \/ n - 1 > r.header[1 + COUNT])
  <2>1. PICK i \in Nat : i = n - 1
    BY <1>6, <1>8
  <2>2. PICK loc \in Int : loc = Entry(r.header, i)
    BY <1>2, EntryPlace
  <2>3. PICK o \in device_read(dev, loc, 2) :
          /\ dev' = o.dev
          /\ \/ o.ok /\ Only("save", [r EXCEPT !.a = o.data[2] * r.lb, !.b = AlignedUp(o.data[2] * r.lb + SizeA)])
             \/ Abort
    BY <1>5, <1>8, <2>1, <2>2 DEF Read
  <2>4. Process /\ 2 \in Nat
    BY <1>5, <1>8 DEF Read
  <2>5. View(dev') = View(dev) /\ (o.ok => ReadOf(o.data, View(dev), D, loc, 2))
    BY <1>2, <2>2, <2>3, <2>4, ReadShows
  <2>6. CASE o.ok /\ Only("save", [r EXCEPT !.a = o.data[2] * r.lb, !.b = AlignedUp(o.data[2] * r.lb + SizeA)])
    <3>1. PICK x \in Nat : x = o.data[2]
      <4>1. o.data \in Seq(Nat) /\ Len(o.data) = 2
        BY <2>5, <2>6 DEF ReadOf
      <4> QED
        BY <4>1
    <3>2. PICK a \in Nat : a = x * r.lb
      BY <1>2
    <3>3. PICK c \in Nat : c = a + SizeA
      BY Sizes
    <3>4. PICK b \in Nat : b = AlignedUp(c) /\ b >= c
      <4>1. c \in Int
        OBVIOUS
      <4>2. AlignedUp(c) \in Nat /\ AlignedUp(c) >= c
        BY <1>2, <4>1, Aligned, AlignedBounds
      <4> QED
        BY <4>2
    <3>5. pc' = "save" /\ r' = [r EXCEPT !.a = a, !.b = b] /\ "save" \in Preparing
      BY <2>6, <3>1, <3>2, <3>3, <3>4 DEF Only, Preparing, Installing
    <3>6. r'.gpt = TRUE /\ r'.a = a /\ r'.b = b /\ r'.part = r.part /\ r'.lb = r.lb
      <4>1. a \in Int /\ b \in Int
        OBVIOUS
      <4> QED
        BY <1>2, <1>4, <3>5, <4>1 DEF Registers
    <3>7. Apart(r') => Room(r')
      <4>1. Apart(r') => r.lb >= SECTOR /\ a >= r.lb
        BY <1>4, <3>6 DEF Apart
      <4>2. b >= a + SizeA
        BY <3>3, <3>4
      <4>3. PICK sector \in Nat, lb \in Nat : sector = SECTOR /\ lb = r.lb
        BY <1>2, Sizes
      <4>4. Apart(r') => a >= SECTOR
        BY <4>1, <4>3
      <4> QED
        BY <3>6, <4>2, <4>4 DEF Room
    <3>8. AtSave(pc', r', v, before, D)
      BY <1>4, <3>6, <3>7 DEF AtSave, Preserved
    <3> QED
      BY <1>3, <2>4, <2>5, <3>5, <3>8, SeesAt, SeenAfter
  <2>7. CASE Abort
    BY <2>7, StoppedKeeps DEF Abort, Stopped
  <2> QED
    BY <2>3, <2>6, <2>7
<1> QED
  BY <1>7, <1>8

(* Looking for the last entry in use.                                      *)
LEMMA ScanEntriesSees == ASSUME IInv, LInv, ScanEntries PROVE LInv'
<1>1. pc = "scan" /\ pc \in OnGPT
  BY DEF ScanEntries, OnGPT
<1>2. /\ pc \in Preparing /\ r \in Registers /\ r.lb \in Nat \ {0} /\ r.i \in Nat
      /\ r.header[1 + ENTRY_LBA] \in Nat /\ r.header[1 + ENTRY_SIZE] \in Nat
  BY <1>1, ShownGPT
<1>3. PICK v \in [D -> Nat] : v = View(dev) /\ Sees(pc, r, v, before, D)
  BY <1>1, <1>2, SeenBefore
<1>4. r.gpt /\ r.part = {} /\ First(v, before, D)
  BY <1>1, <1>3 DEF Sees, AtGPT
<1>5. ASSUME pc' \in {"scan", "embed"}, r'.gpt = r.gpt, r'.part = r.part, Process, View(dev') = v
      PROVE  LInv'
  <2>1. pc' \in {"secondary", "partition", "scan", "embed"} /\ pc' \in Preparing
    BY <1>5 DEF Preparing, OnGPT
  <2>2. AtGPT(pc', r', v, before, D)
    BY <1>4, <1>5 DEF AtGPT
  <2> QED
    BY <1>5, <2>1, <2>2, SeesAt, SeenAfter
<1>6. CASE r.i < r.header[1 + COUNT]
  <2>1. PICK loc \in Int : loc = Entry(r.header, r.i)
    BY <1>2, EntryPlace
  <2>2. PICK o \in device_read(dev, loc, 2) :
          /\ dev' = o.dev
          /\ \/ Only("scan", [r EXCEPT !.i = @ + 1, !.used = IF o.data[1] # 0 THEN r.i ELSE @])
             \/ Abort
    BY <1>6, <2>1 DEF ScanEntries, Read
  <2>3. Process /\ 2 \in Nat
    BY <1>6 DEF ScanEntries, Read
  <2>4. View(dev') = v
    BY <1>2, <1>3, <2>1, <2>2, <2>3, ReadShows
  <2>5. CASE Only("scan", [r EXCEPT !.i = @ + 1, !.used = IF o.data[1] # 0 THEN r.i ELSE @])
    <3>1. PICK i, used : i = r.i + 1 /\ used = IF o.data[1] # 0 THEN r.i ELSE r.used
      OBVIOUS
    <3>2. pc' = "scan" /\ r' = [r EXCEPT !.i = i, !.used = used]
      BY <2>5, <3>1 DEF Only
    <3>3. r'.gpt = r.gpt /\ r'.part = r.part
      BY <1>2, <3>2 DEF Registers
    <3> QED
      BY <1>5, <2>3, <2>4, <3>2, <3>3
  <2>6. CASE Abort
    BY <2>6, StoppedKeeps DEF Abort, Stopped
  <2> QED
    BY <2>2, <2>5, <2>6
<1>7. CASE ~(r.i < r.header[1 + COUNT])
  <2>1. pc' = "embed" /\ r' = r /\ Process /\ dev' = dev
    BY <1>7 DEF ScanEntries, Skip, Only
  <2> QED
    BY <1>3, <1>5, <2>1
<1> QED
  BY <1>6, <1>7

(* Products keep their order.                                              *)
LEMMA ProductOrder ==
  ASSUME NEW x \in Int, NEW y \in Int, NEW n \in Nat, x <= y
  PROVE  x * n <= y * n
<1>1. PICK k \in Nat : k = y - x
  OBVIOUS
<1>2. k * n >= 0 /\ y * n = x * n + k * n
  <2>1. k * n \in Nat
    OBVIOUS
  <2>2. (x + k) * n = x * n + k * n
    OBVIOUS
  <2> QED
    BY <1>1, <2>1, <2>2
<1>3. x * n \in Int /\ y * n \in Int /\ k * n \in Int
  OBVIOUS
<1> QED
  BY <1>2, <1>3

(* What rounding down does.                                                *)
LEMMA FloorBounds ==
  ASSUME NEW m \in Int, NEW lb \in Nat \ {0}, NEW p \in Int, p = m \div lb
  PROVE  p * lb \in Int /\ p * lb <= m /\ m < p * lb + lb
<1>1. PICK rem \in 0 .. lb - 1 : rem = m % lb
  BY DivMod
<1>2. p * lb \in Int
  OBVIOUS
<1>3. m = p * lb + rem
  BY <1>1, DivMod
<1> QED
  BY <1>1, <1>2, <1>3

(* An entry no larger than a block is in it at least once.                 *)
LEMMA FitsOnce ==
  ASSUME NEW lb \in Nat \ {0}, NEW y \in 1 .. lb, NEW k \in Int, k = lb \div y
  PROVE  k >= 1
<1>1. y \in Nat \ {0} /\ y <= lb
  OBVIOUS
<1>2. k * y \in Int /\ lb < k * y + y
  BY <1>1, FloorBounds
<1>3. k <= 0 => k * y <= 0 * y
  BY <1>1, ProductOrder
<1> QED
  BY <1>1, <1>2, <1>3

(* That number is an integer.                                              *)
LEMMA Quotient ==
  ASSUME NEW lb \in Nat \ {0}, NEW y \in 1 .. lb
  PROVE  \E k \in Int : k = lb \div y
<1>1. y \in Nat \ {0}
  OBVIOUS
<1> QED
  BY <1>1, DivMod

(* The ends of two arrays that are apart hold the halves of stage 2, where *)
(* the first one has room for its half and the second one is no longer.    *)
EndOf(x, n, lb, size, p) == p = ((x + n) * lb - size) \div lb

(* Where the end of an array is.                                           *)
LEMMA EndBounds ==
  ASSUME NEW x \in Nat, NEW n \in Nat, NEW lb \in Nat \ {0}, NEW size \in Nat, NEW p \in Int, EndOf(x, n, lb, size, p)
  PROVE  /\ x * lb \in Int /\ n * lb \in Int /\ p * lb \in Int
         /\ p * lb <= x * lb + n * lb - size /\ x * lb + n * lb - size < p * lb + lb
<1>1. x * lb \in Int /\ n * lb \in Int
  OBVIOUS
<1>2. (x + n) * lb = x * lb + n * lb
  OBVIOUS
<1>3. PICK m \in Int : m = x * lb + n * lb - size
  BY <1>1
<1>4. p = m \div lb
  BY <1>2, <1>3 DEF EndOf
<1>5. p * lb \in Int /\ p * lb <= m /\ m < p * lb + lb
  BY <1>4, FloorBounds
<1> QED
  BY <1>1, <1>3, <1>5

HasRoom(x, p, lb, y) == (p - x) * (lb \div y) >= 0

(* When entries are left, the first half is behind the start of its array. *)
LEMMA RoomBehind ==
  ASSUME NEW x \in Nat, NEW p \in Int, NEW lb \in Nat \ {0}, NEW y \in 1 .. lb, HasRoom(x, p, lb, y)
  PROVE  p >= x
<1>1. PICK k \in Int : k = lb \div y
  BY Quotient
<1>2. k \in Nat /\ k >= 1
  BY <1>1, FitsOnce
<1>3. PICK d \in Int : d = p - x
  OBVIOUS
<1>4. d * k >= 0
  BY <1>1, <1>3 DEF HasRoom
<1>5. d <= -1 => d * k <= (-1) * k
  BY <1>2, ProductOrder
<1>6. d * k \in Int /\ (-1) * k = -k
  BY <1>2
<1> QED
  BY <1>2, <1>3, <1>4, <1>5, <1>6

(* The first half is behind the first block, the second behind the first.  *)
LEMMA EndsApart ==
  ASSUME NEW lb \in Nat \ {0}, NEW x \in Nat, NEW z \in Nat, NEW n \in Nat, NEW sa \in Nat, NEW sb \in Nat, NEW y \in 1 .. lb,
         sb <= sa, x >= 1, z >= x + n,
         NEW p \in Int, EndOf(x, n, lb, sa, p), NEW q \in Int, EndOf(z, n, lb, sb, q), HasRoom(x, p, lb, y)
  PROVE  p * lb >= lb /\ q * lb >= p * lb + sa
<1>1. PICK xl \in Int, nl \in Int, pl \in Int : xl = x * lb /\ nl = n * lb /\ pl = p * lb /\ pl <= xl + nl - sa
  BY EndBounds
<1>2. PICK zl \in Int, ql \in Int : zl = z * lb /\ ql = q * lb /\ zl + nl - sb < ql + lb
  BY <1>1, EndBounds
<1>3. p >= x
  BY RoomBehind
<1>4. xl <= pl /\ lb <= xl
  <2>1. x * lb <= p * lb /\ 1 * lb <= x * lb
    BY <1>3, ProductOrder
  <2>2. 1 * lb = lb
    OBVIOUS
  <2> QED
    BY <1>1, <2>1, <2>2
<1>5. xl + nl <= zl
  <2>1. (x + n) * lb <= z * lb
    BY ProductOrder
  <2>2. (x + n) * lb = x * lb + n * lb
    OBVIOUS
  <2> QED
    BY <1>1, <1>2, <2>1, <2>2
<1>6. zl < ql + lb
  BY <1>1, <1>2, <1>4, <1>5
<1>7. z <= q
  <2>1. q + 1 <= z => (q + 1) * lb <= z * lb
    BY ProductOrder
  <2>2. (q + 1) * lb = q * lb + lb
    OBVIOUS
  <2> QED
    BY <1>2, <1>6, <2>1, <2>2
<1>8. zl <= ql
  BY <1>2, <1>7, ProductOrder
<1> QED
  BY <1>1, <1>2, <1>4, <1>5, <1>8

(* The second half is no longer than the first one.                        *)
LEMMA HalfOrder == SizeB <= SizeA
<1>1. PICK s \in Nat : s = SECTOR
  BY Sizes
<1>2. SizeB \in Nat /\ SizeA = SizeB + (IF Sectors % 2 = 1 THEN s ELSE 0)
  BY <1>1, Sizes DEF SizeA, SizeB
<1> QED
  BY <1>1, <1>2

(* The program ends in the middle of it.                                   *)
LEMMA KilledSees == ASSUME Killed PROVE LInv'
<1>1. pc' = "shell" /\ exit' = "killed"
  BY DEF Killed
<1>2. pc' \notin Preparing /\ ~Installed'
  BY <1>1 DEF Preparing, OnMBR, OnGPT, Installing, Installed, Exited
<1> QED
  BY <1>1, <1>2 DEF LInv

(* The ends of the arrays are chosen.                                      *)
LEMMA EmbedSees == ASSUME IInv, LInv, Embed PROVE LInv'
<1>1. pc = "embed" /\ pc \in OnGPT
  BY DEF Embed, OnGPT
<1>2. /\ pc \in Preparing /\ Base(r) /\ r \in Registers
      /\ r.lb \in Nat \ {0} /\ r.header[1 + ENTRY_LBA] \in Nat /\ r.header[1 + ENTRY_SIZE] \in Nat
      /\ r.second[1 + ENTRY_LBA] \in Nat
  BY <1>1, ShownGPT
<1>3. PICK v \in [D -> Nat] : v = View(dev) /\ Sees(pc, r, v, before, D)
  BY <1>1, <1>2, SeenBefore
<1>4. r.gpt = TRUE /\ r.part = {} /\ First(v, before, D)
  BY <1>1, <1>2, <1>3 DEF Sees, AtGPT, Registers
<1>5. CASE r.header[1 + ENTRY_SIZE] = 0
  BY <1>5, KilledSees DEF Embed
<1>6. CASE r.header[1 + ENTRY_SIZE] # 0
  <2>1. PICK lb \in Nat \ {0}, x \in Nat, y \in Nat \ {0}, z \in Nat, n \in Nat, sa \in Nat, sb \in Nat :
          /\ lb = r.lb /\ x = r.header[1 + ENTRY_LBA] /\ y = r.header[1 + ENTRY_SIZE] /\ z = r.second[1 + ENTRY_LBA]
          /\ n = ARRAY_LBAS /\ sa = SizeA /\ sb = SizeB /\ sb <= sa
    BY <1>2, <1>6, Sizes, HalfOrder
  <2>2. PICK p \in Int, a \in Int : /\ p = ((x + n) * lb - sa) \div lb
                                    /\ a = p * lb /\ a = AlignedDown((x + n) * lb - sa) /\ a \div lb = p
    <3>1. PICK w \in Int : w = (x + n) * lb - sa
      OBVIOUS
    <3>2. PICK p \in Int : p = w \div lb
      BY DivMod
    <3>3. PICK a \in Int : a = p * lb
      OBVIOUS
    <3>4. AlignedDown(w) = a /\ AlignedDown(w) \div lb = p
      BY <1>2, <2>1, <3>2, <3>3, AlignedBounds
    <3> QED
      BY <3>1, <3>2, <3>3, <3>4
  <2>3. PICK q \in Int, b \in Int : /\ q = ((z + n) * lb - sb) \div lb
                                    /\ b = q * lb /\ b = AlignedDown((z + n) * lb - sb)
    <3>1. PICK w \in Int : w = (z + n) * lb - sb
      OBVIOUS
    <3>2. PICK q \in Int : q = w \div lb
      BY DivMod
    <3>3. PICK b \in Int : b = q * lb
      OBVIOUS
    <3>4. AlignedDown(w) = b
      BY <1>2, <2>1, <3>2, <3>3, AlignedBounds
    <3> QED
      BY <3>1, <3>2, <3>3, <3>4
  <2>4. PICK count \in Int : count = (p - x) * (lb \div y)
    <3>1. PICK k \in Int : k = lb \div y
      BY DivMod
    <3>2. (p - x) * k \in Int
      OBVIOUS
    <3> QED
      BY <3>1, <3>2
  <2>5. IF NoRoom(count) THEN Abort /\ Process /\ UNCHANGED << dev, undo, udfile, torn, unwritten >>
        ELSE Skip("clear1", [r EXCEPT !.a = a, !.b = b, !.count = count, !.i = r.used + 1])
    BY <1>6, <2>1, <2>2, <2>3, <2>4 DEF Embed
  <2>6. CASE NoRoom(count)
    BY <2>5, <2>6, StoppedKeeps DEF Abort, Stopped
  <2>7. CASE ~NoRoom(count)
    <3>1. PICK i \in Nat : i = r.used + 1 /\ count >= 0
      <4>1. PICK used \in Int : used = r.used /\ used >= -1
        BY <1>2 DEF Base, Registers
      <4>2. count > used
        BY <2>7, <4>1 DEF NoRoom
      <4> QED
        BY <4>1, <4>2
    <3>2. pc' = "clear1" /\ r' = [r EXCEPT !.a = a, !.b = b, !.count = count, !.i = i] /\ Process /\ dev' = dev
      BY <2>5, <2>7, <3>1 DEF Skip, Only
    <3>3. r'.gpt = TRUE /\ r'.part = {} /\ r'.a = a /\ r'.b = b /\ r'.lb = lb /\ r'.header = r.header /\ r'.second = r.second
      BY <1>2, <1>4, <2>1, <3>2 DEF Registers
    <3>4. ASSUME Apart(r') PROVE Room(r')
      <4>1. x >= 1 /\ y \in 1 .. lb /\ z >= x + n /\ lb >= SECTOR
        BY <2>1, <3>3, <3>4 DEF Apart
      <4>5. HasRoom(x, p, lb, y) /\ sb <= sa
        BY <2>1, <2>4, <3>1 DEF HasRoom
      <4>6. EndOf(x, n, lb, sa, p) /\ EndOf(z, n, lb, sb, q)
        BY <2>2, <2>3 DEF EndOf
      <4>7. p * lb >= lb /\ q * lb >= p * lb + sa
        BY <4>1, <4>5, <4>6, EndsApart
      <4>2. a >= lb /\ b >= a + sa
        BY <2>2, <2>3, <4>7
      <4>3. PICK sector \in Nat : sector = SECTOR
        BY Sizes
      <4>4. a >= sector
        BY <4>1, <4>2, <4>3
      <4> QED
        BY <2>1, <3>3, <4>2, <4>3, <4>4 DEF Room
    <3>5. pc' \in Embedding /\ pc' \in Preparing
      BY <3>2 DEF Embedding, Preparing, OnGPT
    <3>6. AtEmbed(pc', r', v, before, D)
      BY <1>4, <3>3, <3>4 DEF AtEmbed
    <3> QED
      BY <1>3, <3>2, <3>5, <3>6, SeesAt, SeenAfter
  <2> QED
    BY <2>6, <2>7
<1> QED
  BY <1>5, <1>6

(* A write behind the first sector leaves it alone.                        *)
LEMMA FirstStays ==
  ASSUME NEW w, NEW v, NEW b, NEW A, A \subseteq Nat, NEW loc \in Int, NEW cells \in Seq(Nat), Laid(w, v, A, loc, cells),
         loc >= SECTOR, First(v, b, A)
  PROVE  First(w, b, A)
<1>1. PICK n \in Nat, sector \in Nat : n = Len(cells) /\ sector = SECTOR
  BY LenNat, Sizes
<1>2. \A k \in A : k < sector => k \notin loc .. loc + n - 1
  BY <1>1
<1> QED
  BY <1>1, <1>2 DEF Laid, First

(* The registers of an embedding, and that they do not depend on counting. *)
LEMMA ApartCounted ==
  ASSUME NEW s \in Registers, NEW i \in Nat, NEW t, t = [s EXCEPT !.i = i]
  PROVE  (Apart(t) <=> Apart(s)) /\ (Room(t) <=> Room(s)) /\ t.gpt = s.gpt /\ t.part = s.part
<1>1. t.gpt = s.gpt /\ t.part = s.part /\ t.lb = s.lb /\ t.header = s.header /\ t.second = s.second /\ t.a = s.a /\ t.b = s.b
  BY Counted
<1> QED
  BY <1>1 DEF Apart, Room

(* The places that an embedding writes are behind the first sector.        *)
LEMMA BehindFirst ==
  ASSUME r.lb \in Nat \ {0}, NEW x \in Nat, NEW y \in Nat, x >= 1, r.lb >= SECTOR
  PROVE  r.lb * x >= SECTOR /\ x * r.lb + y >= SECTOR
<1>1. PICK lb \in Nat, sector \in Nat : lb = r.lb /\ sector = SECTOR /\ lb >= sector
  BY Sizes
<1>2. 1 * lb <= x * lb
  BY ProductOrder
<1>3. x * lb \in Int /\ lb * x = x * lb /\ 1 * lb = lb
  OBVIOUS
<1>4. lb * x >= sector /\ x * lb + y >= sector
  BY <1>1, <1>2, <1>3
<1> QED
  BY <1>1, <1>4

(* An entry is cleared, in either array.                                   *)
LEMMA ClearEntrySees ==
  ASSUME IInv, LInv, NEW from \in Embedding, NEW to \in Embedding, NEW h,
         h[1 + ENTRY_LBA] \in Nat, h[1 + ENTRY_SIZE] \in Nat, r.gpt /\ r.part = {} /\ Apart(r) => h[1 + ENTRY_LBA] >= 1,
         ClearEntry(from, h, to)
  PROVE  LInv'
<1>1. pc = from /\ pc \in Embedding
  BY DEF ClearEntry
<1>2. /\ pc \in OnGPT /\ pc \in Preparing /\ BaseGPT(r) /\ Base(r)
  BY <1>1, ShownEmbedding
<1>3. r \in Registers /\ r.i \in Nat /\ r.lb \in Nat \ {0} /\ r.used \in Int /\ r.used >= -1
  BY <1>2 DEF BaseGPT, Base, Registers
<1>4. PICK v \in [D -> Nat] : v = View(dev) /\ Sees(pc, r, v, before, D)
  BY <1>2, SeenBefore
<1>5. r.gpt /\ r.part = {} /\ (Apart(r) => First(v, before, D) /\ Room(r))
  BY <1>1, <1>4 DEF Sees, AtEmbed
<1>6. \A p \in Embedding : p \in Preparing
  BY DEF Embedding, Preparing, OnGPT
<1>7. CASE r.i < r.count
  <2>1. PICK loc \in Int : loc = Entry(h, r.i) /\ loc \in Nat
    BY <1>3, EntryPlace
  <2>2. PICK cells \in Seq(Nat) : cells = [k \in 1 .. h[1 + ENTRY_SIZE] |-> 0]
    BY ZeroCells
  <2>3. PICK i \in Nat : i = r.i + 1
    BY <1>3
  <2>4. PICK next : next = [r EXCEPT !.i = i]
    OBVIOUS
  <2>5. device_write(loc, cells, from, next)
    BY <1>7, <2>1, <2>2, <2>3, <2>4 DEF ClearEntry
  <2>6. Process /\ (Stopped \/ (pc' = from /\ r' = next /\ Laid(View(dev'), v, D, loc, cells)))
    BY <1>2, <1>4, <2>1, <2>5, WriteShows
  <2>7. CASE pc' = from /\ r' = next /\ Laid(View(dev'), v, D, loc, cells)
    <3>1. (Apart(r') <=> Apart(r)) /\ (Room(r') <=> Room(r)) /\ r'.gpt = r.gpt /\ r'.part = r.part
      BY <1>3, <2>4, <2>7, ApartCounted
    <3>2. ASSUME Apart(r) PROVE First(View(dev'), before, D)
      <4>1. r.lb >= SECTOR /\ h[1 + ENTRY_LBA] >= 1
        BY <1>5, <3>2 DEF Apart
      <4>2. PICK x \in Nat, y \in Nat : x = h[1 + ENTRY_LBA] /\ y = r.i * h[1 + ENTRY_SIZE]
        <5>1. PICK m \in Nat, n \in Nat : m = r.i /\ n = h[1 + ENTRY_SIZE]
          BY <1>3
        <5>2. m * n \in Nat
          OBVIOUS
        <5> QED
          BY <5>1, <5>2
      <4>3. loc >= SECTOR
        BY <1>3, <2>1, <4>1, <4>2, BehindFirst DEF Entry
      <4>4. D \subseteq Nat
        BY <1>2, Preparings DEF Addresses
      <4> QED
        BY <1>5, <2>7, <3>2, <4>3, <4>4, FirstStays
    <3>3. AtEmbed(pc', r', View(dev'), before, D)
      BY <1>5, <3>1, <3>2 DEF AtEmbed
    <3> QED
      BY <1>6, <2>6, <2>7, <3>3, SeesAt, SeenAfter
  <2> QED
    BY <2>6, <2>7, StoppedKeeps
<1>8. CASE ~(r.i < r.count)
  <2>1. PICK i \in Nat : i = r.used + 1
    BY <1>3
  <2>2. pc' = to /\ r' = [r EXCEPT !.i = i] /\ Process /\ dev' = dev
    BY <1>8, <2>1 DEF ClearEntry, Skip, Only
  <2>3. (Apart(r') <=> Apart(r)) /\ (Room(r') <=> Room(r)) /\ r'.gpt = r.gpt /\ r'.part = r.part
    BY <1>3, <2>2, ApartCounted
  <2>4. AtEmbed(pc', r', v, before, D)
    BY <1>5, <2>3 DEF AtEmbed
  <2> QED
    BY <1>4, <1>6, <2>2, <2>4, SeesAt, SeenAfter
<1> QED
  BY <1>7, <1>8

(* The entries of the primary array.                                       *)
LEMMA ClearPrimarySees == ASSUME IInv, LInv, ClearPrimary PROVE LInv'
<1>1. ClearEntry("clear1", r.header, "clear2") /\ pc = "clear1"
  BY DEF ClearPrimary, ClearEntry
<1>2. "clear1" \in Embedding /\ "clear2" \in Embedding /\ pc \in OnGPT
  BY <1>1 DEF Embedding, OnGPT
<1>3. PICK h : h = r.header /\ h[1 + ENTRY_LBA] \in Nat /\ h[1 + ENTRY_SIZE] \in Nat
  BY <1>2, ShownGPT
<1>4. r.gpt /\ r.part = {} /\ Apart(r) => h[1 + ENTRY_LBA] >= 1
  BY <1>3 DEF Apart
<1> QED
  BY <1>1, <1>2, <1>3, <1>4, ClearEntrySees

(* The entries of the secondary array.                                     *)
LEMMA ClearSecondarySees == ASSUME IInv, LInv, ClearSecondary PROVE LInv'
<1>1. ClearEntry("clear2", r.second, "sum") /\ pc = "clear2"
  BY DEF ClearSecondary, ClearEntry
<1>2. "clear2" \in Embedding /\ "sum" \in Embedding /\ pc \in OnGPT
  BY <1>1 DEF Embedding, OnGPT
<1>3. PICK h : h = r.second /\ h[1 + ENTRY_LBA] \in Nat /\ h[1 + ENTRY_SIZE] \in Nat
  BY <1>2, ShownGPT
<1>4. PICK x \in Nat, z \in Nat, n \in Nat : x = r.header[1 + ENTRY_LBA] /\ z = h[1 + ENTRY_LBA] /\ n = ARRAY_LBAS
  BY <1>2, <1>3, ShownGPT, Sizes
<1>5. r.gpt /\ r.part = {} /\ Apart(r) => h[1 + ENTRY_LBA] >= 1
  BY <1>3, <1>4 DEF Apart
<1> QED
  BY <1>1, <1>2, <1>3, <1>5, ClearEntrySees

(* The new count and checksums of a header leave its places.               *)
LEMMA ResealedPlaces ==
  ASSUME NEW h \in Seq(Nat), Len(h) = HEADER_SIZE, NEW array
  PROVE  /\ Resealed(h, array)[1 + ALTERNATE] = h[1 + ALTERNATE]
         /\ Resealed(h, array)[1 + ENTRY_LBA] = h[1 + ENTRY_LBA]
         /\ Resealed(h, array)[1 + ENTRY_SIZE] = h[1 + ENTRY_SIZE]
<1>1. PICK crc, count : crc = crc32(array) /\ count = r.count
  OBVIOUS
<1>2. PICK e : e = [h EXCEPT ![4] = count, ![6] = crc, ![7] = 0]
  OBVIOUS
<1>3. PICK sum : sum = crc32(e)
  OBVIOUS
<1>4. Resealed(h, array) = [e EXCEPT ![7] = sum]
  BY <1>1, <1>2, <1>3 DEF Resealed, COUNT, ARRAY_CRC, HEADER_CRC
<1>5. DOMAIN h = 1 .. 7
  BY DEF HEADER_SIZE
<1>6. DOMAIN e = 1 .. 7 /\ e[2] = h[2] /\ e[3] = h[3] /\ e[5] = h[5]
  <2>1. 2 \in DOMAIN h /\ 3 \in DOMAIN h /\ 5 \in DOMAIN h
    BY <1>5
  <2>2. DOMAIN e = DOMAIN h
    BY <1>2, Zenon
  <2>3. \A k \in DOMAIN h : k # 4 /\ k # 6 /\ k # 7 => e[k] = h[k]
    BY <1>2, Zenon
  <2> QED
    BY <1>5, <2>1, <2>2, <2>3
<1>7. PICK g : g = [e EXCEPT ![7] = sum]
  OBVIOUS
<1>8. g[2] = e[2] /\ g[3] = e[3] /\ g[5] = e[5]
  BY <1>6, <1>7
<1> QED
  BY <1>4, <1>6, <1>7, <1>8 DEF ALTERNATE, ENTRY_LBA, ENTRY_SIZE

(* The checksum of the array moves nothing.                                *)
LEMMA SumArraySees == ASSUME IInv, LInv, SumArray PROVE LInv'
<1>1. pc = "sum" /\ pc \in Embedding /\ pc \in OnGPT
  BY DEF SumArray, Embedding, OnGPT
<1>2. /\ pc \in Preparing /\ BaseGPT(r) /\ r \in Registers /\ r.count \in Nat
      /\ r.header[1 + ENTRY_SIZE] \in Nat /\ r.header[1 + ENTRY_LBA] \in Nat /\ r.lb \in Nat
  BY <1>1, ShownEmbedding, ShownGPT
<1>3. PICK v \in [D -> Nat] : v = View(dev) /\ Sees(pc, r, v, before, D)
  BY <1>2, SeenBefore
<1>4. r.gpt /\ r.part = {} /\ (Apart(r) => First(v, before, D) /\ Room(r))
  BY <1>1, <1>3 DEF Sees, AtEmbed
<1>5. PICK loc \in Int : loc = Entry(r.header, 0)
  <2>1. PICK i \in Nat : i = 0
    OBVIOUS
  <2>2. Entry(r.header, i) \in Nat
    BY <1>2, EntryPlace
  <2> QED
    BY <2>1, <2>2
<1>6. PICK count \in Nat : count = r.count * r.header[1 + ENTRY_SIZE]
  <2>1. PICK x \in Nat, y \in Nat : x = r.count /\ y = r.header[1 + ENTRY_SIZE]
    BY <1>2
  <2>2. x * y \in Nat
    OBVIOUS
  <2> QED
    BY <2>1, <2>2
<1>7. PICK o \in device_read(dev, loc, count) :
        /\ dev' = o.dev
        /\ \/ Only("header1", [r EXCEPT !.header = Resealed(@, o.data), !.second = Resealed(@, o.data)])
           \/ Abort
  BY <1>5, <1>6 DEF SumArray, Read
<1>8. Process
  BY DEF SumArray, Read
<1>9. View(dev') = v
  BY <1>2, <1>3, <1>7, ReadShows
<1>10. CASE Only("header1", [r EXCEPT !.header = Resealed(@, o.data), !.second = Resealed(@, o.data)])
  <2>1. PICK h \in Seq(Nat), g \in Seq(Nat) : h = r.header /\ g = r.second /\ Len(h) = HEADER_SIZE /\ Len(g) = HEADER_SIZE
    BY <1>2 DEF BaseGPT, Registers
  <2>2. PICK first, second : first = Resealed(h, o.data) /\ second = Resealed(g, o.data)
    OBVIOUS
  <2>3. /\ first[1 + ALTERNATE] = h[1 + ALTERNATE] /\ first[1 + ENTRY_LBA] = h[1 + ENTRY_LBA]
        /\ first[1 + ENTRY_SIZE] = h[1 + ENTRY_SIZE]
    BY <2>1, <2>2, ResealedPlaces
  <2>4. second[1 + ENTRY_LBA] = g[1 + ENTRY_LBA]
    BY <2>1, <2>2, ResealedPlaces
  <2>5. pc' = "header1" /\ r' = [r EXCEPT !.header = first, !.second = second]
    BY <1>10, <2>1, <2>2 DEF Only
  <2>6. /\ r'.gpt = r.gpt /\ r'.part = r.part /\ r'.lb = r.lb /\ r'.a = r.a /\ r'.b = r.b
        /\ r'.header = first /\ r'.second = second
    BY <1>2, <2>5 DEF Registers
  <2>7. Apart(r') <=> Apart(r)
    BY <2>1, <2>3, <2>4, <2>6 DEF Apart
  <2>8. Room(r') <=> Room(r)
    BY <2>6 DEF Room
  <2>9. AtEmbed(pc', r', v, before, D)
    BY <1>4, <2>6, <2>7, <2>8 DEF AtEmbed
  <2>10. pc' \in Embedding /\ pc' \in Preparing
    BY <2>5 DEF Embedding, Preparing, OnGPT
  <2> QED
    BY <1>8, <1>9, <2>9, <2>10, SeesAt, SeenAfter
<1>11. CASE Abort
  BY <1>11, StoppedKeeps DEF Abort, Stopped
<1> QED
  BY <1>7, <1>10, <1>11

(* The headers are written behind the first sector.                        *)
LEMMA WriteHeaderSees == ASSUME IInv, LInv, WriteHeader PROVE LInv'
<1>1. pc = "header1" /\ pc \in Embedding /\ pc \in OnGPT
  BY DEF WriteHeader, Embedding, OnGPT
<1>2. pc \in Preparing /\ r \in Registers
  BY <1>1, ShownGPT
<1>3. PICK v \in [D -> Nat] : v = View(dev) /\ Sees(pc, r, v, before, D)
  BY <1>2, SeenBefore
<1>4. r.gpt /\ r.part = {} /\ (Apart(r) => First(v, before, D) /\ Room(r))
  BY <1>1, <1>3 DEF Sees, AtEmbed
<1>5. PICK loc \in Int, cells \in Seq(Nat) : loc = r.lb /\ loc \in Nat /\ cells = r.header
  BY <1>2 DEF Registers
<1>6. PICK next : next = r
  OBVIOUS
<1>7. device_write(loc, cells, "header2", next)
  BY <1>5, <1>6 DEF WriteHeader
<1>8. Process /\ (Stopped \/ (pc' = "header2" /\ r' = next /\ Laid(View(dev'), v, D, loc, cells)))
  BY <1>2, <1>3, <1>5, <1>7, WriteShows
<1>9. CASE pc' = "header2" /\ r' = next /\ Laid(View(dev'), v, D, loc, cells)
  <2>1. ASSUME Apart(r) PROVE First(View(dev'), before, D)
    <3>1. loc >= SECTOR
      BY <1>4, <1>5, <2>1 DEF Apart
    <3>2. D \subseteq Nat
      BY <1>2, Preparings DEF Addresses
    <3> QED
      BY <1>4, <1>9, <2>1, <3>1, <3>2, FirstStays
  <2>2. AtEmbed(pc', r', View(dev'), before, D)
    BY <1>4, <1>6, <1>9, <2>1 DEF AtEmbed
  <2>3. pc' \in Embedding /\ pc' \in Preparing
    BY <1>9 DEF Embedding, Preparing, OnGPT
  <2> QED
    BY <1>8, <2>2, <2>3, SeesAt, SeenAfter
<1> QED
  BY <1>8, <1>9, StoppedKeeps

(* So is the second one, when it is not in the first block.                *)
LEMMA WriteSecondSees == ASSUME IInv, LInv, WriteSecond PROVE LInv'
<1>1. pc = "header2" /\ pc \in Embedding /\ pc \in OnGPT
  BY DEF WriteSecond, Embedding, OnGPT
<1>2. pc \in Preparing /\ r \in Registers /\ r.lb \in Nat \ {0} /\ r.header[1 + ALTERNATE] \in Nat /\ r.second \in Seq(Nat)
  BY <1>1, ShownGPT DEF Registers
<1>3. PICK v \in [D -> Nat] : v = View(dev) /\ Sees(pc, r, v, before, D)
  BY <1>2, SeenBefore
<1>4. r.gpt /\ r.part = {} /\ (Apart(r) => First(v, before, D) /\ Room(r))
  BY <1>1, <1>3 DEF Sees, AtEmbed
<1>5. PICK x \in Nat : x = r.header[1 + ALTERNATE]
  BY <1>2
<1>6. PICK loc \in Nat : loc = r.lb * x
  BY <1>2
<1>7. PICK cells \in Seq(Nat) : cells = r.second
  BY <1>2
<1>8. PICK next : next = r
  OBVIOUS
<1>9. device_write(loc, cells, "save", next) /\ loc \in Int
  BY <1>5, <1>6, <1>7, <1>8 DEF WriteSecond
<1>10. Process /\ (Stopped \/ (pc' = "save" /\ r' = next /\ Laid(View(dev'), v, D, loc, cells)))
  BY <1>2, <1>3, <1>9, WriteShows
<1>11. CASE pc' = "save" /\ r' = next /\ Laid(View(dev'), v, D, loc, cells)
  <2>1. ASSUME Apart(r) PROVE First(View(dev'), before, D)
    <3>1. x >= 1 /\ r.lb >= SECTOR
      BY <1>4, <1>5, <2>1 DEF Apart
    <3>2. loc >= SECTOR
      BY <1>2, <1>6, <3>1, BehindFirst
    <3>3. D \subseteq Nat
      BY <1>2, Preparings DEF Addresses
    <3> QED
      BY <1>4, <1>9, <1>11, <2>1, <3>2, <3>3, FirstStays
  <2>2. AtSave(pc', r', View(dev'), before, D)
    BY <1>4, <1>8, <1>11, <2>1 DEF AtSave, Preserved
  <2>3. pc' \in Preparing
    BY <1>11 DEF Preparing, Installing
  <2> QED
    BY <1>10, <1>11, <2>2, <2>3, SeesAt, SeenAfter
<1> QED
  BY <1>10, <1>11, StoppedKeeps

(* What is asked of the places depends on a few registers only.            *)
LEMMA SamePlaces ==
  ASSUME NEW s, NEW t, t.gpt = s.gpt, t.part = s.part, t.lb = s.lb, t.header = s.header, t.second = s.second, t.a = s.a, t.b = s.b,
         NEW v, NEW b, NEW A
  PROVE  (Apart(t) <=> Apart(s)) /\ (Room(t) <=> Room(s)) /\ (Preserved(t, v, b, A) <=> Preserved(s, v, b, A))
BY DEF Apart, Room, Preserved

(* The timestamp that is saved is the one from before.                     *)
LEMMA SaveStampSees == ASSUME IInv, LInv, SaveStamp PROVE LInv'
<1>1. pc = "save" /\ pc \in Installing
  BY DEF SaveStamp, Installing
<1>2. pc \in Preparing /\ r \in Registers
  BY <1>1, ShownInstalling
<1>3. PICK v \in [D -> Nat] : v = View(dev) /\ Sees(pc, r, v, before, D)
  BY <1>2, SeenBefore
<1>4. Apart(r) => Room(r) /\ Preserved(r, v, before, D)
  BY <1>1, <1>3 DEF Sees, AtSave
<1>5. PICK loc \in Int : loc = STAMP
  BY DEF STAMP
<1>6. PICK o \in device_read(dev, loc, 1) :
        /\ dev' = o.dev /\ ((o.ok /\ Only("table", [r EXCEPT !.stamp = o.data])) \/ Abort)
  BY <1>5 DEF SaveStamp, Read
<1>7. Process /\ 1 \in Nat
  BY DEF SaveStamp, Read
<1>8. View(dev') = v /\ (o.ok => ReadOf(o.data, v, D, loc, 1))
  BY <1>2, <1>3, <1>6, <1>7, ReadShows
<1>9. CASE o.ok /\ Only("table", [r EXCEPT !.stamp = o.data])
  <2>1. PICK data \in Seq(Nat) : data = o.data /\ Len(data) = 1 /\ loc \in D /\ data[1] = v[loc]
    <3>1. 1 \in 1 .. 1 /\ loc + 1 - 1 = loc
      OBVIOUS
    <3> QED
      BY <1>8, <1>9, <3>1 DEF ReadOf
  <2>2. pc' = "table" /\ r' = [r EXCEPT !.stamp = data]
    BY <1>9, <2>1 DEF Only
  <2>3. /\ r'.gpt = r.gpt /\ r'.part = r.part /\ r'.lb = r.lb /\ r'.header = r.header /\ r'.second = r.second
        /\ r'.a = r.a /\ r'.b = r.b /\ r'.stamp = data
    BY <1>2, <2>2 DEF Registers
  <2>4. (Apart(r') <=> Apart(r)) /\ (Room(r') <=> Room(r)) /\ (Preserved(r', v, before, D) <=> Preserved(r, v, before, D))
    BY <2>3, SamePlaces
  <2>5. ASSUME Preserved(r, v, before, D) PROVE StampKept(r', before)
    <3>1. FixedKept(v, before, D)
      BY <2>5, FirstFixed DEF Preserved
    <3>2. v[loc] = before[loc]
      BY <1>5, <2>1, <3>1 DEF FixedKept, Fixed
    <3>3. data = << before[loc] >>
      <4>1. PICK c : c = before[loc]
        OBVIOUS
      <4>2. data = << c >>
        BY <2>1, <3>2, <4>1
      <4> QED
        BY <4>1, <4>2
    <3> QED
      BY <1>5, <2>3, <3>3 DEF StampKept
  <2>6. AtTable(pc', r', v, before, D)
    BY <1>4, <2>4, <2>5 DEF AtTable
  <2>7. pc' \in Preparing
    BY <2>2 DEF Preparing, Installing
  <2> QED
    BY <1>7, <1>8, <2>2, <2>6, <2>7, SeesAt, SeenAfter
<1>10. CASE Abort
  BY <1>10, StoppedKeeps DEF Abort, Stopped
<1> QED
  BY <1>6, <1>9, <1>10

(* The places of the partition table.                                      *)
LEMMA TablePlaces ==
  /\ \A k \in 1 .. TABLE_SIZE : DISK_ID + k - 1 \in Nat /\ DISK_ID + k - 1 < SECTOR
  /\ \A q \in 1 .. Partitions : 2 * q \in 1 .. TABLE_SIZE /\ Flag(q) = DISK_ID + 2 * q - 1
<1>1. PICK n \in Nat : n = Partitions
  BY LimineToolAssumption
<1>2. SECTOR = 2 * n + 11 /\ TABLE_SIZE = 2 * n + 1 /\ DISK_ID = 9
  BY <1>1 DEF SECTOR, TABLE_SIZE, DISK_ID
<1>3. \A q \in 1 .. n : Flag(q) = DISK_ID + 2 * q - 1
  BY DEF Flag
<1> QED
  BY <1>1, <1>2, <1>3

(* The table that is saved has what must be kept of it, and on an MBR an   *)
(* active partition.                                                       *)
LEMMA TableRead ==
  ASSUME NEW s, NEW v, NEW b, NEW A, NEW data, ReadOf(data, v, A, DISK_ID, TABLE_SIZE), Preserved(s, v, b, A),
         NEW t, t.gpt = s.gpt, t.table = data
  PROVE  TableKept(t, b)
<1>1. Len(data) = TABLE_SIZE /\ \A k \in 1 .. TABLE_SIZE : DISK_ID + k - 1 \in A /\ data[k] = v[DISK_ID + k - 1]
  BY DEF ReadOf
<1>2. CASE s.gpt
  <2>1. \A k \in 1 .. TABLE_SIZE : v[DISK_ID + k - 1] = b[DISK_ID + k - 1]
    BY <1>1, <1>2, TablePlaces DEF Preserved, First
  <2> QED
    BY <1>1, <1>2, <2>1 DEF TableKept
<1>3. CASE ~s.gpt
  <2>1. \A k \in 1 .. TABLE_SIZE : DISK_ID + k - 1 \in Fixed => v[DISK_ID + k - 1] = b[DISK_ID + k - 1]
    BY <1>1, <1>3 DEF Preserved, FixedKept
  <2>2. PICK q \in 1 .. Partitions : v[Flag(q)] = 128
    BY <1>3 DEF Preserved, Bootable
  <2>3. PICK j \in 1 .. TABLE_SIZE : j = 2 * q /\ Flag(q) = DISK_ID + j - 1
    BY TablePlaces
  <2>4. data[2 * q] = 128
    BY <1>1, <2>2, <2>3
  <2> QED
    BY <1>1, <1>3, <2>1, <2>4 DEF TableKept
<1> QED
  BY <1>2, <1>3

(* The partition table is saved, and nothing is written yet.               *)
LEMMA SaveTableSees == ASSUME IInv, LInv, SaveTable PROVE LInv'
<1>1. pc = "table" /\ pc \in Installing
  BY DEF SaveTable, Installing
<1>2. pc \in Preparing /\ r \in Registers
  BY <1>1, ShownInstalling
<1>3. PICK v \in [D -> Nat] : v = View(dev) /\ Sees(pc, r, v, before, D)
  BY <1>2, SeenBefore
<1>4. Apart(r) => Room(r) /\ Preserved(r, v, before, D) /\ StampKept(r, before)
  BY <1>1, <1>3 DEF Sees, AtTable
<1>5. PICK loc \in Int, count \in Nat : loc = DISK_ID /\ count = TABLE_SIZE
  BY Sizes DEF DISK_ID
<1>6. PICK o \in device_read(dev, loc, count) :
        /\ dev' = o.dev /\ ((o.ok /\ Only("install", [r EXCEPT !.table = o.data, !.i = 1])) \/ Abort)
  BY <1>5 DEF SaveTable, Read
<1>7. Process
  BY DEF SaveTable, Read
<1>8. View(dev') = v /\ (o.ok => ReadOf(o.data, v, D, loc, count))
  BY <1>2, <1>3, <1>6, <1>7, ReadShows
<1>9. CASE o.ok /\ Only("install", [r EXCEPT !.table = o.data, !.i = 1])
  <2>1. PICK data \in Seq(Nat), i \in Nat : data = o.data /\ i = 1
    BY <1>8, <1>9 DEF ReadOf
  <2>2. pc' = "install" /\ r' = [r EXCEPT !.table = data, !.i = i]
    BY <1>9, <2>1 DEF Only
  <2>3. /\ r'.gpt = r.gpt /\ r'.part = r.part /\ r'.lb = r.lb /\ r'.header = r.header /\ r'.second = r.second
        /\ r'.a = r.a /\ r'.b = r.b /\ r'.stamp = r.stamp /\ r'.table = data /\ r'.i = 1
    BY <1>2, <2>1, <2>2 DEF Registers
  <2>4. (Apart(r') <=> Apart(r)) /\ (Room(r') <=> Room(r)) /\ (StampKept(r', before) <=> StampKept(r, before))
    BY <2>3, SamePlaces DEF StampKept
  <2>5. ASSUME Preserved(r, v, before, D) PROVE TableKept(r', before)
    <3>1. ReadOf(data, v, D, DISK_ID, TABLE_SIZE)
      BY <1>5, <1>8, <1>9, <2>1
    <3> QED
      BY <2>3, <2>5, <3>1, TableRead
  <2>6. Written(r', v, D, 1)
    BY DEF Written
  <2>7. AtInstall(pc', r', v, before, D)
    BY <1>4, <2>3, <2>4, <2>5, <2>6 DEF AtInstall, Stands
  <2>8. pc' \in Preparing
    BY <2>2 DEF Preparing, Installing
  <2> QED
    BY <1>7, <1>8, <2>2, <2>7, <2>8, SeesAt, SeenAfter
<1>10. CASE Abort
  BY <1>10, StoppedKeeps DEF Abort, Stopped
<1> QED
  BY <1>6, <1>9, <1>10

(* A part of the image that is laid over what is seen, and what is below.  *)
ImageAt(w, A, loc, from, count) == \A k \in 1 .. count : loc + k - 1 \in A /\ w[loc + k - 1] = Image(from + k - 1)
SameBelow(w, v, A, loc) == \A a \in A : a < loc => w[a] = v[a]

(* What it leaves.                                                         *)
LEMMA LaidImage ==
  ASSUME NEW w, NEW v, NEW A, A \subseteq Nat, NEW loc \in Int, NEW from \in Nat, NEW count \in Int,
         Laid(w, v, A, loc, ImagePart(from, count))
  PROVE  ImageAt(w, A, loc, from, count) /\ SameBelow(w, v, A, loc)
<1>1. PICK cells \in Seq(Nat) : cells = ImagePart(from, count)
  BY ImageCells
<1>2. PICK n \in Nat : n = Len(cells)
  BY LenNat
<1>3. DOMAIN cells = 1 .. n
  BY <1>2
<1>4. DOMAIN cells = 1 .. count /\ \A k \in 1 .. count : cells[k] = Image(from + k - 1)
  BY <1>1 DEF ImagePart
<1>5. Laid(w, v, A, loc, cells)
  BY <1>1
<1>6. \A a \in A : a < loc => a \notin loc .. loc + n - 1
  OBVIOUS
<1>7. \A a \in A : a < loc => w[a] = v[a]
  BY <1>2, <1>5, <1>6 DEF Laid
<1>8. ASSUME NEW k \in 1 .. count PROVE loc + k - 1 \in A /\ w[loc + k - 1] = Image(from + k - 1)
  <2>1. k \in 1 .. n
    BY <1>3, <1>4
  <2>2. PICK a \in loc .. loc + n - 1 : a = loc + k - 1 /\ a - loc + 1 = k
    BY <2>1
  <2>3. a \in A /\ w[a] = cells[k]
    BY <1>2, <1>5, <2>2 DEF Laid
  <2> QED
    BY <1>4, <2>2, <2>3
<1> QED
  BY <1>7, <1>8 DEF ImageAt, SameBelow

(* The image, without the fields of the boot sector that are corrected.    *)
Imaged(s, v, A) ==
  /\ \A k \in 0 .. SECTOR - 1 : k \in A /\ (v[k] = Image(k) \/ k \in Corrected)
  /\ \A k \in 1 .. SizeA : s.a + k - 1 \in A /\ v[s.a + k - 1] = Image(SECTOR + k - 1)
  /\ \A k \in 1 .. STAGE2_SIZE - SizeA : s.b + k - 1 \in A /\ v[s.b + k - 1] = Image(SECTOR + SizeA + k - 1)

(* The writes of the image.                                                *)
LEMMA BootSectorLaid ==
  ASSUME NEW s, NEW w, NEW v, NEW A, A \subseteq Nat, Laid(w, v, A, 0, ImagePart(0, SECTOR))
  PROVE  Written(s, w, A, 2)
<1>1. PICK n \in Nat, zero \in Nat, loc \in Int : n = SECTOR /\ zero = 0 /\ loc = 0
  BY Sizes
<1>2. Laid(w, v, A, loc, ImagePart(zero, n)) /\ n \in Int
  BY <1>1
<1>5. ImageAt(w, A, loc, zero, n)
  BY <1>2, LaidImage
<1>3. \A k \in 1 .. n : loc + k - 1 \in A /\ w[loc + k - 1] = Image(zero + k - 1)
  BY <1>5 DEF ImageAt
<1>4. ASSUME NEW k \in 0 .. n - 1 PROVE k \in A /\ w[k] = Image(k)
  <2>1. PICK j \in 1 .. n : j = k + 1 /\ loc + j - 1 = k /\ zero + j - 1 = k
    BY <1>1
  <2> QED
    BY <1>3, <2>1
<1> QED
  BY <1>1, <1>4 DEF Written

(* The first half goes behind the boot sector.                             *)
LEMMA FirstHalfLaid ==
  ASSUME NEW s \in Registers, NEW w, NEW v, NEW A, A \subseteq Nat, Room(s), Written(s, v, A, 2),
         Laid(w, v, A, s.a, ImagePart(SECTOR, SizeA))
  PROVE  Written(s, w, A, 3)
<1>8. PICK n \in Nat, size \in Int : n = SECTOR /\ size = SizeA
  BY Sizes
<1>9. PICK a \in Int : a = s.a
  BY DEF Registers
<1>1. n = SECTOR /\ size = SizeA /\ a = s.a
  BY <1>8, <1>9
<1>2. Laid(w, v, A, a, ImagePart(n, size))
  BY <1>1
<1>10. ImageAt(w, A, a, n, size) /\ SameBelow(w, v, A, a)
  BY <1>2, LaidImage
<1>3. \A k \in 1 .. size : a + k - 1 \in A /\ w[a + k - 1] = Image(n + k - 1)
  BY <1>10 DEF ImageAt
<1>4. \A k \in A : k < a => w[k] = v[k]
  BY <1>10 DEF SameBelow
<1>5. \A k \in 0 .. n - 1 : k \in A /\ (v[k] = Image(k) \/ k \in Corrected)
  BY <1>1 DEF Written
<1>6. \A k \in 0 .. n - 1 : k < a
  BY <1>1 DEF Room
<1>7. \A k \in 0 .. n - 1 : k \in A /\ (w[k] = Image(k) \/ k \in Corrected)
  BY <1>4, <1>5, <1>6
<1> QED
  BY <1>1, <1>3, <1>7 DEF Written

(* The second half goes behind the first one.                              *)
LEMMA SecondHalfLaid ==
  ASSUME NEW s \in Registers, NEW w, NEW v, NEW A, A \subseteq Nat, Room(s), Written(s, v, A, 3),
         Laid(w, v, A, s.b, ImagePart(SECTOR + SizeA, STAGE2_SIZE - SizeA))
  PROVE  Imaged(s, w, A)
<1>1. PICK n \in Nat, size \in Nat, a \in Int, b \in Int : n = SECTOR /\ size = SizeA /\ a = s.a /\ b = s.b
  BY Sizes DEF Registers
<1>2. PICK from \in Nat, count \in Int : from = n + size /\ count = STAGE2_SIZE - SizeA
  BY <1>1, Sizes
<1>3. Laid(w, v, A, b, ImagePart(from, count))
  BY <1>1, <1>2
<1>13. ImageAt(w, A, b, from, count) /\ SameBelow(w, v, A, b)
  BY <1>3, LaidImage
<1>4. \A k \in 1 .. count : b + k - 1 \in A /\ w[b + k - 1] = Image(from + k - 1)
  BY <1>13 DEF ImageAt
<1>5. \A k \in A : k < b => w[k] = v[k]
  BY <1>13 DEF SameBelow
<1>6. a >= n /\ b >= a + size
  BY <1>1 DEF Room
<1>7. \A k \in 0 .. n - 1 : k \in A /\ (v[k] = Image(k) \/ k \in Corrected)
  BY <1>1 DEF Written
<1>8. \A k \in 1 .. size : a + k - 1 \in A /\ v[a + k - 1] = Image(n + k - 1)
  BY <1>1 DEF Written
<1>9. \A k \in 0 .. n - 1 : k < b
  BY <1>6
<1>10. \A k \in 1 .. size : a + k - 1 < b
  BY <1>6
<1>11. \A k \in 0 .. n - 1 : k \in A /\ (w[k] = Image(k) \/ k \in Corrected)
  BY <1>5, <1>7, <1>9
<1>12. \A k \in 1 .. size : a + k - 1 \in A /\ w[a + k - 1] = Image(n + k - 1)
  BY <1>5, <1>8, <1>10
<1> QED
  BY <1>1, <1>2, <1>4, <1>11, <1>12 DEF Imaged

(* The fields that are corrected have places of their own.                 *)
LEMMA FieldPlaces ==
  /\ \A k \in Corrected : k \in Nat /\ k < SECTOR
  /\ {PARAMS, PARAMS + 1, PARAMS + 2, PARAMS + 3, STAMP} \subseteq Corrected
  /\ \A k \in 1 .. TABLE_SIZE : DISK_ID + k - 1 \in Corrected /\ DISK_ID + k - 1 \notin {PARAMS, PARAMS + 2, PARAMS + 3, STAMP}
<1>1. PICK n \in Nat : n = TABLE_SIZE
  BY Sizes
<1>2. SECTOR = n + 10 /\ DISK_ID = 9 /\ PARAMS = 5 /\ STAMP = 4
  BY <1>1 DEF SECTOR, DISK_ID, PARAMS, STAMP
<1>3. Corrected = {4} \cup 5 .. 8 \cup 9 .. 9 + n - 1
  BY <1>1, <1>2 DEF Corrected
<1>4. \A k \in 1 .. n : 9 + k - 1 \in 9 .. 9 + n - 1 /\ 9 + k - 1 \notin {4, 5, 7, 8}
  OBVIOUS
<1> QED
  BY <1>1, <1>2, <1>3, <1>4

(* Correcting a field leaves the image.                                    *)
LEMMA ImageStays ==
  ASSUME NEW s \in Registers, NEW w, NEW v, NEW A, Room(s), Imaged(s, v, A), \A k \in A : k \notin Corrected => w[k] = v[k]
  PROVE  Imaged(s, w, A)
<1>1. PICK n \in Nat, size \in Nat, a \in Int, b \in Int : n = SECTOR /\ size = SizeA /\ a = s.a /\ b = s.b
  BY Sizes DEF Registers
<1>2. PICK from \in Nat, count \in Int : from = n + size /\ count = STAGE2_SIZE - SizeA
  BY <1>1, Sizes
<1>3. a >= n /\ b >= a + size
  BY <1>1 DEF Room
<1>4. \A k \in Int : k >= n => k \notin Corrected
  BY <1>1, FieldPlaces
<1>5. \A k \in 0 .. n - 1 : k \in A /\ (v[k] = Image(k) \/ k \in Corrected)
  BY <1>1 DEF Imaged
<1>6. \A k \in 1 .. size : a + k - 1 \in A /\ v[a + k - 1] = Image(n + k - 1)
  BY <1>1 DEF Imaged
<1>7. \A k \in 1 .. count : b + k - 1 \in A /\ v[b + k - 1] = Image(from + k - 1)
  BY <1>1, <1>2 DEF Imaged
<1>8. \A k \in 1 .. size : a + k - 1 \in Int /\ a + k - 1 >= n
  BY <1>3
<1>9. \A k \in 1 .. count : b + k - 1 \in Int /\ b + k - 1 >= n
  BY <1>3
<1>10. \A k \in 0 .. n - 1 : k \in A /\ (w[k] = Image(k) \/ k \in Corrected)
  BY <1>5
<1>11. \A k \in 1 .. size : a + k - 1 \in A /\ w[a + k - 1] = Image(n + k - 1)
  BY <1>4, <1>6, <1>8
<1>12. \A k \in 1 .. count : b + k - 1 \in A /\ w[b + k - 1] = Image(from + k - 1)
  BY <1>4, <1>7, <1>9
<1> QED
  BY <1>1, <1>2, <1>10, <1>11, <1>12 DEF Imaged

(* One field is corrected, and the others stay.                            *)
FieldSet(s, w, v, A, loc, c) ==
  Imaged(s, w, A) /\ w[loc] = c /\ \A k \in {PARAMS, PARAMS + 2, PARAMS + 3, STAMP} : k # loc => w[k] = v[k]

(* A field is corrected.                                                   *)
LEMMA FieldLaid ==
  ASSUME NEW s \in Registers, NEW w, NEW v, NEW A, Room(s), Imaged(s, v, A),
         NEW loc \in {PARAMS, PARAMS + 1, PARAMS + 2, PARAMS + 3, STAMP}, NEW c, Laid(w, v, A, loc, << c >>)
  PROVE  FieldSet(s, w, v, A, loc, c)
<1>1. loc \in Int /\ loc \in Corrected
  BY FieldPlaces DEF PARAMS, STAMP
<1>6. OneLaid(w, v, A, loc, c)
  BY <1>1, LaidOne
<1>2. w[loc] = c /\ \A k \in A : k # loc => w[k] = v[k]
  BY <1>6 DEF OneLaid
<1>3. Imaged(s, w, A)
  BY <1>1, <1>2, ImageStays
<1>4. \A k \in Corrected : k \in A
  BY FieldPlaces, Sizes DEF Imaged
<1>5. \A k \in {PARAMS, PARAMS + 2, PARAMS + 3, STAMP} : k # loc => w[k] = v[k]
  BY <1>2, <1>4, FieldPlaces
<1> QED
  BY <1>2, <1>3, <1>5 DEF FieldSet

(* The table is put back, and the fields before it stay.                   *)
LEMMA TableLaid ==
  ASSUME NEW s \in Registers, NEW w, NEW v, NEW A, Room(s), Imaged(s, v, A), Len(s.table) = TABLE_SIZE,
         Laid(w, v, A, DISK_ID, s.table)
  PROVE  /\ Imaged(s, w, A) /\ \A k \in 1 .. TABLE_SIZE : w[DISK_ID + k - 1] = s.table[k]
         /\ \A k \in {PARAMS, PARAMS + 2, PARAMS + 3, STAMP} : w[k] = v[k]
<1>1. PICK n \in Nat, loc \in Nat : n = TABLE_SIZE /\ loc = DISK_ID
  BY Sizes DEF DISK_ID
<1>2. /\ \A a \in loc .. loc + n - 1 : a \in A /\ w[a] = s.table[a - loc + 1]
      /\ \A a \in A : a \notin loc .. loc + n - 1 => w[a] = v[a]
  BY <1>1 DEF Laid
<1>3. ASSUME NEW k \in 1 .. n PROVE w[loc + k - 1] = s.table[k]
  <2>1. PICK a \in loc .. loc + n - 1 : a = loc + k - 1 /\ a - loc + 1 = k
    OBVIOUS
  <2> QED
    BY <1>2, <2>1
<1>4. \A a \in loc .. loc + n - 1 : \E k \in 1 .. n : a = loc + k - 1
  <2>1. ASSUME NEW a \in loc .. loc + n - 1 PROVE \E k \in 1 .. n : a = loc + k - 1
    <3>1. a - loc + 1 \in 1 .. n /\ a = loc + (a - loc + 1) - 1
      OBVIOUS
    <3> QED
      BY <3>1
  <2> QED
    BY <2>1
<1>9. \A k \in 1 .. n : loc + k - 1 \in Corrected /\ loc + k - 1 \notin {PARAMS, PARAMS + 2, PARAMS + 3, STAMP}
  BY <1>1, FieldPlaces
<1>5. \A a \in loc .. loc + n - 1 : a \in Corrected /\ a \notin {PARAMS, PARAMS + 2, PARAMS + 3, STAMP}
  BY <1>4, <1>9, Zenon
<1>6. Imaged(s, w, A)
  BY <1>2, <1>5, ImageStays
<1>7. \A k \in Corrected : k \in A
  BY FieldPlaces, Sizes DEF Imaged
<1>8. \A k \in {PARAMS, PARAMS + 2, PARAMS + 3, STAMP} : w[k] = v[k]
  BY <1>2, <1>5, <1>7, FieldPlaces
<1> QED
  BY <1>1, <1>3, <1>6, <1>8

(* The fields that have been corrected before the n-th write.              *)
Fields(s, v, n) ==
  /\ n > 4 => v[PARAMS] = SizeA
  /\ n > 6 => v[PARAMS + 2] = s.a
  /\ n > 7 => v[PARAMS + 3] = s.b
  /\ n > 8 => v[STAMP] = s.stamp[1]
  /\ n > 9 => \A k \in 1 .. TABLE_SIZE : v[DISK_ID + k - 1] = s.table[k]

(* When the image is there, only fields are left.                          *)
LEMMA WrittenLate ==
  ASSUME NEW s, NEW v, NEW A, NEW n \in 4 .. 10
  PROVE  Written(s, v, A, n) <=> Imaged(s, v, A) /\ Fields(s, v, n)
BY DEF Written, Imaged, Fields

(* One write of the installation adds what it writes.                      *)
LEMMA InstallAdds ==
  ASSUME r \in Registers, NEW n \in 1 .. 9, n = r.i, NEW w, NEW v, NEW A, A \subseteq Nat,
         Room(r), Len(r.stamp) = 1, Len(r.table) = TABLE_SIZE, Written(r, v, A, n),
         Laid(w, v, A, InstallWrites[n][1], InstallWrites[n][2])
  PROVE  Written(r, w, A, n + 1)
<1>1. n = 1 \/ n = 2 \/ n = 3 \/ n = 4 \/ n = 5 \/ n = 6 \/ n = 7 \/ n = 8 \/ n = 9
  OBVIOUS
<1>2. CASE n = 1
  <2>1. Laid(w, v, A, 0, ImagePart(0, SECTOR))
    BY <1>2 DEF InstallWrites
  <2>2. Written(r, w, A, 2)
    BY <2>1, BootSectorLaid
  <2> QED
    BY <1>2, <2>2
<1>3. CASE n = 2
  <2>1. Laid(w, v, A, r.a, ImagePart(SECTOR, SizeA)) /\ Written(r, v, A, 2)
    BY <1>3 DEF InstallWrites
  <2>2. Written(r, w, A, 3)
    BY <2>1, FirstHalfLaid
  <2> QED
    BY <1>3, <2>2
<1>4. CASE n = 3
  <2>1. Laid(w, v, A, r.b, ImagePart(SECTOR + SizeA, STAGE2_SIZE - SizeA)) /\ Written(r, v, A, 3)
    BY <1>4 DEF InstallWrites
  <2>2. Imaged(r, w, A)
    BY <2>1, SecondHalfLaid
  <2>3. Fields(r, w, 4)
    BY DEF Fields
  <2> QED
    BY <1>4, <2>2, <2>3, WrittenLate
<1>5. CASE n = 4
  <2>1. PICK loc, c : loc \in {PARAMS, PARAMS + 1, PARAMS + 2, PARAMS + 3, STAMP} /\ loc = PARAMS /\ c = SizeA
    OBVIOUS
  <2>2. Laid(w, v, A, loc, << c >>)
    BY <1>5, <2>1 DEF InstallWrites
  <2>3. Imaged(r, v, A) /\ Fields(r, v, 4)
    BY <1>5, WrittenLate
  <2>6. FieldSet(r, w, v, A, loc, c)
    BY <2>1, <2>2, <2>3, FieldLaid
  <2>4. Imaged(r, w, A) /\ w[loc] = c /\ \A k \in {PARAMS, PARAMS + 2, PARAMS + 3, STAMP} : k # loc => w[k] = v[k]
    BY <2>6 DEF FieldSet
  <2>5. Fields(r, w, 5)
    BY <2>1, <2>3, <2>4 DEF Fields, PARAMS, STAMP
  <2> QED
    BY <1>5, <2>4, <2>5, WrittenLate
<1>6. CASE n = 5
  <2>1. PICK loc, c : loc \in {PARAMS, PARAMS + 1, PARAMS + 2, PARAMS + 3, STAMP} /\ loc = PARAMS + 1 /\ c = SizeB
    OBVIOUS
  <2>2. Laid(w, v, A, loc, << c >>)
    BY <1>6, <2>1 DEF InstallWrites
  <2>3. Imaged(r, v, A) /\ Fields(r, v, 5)
    BY <1>6, WrittenLate
  <2>6. FieldSet(r, w, v, A, loc, c)
    BY <2>1, <2>2, <2>3, FieldLaid
  <2>4. Imaged(r, w, A) /\ w[loc] = c /\ \A k \in {PARAMS, PARAMS + 2, PARAMS + 3, STAMP} : k # loc => w[k] = v[k]
    BY <2>6 DEF FieldSet
  <2>5. Fields(r, w, 6)
    BY <2>1, <2>3, <2>4 DEF Fields, PARAMS, STAMP
  <2> QED
    BY <1>6, <2>4, <2>5, WrittenLate
<1>7. CASE n = 6
  <2>1. PICK loc, c : loc \in {PARAMS, PARAMS + 1, PARAMS + 2, PARAMS + 3, STAMP} /\ loc = PARAMS + 2 /\ c = r.a
    OBVIOUS
  <2>2. Laid(w, v, A, loc, << c >>)
    BY <1>7, <2>1 DEF InstallWrites
  <2>3. Imaged(r, v, A) /\ Fields(r, v, 6)
    BY <1>7, WrittenLate
  <2>6. FieldSet(r, w, v, A, loc, c)
    BY <2>1, <2>2, <2>3, FieldLaid
  <2>4. Imaged(r, w, A) /\ w[loc] = c /\ \A k \in {PARAMS, PARAMS + 2, PARAMS + 3, STAMP} : k # loc => w[k] = v[k]
    BY <2>6 DEF FieldSet
  <2>5. Fields(r, w, 7)
    BY <2>1, <2>3, <2>4 DEF Fields, PARAMS, STAMP
  <2> QED
    BY <1>7, <2>4, <2>5, WrittenLate
<1>8. CASE n = 7
  <2>1. PICK loc, c : loc \in {PARAMS, PARAMS + 1, PARAMS + 2, PARAMS + 3, STAMP} /\ loc = PARAMS + 3 /\ c = r.b
    OBVIOUS
  <2>2. Laid(w, v, A, loc, << c >>)
    BY <1>8, <2>1 DEF InstallWrites
  <2>3. Imaged(r, v, A) /\ Fields(r, v, 7)
    BY <1>8, WrittenLate
  <2>6. FieldSet(r, w, v, A, loc, c)
    BY <2>1, <2>2, <2>3, FieldLaid
  <2>4. Imaged(r, w, A) /\ w[loc] = c /\ \A k \in {PARAMS, PARAMS + 2, PARAMS + 3, STAMP} : k # loc => w[k] = v[k]
    BY <2>6 DEF FieldSet
  <2>5. Fields(r, w, 8)
    BY <2>1, <2>3, <2>4 DEF Fields, PARAMS, STAMP
  <2> QED
    BY <1>8, <2>4, <2>5, WrittenLate
<1>9. CASE n = 8
  <2>1. PICK loc, c : loc \in {PARAMS, PARAMS + 1, PARAMS + 2, PARAMS + 3, STAMP} /\ loc = STAMP /\ c = r.stamp[1]
    OBVIOUS
  <2>2. Laid(w, v, A, loc, << c >>)
    <3>1. PICK stamp \in Seq(Nat) : stamp = r.stamp /\ Len(stamp) = 1
      BY DEF Registers
    <3>2. stamp = << c >>
      BY <2>1, <3>1
    <3> QED
      BY <1>9, <2>1, <3>1, <3>2 DEF InstallWrites
  <2>3. Imaged(r, v, A) /\ Fields(r, v, 8)
    BY <1>9, WrittenLate
  <2>6. FieldSet(r, w, v, A, loc, c)
    BY <2>1, <2>2, <2>3, FieldLaid
  <2>4. Imaged(r, w, A) /\ w[loc] = c /\ \A k \in {PARAMS, PARAMS + 2, PARAMS + 3, STAMP} : k # loc => w[k] = v[k]
    BY <2>6 DEF FieldSet
  <2>5. Fields(r, w, 9)
    BY <2>1, <2>3, <2>4 DEF Fields, PARAMS, STAMP
  <2> QED
    BY <1>9, <2>4, <2>5, WrittenLate
<1>10. CASE n = 9
  <2>1. Laid(w, v, A, DISK_ID, r.table)
    BY <1>10 DEF InstallWrites
  <2>2. Imaged(r, v, A) /\ Fields(r, v, 9)
    BY <1>10, WrittenLate
  <2>3. /\ Imaged(r, w, A) /\ \A k \in 1 .. TABLE_SIZE : w[DISK_ID + k - 1] = r.table[k]
        /\ \A k \in {PARAMS, PARAMS + 2, PARAMS + 3, STAMP} : w[k] = v[k]
    BY <2>1, <2>2, TableLaid
  <2>4. Fields(r, w, 10)
    BY <2>2, <2>3 DEF Fields
  <2> QED
    BY <1>10, <2>3, <2>4, WrittenLate
<1> QED
  BY <1>1, <1>2, <1>3, <1>4, <1>5, <1>6, <1>7, <1>8, <1>9, <1>10

(* One write of the installation.                                          *)
LEMMA InstallSees == ASSUME IInv, LInv, Install PROVE LInv'
<1>1. pc = "install" /\ pc \in Installing
  BY DEF Install, Installing
<1>2. pc \in Preparing /\ Known(pc, r) /\ Base(r) /\ r \in Registers /\ (SizeB = 0 => r.b \in Nat)
  BY <1>1, ShownInstalling
<1>3. r.i \in 1 .. 9 /\ (r.i > 2 => r.a \in Nat) /\ (r.i > 3 => r.b \in Nat)
  BY <1>1, <1>2 DEF Known
<1>4. PICK v \in [D -> Nat] : v = View(dev) /\ Sees(pc, r, v, before, D)
  BY <1>2, SeenBefore
<1>5. PICK n \in 1 .. 9, i \in Nat : n = r.i /\ i = n + 1
  BY <1>3
<1>6. Apart(r) => Stands(r, v, before, D, n)
  BY <1>1, <1>4, <1>5 DEF Sees, AtInstall
<1>7. PICK loc \in Int, cells \in Seq(Nat) :
        /\ loc = InstallWrites[r.i][1] /\ cells = InstallWrites[r.i][2]
        /\ cells = << >> => loc \in Nat
  BY <1>2, <1>3, InstallWrite
<1>8. PICK next : next = [r EXCEPT !.i = i]
  OBVIOUS
<1>9. Len(InstallWrites) = 9
  BY DEF InstallWrites
<1>10. PICK to : to = IF n < 9 THEN "install" ELSE "commit"
  OBVIOUS
<1>11. to \in Preparing
  BY <1>10 DEF Preparing, Installing
<1>12. device_write(loc, cells, to, next)
  BY <1>5, <1>7, <1>8, <1>9, <1>10 DEF Install
<1>13. Process /\ (Stopped \/ (pc' = to /\ r' = next /\ Laid(View(dev'), v, D, loc, cells)))
  BY <1>2, <1>4, <1>7, <1>12, WriteShows
<1>14. CASE pc' = to /\ r' = next /\ Laid(View(dev'), v, D, loc, cells)
  <2>1. PICK w : w = View(dev')
    OBVIOUS
  <2>2. /\ r'.gpt = r.gpt /\ r'.part = r.part /\ r'.lb = r.lb /\ r'.header = r.header /\ r'.second = r.second
        /\ r'.a = r.a /\ r'.b = r.b /\ r'.stamp = r.stamp /\ r'.table = r.table /\ r'.i = i
    BY <1>2, <1>8, <1>14, Counted
  <2>3. (Apart(r') <=> Apart(r)) /\ (Room(r') <=> Room(r))
    BY <2>2, SamePlaces
  <2>4. ASSUME Stands(r, v, before, D, n) PROVE Stands(r', w, before, D, i)
    <3>1. Room(r) /\ StampKept(r, before) /\ TableKept(r, before) /\ Written(r, v, D, n)
      BY <2>4 DEF Stands
    <3>2. Len(r.stamp) = 1 /\ Len(r.table) = TABLE_SIZE
      BY <3>1 DEF StampKept, TableKept
    <3>3. D \subseteq Nat
      BY <1>2, Preparings DEF Addresses
    <3>4. Laid(w, v, D, InstallWrites[n][1], InstallWrites[n][2])
      BY <1>5, <1>7, <1>14, <2>1
    <3>5. Written(r, w, D, n + 1)
      BY <1>2, <1>5, <3>1, <3>2, <3>3, <3>4, InstallAdds
    <3>6. Written(r', w, D, i)
      BY <1>5, <2>2, <3>5 DEF Written
    <3>7. StampKept(r', before) /\ TableKept(r', before)
      BY <2>2, <3>1 DEF StampKept, TableKept
    <3> QED
      BY <2>3, <3>1, <3>6, <3>7 DEF Stands
  <2>5. CASE n < 9
    <3>1. pc' = "install"
      BY <1>10, <1>14, <2>5
    <3>2. AtInstall(pc', r', w, before, D)
      BY <1>6, <2>2, <2>3, <2>4 DEF AtInstall
    <3> QED
      BY <1>11, <1>13, <1>14, <2>1, <3>1, <3>2, SeesAt, SeenAfter
  <2>6. CASE ~(n < 9)
    <3>1. pc' = "commit" /\ i = 10
      BY <1>5, <1>10, <1>14, <2>6
    <3>2. AtCommit(pc', r', w, before, D)
      BY <1>6, <2>3, <2>4, <3>1 DEF AtCommit
    <3> QED
      BY <1>11, <1>13, <1>14, <2>1, <3>1, <3>2, SeesAt, SeenAfter
  <2> QED
    BY <2>5, <2>6
<1> QED
  BY <1>13, <1>14, StoppedKeeps

(* The last flush brings what is seen to the stream.                       *)
LEMMA CommitSees == ASSUME IInv, LInv, Commit PROVE LInv'
<1>1. pc = "commit" /\ pc \in Preparing
  BY DEF Commit, Preparing
<1>2. Working(dev, undo, before, D) /\ DeviceOK(dev, D)
  BY <1>1, Preparings DEF Working
<1>3. PICK v \in [D -> Nat] : v = View(dev) /\ Sees(pc, r, v, before, D)
  BY <1>1, SeenBefore
<1>4. Apart(r) => Stands(r, v, before, D, 10)
  BY <1>1, <1>3 DEF Sees, AtCommit
<1>5. PICK o \in device_flush_cache(dev) :
        /\ dev' = o.dev
        /\ IF o.ok THEN pc' = "cleanup" /\ exit' = "success" /\ UNCHANGED r ELSE Abort
  BY DEF Commit
<1>6. before' = before /\ D' = D
  BY DEF Commit, Process, D
<1>7. o.ok \in BOOLEAN /\ Moved(dev, o.dev, D) /\ (o.ok => ~o.dev.dirty)
  BY <1>2, FlushMoves
<1>8. CASE o.ok
  <2>1. pc' = "cleanup" /\ r' = r
    BY <1>5, <1>8
  <2>2. View(dev') = v
    BY <1>2, <1>3, <1>5, <1>7, MovedShows
  <2>3. Stream(dev') = v
    <3>1. ~dev'.dirty /\ DeviceOK(dev', D)
      BY <1>5, <1>7, <1>8 DEF Moved
    <3>2. View(dev') = [a \in DOMAIN dev'.disk |-> Stream(dev')[a]]
      BY <3>1 DEF View
    <3>3. Stream(dev') = [a \in DOMAIN dev'.disk |-> Stream(dev')[a]]
      BY DEF Stream
    <3> QED
      BY <2>2, <3>2, <3>3
  <2>4. pc' \notin Preparing /\ pc' # "shell"
    BY <2>1 DEF Preparing, OnMBR, OnGPT, Installing
  <2>5. Succeeded' => Apart(r)
    BY <2>1 DEF Succeeded
  <2> QED
    BY <1>4, <1>6, <2>1, <2>3, <2>4, <2>5 DEF LInv
<1>9. CASE ~o.ok
  BY <1>5, <1>9, StoppedKeeps DEF Abort, Stopped
<1> QED
  BY <1>7, <1>8, <1>9

(* Away from an installation that succeeds nothing is asked.               *)
LEMMA NothingAsked ==
  ASSUME pc' \notin Preparing, pc' \in {"cleanup", "store", "close"} => ~Succeeded', pc' = "shell" => ~Installed'
  PROVE  LInv'
BY DEF LInv

(* What an installation leaves depends on a few registers only.            *)
LEMMA StandsSame ==
  ASSUME NEW s, NEW t, t.gpt = s.gpt, t.part = s.part, t.lb = s.lb, t.header = s.header, t.second = s.second, t.a = s.a, t.b = s.b,
         t.stamp = s.stamp, t.table = s.table, NEW v, NEW b, NEW A
  PROVE  (Apart(t) <=> Apart(s)) /\ (Stands(t, v, b, A, 10) <=> Stands(s, v, b, A, 10))
<1>1. (Apart(t) <=> Apart(s)) /\ (Room(t) <=> Room(s))
  BY SamePlaces
<1> QED
  BY <1>1 DEF Stands, StampKept, TableKept, Written

(* The cleanup of an installation that has succeeded leaves the device.    *)
LEMMA CleanupSees == ASSUME IInv, LInv, Cleanup PROVE LInv'
<1>1. pc = "cleanup" /\ r \in Registers
  BY DEF Cleanup, IInv, Typed, Known
<1>2. /\ Process /\ exit' = exit /\ r' = [r EXCEPT !.i = 1]
      /\ IF exit = "failure" THEN pc' = "uninstall" ELSE pc' \in {"store", "close"} /\ dev' = dev
  BY DEF Cleanup
<1>3. before' = before /\ D' = D
  BY <1>2 DEF Process, D
<1>4. CASE exit = "failure"
  <2>1. pc' = "uninstall" /\ pc' \notin Preparing
    BY <1>2, <1>4 DEF Preparing, OnMBR, OnGPT, Installing
  <2> QED
    BY <2>1, NothingAsked
<1>5. CASE exit # "failure"
  <2>1. pc' \in {"store", "close"} /\ dev' = dev
    BY <1>2, <1>5
  <2>2. PICK i \in Nat : i = 1
    OBVIOUS
  <2>3. r' = [r EXCEPT !.i = i]
    BY <1>2, <2>2
  <2>4. /\ r'.gpt = r.gpt /\ r'.part = r.part /\ r'.lb = r.lb /\ r'.header = r.header /\ r'.second = r.second
        /\ r'.a = r.a /\ r'.b = r.b /\ r'.stamp = r.stamp /\ r'.table = r.table /\ r'.uninstall = r.uninstall
    BY <1>1, <2>3, Counted
  <2>5. PICK v : v = Stream(dev)
    OBVIOUS
  <2>6. (Apart(r') <=> Apart(r)) /\ (Stands(r', v, before, D, 10) <=> Stands(r, v, before, D, 10))
    BY <2>4, StandsSame
  <2>7. Succeeded' => Succeeded
    BY <1>2, <2>4, <2>6 DEF Succeeded
  <2>8. Succeeded => Stands(r, v, before, D, 10)
    BY <1>1, <2>5 DEF LInv
  <2>9. pc' \notin Preparing /\ pc' # "shell"
    BY <2>1 DEF Preparing, OnMBR, OnGPT, Installing
  <2> QED
    BY <1>3, <2>1, <2>5, <2>6, <2>7, <2>8, <2>9 DEF LInv
<1> QED
  BY <1>4, <1>5

(* So does the uninstall data file, written or not.                        *)
LEMMA StoreSees == ASSUME IInv, LInv, store_uninstall_data PROVE LInv'
<1>1. pc = "store" /\ DeviceOK(dev, D)
  BY DEF store_uninstall_data, IInv, Storing
<1>2. Process /\ UNCHANGED << r, exit >> /\ pc' = "close"
  BY DEF store_uninstall_data
<1>3. before' = before /\ D' = D
  BY <1>2 DEF Process, D
<1>4. Stream(dev') = Stream(dev)
  <2>1. dev' = dev \/ dev' = [dev EXCEPT !.faults = @ + 1]
    BY DEF store_uninstall_data
  <2>2. ASSUME dev' = [dev EXCEPT !.faults = @ + 1] PROVE Stream(dev') = Stream(dev)
    <3>1. PICK n : n = dev.faults + 1
      OBVIOUS
    <3>2. dev' = [dev EXCEPT !.faults = n]
      BY <2>2, <3>1
    <3>3. dev'.disk = dev.disk /\ dev'.pending = dev.pending /\ dev'.held = dev.held /\ dev'.block_size = dev.block_size
      BY <1>1, <3>2 DEF DeviceOK
    <3> QED
      BY <3>3 DEF Stream, InBlock
  <2> QED
    BY <2>1, <2>2
<1>5. Succeeded' <=> Succeeded
  BY <1>2 DEF Succeeded, Apart
<1>6. pc' \notin Preparing /\ pc' # "shell"
  BY <1>2 DEF Preparing, OnMBR, OnGPT, Installing
<1>7. Succeeded => Stands(r, Stream(dev), before, D, 10)
  BY <1>1 DEF LInv
<1>8. Stands(r', Stream(dev'), before', D', 10) <=> Stands(r, Stream(dev), before, D, 10)
  BY <1>2, <1>3, <1>4
<1> QED
  BY <1>2, <1>5, <1>6, <1>7, <1>8 DEF LInv

(* What is undone has not been installed.                                  *)
LEMMA LoadSees == ASSUME load_uninstall_data PROVE LInv'
<1>1. pc' = "uninstall" \/ (pc' = "close" /\ exit' = "failure")
  BY DEF load_uninstall_data
<1>2. pc' \notin Preparing /\ pc' # "shell"
  BY <1>1 DEF Preparing, OnMBR, OnGPT, Installing
<1> QED
  BY <1>1, <1>2, NothingAsked DEF Succeeded

(* Putting an entry back is not installing.                                *)
LEMMA UndoEntrySees == ASSUME UndoEntry PROVE LInv'
<1>1. pc' = "uninstall"
  BY DEF UndoEntry
<1>2. pc' \notin Preparing
  BY <1>1 DEF Preparing, OnMBR, OnGPT, Installing
<1> QED
  BY <1>1, <1>2, NothingAsked

(* An uninstallation is not one, and a failed installation has failed.     *)
LEMMA UninstalledSees == ASSUME IInv, Uninstalled PROVE LInv'
<1>1. pc = "uninstall" /\ pc' = "close"
  BY DEF Uninstalled
<1>2. Reverting /\ r \in Registers
  BY <1>1, RevertingShown DEF General
<1>3. PICK failed : /\ r' = [r EXCEPT !.failed = failed]
                    /\ exit' = IF ~r.uninstall THEN exit ELSE IF r'.failed THEN "failure" ELSE "success"
  BY DEF Uninstalled
<1>4. r'.uninstall = r.uninstall
  BY <1>2, <1>3 DEF Registers
<1>5. ~r.uninstall => exit' = "failure"
  BY <1>1, <1>2, <1>3 DEF Reverting
<1>6. ~Succeeded'
  BY <1>4, <1>5 DEF Succeeded
<1>7. pc' \notin Preparing /\ pc' # "shell"
  BY <1>1 DEF Preparing, OnMBR, OnGPT, Installing
<1> QED
  BY <1>6, <1>7, NothingAsked

(* What was in the stream is on the device when it has been closed well.   *)
LEMMA CloseSees == ASSUME IInv, LInv, Close PROVE LInv'
<1>1. pc = "close" /\ pc' = "shell" /\ Process /\ UNCHANGED << r, exit >>
  BY DEF Close
<1>2. Closing
  BY DEF IInv
<1>3. PICK d : d = dev
  OBVIOUS
<1>4. PICK o \in Sync(d) : dev' = Opened(o.dev.disk, o.dev.faults) /\ unwritten' = ~o.ok
  BY <1>3 DEF Close
<1>5. /\ o.ok \in BOOLEAN /\ o.dev.disk \in [D -> Nat] /\ o.dev.faults \in 0 .. MaxFaults
      /\ o.ok => o.dev.disk = Stream(d)
  <2>1. DeviceOK(d, D) \/ Idle(d, D)
    BY <1>1, <1>2, <1>3 DEF Closing
  <2> QED
    BY <2>1, ClosedDevice
<1>6. PICK disk \in [D -> Nat], faults \in 0 .. MaxFaults : disk = o.dev.disk /\ faults = o.dev.faults
  BY <1>5
<1>7. dev'.disk = disk
  BY <1>4, <1>6, OpenedIdle
<1>8. ~unwritten' => disk = Stream(dev)
  BY <1>3, <1>4, <1>5, <1>6
<1>9. before' = before /\ D' = D
  BY <1>1 DEF Process, D
<1>10. Apart(r') <=> Apart(r)
  BY <1>1
<1>11. Installed' /\ Apart(r') => Succeeded /\ ~unwritten'
  BY <1>1, <1>10 DEF Installed, Exited, Succeeded
<1>12. Succeeded => Stands(r, Stream(dev), before, D, 10)
  BY <1>1 DEF LInv
<1>13. pc' \notin Preparing
  BY <1>1 DEF Preparing, OnMBR, OnGPT, Installing
<1>14. Installed' /\ Apart(r') => Stands(r', dev'.disk, before', D', 10)
  BY <1>1, <1>7, <1>8, <1>9, <1>11, <1>12
<1> QED
  BY <1>1, <1>13, <1>14 DEF LInv

(* A command that only prints installs nothing.                            *)
LEMMA PrintedSees ==
  ASSUME IInv, Ready, r' = Nothing, pc' = pc
  PROVE  LInv'
<1>1. pc' = "shell"
  BY DEF Ready
<1>2. pc' \notin Preparing
  BY <1>1 DEF Preparing, OnMBR, OnGPT, Installing
<1>3. ~Installed'
  BY DEF Installed, Exited
<1> QED
  BY <1>1, <1>2, <1>3, NothingAsked

(* No partition is active before one has been looked at.                   *)
LEMMA OptionsInactive == ASSUME NEW argv PROVE Parsed(argv).r.active = FALSE
<1>1. PICK m, n, o, part :
        Parsed(argv).r = [Nothing EXCEPT !.force = m, !.uninstall = n, !.file = o, !.part = part]
  BY DEF Parsed
<1>2. Nothing.active = FALSE
  BY DEF Nothing
<1>3. Parsed(argv).r.active = Nothing.active
  BY <1>1 DEF Nothing
<1> QED
  BY <1>2, <1>3

(* An installation starts with the device as it is.                        *)
LEMMA BiosInstallSees ==
  ASSUME IInv, NEW argv, bios_install(argv)
  PROVE  LInv'
<1>1. PICK s : s = Parsed(argv)
  OBVIOUS
<1>2. /\ Ready
      /\ before' = dev.disk /\ UNCHANGED original
      /\ IF s.verdict # "run" THEN r' = Nothing /\ pc' = pc
         ELSE /\ r' = s.r
              /\ \E o \in device_init(dev.disk, dev.faults) :
                   /\ dev' = o.dev
                   /\ IF o.ok THEN pc' = (IF s.r.uninstall THEN "load" ELSE "probe")
                      ELSE pc' = "close" /\ exit' = "failure"
  BY <1>1 DEF bios_install
<1>3. s.r.active = FALSE
  BY <1>1, OptionsInactive
<1>4. Addresses(D) /\ dev.disk \in [D -> Nat] /\ dev.faults \in 0 .. MaxFaults
  BY <1>2, ReadyShown
<1>5. D' = D
  BY <1>2 DEF D
<1>6. CASE s.verdict # "run"
  BY <1>2, <1>6, PrintedSees
<1>7. CASE s.verdict = "run"
  <2>1. PICK disk \in [D -> Nat], faults \in 0 .. MaxFaults : disk = dev.disk /\ faults = dev.faults
    BY <1>4
  <2>2. PICK o \in device_init(disk, faults) :
          /\ dev' = o.dev
          /\ IF o.ok THEN pc' = (IF s.r.uninstall THEN "load" ELSE "probe") ELSE pc' = "close" /\ exit' = "failure"
    BY <1>2, <1>7, <2>1
  <2>3. Tried(o, D, disk)
    BY <1>4, <2>1, <2>2, DeviceInit
  <2>4. r' = s.r /\ before' = disk
    BY <1>2, <1>7, <2>1
  <2>5. CASE o.ok /\ pc' = "probe"
    <3>1. DeviceOK(o.dev, D) /\ o.dev.pending = NoBlock /\ o.dev.dirty = FALSE /\ o.dev.disk = disk
      BY <2>3, <2>5 DEF Tried
    <3>2. \A a \in D : View(o.dev)[a] = disk[a]
      <4>1. \A a \in D : Stream(o.dev)[a] = disk[a]
        BY <3>1 DEF Stream
      <4>2. \A a \in D : View(o.dev)[a] = Stream(o.dev)[a]
        BY <3>1 DEF View
      <4> QED
        BY <4>1, <4>2
    <3>3. PICK v : v = View(dev')
      OBVIOUS
    <3>4. First(v, disk, D)
      BY <2>2, <3>2, <3>3 DEF First
    <3>5. ~r'.active
      BY <1>3, <2>4
    <3>6. Sees("probe", r', v, disk, D)
      BY <3>4, <3>5, SeesAt DEF AtProbe
    <3>7. Sees(pc', r', View(dev'), before', D')
      BY <1>5, <2>4, <2>5, <3>3, <3>6
    <3>8. pc' \notin {"cleanup", "store", "close", "shell"}
      BY <2>5
    <3> QED
      BY <3>7, <3>8 DEF LInv
  <2>6. CASE o.ok /\ pc' = "load"
    <3>1. pc' \notin Preparing
      BY <2>6 DEF Preparing, OnMBR, OnGPT, Installing
    <3> QED
      BY <2>6, <3>1, NothingAsked
  <2>7. CASE ~o.ok
    <3>1. pc' = "close" /\ exit' = "failure"
      BY <2>2, <2>7
    <3>2. pc' \notin Preparing
      BY <3>1 DEF Preparing, OnMBR, OnGPT, Installing
    <3> QED
      BY <3>1, <3>2, NothingAsked DEF Succeeded
  <2> QED
    BY <2>2, <2>5, <2>6, <2>7
<1> QED
  BY <1>6, <1>7

(* It holds at first, and after every step.                                *)
LEMMA InitLInv == ASSUME Init PROVE LInv
<1>1. pc = "shell" /\ exit = "none"
  BY DEF Init
<1>2. pc \notin Preparing
  BY <1>1 DEF Preparing, OnMBR, OnGPT, Installing
<1> QED
  BY <1>1, <1>2 DEF LInv, Installed, Exited

(* When nothing happens.                                                   *)
LEMMA StutterSees == ASSUME LInv, UNCHANGED vars PROVE LInv'
<1>1. /\ pc' = pc /\ dev' = dev /\ r' = r /\ exit' = exit /\ original' = original /\ before' = before
      /\ unwritten' = unwritten
  BY DEF vars
<1>2. D' = D
  BY <1>1 DEF D
<1> QED
  BY <1>1, <1>2 DEF LInv, Succeeded, Installed, Exited

(* After every step.                                                       *)
LEMMA StepSees == ASSUME IInv, LInv, [Next]_vars PROVE LInv'
<1>1. ASSUME main PROVE LInv'
  <2>1. CASE \E argv \in Commands : bios_install(argv)
    BY <2>1, BiosInstallSees
  <2>2. CASE Ready /\ \E argv \in EnrollCommands, file \in Executables : enroll_config(argv, file)
    BY <2>2, PrintedSees DEF enroll_config
  <2>3. CASE \E status \in {"success", "failure"} : PrintingCommand(status)
    BY <2>3, PrintedSees DEF PrintingCommand
  <2> QED
    BY <1>1, <2>1, <2>2, <2>3 DEF main
<1>2. ASSUME Probe \/ SecondaryHeader \/ CheckFlag \/ MendFlag \/ CheckStart \/ CheckHint \/ EraseHint \/ Activate PROVE LInv'
  BY <1>2, ProbeSees, SecondaryHeaderSees, CheckFlagSees, MendFlagSees, CheckStartSees, CheckHintSees,
     EraseHintSees, ActivateSees
<1>3. ASSUME Locate \/ UsePartition \/ ScanEntries \/ Embed \/ ClearPrimary \/ ClearSecondary PROVE LInv'
  BY <1>3, LocateSees, UsePartitionSees, ScanEntriesSees, EmbedSees, ClearPrimarySees, ClearSecondarySees
<1>4. ASSUME SumArray \/ WriteHeader \/ WriteSecond \/ SaveStamp \/ SaveTable \/ Install \/ Commit PROVE LInv'
  BY <1>4, SumArraySees, WriteHeaderSees, WriteSecondSees, SaveStampSees, SaveTableSees, InstallSees, CommitSees
<1>5. ASSUME Cleanup \/ store_uninstall_data \/ load_uninstall_data \/ UndoEntry \/ Uninstalled \/ Close PROVE LInv'
  BY <1>5, CleanupSees, StoreSees, LoadSees, UndoEntrySees, UninstalledSees, CloseSees
<1>6. ASSUME UNCHANGED vars PROVE LInv'
  BY <1>6, StutterSees
<1> QED
  BY <1>1, <1>2, <1>3, <1>4, <1>5, <1>6 DEF Next

(* Stage 2 that fills a sector has no half that is longer than it.         *)
LEMMA HalfFits == ASSUME STAGE2_SIZE >= SECTOR PROVE SizeA <= STAGE2_SIZE
<1>1. PICK s \in Nat \ {0}, z \in Nat : s = SECTOR /\ z = STAGE2_SIZE /\ z >= s
  BY Sizes
<1>2. PICK x \in Int : x = z + s - 1
  OBVIOUS
<1>3. PICK q \in Int : q = x \div s
  BY DivMod
<1>4. PICK e \in Int : e = q * s /\ e <= x /\ x < e + s
  BY <1>3, FloorBounds
<1>5. PICK h \in Int, odd \in {0, 1} : h = q \div 2 /\ odd = q % 2 /\ q = 2 * h + odd
  OBVIOUS
<1>6. PICK b \in Int : b = h * s
  OBVIOUS
<1>7. e = b + b + (IF odd = 1 THEN s ELSE 0)
  <2>1. CASE odd = 1
    <3>1. (2 * h + 1) * s = h * s + h * s + s
      OBVIOUS
    <3> QED
      BY <1>4, <1>5, <1>6, <2>1, <3>1
  <2>2. CASE odd = 0
    <3>1. (2 * h) * s = h * s + h * s
      OBVIOUS
    <3> QED
      BY <1>4, <1>5, <1>6, <2>2, <3>1
  <2> QED
    BY <2>1, <2>2
<1>8. b = 0 \/ b >= s
  <2>1. h <= 0 => b <= 0
    <3>1. h <= 0 => h * s <= 0 * s
      BY ProductOrder
    <3> QED
      BY <1>6, <3>1
  <2>2. h >= 1 => b >= s
    <3>1. 1 <= h => 1 * s <= h * s
      BY ProductOrder
    <3> QED
      BY <1>6, <3>1
  <2>3. b >= 0
    BY <1>1, <1>2, <1>4, <1>7, <2>1, <2>2
  <2> QED
    BY <2>1, <2>2, <2>3
<1>9. SizeA = b + (IF odd = 1 THEN s ELSE 0)
  <2>1. Sectors = q
    BY <1>1, <1>2, <1>3 DEF Sectors
  <2> QED
    BY <1>1, <1>5, <1>6, <2>1 DEF SizeA
<1> QED
  BY <1>1, <1>2, <1>4, <1>7, <1>8, <1>9

(* Two parts of the image that follow each other.                          *)
Joined(w, s, t, m, n) ==
  /\ Len(w) = m + n
  /\ \A j \in 1 .. m : w[j] = s[j]
  /\ \A j \in m + 1 .. m + n : w[j] = t[j - m]

(* The cells of two runs of cells.                                         *)
LEMMA JoinedAt ==
  ASSUME NEW s \in Seq(Nat), NEW t \in Seq(Nat), NEW m \in Nat, m = Len(s), NEW n \in Nat, n = Len(t)
  PROVE  Joined(s \o t, s, t, m, n)
BY DEF Joined

(* Cells that agree are the same.                                          *)
LEMMA SameCells ==
  ASSUME NEW s \in Seq(Nat), NEW t \in Seq(Nat), NEW n \in Nat, Len(s) = n, Len(t) = n, \A j \in 1 .. n : s[j] = t[j]
  PROVE  s = t
OBVIOUS

(* Two parts of the image that follow each other are one.                  *)
LEMMA PartsJoin ==
  ASSUME NEW from \in Nat, NEW m \in Nat, NEW n \in Nat
  PROVE  ImagePart(from, m) \o ImagePart(from + m, n) = ImagePart(from, m + n)
<1>1. PICK s \in Seq(Nat), t \in Seq(Nat), u \in Seq(Nat) :
        s = ImagePart(from, m) /\ t = ImagePart(from + m, n) /\ u = ImagePart(from, m + n)
  <2>1. PICK mid \in Nat, all \in Int : mid = from + m /\ all = m + n
    OBVIOUS
  <2>3. m \in Int /\ n \in Int
    OBVIOUS
  <2>4. ImagePart(from, m) \in Seq(Nat)
    BY <2>3, ImageCells
  <2>5. ImagePart(mid, n) \in Seq(Nat)
    BY <2>3, ImageCells
  <2>2. ImagePart(from, m) \in Seq(Nat) /\ ImagePart(mid, n) \in Seq(Nat) /\ ImagePart(from, all) \in Seq(Nat)
    BY <2>4, <2>5, ImageCells
  <2> QED
    BY <2>1, <2>2
<1>2. Len(s) = m /\ \A k \in 1 .. m : s[k] = Image(from + k - 1)
  BY <1>1 DEF ImagePart
<1>3. Len(t) = n /\ \A k \in 1 .. n : t[k] = Image(from + m + k - 1)
  BY <1>1 DEF ImagePart
<1>4. Len(u) = m + n /\ \A k \in 1 .. m + n : u[k] = Image(from + k - 1)
  BY <1>1 DEF ImagePart
<1>5. PICK w \in Seq(Nat) : w = s \o t
  BY JoinedCells
<1>9. Joined(w, s, t, m, n)
  BY <1>2, <1>3, <1>5, JoinedAt
<1>6. /\ Len(w) = m + n
      /\ \A j \in 1 .. m : w[j] = s[j]
      /\ \A j \in m + 1 .. m + n : w[j] = t[j - m]
  BY <1>9 DEF Joined
<1>7. ASSUME NEW j \in 1 .. m + n PROVE w[j] = u[j]
  <2>1. CASE j <= m
    BY <1>2, <1>4, <1>6, <2>1
  <2>2. CASE ~(j <= m)
    <3>1. PICK k \in 1 .. n : k = j - m /\ from + m + k - 1 = from + j - 1
      BY <2>2
    <3>2. j \in m + 1 .. m + n
      BY <2>2
    <3>3. w[j] = t[k]
      BY <1>6, <3>1, <3>2
    <3>4. t[k] = Image(from + j - 1)
      BY <1>3, <3>1
    <3> QED
      BY <1>4, <3>3, <3>4
  <2> QED
    BY <2>1, <2>2
<1>8. w = u
  <2>1. PICK total \in Nat : total = m + n
    OBVIOUS
  <2>2. Len(w) = total /\ Len(u) = total
    BY <1>4, <1>6, <2>1
  <2>3. \A j \in 1 .. total : w[j] = u[j]
    BY <1>7, <2>1
  <2> QED
    BY <2>2, <2>3, SameCells
<1> QED
  BY <1>1, <1>5, <1>8

(* The cells of a part of the image.                                       *)
ImageHeld(disk, loc, from, count) == \A k \in 1 .. count : disk[loc + k - 1] = Image(from + k - 1)

(* A part of the image that is held is found.                              *)
LEMMA ImageFound ==
  ASSUME NEW disk, NEW loc, NEW from, NEW count, ImageHeld(disk, loc, from, count)
  PROVE  Cells(disk, loc, count) = ImagePart(from, count)
BY DEF Cells, ImagePart, ImageHeld

(* The fields of the boot sector that stay lie in the table that is put    *)
(* back.                                                                   *)
LEMMA FixedInTable ==
  /\ DISK_ID \in Fixed /\ \E k \in 1 .. TABLE_SIZE : DISK_ID = DISK_ID + k - 1
  /\ \A p \in 1 .. Partitions : Start(p) \in Fixed /\ \E k \in 1 .. TABLE_SIZE : Start(p) = DISK_ID + k - 1
<1>1. PICK n \in Nat : n = Partitions
  BY LimineToolAssumption
<1>2. TABLE_SIZE = 2 * n + 1 /\ DISK_ID = 9
  BY <1>1 DEF TABLE_SIZE, DISK_ID
<1>3. ASSUME NEW p \in 1 .. n PROVE \E k \in 1 .. TABLE_SIZE : Start(p) = DISK_ID + k - 1
  <2>1. PICK k \in 1 .. 2 * n + 1 : k = 2 * p + 1
    OBVIOUS
  <2>2. Start(p) = DISK_ID + k - 1
    BY <1>2, <2>1 DEF Start
  <2> QED
    BY <1>2, <2>1, <2>2
<1>4. 1 \in 1 .. TABLE_SIZE /\ DISK_ID = DISK_ID + 1 - 1
  BY <1>2
<1> QED
  BY <1>1, <1>3, <1>4 DEF Fixed

(* What an installation leaves is what the loader looks for.               *)
LEMMA LoaderFinds ==
  ASSUME r \in Registers, Stands(r, Disk, before, D, 10), STAGE2_SIZE >= SECTOR
  PROVE  LoaderFindsStage2
<1>1. Room(r) /\ StampKept(r, before) /\ TableKept(r, before) /\ Written(r, Disk, D, 10)
  BY DEF Stands
<1>2. Imaged(r, Disk, D) /\ Fields(r, Disk, 10)
  BY <1>1, WrittenLate
<1>3. Disk[PARAMS] = SizeA /\ Disk[PARAMS + 2] = r.a /\ Disk[PARAMS + 3] = r.b /\ Disk[STAMP] = r.stamp[1]
  BY <1>2 DEF Fields
<1>4. \A k \in 1 .. TABLE_SIZE : Disk[DISK_ID + k - 1] = r.table[k]
  BY <1>2 DEF Fields
<1>5. \A k \in 0 .. SECTOR - 1 : Disk[k] = Image(k) \/ k \in {STAMP} \cup PARAMS .. PARAMS + 3 \cup DISK_ID .. DISK_ID + TABLE_SIZE - 1
  BY <1>2 DEF Imaged, Corrected
<1>6. Cells(Disk, Disk[PARAMS + 2], Disk[PARAMS]) \o Cells(Disk, Disk[PARAMS + 3], STAGE2_SIZE - Disk[PARAMS])
        = ImagePart(SECTOR, STAGE2_SIZE)
  <2>1. PICK n \in Nat, size \in Nat, rest \in Nat : n = SECTOR /\ size = SizeA /\ rest = STAGE2_SIZE - SizeA
    <3>1. SizeA <= STAGE2_SIZE
      BY HalfFits
    <3> QED
      BY <3>1, Sizes
  <2>2. PICK a \in Int, b \in Int : a = r.a /\ b = r.b
    BY DEF Registers
  <2>3. ImageHeld(Disk, a, n, size)
    BY <1>2, <2>1, <2>2 DEF Imaged, ImageHeld
  <2>4. PICK mid \in Nat : mid = n + size
    OBVIOUS
  <2>5. ImageHeld(Disk, b, mid, rest)
    BY <1>2, <2>1, <2>2, <2>4 DEF Imaged, ImageHeld
  <2>7. Cells(Disk, a, size) = ImagePart(n, size)
    BY <2>3, ImageFound
  <2>8. Cells(Disk, b, rest) = ImagePart(mid, rest)
    BY <2>5, ImageFound
  <2>9. ImagePart(n, size) \o ImagePart(mid, rest) = ImagePart(n, size + rest)
    BY <2>4, PartsJoin
  <2>10. size + rest = STAGE2_SIZE
    BY <2>1, Sizes
  <2> QED
    BY <1>3, <2>1, <2>2, <2>7, <2>8, <2>9, <2>10
<1>7. Disk[STAMP] = before[STAMP]
  BY <1>1, <1>3 DEF StampKept
<1>8. \A k \in 1 .. TABLE_SIZE : DISK_ID + k - 1 \in Fixed => Disk[DISK_ID + k - 1] = before[DISK_ID + k - 1]
  BY <1>1, <1>4 DEF TableKept
<1>9. \A k \in {STAMP, DISK_ID} \cup {Start(p) : p \in 1 .. Partitions} : Disk[k] = before[k]
  <2>1. Disk[DISK_ID] = before[DISK_ID]
    BY <1>8, FixedInTable, Zenon
  <2>2. \A p \in 1 .. Partitions : Disk[Start(p)] = before[Start(p)]
    BY <1>8, FixedInTable, Zenon
  <2> QED
    BY <1>7, <2>1, <2>2
<1>10. r.gpt => \A p \in 1 .. Partitions : Disk[Flag(p)] = before[Flag(p)]
  <2>1. ASSUME r.gpt, NEW p \in 1 .. Partitions PROVE Disk[Flag(p)] = before[Flag(p)]
    <3>1. PICK k \in 1 .. TABLE_SIZE : k = 2 * p /\ Flag(p) = DISK_ID + k - 1
      BY TablePlaces
    <3>2. r.table[k] = before[DISK_ID + k - 1]
      BY <1>1, <2>1 DEF TableKept
    <3> QED
      BY <1>4, <3>1, <3>2
  <2> QED
    BY <2>1
<1>11. ~r.gpt => \E p \in 1 .. Partitions : Disk[Flag(p)] = 128
  <2>1. ASSUME ~r.gpt PROVE \E p \in 1 .. Partitions : Disk[Flag(p)] = 128
    <3>1. PICK p \in 1 .. Partitions : r.table[2 * p] = 128
      BY <1>1, <2>1 DEF TableKept
    <3>2. PICK k \in 1 .. TABLE_SIZE : k = 2 * p /\ Flag(p) = DISK_ID + k - 1
      BY TablePlaces
    <3>3. Disk[Flag(p)] = 128
      BY <1>4, <3>1, <3>2
    <3> QED
      BY <3>3
  <2> QED
    BY <2>1
<1> QED
  BY <1>5, <1>6, <1>9, <1>10, <1>11 DEF LoaderFindsStage2

(* After an installation that succeeds, the loader finds stage 2 whole,    *)
(* with the timestamp, the identity and the partitions of the device kept, *)
(* on every MBR and on every GPT whose array, second header and partition  *)
(* for stage 2 are where a GPT has them (limine.c:681-1060).               *)
THEOREM LoaderFindsItsStage2 ==
  ASSUME STAGE2_SIZE >= SECTOR
  PROVE  Spec => [](Apart(r) => LoaderFindsStage2)
<1>1. Init => IInv /\ LInv
  BY InitIInv, InitLInv
<1>2. IInv /\ LInv /\ [Next]_vars => (IInv /\ LInv)'
  BY StepKeeps, StepSees
<1>3. IInv /\ LInv => (Apart(r) => LoaderFindsStage2)
  <2>1. SUFFICES ASSUME IInv, LInv, Apart(r), Installed PROVE LoaderFindsStage2
    BY DEF LoaderFindsStage2
  <2>2. pc = "shell"
    BY <2>1 DEF Installed, Exited
  <2>3. Stands(r, Disk, before, D, 10)
    BY <2>1, <2>2 DEF LInv, Disk
  <2>4. r \in Registers
    BY <2>1 DEF IInv, Typed, Known
  <2> QED
    BY <2>3, <2>4, LoaderFinds
<1> QED
  BY <1>1, <1>2, <1>3, PTL DEF Spec
=============================================================================
