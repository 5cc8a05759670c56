----------------------------- MODULE UtilProofs -----------------------------
(***************************************************************************)
(* Proofs about Util, as part of the library: for every size of the memory *)
(* and everything in it, and for every call that C allows.                 *)
(***************************************************************************)
EXTENDS CLibrary, PrintfProofs

AddressSpace == 0 .. MemorySize - 1
Byte == 0 .. 255
Memory == [AddressSpace -> Byte]

(* A string ends at its first NUL.                                         *)
LEMMA EndOfString ==
  ASSUME NEW m \in Memory, NEW p \in Nat, IsString(m, p)
  PROVE  /\ EndOf(m, p) \in AddressSpace /\ EndOf(m, p) >= p /\ m[EndOf(m, p)] = 0
         /\ \A k \in p .. EndOf(m, p) - 1 : k \in AddressSpace /\ m[k] # 0
<1> DEFINE Ends == {q \in AddressSpace : q >= p /\ m[q] = 0}
           Is(q) == q >= p /\ m[q] = 0 /\ \A k \in p .. q - 1 : m[k] # 0
<1>0. MemorySize \in Nat /\ DOMAIN m = AddressSpace
  BY UtilAssumption DEF Memory
<1>1. Ends \in SUBSET Nat /\ Ends # {}
  BY <1>0 DEF IsString, AddressSpace
<1>2. PICK q \in Ends : \A r \in Ends : q <= r
  <2> HIDE DEF Ends
  <2> QED
    BY <1>1, LeastNatural
<1>3. \A k \in p .. q - 1 : k \in AddressSpace /\ m[k] # 0
  <2> SUFFICES ASSUME NEW k \in p .. q - 1 PROVE k \in AddressSpace /\ m[k] # 0
    OBVIOUS
  <2>1. k \in AddressSpace /\ ~(q <= k)
    BY <1>0, <1>2 DEF AddressSpace
  <2> QED
    BY <1>2, <2>1
<1>4. Is(q)
  BY <1>2, <1>3
<1>5. EndOf(m, p) \in AddressSpace /\ Is(EndOf(m, p))
  <2>1. EndOf(m, p) = CHOOSE r \in AddressSpace : Is(r)
    BY <1>0 DEF EndOf
  <2> HIDE DEF Is
  <2> QED
    BY <1>2, <1>4, <2>1
<1>6. \A k \in p .. EndOf(m, p) - 1 : k \in AddressSpace
  BY <1>0, <1>5 DEF AddressSpace
<1> QED
  BY <1>5, <1>6

(* The characters of a string.                                             *)
LEMMA CharactersOf ==
  ASSUME NEW m \in Memory, NEW p \in Nat, IsString(m, p)
  PROVE  /\ StringAt(m, p) \in Seq(Byte) /\ Len(StringAt(m, p)) = EndOf(m, p) - p
         /\ \A i \in 1 .. EndOf(m, p) - p : StringAt(m, p)[i] = m[p + i - 1]
<1>1. PICK e \in Nat : /\ e = EndOf(m, p) /\ e >= p /\ e \in AddressSpace
  BY EndOfString, UtilAssumption DEF AddressSpace
<1> DEFINE all == [k \in 1 .. e |-> m[k - 1]]
<1>2. all \in Seq(Byte) /\ Len(all) = e
  <2>1. \A k \in 1 .. e : k - 1 \in AddressSpace
    BY <1>1, UtilAssumption DEF AddressSpace
  <2> QED
    BY <1>1, <2>1 DEF Memory
<1>3. StringAt(m, p) = SubSeq(all, p + 1, e)
  BY <1>1 DEF StringAt
<1>4. /\ SubSeq(all, p + 1, e) \in Seq(Byte) /\ Len(SubSeq(all, p + 1, e)) = e - p
      /\ \A i \in 1 .. e - p : SubSeq(all, p + 1, e)[i] = all[p + i]
  <2> HIDE DEF all
  <2> QED
    BY <1>1, <1>2
<1>5. \A i \in 1 .. e - p : all[p + i] = m[p + i - 1]
  BY <1>1
<1> QED
  BY <1>1, <1>3, <1>4, <1>5
-----------------------------------------------------------------------------
(* The calls that change memory, as functions of the memory and the call:  *)
(* where they write, how much, and what they are to leave there.           *)
Copies == {"memcpy", "memset", "memmove", "strcpy", "strncpy", "strcat"}
StringSize(m, o) == EndOf(m, o.src) - o.src + 1
CallSize(m, o) ==
  CASE o.fct \in {"memcpy", "memset", "memmove"} -> o.count
    [] o.fct \in {"strcpy", "strcat"} -> StringSize(m, o)
    [] o.fct = "strncpy" -> LesserOf(o.count, StringSize(m, o))
    [] OTHER -> 0
CallTarget(m, o) == IF o.fct = "strcat" THEN EndOf(m, o.dst) ELSE o.dst
CallCell(m, o, p) ==
  IF p \in CallTarget(m, o) .. CallTarget(m, o) + CallSize(m, o) - 1
    THEN IF o.fct = "memset" THEN o.src ELSE m[o.src + p - CallTarget(m, o)]
    ELSE m[p]

(* The memory when the loop has gone round n times.                        *)
Backwards(o) == o.fct = "memmove" /\ o.src < o.dst
Written(m, o, n) ==
  IF Backwards(o) THEN o.dst + o.count - n .. o.dst + o.count - 1
                  ELSE CallTarget(m, o) .. o.dst + n - 1
Partial(m, o, n) ==
  [p \in AddressSpace |-> IF p \in Written(m, o, n) THEN CallCell(m, o, p) ELSE m[p]]

(* How often the loop goes round.                                          *)
Rounds(m, o) ==
  IF o.fct = "memmove" /\ o.src = o.dst THEN 0 ELSE CallTarget(m, o) + CallSize(m, o) - o.dst

(* The memory with one cell changed.                                       *)
Stored(m, p, cell) == [m EXCEPT ![p] = cell]

(* The fields of a call.                                                   *)
LEMMA OperationFields ==
  ASSUME NEW o \in Operations
  PROVE  o.fct \in STRING /\ o.dst \in Nat /\ o.src \in Nat /\ o.count \in Nat
BY UtilAssumption

(* What Allowed says of each function that copies.                         *)
LEMMA AllowedCopies ==
  ASSUME NEW m \in Memory, NEW o \in Operations, Allowed(m, o)
  PROVE  /\ o.fct \in {"memcpy", "memmove", "memcmp"} => IsArea(m, o.dst, o.count) /\ IsArea(m, o.src, o.count)
         /\ o.fct = "memcpy" => Apart(o.dst, o.count, o.src)
         /\ o.fct = "memset" => IsArea(m, o.dst, o.count)
         /\ o.fct \in {"strlen", "strchr", "stringToInt", "split"} => IsString(m, o.dst)
         /\ o.fct \in {"strcmp", "strncmp"} => IsString(m, o.dst) /\ IsString(m, o.src)
         /\ o.fct = "strcpy" =>
              /\ IsString(m, o.src) /\ IsArea(m, o.dst, Len(StringAt(m, o.src)) + 1)
              /\ Apart(o.dst, Len(StringAt(m, o.src)) + 1, o.src)
         /\ o.fct = "strncpy" =>
              /\ IsString(m, o.src) /\ IsArea(m, o.dst, o.count)
              /\ \/ o.dst + o.count <= o.src
                 \/ o.src + LesserOf(o.count, Len(StringAt(m, o.src)) + 1) <= o.dst
         /\ o.fct = "strcat" =>
              /\ IsString(m, o.dst) /\ IsString(m, o.src)
              /\ IsArea(m, EndOf(m, o.dst), Len(StringAt(m, o.src)) + 1)
              /\ Apart(EndOf(m, o.dst), Len(StringAt(m, o.src)) + 1, o.src)
<1> HIDE DEF IsArea, IsString, Apart
<1> QED
  BY DEF Allowed

(* Every cell of an area is one of the memory.                             *)
LEMMA AreaCells ==
  ASSUME NEW m \in Memory, NEW p \in Nat, NEW n \in Nat, IsArea(m, p, n)
  PROVE  \A i \in 0 .. n - 1 : p + i \in AddressSpace
<1> SUFFICES ASSUME NEW i \in 0 .. n - 1 PROVE p + i \in AddressSpace
  OBVIOUS
<1>1. MemorySize \in Nat /\ DOMAIN m = AddressSpace
  BY UtilAssumption DEF Memory
<1>2. p + n - 1 \in AddressSpace
  BY <1>1 DEF IsArea
<1> QED
  BY <1>1, <1>2 DEF AddressSpace

(* The call writes inside the memory, from inside the memory.              *)
LEMMA CallShape ==
  ASSUME NEW m \in Memory, NEW o \in Operations, Allowed(m, o), o.fct \in Copies
  PROVE  /\ CallSize(m, o) \in Nat /\ CallTarget(m, o) \in Nat /\ CallTarget(m, o) >= o.dst
         /\ \A i \in 0 .. CallSize(m, o) - 1 : CallTarget(m, o) + i \in AddressSpace
         /\ o.fct # "memset" => \A i \in 0 .. CallSize(m, o) - 1 : o.src + i \in AddressSpace
         /\ o.fct \in {"memcpy", "strcpy", "strncpy", "strcat"} =>
              \A i, j \in 0 .. CallSize(m, o) - 1 : CallTarget(m, o) + i # o.src + j
         /\ o.fct = "strcat" => \A k \in o.dst .. CallTarget(m, o) - 1 : k \in AddressSpace
<1>0. /\ o.dst \in Nat /\ o.src \in Nat /\ o.count \in Nat /\ MemorySize \in Nat
      /\ DOMAIN m = AddressSpace
  BY OperationFields, UtilAssumption DEF Memory
<1>1. CASE o.fct \in {"memcpy", "memmove"}
  <2>1. CallSize(m, o) = o.count /\ CallTarget(m, o) = o.dst
    BY <1>1 DEF CallSize, CallTarget
  <2>2. IsArea(m, o.dst, o.count) /\ IsArea(m, o.src, o.count)
    BY <1>1, AllowedCopies
  <2>3. o.fct = "memcpy" => Apart(o.dst, o.count, o.src)
    BY AllowedCopies
  <2>4. \A i \in 0 .. o.count - 1 : o.dst + i \in AddressSpace /\ o.src + i \in AddressSpace
    BY <1>0, <2>2, AreaCells
  <2>5. o.fct = "memcpy" => \A i, j \in 0 .. o.count - 1 : o.dst + i # o.src + j
    BY <1>0, <2>3 DEF Apart
  <2>6. o.fct \notin {"strcpy", "strncpy", "strcat"}
    BY <1>1
  <2> QED
    BY <1>0, <2>1, <2>4, <2>5, <2>6
<1>2. CASE o.fct = "memset"
  <2>1. CallSize(m, o) = o.count /\ CallTarget(m, o) = o.dst
    BY <1>2 DEF CallSize, CallTarget
  <2>2. IsArea(m, o.dst, o.count)
    BY <1>2, AllowedCopies
  <2> QED
    BY <1>0, <1>2, <2>1, <2>2 DEF IsArea, AddressSpace
<1>3. CASE o.fct \in {"strcpy", "strncpy", "strcat"}
  <2>1. IsString(m, o.src)
    BY <1>3, AllowedCopies
  <2>2. PICK s \in Nat \ {0} : /\ s = StringSize(m, o) /\ s = Len(StringAt(m, o.src)) + 1
                               /\ \A i \in 0 .. s - 1 : o.src + i \in AddressSpace
    <3>1. /\ EndOf(m, o.src) \in AddressSpace /\ EndOf(m, o.src) >= o.src
          /\ Len(StringAt(m, o.src)) = EndOf(m, o.src) - o.src
      BY <1>0, <2>1, EndOfString, CharactersOf
    <3>2. \A i \in 0 .. EndOf(m, o.src) - o.src + 1 - 1 : o.src + i \in AddressSpace
      BY <1>0, <3>1 DEF AddressSpace
    <3>3. EndOf(m, o.src) \in Nat /\ EndOf(m, o.src) - o.src + 1 \in Nat \ {0}
      BY <1>0, <3>1 DEF AddressSpace
    <3> QED
      BY <3>1, <3>2, <3>3 DEF StringSize
  <2>3. PICK t \in Nat : t = CallTarget(m, o) /\ t >= o.dst
    <3>1. CASE o.fct = "strcat"
      <4>1. IsString(m, o.dst)
        BY <3>1, AllowedCopies
      <4> QED
        BY <1>0, <3>1, <4>1, EndOfString DEF CallTarget, AddressSpace
    <3>2. CASE o.fct # "strcat"
      BY <1>0, <3>2 DEF CallTarget
    <3> QED
      BY <3>1, <3>2
  <2>5. PICK n \in Nat : /\ n = CallSize(m, o) /\ n <= s
                         /\ IF o.fct = "strncpy" THEN n = LesserOf(o.count, s) /\ n <= o.count ELSE n = s
    BY <1>0, <1>3, <2>2 DEF CallSize, LesserOf
  <2>4. PICK size \in Nat : /\ n <= size /\ IsArea(m, t, size)
                            /\ t + size <= o.src \/ o.src + n <= t
    <3>1. CASE o.fct = "strcat"
      <4>1. IsArea(m, t, s) /\ Apart(t, s, o.src)
        BY <2>2, <2>3, <3>1, AllowedCopies DEF CallTarget
      <4> QED
        BY <2>5, <3>1, <4>1 DEF Apart
    <3>2. CASE o.fct = "strcpy"
      <4>1. IsArea(m, t, s) /\ Apart(t, s, o.src)
        BY <2>2, <2>3, <3>2, AllowedCopies DEF CallTarget
      <4> QED
        BY <2>5, <3>2, <4>1 DEF Apart
    <3>3. CASE o.fct = "strncpy"
      <4>1. t = o.dst
        BY <2>3, <3>3 DEF CallTarget
      <4>2. IsArea(m, o.dst, o.count) /\ (o.dst + o.count <= o.src \/ o.src + LesserOf(o.count, s) <= o.dst)
        BY <2>2, <3>3, AllowedCopies
      <4> QED
        BY <1>0, <2>5, <3>3, <4>1, <4>2
    <3> QED
      BY <1>3, <3>1, <3>2, <3>3
  <2>6. \A i \in 0 .. n - 1 : t + i \in AddressSpace /\ o.src + i \in AddressSpace
    BY <1>0, <2>2, <2>4, <2>5 DEF IsArea, AddressSpace
  <2>7. \A i, j \in 0 .. n - 1 : t + i # o.src + j
    BY <1>0, <2>4, <2>5
  <2>8. o.fct = "strcat" => \A k \in o.dst .. t - 1 : k \in AddressSpace
    <3> SUFFICES ASSUME o.fct = "strcat" PROVE \A k \in o.dst .. t - 1 : k \in AddressSpace
      OBVIOUS
    <3>1. IsString(m, o.dst)
      BY AllowedCopies
    <3>2. \A k \in o.dst .. EndOf(m, o.dst) - 1 : k \in AddressSpace
      BY <1>0, <3>1, EndOfString
    <3> QED
      BY <2>3, <3>2 DEF CallTarget
  <2> QED
    BY <2>3, <2>5, <2>6, <2>7, <2>8
<1> QED
  BY <1>1, <1>2, <1>3 DEF Copies

(* A round that writes forwards writes what the call is to leave there:    *)
(* what it reads has not been written yet.                                 *)
LEMMA ForwardRound ==
  ASSUME NEW m \in Memory, NEW o \in Operations, Allowed(m, o), o.fct \in Copies, ~Backwards(o),
         NEW n \in Nat, NEW i \in 0 .. CallSize(m, o) - 1, o.dst + n = CallTarget(m, o) + i,
         o.fct = "memmove" => o.src > o.dst
  PROVE  /\ o.fct # "memset" => Stored(Partial(m, o, n), o.dst + n, Partial(m, o, n)[o.src + i]) = Partial(m, o, n + 1)
         /\ o.fct = "memset" => Stored(Partial(m, o, n), o.dst + n, o.src) = Partial(m, o, n + 1)
<1>0. o.dst \in Nat /\ o.src \in Nat /\ MemorySize \in Nat
  BY OperationFields, UtilAssumption
<1>1. PICK s \in Nat, t \in Nat : s = CallSize(m, o) /\ t = CallTarget(m, o)
  BY CallShape
<1>2. i \in Nat /\ i < s /\ t + i \in AddressSpace
  BY <1>1, CallShape
<1>3. \A p \in AddressSpace : Partial(m, o, n)[p] = IF p \in t .. t + i - 1 THEN CallCell(m, o, p) ELSE m[p]
  BY <1>0, <1>1 DEF Partial, Written
<1>4. \A p \in AddressSpace : Partial(m, o, n + 1)[p] = IF p \in t .. t + i THEN CallCell(m, o, p) ELSE m[p]
  <2>1. o.dst + (n + 1) - 1 = t + i
    BY <1>0, <1>1
  <2> QED
    BY <1>1, <2>1 DEF Partial, Written
<1>5. \A v : v = CallCell(m, o, t + i) => Stored(Partial(m, o, n), o.dst + n, v) = Partial(m, o, n + 1)
  <2> SUFFICES ASSUME NEW v, v = CallCell(m, o, t + i)
               PROVE  [Partial(m, o, n) EXCEPT ![t + i] = v] = Partial(m, o, n + 1)
    BY <1>1 DEF Stored
  <2> DEFINE new == [Partial(m, o, n) EXCEPT ![t + i] = v]
  <2>1. new = [p \in AddressSpace |-> new[p]] /\ Partial(m, o, n + 1) = [p \in AddressSpace |-> Partial(m, o, n + 1)[p]]
    BY DEF Partial
  <2>2. ASSUME NEW p \in AddressSpace PROVE new[p] = Partial(m, o, n + 1)[p]
    <3>1. new[p] = IF p = t + i THEN v ELSE Partial(m, o, n)[p]
      BY DEF Partial
    <3>2. p \in t .. t + i <=> p = t + i \/ p \in t .. t + i - 1
      BY <1>0, <1>2, <1>1 DEF AddressSpace
    <3> QED
      BY <1>3, <1>4, <3>1, <3>2
  <2>3. new = Partial(m, o, n + 1)
    <3> HIDE DEF new
    <3> QED
      BY <2>1, <2>2
  <2> QED
    BY <2>3
<1>6. t + i \in CallTarget(m, o) .. CallTarget(m, o) + CallSize(m, o) - 1
  BY <1>1, <1>2
<1>7. ASSUME o.fct = "memset" PROVE o.src = CallCell(m, o, t + i)
  BY <1>6, <1>7 DEF CallCell
<1>8. ASSUME o.fct # "memset" PROVE Partial(m, o, n)[o.src + i] = CallCell(m, o, t + i)
  <2>1. CallCell(m, o, t + i) = m[o.src + i]
    <3>1. o.src + (t + i) - CallTarget(m, o) = o.src + i
      BY <1>0, <1>1, <1>2
    <3> QED
      BY <1>6, <1>8, <3>1 DEF CallCell
  <2>2. o.src + i \in AddressSpace
    BY <1>1, <1>8, CallShape
  <2>3. o.src + i \notin t .. t + i - 1
    <3>1. CASE o.fct = "memmove"
      <4>1. t = o.dst /\ o.src > t
        BY <1>1, <3>1 DEF CallTarget
      <4> QED
        BY <1>0, <1>2, <4>1
    <3>2. CASE o.fct # "memmove"
      <4>1. \A j, k \in 0 .. s - 1 : t + j # o.src + k
        BY <1>1, <1>8, <3>2, CallShape DEF Copies
      <4>2. ASSUME NEW q \in t .. t + i - 1 PROVE q # o.src + i
        <5>1. q - t \in 0 .. s - 1 /\ i \in 0 .. s - 1 /\ t + (q - t) = q
          BY <1>2
        <5> QED
          BY <4>1, <5>1
      <4> QED
        BY <4>2
    <3> QED
      BY <3>1, <3>2
  <2> QED
    BY <1>3, <2>1, <2>2, <2>3
<1> HIDE DEF Partial, CallCell
<1> QED
  BY <1>5, <1>7, <1>8

(* And so does memmove backwards.                                          *)
LEMMA BackwardRound ==
  ASSUME NEW m \in Memory, NEW o \in Operations, Allowed(m, o), Backwards(o),
         NEW n \in Nat, n < o.count
  PROVE  Stored(Partial(m, o, n), o.dst + (o.count - n - 1), Partial(m, o, n)[o.src + (o.count - n - 1)])
           = Partial(m, o, n + 1)
<1>0. /\ o.dst \in Nat /\ o.src \in Nat /\ o.count \in Nat /\ MemorySize \in Nat
      /\ o.fct = "memmove" /\ o.src < o.dst
  BY OperationFields, UtilAssumption DEF Backwards
<1>1. CallSize(m, o) = o.count /\ CallTarget(m, o) = o.dst
  BY <1>0 DEF CallSize, CallTarget
<1>2. PICK k \in 0 .. o.count - 1 : k = o.count - n - 1
  BY <1>0
<1>3. o.dst + k \in AddressSpace /\ o.src + k \in AddressSpace
  BY <1>0, <1>1, <1>2, CallShape DEF Copies
<1>4. \A p \in AddressSpace :
        Partial(m, o, n)[p] = IF p \in o.dst + k + 1 .. o.dst + o.count - 1 THEN CallCell(m, o, p) ELSE m[p]
  <2>1. o.dst + o.count - n = o.dst + k + 1
    BY <1>0, <1>2
  <2> QED
    BY <2>1 DEF Partial, Written
<1>5. \A p \in AddressSpace :
        Partial(m, o, n + 1)[p] = IF p \in o.dst + k .. o.dst + o.count - 1 THEN CallCell(m, o, p) ELSE m[p]
  <2>1. o.dst + o.count - (n + 1) = o.dst + k
    BY <1>0, <1>2
  <2> QED
    BY <2>1 DEF Partial, Written
<1>6. Partial(m, o, n)[o.src + k] = m[o.src + k]
  <2>1. o.src + k \notin o.dst + k + 1 .. o.dst + o.count - 1
    BY <1>0, <1>2
  <2> QED
    BY <1>3, <1>4, <2>1
<1>7. CallCell(m, o, o.dst + k) = m[o.src + k]
  <2>1. o.dst + k \in o.dst .. o.dst + o.count - 1 /\ o.src + (o.dst + k) - o.dst = o.src + k
    BY <1>0, <1>2
  <2> QED
    BY <1>0, <1>1, <2>1 DEF CallCell
<1> DEFINE new == [Partial(m, o, n) EXCEPT ![o.dst + k] = Partial(m, o, n)[o.src + k]]
<1>8. new = [p \in AddressSpace |-> new[p]] /\ Partial(m, o, n + 1) = [p \in AddressSpace |-> Partial(m, o, n + 1)[p]]
  BY DEF Partial
<1>9. ASSUME NEW p \in AddressSpace PROVE new[p] = Partial(m, o, n + 1)[p]
  <2>1. new[p] = IF p = o.dst + k THEN m[o.src + k] ELSE Partial(m, o, n)[p]
    BY <1>6 DEF Partial
  <2>2. p \in o.dst + k .. o.dst + o.count - 1 <=> p = o.dst + k \/ p \in o.dst + k + 1 .. o.dst + o.count - 1
    BY <1>0, <1>2 DEF AddressSpace
  <2> QED
    BY <1>4, <1>5, <1>7, <2>1, <2>2
<1>10. new = Partial(m, o, n + 1)
  <2> HIDE DEF new
  <2> QED
    BY <1>8, <1>9
<1> QED
  BY <1>2, <1>10 DEF Stored
-----------------------------------------------------------------------------
(* The states within a call: what has been copied so far is what the call  *)
(* is to leave, and the loop ends when all of it has been copied.          *)
Called ==
  /\ initial \in Memory /\ operation \in Operations /\ Allowed(initial, operation)
  /\ pos \in Nat

CopyInv ==
  /\ pos <= Rounds(initial, operation)
  /\ memory = Partial(initial, operation, pos)
  /\ result # << >> => pos = Rounds(initial, operation)

(* A loop that goes round exactly while there is something left to copy,   *)
(* and copies it, keeps CopyInv.                                           *)
CopyRound(m, o, n) ==
  /\ initial' = m /\ operation' = o /\ result = << >>
  /\ \/ n < Rounds(m, o) /\ memory' = Partial(m, o, n + 1) /\ pos' = n + 1 /\ result' = << >>
     \/ ~(n < Rounds(m, o)) /\ memory' = memory /\ pos' = n

(* Such a loop keeps CopyInv.                                              *)
LEMMA LoopCopies ==
  ASSUME CopyInv, NEW m, NEW o, NEW n \in Nat, m = initial, o = operation, n = pos,
         Rounds(m, o) \in Nat, CopyRound(m, o, n)
  PROVE  CopyInv'
<1>1. PICK r \in Nat : r = Rounds(m, o)
  OBVIOUS
<1>2. initial' = m /\ operation' = o /\ result = << >>
  BY DEF CopyRound
<1>3. CASE n < r
  <2>1. memory' = Partial(m, o, n + 1) /\ pos' = n + 1 /\ result' = << >> /\ n + 1 <= r
    BY <1>1, <1>3 DEF CopyRound
  <2> QED
    BY <1>1, <1>2, <2>1 DEF CopyInv
<1>4. CASE ~(n < r)
  <2>1. memory' = Partial(m, o, n) /\ pos' = n /\ n = r
    BY <1>1, <1>4 DEF CopyRound, CopyInv
  <2> QED
    BY <1>1, <1>2, <2>1 DEF CopyInv
<1> QED
  BY <1>3, <1>4

(* The call, as constants.                                                 *)
LEMMA CallOf ==
  ASSUME Called
  PROVE  \E m \in Memory, o \in Operations, n \in Nat :
           /\ m = initial /\ o = operation /\ n = pos /\ Allowed(m, o)
           /\ o.dst \in Nat /\ o.src \in Nat /\ o.count \in Nat
BY OperationFields DEF Called

(* memcpy is such a loop.                                                  *)
LEMMA memcpyCopies == ASSUME Called, CopyInv, memcpy PROVE CopyInv'
<1>1. PICK m \in Memory, o \in Operations, n \in Nat :
        /\ m = initial /\ o = operation /\ n = pos /\ Allowed(m, o)
        /\ o.dst \in Nat /\ o.src \in Nat /\ o.count \in Nat
  BY CallOf
<1>2. o.fct = "memcpy"
  BY <1>1 DEF memcpy, Loop
<1>3. CallSize(m, o) = o.count /\ CallTarget(m, o) = o.dst /\ ~Backwards(o) /\ o.fct \in Copies
  BY <1>2 DEF CallSize, CallTarget, Backwards, Copies
<1>4. Rounds(m, o) = o.count
  BY <1>1, <1>2, <1>3 DEF Rounds
<1>5. memory = Partial(m, o, n)
  BY <1>1 DEF CopyInv
<1>6. ASSUME n < o.count
      PROVE  Stored(Partial(m, o, n), o.dst + n, Partial(m, o, n)[o.src + n]) = Partial(m, o, n + 1)
  <2>1. n \in 0 .. CallSize(m, o) - 1 /\ o.dst + n = CallTarget(m, o) + n
    BY <1>1, <1>3, <1>6
  <2>2. o.fct # "memmove" /\ o.fct # "memset"
    BY <1>2
  <2> QED
    BY <1>1, <1>3, <2>1, <2>2, ForwardRound, Zenon
<1>7. CopyRound(m, o, n)
  <2>1. Loop("memcpy", n < o.count, Store(o.dst + n, memory[o.src + n]), acc, o.dst)
    BY <1>1 DEF memcpy, count, dst, src
  <2> QED
    BY <1>1, <1>4, <1>5, <1>6, <2>1 DEF Loop, Store, CopyRound, Stored
<1> QED
  BY <1>1, <1>4, <1>7, LoopCopies

(* So is memset.                                                           *)
LEMMA memsetCopies == ASSUME Called, CopyInv, memset PROVE CopyInv'
<1>1. PICK m \in Memory, o \in Operations, n \in Nat :
        /\ m = initial /\ o = operation /\ n = pos /\ Allowed(m, o)
        /\ o.dst \in Nat /\ o.src \in Nat /\ o.count \in Nat
  BY CallOf
<1>2. o.fct = "memset"
  BY <1>1 DEF memset, Loop
<1>3. CallSize(m, o) = o.count /\ CallTarget(m, o) = o.dst /\ ~Backwards(o) /\ o.fct \in Copies
  BY <1>2 DEF CallSize, CallTarget, Backwards, Copies
<1>4. Rounds(m, o) = o.count
  BY <1>1, <1>2, <1>3 DEF Rounds
<1>5. memory = Partial(m, o, n)
  BY <1>1 DEF CopyInv
<1>6. ASSUME n < o.count PROVE Stored(Partial(m, o, n), o.dst + n, o.src) = Partial(m, o, n + 1)
  <2>1. n \in 0 .. CallSize(m, o) - 1 /\ o.dst + n = CallTarget(m, o) + n
    BY <1>1, <1>3, <1>6
  <2>2. o.fct # "memmove"
    BY <1>2
  <2> QED
    BY <1>1, <1>2, <1>3, <2>1, <2>2, ForwardRound, Zenon
<1>7. CopyRound(m, o, n)
  <2>1. Loop("memset", n < o.count, Store(o.dst + n, o.src), acc, o.dst)
    BY <1>1 DEF memset, count, dst, src
  <2> QED
    BY <1>1, <1>4, <1>5, <1>6, <2>1 DEF Loop, Store, CopyRound, Stored
<1> QED
  BY <1>1, <1>4, <1>7, LoopCopies

(* So is memmove, in either direction.                                     *)
LEMMA memmoveCopies == ASSUME Called, CopyInv, memmove PROVE CopyInv'
<1>1. PICK m \in Memory, o \in Operations, n \in Nat :
        /\ m = initial /\ o = operation /\ n = pos /\ Allowed(m, o)
        /\ o.dst \in Nat /\ o.src \in Nat /\ o.count \in Nat
  BY CallOf
<1>2. o.fct = "memmove"
  BY <1>1 DEF memmove, Loop
<1>3. CallSize(m, o) = o.count /\ CallTarget(m, o) = o.dst /\ o.fct \in Copies
  BY <1>2 DEF CallSize, CallTarget, Copies
<1>4. Rounds(m, o) = IF o.src = o.dst THEN 0 ELSE o.count
  BY <1>1, <1>2, <1>3 DEF Rounds
<1>5. memory = Partial(m, o, n)
  BY <1>1 DEF CopyInv
<1>6. PICK k : k = IF o.src > o.dst THEN n ELSE o.count - n - 1
  OBVIOUS
<1>7. ASSUME n < o.count, o.src # o.dst
      PROVE  Stored(Partial(m, o, n), o.dst + k, Partial(m, o, n)[o.src + k]) = Partial(m, o, n + 1)
  <2>1. CASE o.src > o.dst
    <3>1. ~Backwards(o) /\ n \in 0 .. CallSize(m, o) - 1 /\ k = n /\ o.dst + n = CallTarget(m, o) + n
      BY <1>1, <1>3, <1>6, <1>7, <2>1 DEF Backwards
    <3>2. o.fct # "memset"
      BY <1>2
    <3>3. Stored(Partial(m, o, n), o.dst + n, Partial(m, o, n)[o.src + n]) = Partial(m, o, n + 1)
      BY <1>1, <1>3, <2>1, <3>1, <3>2, ForwardRound, Zenon
    <3> QED
      BY <3>1, <3>3
  <2>2. CASE o.src < o.dst
    <3>1. Backwards(o) /\ k = o.count - n - 1
      BY <1>1, <1>2, <1>6, <2>2 DEF Backwards
    <3>2. Stored(Partial(m, o, n), o.dst + (o.count - n - 1), Partial(m, o, n)[o.src + (o.count - n - 1)]) = Partial(m, o, n + 1)
      BY <1>1, <1>7, <3>1, BackwardRound, Zenon
    <3> QED
      BY <3>1, <3>2
  <2> QED
    BY <1>1, <1>7, <2>1, <2>2
<1>8. CopyRound(m, o, n)
  <2>1. Loop("memmove", n < o.count /\ o.src # o.dst, Store(o.dst + k, memory[o.src + k]), acc, o.dst)
    BY <1>1, <1>6 DEF memmove, count, dst, src
  <2> QED
    BY <1>1, <1>4, <1>5, <1>7, <2>1 DEF Loop, Store, CopyRound, Stored
<1> QED
  BY <1>1, <1>4, <1>8, LoopCopies

(* What a string function has copied last tells it whether to go on.       *)
LEMMA StringCell ==
  ASSUME NEW m \in Memory, NEW o \in Operations, Allowed(m, o), o.fct \in {"strcpy", "strncpy", "strcat"}
  PROVE  /\ StringSize(m, o) \in Nat \ {0} /\ CallSize(m, o) <= StringSize(m, o)
         /\ \A n \in Nat, j \in 0 .. CallSize(m, o) - 1 :
              CallTarget(m, o) + j < o.dst + n =>
                (Partial(m, o, n)[CallTarget(m, o) + j] = 0 <=> j = StringSize(m, o) - 1)
<1>0. /\ o.dst \in Nat /\ o.src \in Nat /\ o.count \in Nat /\ o.fct \in Copies
      /\ IsString(m, o.src) /\ MemorySize \in Nat
  BY OperationFields, AllowedCopies, UtilAssumption DEF Copies
<1>1. PICK e \in Nat : e = EndOf(m, o.src) /\ e >= o.src /\ m[e] = 0 /\ \A k \in o.src .. e - 1 : m[k] # 0
  BY <1>0, EndOfString DEF AddressSpace
<1>2. PICK z \in Nat \ {0} : z = StringSize(m, o) /\ z = e - o.src + 1
  BY <1>0, <1>1 DEF StringSize
<1>3. PICK s \in Nat, t \in Nat : s = CallSize(m, o) /\ t = CallTarget(m, o)
  BY <1>0, CallShape
<1>4. s <= z
  <2>1. CallSize(m, o) = z \/ CallSize(m, o) = LesserOf(o.count, z)
    BY <1>2 DEF CallSize
  <2>2. LesserOf(o.count, z) <= z
    BY <1>0 DEF LesserOf
  <2> QED
    BY <1>3, <2>1, <2>2
<1>5. ASSUME NEW n \in Nat, NEW j \in 0 .. s - 1, t + j < o.dst + n
      PROVE  Partial(m, o, n)[t + j] = 0 <=> j = z - 1
  <2>1. t + j \in AddressSpace /\ t + j \in CallTarget(m, o) .. CallTarget(m, o) + CallSize(m, o) - 1
    BY <1>0, <1>3, CallShape
  <2>2. t + j \in Written(m, o, n)
    <3>1. Written(m, o, n) = t .. o.dst + n - 1
      BY <1>3 DEF Written, Backwards
    <3>2. t + j \in t .. o.dst + n - 1
      BY <1>0, <1>3, <1>5
    <3> QED
      BY <3>1, <3>2
  <2>3. Partial(m, o, n)[t + j] = CallCell(m, o, t + j)
    BY <2>1, <2>2 DEF Partial
  <2>4. o.src + (t + j) - t = o.src + j /\ o.fct # "memset"
    BY <1>0, <1>3
  <2>5. CallCell(m, o, t + j) = m[o.src + j]
    BY <1>3, <2>1, <2>4 DEF CallCell
  <2>6. CASE j = z - 1
    <3>1. o.src + j = e
      BY <1>0, <1>1, <1>2, <2>6
    <3> QED
      BY <1>1, <2>3, <2>5, <2>6, <3>1
  <2>7. CASE j # z - 1
    <3>1. o.src + j \in o.src .. e - 1
      BY <1>0, <1>1, <1>2, <1>4, <2>7
    <3> QED
      BY <1>1, <2>3, <2>5, <2>7, <3>1
  <2> QED
    BY <2>6, <2>7
<1> QED
  BY <1>2, <1>3, <1>4, <1>5

(* So is strcpy, which stops behind the NUL it has copied.                 *)
LEMMA strcpyCopies == ASSUME Called, CopyInv, strcpy PROVE CopyInv'
<1>1. PICK m \in Memory, o \in Operations, n \in Nat :
        /\ m = initial /\ o = operation /\ n = pos /\ Allowed(m, o)
        /\ o.dst \in Nat /\ o.src \in Nat /\ o.count \in Nat
  BY CallOf
<1>2. o.fct = "strcpy"
  BY <1>1 DEF strcpy, Loop
<1>3. PICK z \in Nat \ {0} : z = StringSize(m, o)
  BY <1>1, <1>2, StringCell
<1>4. CallSize(m, o) = z /\ CallTarget(m, o) = o.dst /\ ~Backwards(o) /\ o.fct \in Copies
  BY <1>2, <1>3 DEF CallSize, CallTarget, Backwards, Copies
<1>5. Rounds(m, o) = z
  BY <1>1, <1>2, <1>4 DEF Rounds
<1>6. memory = Partial(m, o, n) /\ n <= z
  BY <1>1, <1>5 DEF CopyInv
<1>7. n < z <=> n = 0 \/ memory[o.dst + n - 1] # 0
  <2>1. CASE n = 0
    BY <2>1
  <2>2. CASE n > 0
    <3>1. n - 1 \in 0 .. CallSize(m, o) - 1 /\ CallTarget(m, o) + (n - 1) < o.dst + n
      BY <1>1, <1>4, <1>6, <2>2
    <3>2. Partial(m, o, n)[CallTarget(m, o) + (n - 1)] = 0 <=> n - 1 = StringSize(m, o) - 1
      BY <1>1, <1>2, <3>1, StringCell
    <3>3. CallTarget(m, o) + (n - 1) = o.dst + n - 1 /\ (n - 1 = z - 1 <=> n = z)
      BY <1>1, <1>4
    <3> QED
      BY <1>3, <1>6, <2>2, <3>2, <3>3
  <2> QED
    BY <2>1, <2>2
<1>8. ASSUME n < z
      PROVE  Stored(Partial(m, o, n), o.dst + n, Partial(m, o, n)[o.src + n]) = Partial(m, o, n + 1)
  <2>1. n \in 0 .. CallSize(m, o) - 1 /\ o.dst + n = CallTarget(m, o) + n
    BY <1>1, <1>4, <1>8
  <2>2. o.fct # "memmove" /\ o.fct # "memset"
    BY <1>2
  <2> QED
    BY <1>1, <1>4, <2>1, <2>2, ForwardRound, ZenonT(40)
<1>9. CopyRound(m, o, n)
  <2>1. Loop("strcpy", n = 0 \/ memory[o.dst + n - 1] # 0, Store(o.dst + n, memory[o.src + n]), acc, o.dst)
    BY <1>1 DEF strcpy, dst, src
  <2> QED
    BY <1>1, <1>5, <1>6, <1>7, <1>8, <2>1 DEF Loop, Store, CopyRound, Stored
<1> QED
  BY <1>1, <1>5, <1>9, LoopCopies

(* So is strncpy, which stops there or at its count.                       *)
LEMMA strncpyCopies == ASSUME Called, CopyInv, strncpy PROVE CopyInv'
<1>1. PICK m \in Memory, o \in Operations, n \in Nat :
        /\ m = initial /\ o = operation /\ n = pos /\ Allowed(m, o)
        /\ o.dst \in Nat /\ o.src \in Nat /\ o.count \in Nat
  BY CallOf
<1>2. o.fct = "strncpy"
  BY <1>1 DEF strncpy, Loop
<1>3. PICK z \in Nat \ {0} : z = StringSize(m, o)
  BY <1>1, <1>2, StringCell
<1>4. PICK s \in Nat : /\ s = CallSize(m, o) /\ s = LesserOf(o.count, z)
                       /\ CallTarget(m, o) = o.dst /\ ~Backwards(o) /\ o.fct \in Copies
  <2>1. LesserOf(o.count, z) \in Nat
    BY <1>1, <1>3 DEF LesserOf
  <2> QED
    BY <1>2, <1>3, <2>1 DEF CallSize, CallTarget, Backwards, Copies
<1>5. Rounds(m, o) = s
  BY <1>1, <1>2, <1>4 DEF Rounds
<1>6. memory = Partial(m, o, n) /\ n <= s
  BY <1>1, <1>5 DEF CopyInv
<1>7. n < s <=> n < o.count /\ (n = 0 \/ memory[o.dst + n - 1] # 0)
  <2>1. CASE n = 0
    BY <1>1, <1>3, <1>4, <2>1 DEF LesserOf
  <2>2. CASE n > 0
    <3>1. n - 1 \in 0 .. CallSize(m, o) - 1 /\ CallTarget(m, o) + (n - 1) < o.dst + n
      BY <1>1, <1>4, <1>6, <2>2
    <3>2. Partial(m, o, n)[CallTarget(m, o) + (n - 1)] = 0 <=> n - 1 = StringSize(m, o) - 1
      BY <1>1, <1>2, <3>1, StringCell
    <3>3. CallTarget(m, o) + (n - 1) = o.dst + n - 1 /\ (n - 1 = z - 1 <=> n = z)
      BY <1>1, <1>4
    <3>4. n < s <=> n < o.count /\ n # z
      BY <1>1, <1>4, <1>6 DEF LesserOf
    <3> QED
      BY <1>3, <1>6, <2>2, <3>2, <3>3, <3>4
  <2> QED
    BY <2>1, <2>2
<1>8. ASSUME n < s
      PROVE  Stored(Partial(m, o, n), o.dst + n, Partial(m, o, n)[o.src + n]) = Partial(m, o, n + 1)
  <2>1. n \in 0 .. CallSize(m, o) - 1 /\ o.dst + n = CallTarget(m, o) + n
    BY <1>1, <1>4, <1>8
  <2>2. o.fct # "memmove" /\ o.fct # "memset"
    BY <1>2
  <2> QED
    BY <1>1, <1>4, <2>1, <2>2, ForwardRound, ZenonT(40)
<1>9. CopyRound(m, o, n)
  <2>1. Loop("strncpy", n < o.count /\ (n = 0 \/ memory[o.dst + n - 1] # 0),
             Store(o.dst + n, memory[o.src + n]), acc, o.dst)
    BY <1>1 DEF strncpy, dst, src, count
  <2> QED
    BY <1>1, <1>5, <1>6, <1>7, <1>8, <2>1 DEF Loop, Store, CopyRound, Stored
<1> QED
  BY <1>1, <1>5, <1>9, LoopCopies

(* So is strcat, once it has passed the first string.                      *)
LEMMA strcatCopies == ASSUME Called, CopyInv, strcat PROVE CopyInv'
<1>1. PICK m \in Memory, o \in Operations, n \in Nat :
        /\ m = initial /\ o = operation /\ n = pos /\ Allowed(m, o)
        /\ o.dst \in Nat /\ o.src \in Nat /\ o.count \in Nat
  BY CallOf
<1>2. o.fct = "strcat"
  BY <1>1 DEF strcat, Loop
<1>3. PICK z \in Nat \ {0} : z = StringSize(m, o)
  BY <1>1, <1>2, StringCell
<1>4. PICK e \in Nat, t \in Nat : /\ t = CallTarget(m, o) /\ t = EndOf(m, o.dst) /\ e = t - o.dst
                                  /\ CallSize(m, o) = z /\ ~Backwards(o) /\ o.fct \in Copies
  <2>1. o.fct \in Copies
    BY <1>2 DEF Copies
  <2>2. CallTarget(m, o) \in Nat /\ CallTarget(m, o) - o.dst \in Nat
    BY <1>1, <2>1, CallShape
  <2> QED
    BY <1>2, <1>3, <2>1, <2>2 DEF CallSize, CallTarget, Backwards
<1>5. PICK r \in Nat : r = Rounds(m, o) /\ r = e + z
  <2>1. t + z - o.dst = e + z
    BY <1>1, <1>4
  <2> QED
    BY <1>1, <1>2, <1>4, <2>1 DEF Rounds
<1>6. memory = Partial(m, o, n) /\ n <= r
  BY <1>1, <1>5 DEF CopyInv
<1>7. n < r <=> n <= e \/ memory[o.dst + n - 1] # 0
  <2>1. CASE n <= e
    BY <1>5, <2>1
  <2>2. CASE n > e
    <3>1. n - 1 - e \in 0 .. CallSize(m, o) - 1 /\ CallTarget(m, o) + (n - 1 - e) < o.dst + n
      BY <1>1, <1>4, <1>5, <1>6, <2>2
    <3>2. Partial(m, o, n)[CallTarget(m, o) + (n - 1 - e)] = 0 <=> n - 1 - e = StringSize(m, o) - 1
      BY <1>1, <1>2, <3>1, StringCell
    <3>3. CallTarget(m, o) + (n - 1 - e) = o.dst + n - 1 /\ (n - 1 - e = z - 1 <=> n = r)
      BY <1>1, <1>4, <1>5
    <3> QED
      BY <1>3, <1>6, <2>2, <3>2, <3>3
  <2> QED
    BY <2>1, <2>2
<1>8. ASSUME n < r, ~(n < e)
      PROVE  Stored(Partial(m, o, n), o.dst + n, Partial(m, o, n)[o.src + (n - e)]) = Partial(m, o, n + 1)
  <2>1. n - e \in 0 .. CallSize(m, o) - 1 /\ o.dst + n = CallTarget(m, o) + (n - e)
    BY <1>1, <1>4, <1>5, <1>8
  <2>2. o.fct # "memmove" /\ o.fct # "memset"
    BY <1>2
  <2> QED
    BY <1>1, <1>4, <2>1, <2>2, ForwardRound, ZenonT(40)
<1>9. n < e => Partial(m, o, n + 1) = Partial(m, o, n)
  <2> SUFFICES ASSUME n < e PROVE Partial(m, o, n + 1) = Partial(m, o, n)
    OBVIOUS
  <2>1. Written(m, o, n) = {} /\ Written(m, o, n + 1) = {}
    BY <1>1, <1>4 DEF Written
  <2> QED
    BY <2>1 DEF Partial
<1>10. CopyRound(m, o, n)
  <2>1. Loop("strcat", n <= e \/ memory[o.dst + n - 1] # 0,
             IF n < e THEN memory ELSE Store(o.dst + n, memory[o.src + n - e]), acc, o.dst)
    BY <1>1, <1>4 DEF strcat, dst, src
  <2>2. o.src + n - e = o.src + (n - e)
    BY <1>1
  <2> QED
    BY <1>1, <1>5, <1>6, <1>7, <1>8, <1>9, <2>1, <2>2 DEF Loop, Store, CopyRound, Stored
<1> QED
  BY <1>1, <1>5, <1>10, LoopCopies
-----------------------------------------------------------------------------
(* All the states: of a call of printf's, with the memory at rest, and of  *)
(* a call into util.c.                                                     *)
Busy ==
  /\ Called /\ memory \in Memory
  /\ operation.fct \in Copies => CopyInv
  /\ operation.fct \notin Copies \cup {"split"} => memory = initial

UtilInv == utilIdle \/ Busy

Others == {"memcmp", "stringToInt", "strlen", "strcmp", "strncmp", "strchr", "split"}

(* Before the first round nothing has been copied.                         *)
LEMMA NothingYet ==
  ASSUME NEW m \in Memory, NEW o \in Operations, Allowed(m, o), o.fct \in Copies
  PROVE  Partial(m, o, 0) = m /\ Rounds(m, o) \in Nat
<1>0. o.dst \in Nat /\ o.src \in Nat /\ o.count \in Nat
  BY OperationFields
<1>1. CallTarget(m, o) \in Nat /\ CallTarget(m, o) >= o.dst /\ CallSize(m, o) \in Nat
  BY CallShape
<1>2. Written(m, o, 0) = {}
  BY <1>0, <1>1 DEF Written
<1>3. Partial(m, o, 0) = [p \in AddressSpace |-> m[p]]
  BY <1>2 DEF Partial
<1> QED
  BY <1>0, <1>1, <1>3 DEF Rounds, Memory

(* The library starts in the invariant.                                    *)
LEMMA UtilInitInv == LibraryInit => UtilInv
<1> SUFFICES ASSUME utilInit PROVE UtilInv
  BY DEF LibraryInit, UtilInv
<1>1. initial \in Memory /\ memory = initial /\ operation \in Operations /\ Allowed(initial, operation)
      /\ pos = 0 /\ result = << >>
  BY UtilAssumption DEF utilInit, Memory, AddressSpace, Byte
<1>2. operation.fct \in Copies => CopyInv
  BY <1>1, NothingYet DEF CopyInv
<1> QED
  BY <1>1, <1>2 DEF UtilInv, Busy, Called

(* What is copied is bytes.                                                *)
LEMMA PartialType ==
  ASSUME NEW m \in Memory, NEW o \in Operations, Allowed(m, o), o.fct \in Copies, NEW n
  PROVE  Partial(m, o, n) \in Memory
<1>1. ASSUME NEW p \in AddressSpace PROVE CallCell(m, o, p) \in Byte /\ m[p] \in Byte
  <2>1. CASE p \in CallTarget(m, o) .. CallTarget(m, o) + CallSize(m, o) - 1 /\ o.fct = "memset"
    BY <2>1, UtilAssumption DEF CallCell, Memory, Byte
  <2>2. CASE p \in CallTarget(m, o) .. CallTarget(m, o) + CallSize(m, o) - 1 /\ o.fct # "memset"
    <3>1. PICK i \in 0 .. CallSize(m, o) - 1 : p - CallTarget(m, o) = i
      BY <2>2, CallShape
    <3>2. o.src + i \in AddressSpace
      BY <2>2, CallShape
    <3>3. o.src + p - CallTarget(m, o) = o.src + i
      BY <2>2, <3>1, CallShape, OperationFields
    <3> QED
      BY <2>2, <3>2, <3>3 DEF CallCell, Memory
  <2>3. CASE p \notin CallTarget(m, o) .. CallTarget(m, o) + CallSize(m, o) - 1
    BY <2>3 DEF CallCell, Memory
  <2> QED
    BY <2>1, <2>2, <2>3
<1> QED
  BY <1>1 DEF Partial, Memory

(* Every step keeps it.                                                    *)
LEMMA UtilNextInv == ASSUME UtilInv, [LibraryNext]_<<vars, utilVars>> PROVE UtilInv'
<1>1. CASE UNCHANGED utilVars
  BY <1>1 DEF utilVars, UtilInv, utilIdle, Busy, Called, CopyInv
<1>2. CASE utilNext
  <2>1. /\ initial' = initial /\ operation' = operation /\ (pos' = pos + 1 \/ pos' = pos)
        /\ operation.fct \in Copies \cup Others
    BY <1>2 DEF utilNext, memcpy, memset, memmove, memcmp, stringToInt, strlen, strcmp, strncmp,
                strcpy, strncpy, strchr, strcat, split, Loop, Copies, Others
  <2>2. Busy
    BY <2>1 DEF UtilInv, utilIdle, NoOperation, Copies, Others
  <2>3. Called'
    BY <2>1, <2>2 DEF Busy, Called
  <2>4. CASE operation.fct \in Copies
    <3>1. Called /\ CopyInv
      BY <2>2, <2>4 DEF Busy
    <3>2. memcpy \/ memset \/ memmove \/ strcpy \/ strncpy \/ strcat
      BY <1>2, <2>4 DEF utilNext, memcmp, stringToInt, strlen, strcmp, strncmp, strchr, split, Loop, Copies
    <3>3. CopyInv'
      BY <3>1, <3>2, memcpyCopies, memsetCopies, memmoveCopies, strcpyCopies, strncpyCopies, strcatCopies
    <3>4. memory' \in Memory
      BY <2>1, <2>4, <3>1, <3>3, PartialType DEF Called, CopyInv
    <3> QED
      BY <2>1, <2>3, <2>4, <3>3, <3>4 DEF UtilInv, Busy, Copies
  <2>5. CASE operation.fct = "split"
    <3>1. split
      BY <1>2, <2>5 DEF utilNext, memcpy, memset, memmove, memcmp, stringToInt, strlen, strcmp, strncmp,
                        strcpy, strncpy, strchr, strcat, Loop
    <3>2. memory' = memory \/ \E p : memory' = [memory EXCEPT ![p] = 0]
      BY <3>1 DEF split, Loop, Store
    <3>3. memory' \in Memory
      BY <2>2, <3>2 DEF Busy, Memory, Byte
    <3> QED
      BY <2>1, <2>3, <2>5, <3>3 DEF UtilInv, Busy, Copies
  <2>6. CASE operation.fct \in Others \ {"split"}
    <3>1. memory' = memory /\ memory = initial /\ operation.fct \notin Copies
      BY <1>2, <2>2, <2>6 DEF utilNext, memcpy, memset, memmove, memcmp, stringToInt, strlen, strcmp, strncmp,
                        strcpy, strncpy, strchr, strcat, split, Loop, Busy, Others, Copies
    <3> QED
      BY <2>1, <2>2, <2>3, <3>1 DEF UtilInv, Busy
  <2> QED
    BY <2>1, <2>4, <2>5, <2>6
<1> QED
  BY <1>1, <1>2 DEF LibraryNext, vars, utilVars

(* What the module Util asks of a copy is what the loops were shown to     *)
(* leave.                                                                  *)
LEMMA SpecifiedIsCallCell ==
  ASSUME Called, NEW p
  PROVE  CallCell(initial, operation, p) = IF InPadding(p) THEN initial[p] ELSE Specified(p)
<1>1. PICK m \in Memory, o \in Operations, n \in Nat :
        /\ m = initial /\ o = operation /\ n = pos /\ Allowed(m, o)
        /\ o.dst \in Nat /\ o.src \in Nat /\ o.count \in Nat
  BY CallOf
<1>2. o.fct \in {"strcpy", "strncpy", "strcat"} => Len(StringAt(m, o.src)) + 1 = StringSize(m, o)
  <2> SUFFICES ASSUME o.fct \in {"strcpy", "strncpy", "strcat"}
               PROVE  Len(StringAt(m, o.src)) + 1 = StringSize(m, o)
    OBVIOUS
  <2>1. IsString(m, o.src)
    BY <1>1, AllowedCopies
  <2> QED
    BY <1>1, <2>1, CharactersOf DEF StringSize
<1>3. Target = CallTarget(m, o)
  BY <1>1 DEF Target, CallTarget, dst
<1>4. CASE o.fct = "memset"
  <2>1. CopyLength = 0 /\ CallSize(m, o) = o.count /\ CallTarget(m, o) = o.dst
    BY <1>1, <1>4 DEF CopyLength, CallSize, CallTarget
  <2>2. ~(p \in o.dst .. o.dst + 0 - 1)
    BY <1>1
  <2>3. ~InPadding(p)
    BY <1>1, <1>4 DEF InPadding
  <2> QED
    BY <1>1, <1>3, <1>4, <2>1, <2>2, <2>3 DEF Specified, CallCell, dst, src, count
<1>5. CASE o.fct # "memset"
  <2>1. CopyLength = CallSize(m, o)
    BY <1>1, <1>2, <1>5 DEF CopyLength, CallSize, count, src
  <2>2. CASE InPadding(p)
    <3>1. o.fct = "strncpy" /\ p \in o.dst + CallSize(m, o) .. o.dst + o.count - 1
      BY <1>1, <2>1, <2>2 DEF InPadding, dst, count
    <3>2. CallTarget(m, o) = o.dst /\ CallSize(m, o) \in Nat
      BY <1>1, <3>1, CallShape DEF CallTarget, Copies
    <3>3. p \notin CallTarget(m, o) .. CallTarget(m, o) + CallSize(m, o) - 1
      BY <1>1, <3>1, <3>2
    <3> QED
      BY <1>1, <2>2, <3>3 DEF CallCell
  <2>3. CASE ~InPadding(p)
    BY <1>1, <1>3, <1>5, <2>1, <2>3 DEF Specified, CallCell, src
  <2> QED
    BY <2>2, <2>3
<1> QED
  BY <1>4, <1>5

(* After all the rounds, the memory is what the call is to leave.          *)
LEMMA AllCopied ==
  ASSUME NEW m \in Memory, NEW o \in Operations, Allowed(m, o), o.fct \in Copies, NEW p \in AddressSpace
  PROVE  Partial(m, o, Rounds(m, o))[p] = CallCell(m, o, p)
<1>0. o.dst \in Nat /\ o.src \in Nat /\ o.count \in Nat /\ p \in Nat
  BY OperationFields, UtilAssumption DEF AddressSpace
<1>1. PICK s \in Nat, t \in Nat : s = CallSize(m, o) /\ t = CallTarget(m, o) /\ t >= o.dst
  BY CallShape
<1>2. CASE o.fct = "memmove" /\ o.src = o.dst
  <2>1. o.src + p - t = p
    BY <1>0, <1>1, <1>2 DEF CallTarget
  <2>2. CallCell(m, o, p) = m[p]
    BY <1>1, <1>2, <2>1 DEF CallCell
  <2> QED
    BY <2>2 DEF Partial
<1>3. CASE ~(o.fct = "memmove" /\ o.src = o.dst)
  <2>1. Rounds(m, o) = t + s - o.dst
    BY <1>1, <1>3 DEF Rounds
  <2>2. Written(m, o, t + s - o.dst) = t .. t + s - 1
    <3>1. CASE Backwards(o)
      <4>1. t = o.dst /\ s = o.count
        BY <1>1, <3>1 DEF CallTarget, CallSize, Backwards
      <4>2. o.dst + o.count - (t + s - o.dst) = t
        BY <1>0, <4>1
      <4> QED
        BY <3>1, <4>1, <4>2 DEF Written
    <3>2. CASE ~Backwards(o)
      <4>1. o.dst + (t + s - o.dst) - 1 = t + s - 1
        BY <1>0, <1>1
      <4> QED
        BY <1>1, <3>2, <4>1 DEF Written
    <3> QED
      BY <3>1, <3>2
  <2> QED
    BY <1>1, <2>1, <2>2 DEF Partial, CallCell
<1> QED
  BY <1>2, <1>3

(* The invariant says that copies come out whole.                          *)
LEMMA InvIsWhole == UtilInv => CopiesComeOutWhole
<1> SUFFICES ASSUME UtilInv, operation.fct # "split", NEW p \in Addresses
             PROVE  \/ memory[p] = Specified(p) /\ ~InPadding(p)
                    \/ memory[p] = initial[p] /\ (result = << >> \/ InPadding(p))
  BY DEF CopiesComeOutWhole
<1>1. CASE utilIdle
  <2>1. operation.fct = "none" /\ operation.dst = 0 /\ memory = initial
    BY <1>1 DEF utilIdle, NoOperation
  <2>2. CopyLength = 0 /\ Target = 0
    BY <2>1 DEF CopyLength, Target, dst
  <2>3. ~(p \in Target .. Target + CopyLength - 1)
    BY <2>2
  <2>4. ~InPadding(p)
    BY <2>1 DEF InPadding
  <2> QED
    BY <2>1, <2>3, <2>4 DEF Specified
<1>2. CASE Busy
  <2>1. PICK m \in Memory, o \in Operations, n \in Nat :
          /\ m = initial /\ o = operation /\ n = pos /\ Allowed(m, o)
          /\ o.dst \in Nat /\ o.src \in Nat /\ o.count \in Nat
    BY <1>2, CallOf DEF Busy
  <2>2. p \in AddressSpace
    BY <1>2 DEF Busy, Memory, Addresses
  <2>3. CallCell(m, o, p) = IF InPadding(p) THEN initial[p] ELSE Specified(p)
    BY <1>2, <2>1, SpecifiedIsCallCell DEF Busy
  <2>4. CASE o.fct \in Copies
    <3>1. memory = Partial(m, o, n) /\ (result # << >> => n = Rounds(m, o))
      BY <1>2, <2>1, <2>4 DEF Busy, CopyInv
    <3>2. CASE result = << >>
      BY <2>1, <2>2, <2>3, <3>1, <3>2 DEF Partial
    <3>3. CASE result # << >>
      BY <2>1, <2>2, <2>3, <2>4, <3>1, <3>3, AllCopied
    <3> QED
      BY <3>2, <3>3
  <2>5. CASE o.fct \notin Copies
    <3>1. memory = initial /\ CallSize(m, o) = 0 /\ CallTarget(m, o) = o.dst
      BY <1>2, <2>1, <2>5 DEF Busy, CallSize, CallTarget, Copies
    <3>2. ~(p \in o.dst .. o.dst + 0 - 1)
      BY <2>1
    <3> QED
      BY <2>1, <2>3, <3>1, <3>2 DEF CallCell
  <2> QED
    BY <2>4, <2>5
<1> QED
  BY <1>1, <1>2 DEF UtilInv

(* A copy leaves every cell that it writes as the standard says, and every *)
(* other one alone, at any time: memmove for any overlap, strcat behind    *)
(* the old end.  Those others include the cells that the standard has      *)
(* strncpy fill with NULs, which it leaves as they were (util.c:6-26,      *)
(* 82-104).                                                                *)
THEOREM CopiesAreWhole == LibrarySpec => []CopiesComeOutWhole
BY UtilInitInv, UtilNextInv, InvIsWhole, PTL DEF LibrarySpec
-----------------------------------------------------------------------------
(* What the loops that only look at the memory have seen so far.           *)
LengthInv ==
  operation.fct = "strlen" =>
    /\ \A j \in 0 .. pos - 1 : initial[dst + j] # 0
    /\ result # << >> => initial[dst + pos] = 0 /\ result = << pos >>

SearchInv ==
  operation.fct = "strchr" =>
    /\ \A j \in 0 .. pos - 1 : initial[dst + j] \notin {0, count}
    /\ result # << >> =>
         /\ initial[dst + pos] \in {0, count}
         /\ result = << IF initial[dst + pos] = 0 THEN NULL ELSE dst + pos >>

CompareInv ==
  operation.fct \in {"strcmp", "strncmp"} =>
    /\ operation.fct = "strncmp" => pos <= count
    /\ \A j \in 0 .. pos - 1 : initial[dst + j] # 0 /\ initial[dst + j] = initial[src + j]
    /\ result # << >> =>
         \/ operation.fct = "strncmp" /\ pos = count /\ result = << 0 >>
         \/ /\ operation.fct = "strncmp" => pos < count
            /\ initial[dst + pos] # initial[src + pos] \/ initial[dst + pos] = 0
            /\ result = << initial[dst + pos] - initial[src + pos] >>

AreaInv ==
  operation.fct = "memcmp" =>
    /\ pos <= count
    /\ \A j \in 0 .. pos - 1 : initial[dst + j] = initial[src + j]
    /\ result # << >> =>
         \/ pos = count /\ result = << 0 >>
         \/ /\ pos < count /\ initial[dst + pos] # initial[src + pos]
            /\ result = << IF initial[dst + pos] < initial[src + pos] THEN -1 ELSE 1 >>

Seen == LengthInv /\ SearchInv /\ CompareInv /\ AreaInv

(* Nothing has been seen at first.                                         *)
LEMMA SeenAtFirst == LibraryInit => Seen
<1>1. utilInit => Seen
  BY UtilAssumption DEF utilInit, Seen, LengthInv, SearchInv, CompareInv, AreaInv, count
<1>2. utilIdle => Seen
  BY DEF utilIdle, NoOperation, Seen, LengthInv, SearchInv, CompareInv, AreaInv
<1> QED
  BY <1>1, <1>2 DEF LibraryInit

(* A step of printf sees nothing.                                          *)
LEMMA SeenRest == ASSUME Seen, UNCHANGED utilVars PROVE Seen'
BY DEF utilVars, Seen, LengthInv, SearchInv, CompareInv, AreaInv, dst, src, count

(* An iteration sees one cell more.                                        *)
LEMMA SeenNext == ASSUME UtilInv, Seen, utilNext PROVE Seen'
<1>0. Busy
  <2>1. operation.fct \in Copies \cup Others
    BY DEF utilNext, memcpy, memset, memmove, memcmp, stringToInt, strlen, strcmp, strncmp,
           strcpy, strncpy, strchr, strcat, split, Loop, Copies, Others
  <2> QED
    BY <2>1 DEF UtilInv, utilIdle, NoOperation, Copies, Others
<1>1. PICK m \in Memory, o \in Operations, n \in Nat :
        /\ m = initial /\ o = operation /\ n = pos /\ Allowed(m, o)
        /\ o.dst \in Nat /\ o.src \in Nat /\ o.count \in Nat
  BY <1>0, CallOf DEF Busy
<1>2. CASE strlen
  <2>1. /\ o.fct = "strlen" /\ result = << >> /\ memory = m /\ initial' = m /\ operation' = o
        /\ \/ m[o.dst + n] # 0 /\ pos' = n + 1 /\ result' = << >>
           \/ m[o.dst + n] = 0 /\ pos' = n /\ result' = << n >>
    BY <1>0, <1>1, <1>2 DEF Busy, Copies, strlen, Loop, dst
  <2>2. \A j \in 0 .. n - 1 : m[o.dst + j] # 0
    BY <1>1, <2>1 DEF Seen, LengthInv, dst
  <2>3. \A j \in 0 .. n + 1 - 1 : j \in 0 .. n - 1 \/ j = n
    BY <1>1
  <2>4. LengthInv'
    BY <2>1, <2>2, <2>3 DEF LengthInv, dst
  <2> QED
    BY <2>1, <2>4 DEF Seen, SearchInv, CompareInv, AreaInv
<1>3. CASE strchr
  <2>1. /\ o.fct = "strchr" /\ result = << >> /\ memory = m /\ initial' = m /\ operation' = o
        /\ \/ m[o.dst + n] \notin {0, o.count} /\ pos' = n + 1 /\ result' = << >>
           \/ /\ m[o.dst + n] \in {0, o.count} /\ pos' = n
              /\ result' = << IF m[o.dst + n] = 0 THEN NULL ELSE o.dst + n >>
    BY <1>0, <1>1, <1>3 DEF Busy, Copies, strchr, Loop, dst, count
  <2>2. \A j \in 0 .. n - 1 : m[o.dst + j] \notin {0, o.count}
    BY <1>1, <2>1 DEF Seen, SearchInv, dst, count
  <2>3. \A j \in 0 .. n + 1 - 1 : j \in 0 .. n - 1 \/ j = n
    BY <1>1
  <2>4. SearchInv'
    BY <2>1, <2>2, <2>3 DEF SearchInv, dst, count
  <2> QED
    BY <2>1, <2>4 DEF Seen, LengthInv, CompareInv, AreaInv
<1>4. CASE strcmp \/ strncmp
  <2>1. /\ o.fct \in {"strcmp", "strncmp"} /\ result = << >> /\ memory = m /\ initial' = m /\ operation' = o
        /\ \/ /\ o.fct = "strncmp" => n < o.count
              /\ m[o.dst + n] # 0 /\ m[o.dst + n] = m[o.src + n] /\ pos' = n + 1 /\ result' = << >>
           \/ /\ o.fct = "strncmp" => n < o.count
              /\ m[o.dst + n] # m[o.src + n] \/ m[o.dst + n] = 0
              /\ pos' = n /\ result' = << m[o.dst + n] - m[o.src + n] >>
           \/ o.fct = "strncmp" /\ ~(n < o.count) /\ pos' = n /\ result' = << 0 >>
    BY <1>0, <1>1, <1>4 DEF Busy, Copies, strcmp, strncmp, Loop, dst, src, count
  <2>2. /\ \A j \in 0 .. n - 1 : m[o.dst + j] # 0 /\ m[o.dst + j] = m[o.src + j]
        /\ o.fct = "strncmp" => n <= o.count
    BY <1>1, <2>1 DEF Seen, CompareInv, dst, src, count
  <2>3. \A j \in 0 .. n + 1 - 1 : j \in 0 .. n - 1 \/ j = n
    BY <1>1
  <2>4. CompareInv'
    <3>1. CASE m[o.dst + n] # 0 /\ m[o.dst + n] = m[o.src + n] /\ pos' = n + 1 /\ result' = << >>
      <4>1. o.fct = "strncmp" => n + 1 <= o.count
        BY <1>1, <2>1, <2>2, <3>1
      <4>2. \A j \in 0 .. n + 1 - 1 : m[o.dst + j] # 0 /\ m[o.dst + j] = m[o.src + j]
        BY <2>2, <2>3, <3>1
      <4> QED
        BY <2>1, <3>1, <4>1, <4>2 DEF CompareInv, dst, src, count
    <3>2. CASE /\ o.fct = "strncmp" => n < o.count
               /\ m[o.dst + n] # m[o.src + n] \/ m[o.dst + n] = 0
               /\ pos' = n /\ result' = << m[o.dst + n] - m[o.src + n] >>
      BY <2>1, <2>2, <3>2 DEF CompareInv, dst, src, count
    <3>3. CASE o.fct = "strncmp" /\ ~(n < o.count) /\ pos' = n /\ result' = << 0 >>
      <4>1. n = o.count
        BY <1>1, <2>2, <3>3
      <4> QED
        BY <2>1, <2>2, <3>3, <4>1 DEF CompareInv, dst, src, count
    <3> QED
      BY <2>1, <3>1, <3>2, <3>3
  <2> QED
    BY <2>1, <2>4 DEF Seen, LengthInv, SearchInv, AreaInv
<1>5. CASE memcmp
  <2>1. /\ o.fct = "memcmp" /\ result = << >> /\ memory = m /\ initial' = m /\ operation' = o
        /\ \/ n < o.count /\ m[o.dst + n] = m[o.src + n] /\ pos' = n + 1 /\ result' = << >>
           \/ /\ ~(n < o.count /\ m[o.dst + n] = m[o.src + n]) /\ pos' = n
              /\ result' = << IF n = o.count THEN 0 ELSE IF m[o.dst + n] < m[o.src + n] THEN -1 ELSE 1 >>
    BY <1>0, <1>1, <1>5 DEF Busy, Copies, memcmp, Loop, dst, src, count
  <2>2. n <= o.count /\ \A j \in 0 .. n - 1 : m[o.dst + j] = m[o.src + j]
    BY <1>1, <2>1 DEF Seen, AreaInv, dst, src, count
  <2>3. \A j \in 0 .. n + 1 - 1 : j \in 0 .. n - 1 \/ j = n
    BY <1>1
  <2>4. AreaInv'
    <3>1. CASE n < o.count /\ m[o.dst + n] = m[o.src + n] /\ pos' = n + 1 /\ result' = << >>
      <4>1. n + 1 <= o.count
        BY <1>1, <3>1
      <4>2. \A j \in 0 .. n + 1 - 1 : m[o.dst + j] = m[o.src + j]
        BY <2>2, <2>3, <3>1
      <4> QED
        BY <2>1, <3>1, <4>1, <4>2 DEF AreaInv, dst, src, count
    <3>2. CASE /\ ~(n < o.count /\ m[o.dst + n] = m[o.src + n]) /\ pos' = n
               /\ result' = << IF n = o.count THEN 0 ELSE IF m[o.dst + n] < m[o.src + n] THEN -1 ELSE 1 >>
      <4>1. n = o.count \/ (n < o.count /\ n # o.count)
        BY <1>1, <2>2
      <4> QED
        BY <2>1, <2>2, <3>2, <4>1 DEF AreaInv, dst, src, count
    <3> QED
      BY <2>1, <3>1, <3>2
  <2> QED
    BY <2>1, <2>4 DEF Seen, LengthInv, SearchInv, CompareInv
<1>6. CASE memcpy \/ memset \/ memmove \/ stringToInt \/ strcpy \/ strncpy \/ strcat \/ split
  BY <1>6 DEF memcpy, memset, memmove, stringToInt, strcpy, strncpy, strcat, split, Loop,
              Seen, LengthInv, SearchInv, CompareInv, AreaInv
<1> QED
  BY <1>2, <1>3, <1>4, <1>5, <1>6 DEF utilNext
-----------------------------------------------------------------------------
(* The function that Decimal is defined by, on the first m characters: it  *)
(* exists, by induction on m.                                              *)
Values(f, s, m) == f = [k \in 0 .. m |-> IF k = 0 THEN 0 ELSE f[k - 1] * 10 + s[k] - 48]

(* It exists, by induction on m.                                           *)
LEMMA ValuesExist == ASSUME NEW s PROVE \A m \in Nat : \E f : Values(f, s, m)
<1> DEFINE T == {m \in Nat : \E f : Values(f, s, m)}
<1>1. 0 \in T
  <2> DEFINE f == [k \in 0 .. 0 |-> 0]
  <2>1. f = [k \in 0 .. 0 |-> IF k = 0 THEN 0 ELSE f[k - 1] * 10 + s[k] - 48]
    OBVIOUS
  <2> HIDE DEF f
  <2>2. Values(f, s, 0)
    BY <2>1 DEF Values
  <2> QED
    BY <2>2
<1>2. ASSUME NEW m \in T PROVE m + 1 \in T
  <2>1. PICK f : Values(f, s, m)
    OBVIOUS
  <2> DEFINE g == [k \in 0 .. m + 1 |-> IF k = m + 1 THEN f[m] * 10 + s[m + 1] - 48 ELSE f[k]]
  <2>2. ASSUME NEW k \in 0 .. m + 1 PROVE g[k] = IF k = 0 THEN 0 ELSE g[k - 1] * 10 + s[k] - 48
    <3>1. CASE k = m + 1
      <4>1. k # 0 /\ k - 1 = m /\ m \in 0 .. m + 1 /\ m # m + 1
        BY <3>1
      <4> QED
        BY <3>1, <4>1
    <3>2. CASE k # m + 1
      <4>1. k \in 0 .. m /\ g[k] = f[k]
        BY <3>2
      <4>2. f[k] = IF k = 0 THEN 0 ELSE f[k - 1] * 10 + s[k] - 48
        BY <2>1, <4>1 DEF Values
      <4>3. k # 0 => k - 1 \in 0 .. m + 1 /\ k - 1 # m + 1
        BY <4>1
      <4> QED
        BY <4>1, <4>2, <4>3
    <3> QED
      BY <3>1, <3>2
  <2>3. g = [k \in 0 .. m + 1 |-> IF k = 0 THEN 0 ELSE g[k - 1] * 10 + s[k] - 48]
    BY <2>2
  <2> HIDE DEF g
  <2>4. Values(g, s, m + 1)
    BY <2>3 DEF Values
  <2> QED
    BY <2>4
<1> HIDE DEF T
<1>3. \A m \in Nat : m \in T
  BY <1>1, <1>2, SetInduction
<1> QED
  BY <1>3 DEF T

ValueOf(s) == CHOOSE f : Values(f, s, Len(s))

(* The value of the first k + 1 digits, and of none; it is a natural       *)
(* number, by induction on k.                                              *)
LEMMA ValueSteps ==
  ASSUME NEW s, Len(s) \in Nat
  PROVE  /\ ValueOf(s)[0] = 0
         /\ \A k \in 0 .. Len(s) - 1 : ValueOf(s)[k + 1] = ValueOf(s)[k] * 10 + s[k + 1] - 48
<1>1. PICK f, m : f = ValueOf(s) /\ m = Len(s) /\ m \in Nat /\ Values(f, s, m)
  <2>1. \E f : Values(f, s, Len(s))
    BY ValuesExist
  <2>2. Values(ValueOf(s), s, Len(s))
    BY <2>1, Zenon DEF ValueOf
  <2> QED
    BY <2>2
<1>2. f[0] = 0
  BY <1>1 DEF Values
<1>3. ASSUME NEW k \in 0 .. m - 1 PROVE f[k + 1] = f[k] * 10 + s[k + 1] - 48
  <2>1. k + 1 \in 0 .. m /\ k + 1 # 0 /\ (k + 1) - 1 = k
    BY <1>1
  <2> QED
    BY <1>1, <2>1 DEF Values
<1> QED
  BY <1>1, <1>2, <1>3

(* The value of digits is a natural number.                                *)
LEMMA ValueIsNat ==
  ASSUME NEW s \in Seq(Byte), NEW n \in 0 .. Len(s), \A j \in 1 .. n : s[j] \in 48 .. 57
  PROVE  \A k \in 0 .. n : ValueOf(s)[k] \in Nat
<1> DEFINE T == {k \in Nat : k <= n => ValueOf(s)[k] \in Nat}
<1>1. 0 \in T
  BY ValueSteps
<1>2. ASSUME NEW k \in T PROVE k + 1 \in T
  <2> SUFFICES ASSUME k + 1 <= n PROVE ValueOf(s)[k + 1] \in Nat
    OBVIOUS
  <2>1. k \in 0 .. Len(s) - 1 /\ k + 1 \in 1 .. n
    OBVIOUS
  <2>2. PICK v \in Nat, d \in 48 .. 57 : v = ValueOf(s)[k] /\ d = s[k + 1]
    BY <2>1
  <2>3. ValueOf(s)[k + 1] = v * 10 + d - 48
    BY <2>1, <2>2, ValueSteps
  <2>4. v * 10 + d - 48 \in Nat
    OBVIOUS
  <2> QED
    BY <2>3, <2>4
<1> HIDE DEF T
<1>3. \A k \in Nat : k \in T
  BY <1>1, <1>2, SetInduction
<1> QED
  BY <1>3 DEF T

(* An int keeps its value, and everything else becomes one.                *)
LEMMA WrappedIsInt ==
  ASSUME NEW v \in Int
  PROVE  /\ Wrapped(v) \in INT_MIN .. INT_MAX
         /\ v \in INT_MIN .. INT_MAX => Wrapped(v) = v
<1>1. PICK max \in Nat, min \in Int : max = INT_MAX /\ min = INT_MIN /\ min = -max - 1
  BY UtilAssumption DEF INT_MIN
<1>2. PICK m \in Nat \ {0} : m = max - min + 1
  BY <1>1
<1>3. PICK x \in Int : x = v - min
  BY <1>1
<1>4. x % m \in 0 .. m - 1 /\ (x \in 0 .. m - 1 => x % m = x)
  BY <1>2
<1>5. Wrapped(v) = (x % m) + min
  BY <1>1, <1>2, <1>3 DEF Wrapped
<1> QED
  BY <1>1, <1>2, <1>3, <1>4, <1>5

(* One digit more makes a number no smaller.                               *)
LEMMA DigitAdds == \A a \in Nat, d \in 48 .. 57 : a <= a * 10 + d - 48
OBVIOUS

(* The number parsed so far is the value of the digits seen so far, unless *)
(* that is too large for an int.                                           *)
NumberInv ==
  operation.fct = "stringToInt" =>
    /\ \A j \in 0 .. pos - 1 : initial[dst + j] \in 48 .. 57
    /\ Parsed \in INT_MIN .. INT_MAX
    /\ ValueOf(StringAt(initial, dst))[pos] <= INT_MAX => Parsed = ValueOf(StringAt(initial, dst))[pos]
    /\ result # << >> => initial[dst + pos] \notin 48 .. 57 /\ result = << Parsed >>

(* A loop that has met no NUL is still in the string.                      *)
LEMMA NulIsEnd ==
  ASSUME NEW m \in Memory, NEW p \in Nat, IsString(m, p), NEW n \in Nat,
         \A j \in 0 .. n - 1 : m[p + j] # 0
  PROVE  n <= EndOf(m, p) - p /\ (m[p + n] = 0 <=> n = EndOf(m, p) - p)
<1>1. PICK e \in Nat : e = EndOf(m, p) /\ e >= p /\ m[e] = 0 /\ \A k \in p .. e - 1 : m[k] # 0
  BY EndOfString, UtilAssumption DEF AddressSpace
<1>2. n <= e - p
  <2> SUFFICES ASSUME e - p < n PROVE FALSE
    BY <1>1
  <2>1. e - p \in 0 .. n - 1 /\ p + (e - p) = e
    BY <1>1
  <2> QED
    BY <1>1, <2>1
<1>3. n # e - p => p + n \in p .. e - 1
  BY <1>1, <1>2
<1>4. n = e - p => p + n = e
  BY <1>1
<1> QED
  BY <1>1, <1>2, <1>3, <1>4

(* No digit has been read at first.                                        *)
LEMMA NumberAtFirst == LibraryInit => NumberInv
<1>1. utilInit => NumberInv
  <2> SUFFICES ASSUME utilInit, operation.fct = "stringToInt" PROVE NumberInv
    BY DEF NumberInv
  <2>1. PICK m \in Memory, o \in Operations : m = initial /\ o = operation /\ Allowed(m, o)
    BY UtilAssumption DEF utilInit, Memory, AddressSpace, Byte
  <2>2. o.dst \in Nat /\ IsString(m, o.dst)
    BY <2>1, OperationFields, AllowedCopies
  <2>3. Len(StringAt(m, o.dst)) \in Nat
    BY <2>2, CharactersOf
  <2>4. ValueOf(StringAt(m, o.dst))[0] = 0
    BY <2>3, ValueSteps
  <2> QED
    BY <2>1, <2>4, UtilAssumption DEF utilInit, NumberInv, Parsed, dst, INT_MIN
<1>2. utilIdle => NumberInv
  BY DEF utilIdle, NoOperation, NumberInv
<1> QED
  BY <1>1, <1>2 DEF LibraryInit

(* A step of printf reads no digit.                                        *)
LEMMA NumberRest == ASSUME NumberInv, UNCHANGED utilVars PROVE NumberInv'
BY DEF utilVars, NumberInv, Parsed, dst

(* An iteration of stringToInt reads one digit more.                       *)
LEMMA NumberNext == ASSUME UtilInv, NumberInv, utilNext PROVE NumberInv'
<1>1. CASE operation.fct # "stringToInt"
  <2>1. operation' = operation
    BY DEF utilNext, memcpy, memset, memmove, memcmp, stringToInt, strlen, strcmp, strncmp,
           strcpy, strncpy, strchr, strcat, split, Loop
  <2> QED
    BY <1>1, <2>1 DEF NumberInv
<1>2. CASE operation.fct = "stringToInt"
  <2>1. stringToInt
    BY <1>2 DEF utilNext, memcpy, memset, memmove, memcmp, strlen, strcmp, strncmp,
                strcpy, strncpy, strchr, strcat, split, Loop
  <2>2. Busy
    BY <1>2 DEF UtilInv, utilIdle, NoOperation
  <2>3. PICK m \in Memory, o \in Operations, n \in Nat :
          /\ m = initial /\ o = operation /\ n = pos /\ Allowed(m, o)
          /\ o.dst \in Nat /\ o.src \in Nat /\ o.count \in Nat
    BY <2>2, CallOf DEF Busy
  <2>4. PICK s \in Seq(Byte), l \in Nat :
          /\ s = StringAt(m, o.dst) /\ l = Len(s) /\ l = EndOf(m, o.dst) - o.dst /\ IsString(m, o.dst)
          /\ \A i \in 1 .. l : s[i] = m[o.dst + i - 1]
    <3>1. IsString(m, o.dst)
      BY <1>2, <2>3, AllowedCopies
    <3>2. /\ StringAt(m, o.dst) \in Seq(Byte) /\ Len(StringAt(m, o.dst)) = EndOf(m, o.dst) - o.dst
          /\ \A i \in 1 .. EndOf(m, o.dst) - o.dst : StringAt(m, o.dst)[i] = m[o.dst + i - 1]
      BY <2>3, <3>1, CharactersOf
    <3>3. Len(StringAt(m, o.dst)) \in Nat
      BY <3>2
    <3> QED
      BY <3>1, <3>2, <3>3
  <2>5. PICK v \in Int : /\ v = Parsed /\ v \in INT_MIN .. INT_MAX
                         /\ ValueOf(s)[n] <= INT_MAX => v = ValueOf(s)[n]
                         /\ \A j \in 0 .. n - 1 : m[o.dst + j] \in 48 .. 57
    BY <1>2, <2>3, <2>4, UtilAssumption DEF NumberInv, dst, INT_MIN
  <2>6. /\ result = << >> /\ memory = m /\ initial' = m /\ operation' = o
        /\ \/ /\ m[o.dst + n] \in 48 .. 57 /\ pos' = n + 1 /\ result' = << >>
              /\ acc' = << Wrapped(v * 10 + m[o.dst + n] - 48) >>
           \/ m[o.dst + n] \notin 48 .. 57 /\ pos' = n /\ result' = << v >> /\ acc' = acc
    BY <1>2, <2>1, <2>2, <2>3, <2>5 DEF Busy, Copies, stringToInt, Loop, dst
  <2>7. CASE m[o.dst + n] \notin 48 .. 57 /\ pos' = n /\ result' = << v >> /\ acc' = acc
    <3>1. Parsed' = v
      BY <2>5, <2>7 DEF Parsed
    <3> QED
      BY <2>4, <2>5, <2>6, <2>7, <3>1 DEF NumberInv, dst
  <2>8. CASE /\ m[o.dst + n] \in 48 .. 57 /\ pos' = n + 1 /\ result' = << >>
             /\ acc' = << Wrapped(v * 10 + m[o.dst + n] - 48) >>
    <3>1. PICK d \in 48 .. 57 : d = m[o.dst + n]
      BY <2>8
    <3>2. PICK w \in INT_MIN .. INT_MAX : /\ w = Wrapped(v * 10 + d - 48)
                                          /\ v * 10 + d - 48 \in INT_MIN .. INT_MAX => w = v * 10 + d - 48
      BY WrappedIsInt
    <3>3. Parsed' = w
      BY <2>8, <3>1, <3>2 DEF Parsed
    <3>4. \A j \in 0 .. n + 1 - 1 : m[o.dst + j] \in 48 .. 57
      <4>1. \A j \in 0 .. n + 1 - 1 : j \in 0 .. n - 1 \/ j = n
        OBVIOUS
      <4> QED
        BY <2>5, <2>8, <4>1
    <3>5. n < l
      <4>1. \A j \in 0 .. n + 1 - 1 : m[o.dst + j] # 0
        BY <3>4
      <4>2. n + 1 <= EndOf(m, o.dst) - o.dst
        <5>1. PICK k \in Nat : k = n + 1
          OBVIOUS
        <5>2. \A j \in 0 .. k - 1 : m[o.dst + j] # 0
          BY <4>1, <5>1
        <5>3. k <= EndOf(m, o.dst) - o.dst
          BY <2>3, <2>4, <5>2, NulIsEnd
        <5> QED
          BY <5>1, <5>3
      <4> QED
        BY <2>4, <4>2
    <3>6. s[n + 1] = d
      <4>1. n + 1 \in 1 .. l /\ o.dst + (n + 1) - 1 = o.dst + n
        BY <2>3, <3>5
      <4> QED
        BY <2>4, <3>1, <4>1
    <3>7. PICK a \in Nat, b \in Nat : /\ a = ValueOf(s)[n] /\ b = ValueOf(s)[n + 1] /\ b = a * 10 + d - 48
      <4>1. \A j \in 1 .. n + 1 : s[j] \in 48 .. 57
        <5> SUFFICES ASSUME NEW j \in 1 .. n + 1 PROVE s[j] \in 48 .. 57
          OBVIOUS
        <5>1. j \in 1 .. l /\ j - 1 \in 0 .. n + 1 - 1 /\ o.dst + j - 1 = o.dst + (j - 1)
          BY <2>3, <3>5
        <5> QED
          BY <2>4, <3>4, <5>1
      <4>2. n + 1 \in 0 .. Len(s) /\ n \in 0 .. Len(s) - 1
        BY <2>4, <3>5
      <4>3. ValueOf(s)[n] \in Nat /\ ValueOf(s)[n + 1] \in Nat
        BY <4>1, <4>2, ValueIsNat
      <4> QED
        BY <2>4, <3>6, <4>2, <4>3, ValueSteps
    <3>8. b <= INT_MAX => w = b
      <4> SUFFICES ASSUME b <= INT_MAX PROVE w = b
        OBVIOUS
      <4>1. a <= INT_MAX /\ b \in INT_MIN .. INT_MAX
        <5>1. a <= b
          BY <3>7, DigitAdds
        <5> QED
          BY <3>7, <5>1, UtilAssumption DEF INT_MIN
      <4>2. v = a
        BY <2>5, <3>7, <4>1
      <4> QED
        BY <3>2, <3>7, <4>1, <4>2
    <3> QED
      BY <2>4, <2>6, <2>8, <3>2, <3>3, <3>4, <3>7, <3>8 DEF NumberInv, dst
  <2> QED
    BY <2>6, <2>7, <2>8
<1> QED
  BY <1>1, <1>2
-----------------------------------------------------------------------------
(* The sign of a comparison that has found the first difference, or the    *)
(* end of the shorter one, behind n bytes.                                 *)
ByteAt(u, k) == IF k > Len(u) THEN 0 ELSE u[k]

(* SignAgrees, when the place of the first difference is known.            *)
LEMMA SignIs ==
  ASSUME NEW s, NEW t, Len(s) \in Nat, Len(t) \in Nat,
         NEW n \in 0 .. LesserOf(Len(s), Len(t)),
         n = LesserOf(Len(s), Len(t)) \/ s[n + 1] # t[n + 1], \A j \in 1 .. n : s[j] = t[j],
         NEW v, (v < 0) = (ByteAt(s, n + 1) < ByteAt(t, n + 1)),
         (v > 0) = (ByteAt(s, n + 1) > ByteAt(t, n + 1))
  PROVE  SignAgrees(v, s, t)
<1>1. PICK b \in Nat : b = LesserOf(Len(s), Len(t))
  BY DEF LesserOf
<1> DEFINE First(k) == (k > b \/ s[k] # t[k]) /\ \A j \in 1 .. k - 1 : s[j] = t[j]
           k == CHOOSE k \in 1 .. b + 1 : First(k)
<1>2. n + 1 \in 1 .. b + 1 /\ First(n + 1)
  BY <1>1
<1>3. ASSUME NEW i \in 1 .. b + 1, First(i) PROVE i = n + 1
  <2>1. CASE i < n + 1
    <3>1. i \in 1 .. n /\ ~(i > b)
      BY <1>1, <2>1
    <3> QED
      BY <1>3, <3>1
  <2>2. CASE i > n + 1
    <3>1. n + 1 \in 1 .. i - 1 /\ ~(n + 1 > b)
      BY <1>1, <2>2
    <3> QED
      BY <1>2, <1>3, <3>1
  <2> QED
    BY <2>1, <2>2
<1>4. k = n + 1
  <2>1. k \in 1 .. b + 1 /\ First(k)
    <3> HIDE DEF First
    <3> QED
      BY <1>2
  <2> HIDE DEF First, k
  <2> QED
    BY <1>3, <2>1
<1>5. SignAgrees(v, s, t) <=>
        (v < 0) = (ByteAt(s, k) < ByteAt(t, k)) /\ (v > 0) = (ByteAt(s, k) > ByteAt(t, k))
  BY <1>1 DEF SignAgrees, ByteAt
<1> HIDE DEF k
<1> QED
  BY <1>4, <1>5

(* The difference of two naturals has the sign of their order.             *)
LEMMA DifferenceSign ==
  ASSUME NEW a \in Nat, NEW b \in Nat
  PROVE  (a - b < 0) = (a < b) /\ (a - b > 0) = (a > b)
OBVIOUS

(* The two strings that strcmp has compared, or as much of them as strncmp *)
(* is to compare.                                                          *)
LEMMA ComparedRight ==
  ASSUME Busy, Seen, operation.fct \in {"strcmp", "strncmp"}, result # << >>
  PROVE  SignAgrees(result[1], Limited(StringAt(initial, dst)), Limited(StringAt(initial, src)))
<1>1. PICK m \in Memory, o \in Operations, n \in Nat :
        /\ m = initial /\ o = operation /\ n = pos /\ Allowed(m, o)
        /\ o.dst \in Nat /\ o.src \in Nat /\ o.count \in Nat
  BY CallOf DEF Busy
<1>0. PICK d \in Nat, e \in Nat : d = dst /\ e = src /\ d = o.dst /\ e = o.src /\ o.count = count
  BY <1>1 DEF dst, src, count
<1>2. IsString(m, d) /\ IsString(m, e)
  BY <1>0, <1>1, AllowedCopies
<1>3. PICK s \in Seq(Byte), l \in Nat :
        /\ s = StringAt(m, d) /\ l = Len(s) /\ l = EndOf(m, d) - d
        /\ \A i \in 1 .. l : s[i] = m[d + i - 1]
  <2>1. /\ StringAt(m, d) \in Seq(Byte) /\ Len(StringAt(m, d)) = EndOf(m, d) - d
        /\ \A i \in 1 .. EndOf(m, d) - d : StringAt(m, d)[i] = m[d + i - 1]
    BY <1>2, CharactersOf
  <2>2. Len(StringAt(m, d)) \in Nat
    BY <2>1
  <2> QED
    BY <2>1, <2>2
<1>4. PICK t \in Seq(Byte), k \in Nat :
        /\ t = StringAt(m, e) /\ k = Len(t) /\ k = EndOf(m, e) - e
        /\ \A i \in 1 .. k : t[i] = m[e + i - 1]
  <2>1. /\ StringAt(m, e) \in Seq(Byte) /\ Len(StringAt(m, e)) = EndOf(m, e) - e
        /\ \A i \in 1 .. EndOf(m, e) - e : StringAt(m, e)[i] = m[e + i - 1]
    BY <1>2, CharactersOf
  <2>2. Len(StringAt(m, e)) \in Nat
    BY <2>1
  <2> QED
    BY <2>1, <2>2
<1>5. /\ \A j \in 0 .. n - 1 : m[d + j] # 0 /\ m[d + j] = m[e + j]
      /\ o.fct = "strncmp" => n <= o.count
      /\ \/ o.fct = "strncmp" /\ n = o.count /\ result = << 0 >>
         \/ /\ o.fct = "strncmp" => n < o.count
            /\ m[d + n] # m[e + n] \/ m[d + n] = 0
            /\ result = << m[d + n] - m[e + n] >>
  BY <1>0, <1>1 DEF Seen, CompareInv
<1>6. /\ n <= l /\ (m[d + n] = 0 <=> n = l)
      /\ n <= k /\ (m[e + n] = 0 <=> n = k)
  <2>1. \A j \in 0 .. n - 1 : m[e + j] # 0
    BY <1>5
  <2>2. n <= EndOf(m, d) - d /\ (m[d + n] = 0 <=> n = EndOf(m, d) - d)
    BY <1>2, <1>5, NulIsEnd
  <2>3. n <= EndOf(m, e) - e /\ (m[e + n] = 0 <=> n = EndOf(m, e) - e)
    BY <1>2, <2>1, NulIsEnd
  <2> QED
    BY <1>3, <1>4, <2>2, <2>3
<1>7. m[d + n] \in Nat /\ m[e + n] \in Nat
  <2>0. \A q \in AddressSpace : m[q] \in Nat
    <3>1. \A q \in AddressSpace : m[q] \in Byte
      BY DEF Memory
    <3>2. \A b \in Byte : b \in Nat
      BY DEF Byte
    <3> QED
      BY <3>1, <3>2
  <2>1. EndOf(m, d) \in AddressSpace /\ EndOf(m, e) \in AddressSpace /\ MemorySize \in Nat
    BY <1>2, EndOfString, UtilAssumption
  <2>2. d + n \in AddressSpace /\ e + n \in AddressSpace
    BY <1>3, <1>4, <1>6, <2>1 DEF AddressSpace
  <2> QED
    BY <2>0, <2>2
<1>8. PICK ls, lt : ls = Limited(s) /\ lt = Limited(t)
  OBVIOUS
<1>8a. PICK a \in Nat, b \in Nat :
        /\ a = Len(ls) /\ b = Len(lt)
        /\ a = (IF o.fct = "strncmp" THEN LesserOf(o.count, l) ELSE l)
        /\ b = (IF o.fct = "strncmp" THEN LesserOf(o.count, k) ELSE k)
        /\ \A i \in 1 .. a : ls[i] = s[i]
        /\ \A i \in 1 .. b : lt[i] = t[i]
  <2>1. CASE o.fct = "strncmp"
    <3>1. PICK p \in Nat, q \in Nat : p = LesserOf(o.count, l) /\ q = LesserOf(o.count, k) /\ p <= l /\ q <= k
      BY <1>1 DEF LesserOf
    <3>2. ls = SubSeq(s, 1, p) /\ lt = SubSeq(t, 1, q)
      BY <1>0, <1>1, <1>3, <1>4, <1>8, <2>1, <3>1 DEF Limited
    <3>3. /\ Len(SubSeq(s, 1, p)) = p /\ Len(SubSeq(t, 1, q)) = q
          /\ \A i \in 1 .. p : SubSeq(s, 1, p)[i] = s[i]
          /\ \A i \in 1 .. q : SubSeq(t, 1, q)[i] = t[i]
      BY <1>3, <1>4, <3>1
    <3>4. /\ Len(ls) = p /\ Len(lt) = q
          /\ \A i \in 1 .. p : ls[i] = s[i]
          /\ \A i \in 1 .. q : lt[i] = t[i]
      BY <3>2, <3>3
    <3> QED
      BY <2>1, <3>1, <3>4
  <2>2. CASE o.fct # "strncmp"
    BY <1>1, <1>3, <1>4, <1>8, <2>2 DEF Limited
  <2> QED
    BY <2>1, <2>2
<1>9. n <= a /\ n <= b
  BY <1>1, <1>5, <1>6, <1>8a DEF LesserOf
<1>10. \A j \in 1 .. n : ls[j] = lt[j]
  <2> SUFFICES ASSUME NEW j \in 1 .. n PROVE ls[j] = lt[j]
    OBVIOUS
  <2>1. j \in 1 .. a /\ j \in 1 .. b /\ j \in 1 .. l /\ j \in 1 .. k
    BY <1>6, <1>9
  <2>2. j - 1 \in 0 .. n - 1 /\ d + j - 1 = d + (j - 1) /\ e + j - 1 = e + (j - 1)
    BY <1>1
  <2> QED
    BY <1>3, <1>4, <1>5, <1>8a, <2>1, <2>2
<1>11. PICK c \in Nat : c = LesserOf(a, b) /\ n <= c
  BY <1>8a, <1>9 DEF LesserOf
<1>12. CASE o.fct = "strncmp" /\ n = o.count /\ result = << 0 >>
  <2>1. n = a /\ n = b
    BY <1>6, <1>8a, <1>12 DEF LesserOf
  <2>2. n = c /\ ByteAt(ls, n + 1) = 0 /\ ByteAt(lt, n + 1) = 0
    BY <1>8a, <1>11, <2>1 DEF ByteAt, LesserOf
  <2>3. (0 < 0) = (ByteAt(ls, n + 1) < ByteAt(lt, n + 1)) /\ (0 > 0) = (ByteAt(ls, n + 1) > ByteAt(lt, n + 1))
    BY <2>2
  <2>4. n \in 0 .. LesserOf(Len(ls), Len(lt)) /\ n = LesserOf(Len(ls), Len(lt)) /\ Len(ls) \in Nat /\ Len(lt) \in Nat
    BY <1>8a, <1>11, <2>2
  <2>5. SignAgrees(0, ls, lt)
    BY <1>10, <2>3, <2>4, SignIs
  <2> QED
    BY <1>0, <1>1, <1>3, <1>4, <1>8, <1>12, <2>5
<1>13. CASE /\ o.fct = "strncmp" => n < o.count
            /\ m[d + n] # m[e + n] \/ m[d + n] = 0
            /\ result = << m[d + n] - m[e + n] >>
  <2>1. n + 1 > a <=> n = l
    BY <1>1, <1>6, <1>8a, <1>13 DEF LesserOf
  <2>2. n + 1 > b <=> n = k
    BY <1>1, <1>6, <1>8a, <1>13 DEF LesserOf
  <2>3. ByteAt(ls, n + 1) = m[d + n]
    <3>1. CASE n = l
      BY <1>6, <1>8a, <2>1, <3>1 DEF ByteAt
    <3>2. CASE n # l
      <4>1. n + 1 \in 1 .. a /\ n + 1 \in 1 .. l /\ d + (n + 1) - 1 = d + n
        BY <1>6, <2>1, <3>2
      <4> QED
        BY <1>3, <1>8a, <2>1, <3>2, <4>1 DEF ByteAt
    <3> QED
      BY <3>1, <3>2
  <2>4. ByteAt(lt, n + 1) = m[e + n]
    <3>1. CASE n = k
      BY <1>6, <1>8a, <2>2, <3>1 DEF ByteAt
    <3>2. CASE n # k
      <4>1. n + 1 \in 1 .. b /\ n + 1 \in 1 .. k /\ e + (n + 1) - 1 = e + n
        BY <1>1, <1>6, <1>8a, <2>2, <3>2
      <4> QED
        BY <1>4, <1>8a, <2>2, <3>2, <4>1 DEF ByteAt
    <3> QED
      BY <3>1, <3>2
  <2>5. PICK v : v = m[d + n] - m[e + n]
    OBVIOUS
  <2>6. (v < 0) = (ByteAt(ls, n + 1) < ByteAt(lt, n + 1)) /\ (v > 0) = (ByteAt(ls, n + 1) > ByteAt(lt, n + 1))
    BY <1>7, <2>3, <2>4, <2>5, DifferenceSign
  <2>7. n = c \/ ls[n + 1] # lt[n + 1]
    <3> SUFFICES ASSUME n # c PROVE ls[n + 1] # lt[n + 1]
      OBVIOUS
    <3>1. ~(n + 1 > a) /\ ~(n + 1 > b)
      BY <1>8a, <1>11 DEF LesserOf
    <3>2. m[d + n] # m[e + n]
      BY <1>6, <1>13, <2>1, <3>1
    <3> QED
      BY <1>8a, <2>3, <2>4, <3>1, <3>2 DEF ByteAt
  <2>8. n \in 0 .. LesserOf(Len(ls), Len(lt)) /\ Len(ls) \in Nat /\ Len(lt) \in Nat
        /\ (n = LesserOf(Len(ls), Len(lt)) \/ ls[n + 1] # lt[n + 1])
    BY <1>8a, <1>11, <2>7
  <2>9. SignAgrees(v, ls, lt)
    BY <1>10, <2>6, <2>8, SignIs
  <2>10. result[1] = v
    BY <1>13, <2>5
  <2> QED
    BY <1>0, <1>1, <1>3, <1>4, <1>8, <2>9, <2>10
<1> QED
  BY <1>5, <1>12, <1>13

(* And the two areas that memcmp has compared.                             *)
LEMMA AreasRight ==
  ASSUME Busy, Seen, operation.fct = "memcmp", result # << >>
  PROVE  SignAgrees(result[1], Area(dst), Area(src))
<1>1. PICK m \in Memory, o \in Operations, n \in Nat :
        /\ m = initial /\ o = operation /\ n = pos /\ Allowed(m, o)
        /\ o.dst \in Nat /\ o.src \in Nat /\ o.count \in Nat
  BY CallOf DEF Busy
<1>2. PICK d \in Nat, e \in Nat, c \in Nat : d = dst /\ e = src /\ c = count /\ d = o.dst /\ e = o.src /\ c = o.count
  BY <1>1 DEF dst, src, count
<1>3. /\ n <= c /\ \A j \in 0 .. n - 1 : m[d + j] = m[e + j]
      /\ \/ n = c /\ result = << 0 >>
         \/ n < c /\ m[d + n] # m[e + n] /\ result = << IF m[d + n] < m[e + n] THEN -1 ELSE 1 >>
  BY <1>1, <1>2 DEF Seen, AreaInv
<1>4. memory = m
  BY <1>1 DEF Busy, Copies
<1>4a. \A k \in 0 .. c - 1 : m[d + k] \in Byte /\ m[e + k] \in Byte
  <2> SUFFICES ASSUME NEW k \in 0 .. c - 1 PROVE m[d + k] \in Byte /\ m[e + k] \in Byte
    OBVIOUS
  <2>1. IsArea(m, d, c) /\ IsArea(m, e, c)
    BY <1>1, <1>2, AllowedCopies
  <2>2. DOMAIN m = AddressSpace
    BY DEF Memory
  <2>3. d + k \in AddressSpace /\ e + k \in AddressSpace
    BY <2>1, AreaCells
  <2> QED
    BY <2>3 DEF Memory
<1>5. PICK s, t : /\ s = Area(d) /\ t = Area(e) /\ Len(s) = c /\ Len(t) = c
                  /\ \A k \in 1 .. c : s[k] = m[d + k - 1] /\ t[k] = m[e + k - 1]
  <2>1. Area(d) = [k \in 1 .. c |-> m[d + k - 1]] /\ Area(e) = [k \in 1 .. c |-> m[e + k - 1]]
    BY <1>2, <1>4 DEF Area
  <2>2. ASSUME NEW k \in 1 .. c PROVE m[d + k - 1] \in Byte /\ m[e + k - 1] \in Byte
    <3>1. k - 1 \in 0 .. c - 1 /\ d + k - 1 = d + (k - 1) /\ e + k - 1 = e + (k - 1)
      OBVIOUS
    <3> QED
      BY <1>4a, <3>1
  <2>3. Area(d) \in Seq(Byte) /\ Area(e) \in Seq(Byte) /\ Len(Area(d)) = c /\ Len(Area(e)) = c
    <3>1. \A f, a : f = [k \in 1 .. c |-> m[a + k - 1]] /\ (\A k \in 1 .. c : m[a + k - 1] \in Byte)
                   => f \in Seq(Byte) /\ Len(f) = c
      OBVIOUS
    <3> QED
      BY <2>1, <2>2, <3>1
  <2>4. \A k \in 1 .. c : Area(d)[k] = m[d + k - 1] /\ Area(e)[k] = m[e + k - 1]
    BY <2>1
  <2> WITNESS Area(d), Area(e)
  <2> QED
    BY <2>3, <2>4
<1>6. \A j \in 1 .. n : s[j] = t[j]
  <2> SUFFICES ASSUME NEW j \in 1 .. n PROVE s[j] = t[j]
    OBVIOUS
  <2>1. j \in 1 .. c /\ j - 1 \in 0 .. n - 1 /\ d + j - 1 = d + (j - 1) /\ e + j - 1 = e + (j - 1)
    BY <1>3
  <2> QED
    BY <1>3, <1>5, <2>1
<1>7. LesserOf(Len(s), Len(t)) = c
  BY <1>5 DEF LesserOf
<1>8. CASE n = c /\ result = << 0 >>
  <2>1. ByteAt(s, n + 1) = 0 /\ ByteAt(t, n + 1) = 0
    BY <1>5, <1>8 DEF ByteAt
  <2>2. (0 < 0) = (ByteAt(s, n + 1) < ByteAt(t, n + 1)) /\ (0 > 0) = (ByteAt(s, n + 1) > ByteAt(t, n + 1))
    BY <2>1
  <2>3. n \in 0 .. LesserOf(Len(s), Len(t)) /\ n = LesserOf(Len(s), Len(t)) /\ Len(s) \in Nat /\ Len(t) \in Nat
    BY <1>5, <1>7, <1>8
  <2>4. SignAgrees(0, s, t)
    BY <1>6, <2>2, <2>3, SignIs
  <2> QED
    BY <1>2, <1>5, <1>8, <2>4
<1>9. CASE n < c /\ m[d + n] # m[e + n] /\ result = << IF m[d + n] < m[e + n] THEN -1 ELSE 1 >>
  <2>1. n + 1 \in 1 .. c /\ d + (n + 1) - 1 = d + n /\ e + (n + 1) - 1 = e + n
    BY <1>9
  <2>2. s[n + 1] = m[d + n] /\ t[n + 1] = m[e + n]
    BY <1>5, <2>1
  <2>3. ByteAt(s, n + 1) = m[d + n] /\ ByteAt(t, n + 1) = m[e + n]
    BY <1>5, <2>1, <2>2 DEF ByteAt
  <2>4. m[d + n] \in Nat /\ m[e + n] \in Nat
    <3>1. n \in 0 .. c - 1
      BY <1>9
    <3>2. \A b \in Byte : b \in Nat
      BY DEF Byte
    <3> QED
      BY <1>4a, <3>1, <3>2
  <2>5. PICK v : v = IF m[d + n] < m[e + n] THEN -1 ELSE 1
    OBVIOUS
  <2>6. (v < 0) = (ByteAt(s, n + 1) < ByteAt(t, n + 1)) /\ (v > 0) = (ByteAt(s, n + 1) > ByteAt(t, n + 1))
    BY <1>9, <2>3, <2>4, <2>5
  <2>7. n \in 0 .. LesserOf(Len(s), Len(t)) /\ Len(s) \in Nat /\ Len(t) \in Nat /\ s[n + 1] # t[n + 1]
    BY <1>5, <1>7, <1>9, <2>2
  <2>8. SignAgrees(v, s, t)
    BY <1>6, <2>6, <2>7, SignIs
  <2>9. result[1] = v
    BY <1>9, <2>5
  <2> QED
    BY <1>2, <1>5, <2>8, <2>9
<1> QED
  BY <1>3, <1>8, <1>9

(* The number of the digits that were seen is that of the whole string.    *)
LEMMA NumberRight ==
  ASSUME Busy, NumberInv, operation.fct = "stringToInt", result # << >>,
         Decimal(StringAt(initial, dst)) <= INT_MAX
  PROVE  result[1] = Decimal(StringAt(initial, dst))
<1>1. PICK m \in Memory, o \in Operations, n \in Nat :
        /\ m = initial /\ o = operation /\ n = pos /\ Allowed(m, o)
        /\ o.dst \in Nat /\ o.src \in Nat /\ o.count \in Nat
  BY CallOf DEF Busy
<1>2. PICK d \in Nat : d = dst /\ d = o.dst /\ IsString(m, d)
  BY <1>1, AllowedCopies DEF dst
<1>3. PICK s \in Seq(Byte), l \in Nat :
        /\ s = StringAt(m, d) /\ l = Len(s) /\ l = EndOf(m, d) - d
        /\ \A i \in 1 .. l : s[i] = m[d + i - 1]
  <2>1. /\ StringAt(m, d) \in Seq(Byte) /\ Len(StringAt(m, d)) = EndOf(m, d) - d
        /\ \A i \in 1 .. EndOf(m, d) - d : StringAt(m, d)[i] = m[d + i - 1]
    BY <1>2, CharactersOf
  <2>2. Len(StringAt(m, d)) \in Nat
    BY <2>1
  <2> QED
    BY <2>1, <2>2
<1>4. PICK v : /\ v = Parsed /\ result = << v >> /\ m[d + n] \notin 48 .. 57
               /\ ValueOf(s)[n] <= INT_MAX => v = ValueOf(s)[n]
               /\ \A j \in 0 .. n - 1 : m[d + j] \in 48 .. 57
  BY <1>1, <1>2, <1>3 DEF NumberInv
<1>5. n <= l
  <2>1. \A j \in 0 .. n - 1 : m[d + j] # 0
    <3>1. 0 \notin 48 .. 57
      OBVIOUS
    <3> QED
      BY <1>4, <3>1
  <2>2. n <= EndOf(m, d) - d
    BY <1>2, <2>1, NulIsEnd
  <2> QED
    BY <1>3, <2>2
<1> DEFINE digits == {k \in 1 .. Len(s) : \A j \in 1 .. k : s[j] \in 48 .. 57}
<1>6. ASSUME NEW k \in 1 .. l PROVE k \in digits <=> k <= n
  <2>1. CASE k <= n
    <3>1. ASSUME NEW j \in 1 .. k PROVE s[j] \in 48 .. 57
      <4>1. j \in 1 .. l /\ j - 1 \in 0 .. n - 1 /\ d + j - 1 = d + (j - 1)
        BY <1>5, <2>1
      <4> QED
        BY <1>3, <1>4, <4>1
    <3> QED
      BY <1>3, <2>1, <3>1
  <2>2. CASE k > n
    <3>1. n + 1 \in 1 .. k /\ n + 1 \in 1 .. l /\ d + (n + 1) - 1 = d + n
      BY <2>2
    <3>2. s[n + 1] \notin 48 .. 57
      BY <1>3, <1>4, <3>1
    <3> QED
      BY <2>2, <3>1, <3>2
  <2> QED
    BY <2>1, <2>2
<1>7. (IF digits = {} THEN 0 ELSE CHOOSE k \in digits : \A j \in digits : j <= k) = n
  <2>1. digits \subseteq 1 .. l
    BY <1>3
  <2>2. CASE n = 0
    <3>1. digits = {}
      <4> HIDE DEF digits
      <4> QED
        BY <1>6, <2>1, <2>2
    <3> QED
      BY <2>2, <3>1
  <2>3. CASE n > 0
    <3>1. n \in digits /\ \A j \in digits : j <= n
      <4> HIDE DEF digits
      <4> QED
        BY <1>5, <1>6, <2>1, <2>3
    <3> HIDE DEF digits
    <3>2. \A k \in digits : (\A j \in digits : j <= k) => k = n
      BY <2>1, <3>1
    <3> QED
      BY <3>1, <3>2
  <2> QED
    BY <2>2, <2>3
<1>8. Decimal(s) = ValueOf(s)[n]
  <2>1. Decimal(s) = ValueOf(s)[IF digits = {} THEN 0 ELSE CHOOSE k \in digits : \A j \in digits : j <= k]
    BY Zenon DEF Decimal, ValueOf, Values
  <2> HIDE DEF digits
  <2> QED
    BY <1>7, <2>1
<1> QED
  BY <1>1, <1>2, <1>3, <1>4, <1>8

(* What strlen returns is the length.                                      *)
LEMMA LengthRight ==
  ASSUME Busy, Seen, operation.fct = "strlen", result # << >>
  PROVE  result[1] = Len(StringAt(initial, dst))
<1>1. PICK m \in Memory, o \in Operations, n \in Nat :
        /\ m = initial /\ o = operation /\ n = pos /\ Allowed(m, o)
        /\ o.dst \in Nat /\ o.src \in Nat /\ o.count \in Nat
  BY CallOf DEF Busy
<1>2. PICK d \in Nat : d = dst /\ d = o.dst /\ IsString(m, d)
  BY <1>1, AllowedCopies DEF dst
<1>3. (\A j \in 0 .. n - 1 : m[d + j] # 0) /\ m[d + n] = 0 /\ result = << n >>
  BY <1>1, <1>2 DEF Seen, LengthInv
<1>4. n = EndOf(m, d) - d
  BY <1>2, <1>3, NulIsEnd
<1>5. Len(StringAt(m, d)) = EndOf(m, d) - d
  BY <1>2, CharactersOf
<1> QED
  BY <1>1, <1>2, <1>3, <1>4, <1>5

(* What strchr returns is the place.                                       *)
LEMMA SearchRight ==
  ASSUME Busy, Seen, operation.fct = "strchr", result # << >>, count # 0
  PROVE  LET v == result[1]
             s == StringAt(initial, dst)
         IN  IF \E k \in 1 .. Len(s) : s[k] = count
               THEN initial[v] = count /\ v >= dst /\ \A k \in 1 .. v - dst : s[k] # count
               ELSE v = NULL
<1>1. PICK m \in Memory, o \in Operations, n \in Nat :
        /\ m = initial /\ o = operation /\ n = pos /\ Allowed(m, o)
        /\ o.dst \in Nat /\ o.src \in Nat /\ o.count \in Nat
  BY CallOf DEF Busy
<1>2. PICK d \in Nat, c \in Nat : d = dst /\ d = o.dst /\ IsString(m, d) /\ c = count
  BY <1>1, AllowedCopies DEF dst, count
<1>3. PICK s \in Seq(Byte), l \in Nat :
        /\ s = StringAt(m, d) /\ l = Len(s) /\ l = EndOf(m, d) - d
        /\ \A i \in 1 .. l : s[i] = m[d + i - 1]
  <2>1. /\ StringAt(m, d) \in Seq(Byte) /\ Len(StringAt(m, d)) = EndOf(m, d) - d
        /\ \A i \in 1 .. EndOf(m, d) - d : StringAt(m, d)[i] = m[d + i - 1]
    BY <1>2, CharactersOf
  <2>2. Len(StringAt(m, d)) \in Nat
    BY <2>1
  <2> QED
    BY <2>1, <2>2
<1>4. /\ \A j \in 0 .. n - 1 : m[d + j] \notin {0, c}
      /\ m[d + n] \in {0, c} /\ result = << IF m[d + n] = 0 THEN NULL ELSE d + n >>
  BY <1>1, <1>2 DEF Seen, SearchInv
<1>5. n <= l /\ (m[d + n] = 0 <=> n = l)
  <2>1. \A j \in 0 .. n - 1 : m[d + j] # 0
    BY <1>4
  <2>2. n <= EndOf(m, d) - d /\ (m[d + n] = 0 <=> n = EndOf(m, d) - d)
    BY <1>2, <2>1, NulIsEnd
  <2> QED
    BY <1>3, <2>2
<1>6. \A k \in 1 .. n : s[k] # c
  <2> SUFFICES ASSUME NEW k \in 1 .. n PROVE s[k] # c
    OBVIOUS
  <2>1. k \in 1 .. l /\ k - 1 \in 0 .. n - 1 /\ d + k - 1 = d + (k - 1)
    BY <1>5
  <2> QED
    BY <1>3, <1>4, <2>1
<1>7. CASE n = l
  <2>1. result[1] = NULL /\ ~(\E k \in 1 .. Len(s) : s[k] = c)
    BY <1>3, <1>4, <1>5, <1>6, <1>7
  <2> QED
    BY <1>1, <1>2, <1>3, <2>1
<1>8. CASE n # l
  <2>1. m[d + n] = c /\ result[1] = d + n
    BY <1>4, <1>5, <1>8
  <2>2. n + 1 \in 1 .. l /\ d + (n + 1) - 1 = d + n
    BY <1>5, <1>8
  <2>3. \E k \in 1 .. Len(s) : s[k] = c
    BY <1>3, <2>1, <2>2
  <2>4. d + n >= d /\ (d + n) - d = n
    OBVIOUS
  <2> QED
    BY <1>1, <1>2, <1>3, <1>6, <2>1, <2>3, <2>4
<1> QED
  BY <1>7, <1>8

(* The invariants say that answers are right.                              *)
LEMMA AnswersFollow == UtilInv /\ Seen /\ NumberInv => AnswersAreRight
<1> SUFFICES ASSUME UtilInv, Seen, NumberInv, result # << >> PROVE AnswersAreRight
  BY DEF AnswersAreRight
<1>1. Busy
  BY DEF UtilInv, utilIdle
<1>2. operation.fct \in {"strcmp", "strncmp"} =>
        SignAgrees(result[1], Limited(StringAt(initial, dst)), Limited(StringAt(initial, src)))
  BY <1>1, ComparedRight
<1>3. operation.fct = "memcmp" => SignAgrees(result[1], Area(dst), Area(src))
  BY <1>1, AreasRight
<1>4. operation.fct = "strlen" => result[1] = Len(StringAt(initial, dst))
  BY <1>1, LengthRight
<1>5. operation.fct = "stringToInt" =>
        (Decimal(StringAt(initial, dst)) <= INT_MAX => result[1] = Decimal(StringAt(initial, dst)))
  BY <1>1, NumberRight
<1>6. operation.fct = "strchr" /\ count # 0 =>
        LET v == result[1]
            s == StringAt(initial, dst)
        IN  IF \E k \in 1 .. Len(s) : s[k] = count
              THEN initial[v] = count /\ v >= dst /\ \A k \in 1 .. v - dst : s[k] # count
              ELSE v = NULL
  BY <1>1, SearchRight
<1> QED
  BY <1>2, <1>3, <1>4, <1>5, <1>6 DEF AnswersAreRight

(* A comparison has the sign of the first difference of two bytes, taken   *)
(* as unsigned; lengths, places and numbers are those of the string, the   *)
(* numbers as far as an int goes (util.c:27-34, 53-81, 92-98).             *)
THEOREM AnswersCorrect == LibrarySpec => []AnswersAreRight
<1>1. LibraryInit => UtilInv /\ Seen /\ NumberInv
  BY UtilInitInv, SeenAtFirst, NumberAtFirst
<1>2. UtilInv /\ Seen /\ NumberInv /\ [LibraryNext]_<<vars, utilVars>> => (UtilInv /\ Seen /\ NumberInv)'
  <2> SUFFICES ASSUME UtilInv, Seen, NumberInv, [LibraryNext]_<<vars, utilVars>>
               PROVE  UtilInv' /\ Seen' /\ NumberInv'
    OBVIOUS
  <2>1. UNCHANGED utilVars \/ utilNext
    BY DEF LibraryNext, vars, utilVars
  <2> QED
    BY <2>1, UtilNextInv, SeenRest, SeenNext, NumberRest, NumberNext
<1> QED
  BY <1>1, <1>2, AnswersFollow, PTL DEF LibrarySpec
-----------------------------------------------------------------------------
(* The loop that takes a line apart.  A string is known by the first NUL   *)
(* behind its start.                                                       *)
LEMMA StringIs ==
  ASSUME NEW m \in Memory, NEW p \in Nat, NEW e \in AddressSpace, p <= e, m[e] = 0,
         \A k \in p .. e - 1 : m[k] # 0
  PROVE  /\ IsString(m, p) /\ EndOf(m, p) = e
         /\ StringAt(m, p) = [i \in 1 .. e - p |-> m[p + i - 1]]
<1>0. MemorySize \in Nat /\ DOMAIN m = AddressSpace /\ e \in Nat
  BY UtilAssumption DEF Memory, AddressSpace
<1>1. IsString(m, p)
  BY <1>0 DEF IsString
<1>2. PICK q \in AddressSpace : q = EndOf(m, p) /\ q >= p /\ m[q] = 0 /\ \A k \in p .. q - 1 : m[k] # 0
  BY <1>1, EndOfString
<1>3. q = e
  BY <1>0, <1>2 DEF AddressSpace
<1>4. /\ StringAt(m, p) \in Seq(Byte) /\ Len(StringAt(m, p)) = e - p
      /\ \A i \in 1 .. e - p : StringAt(m, p)[i] = m[p + i - 1]
  <2>1. EndOf(m, p) = e
    BY <1>2, <1>3
  <2> QED
    BY <1>1, <2>1, CharactersOf
<1>5. StringAt(m, p) = [i \in 1 .. e - p |-> StringAt(m, p)[i]]
  <2>1. PICK s \in Seq(Byte), n \in Nat : s = StringAt(m, p) /\ n = e - p /\ Len(s) = n
    BY <1>0, <1>4
  <2>2. s = [i \in 1 .. n |-> s[i]]
    BY <2>1
  <2> QED
    BY <2>1, <2>2
<1> QED
  BY <1>1, <1>2, <1>3, <1>4, <1>5

(* A string does not change when memory changes behind its end.            *)
LEMMA StringKept ==
  ASSUME NEW m \in Memory, NEW now \in Memory, NEW p \in Nat, NEW q \in AddressSpace,
         p <= q, m[q] = 0, \A k \in AddressSpace : k <= q => now[k] = m[k]
  PROVE  StringAt(now, p) = StringAt(m, p)
<1>0. MemorySize \in Nat /\ DOMAIN m = AddressSpace /\ q \in Nat
  BY UtilAssumption DEF Memory, AddressSpace
<1>1. IsString(m, p)
  BY <1>0 DEF IsString
<1>2. PICK e \in AddressSpace : e = EndOf(m, p) /\ e >= p /\ m[e] = 0 /\ \A k \in p .. e - 1 : k \in AddressSpace /\ m[k] # 0
  BY <1>1, EndOfString
<1>3. e \in Nat /\ e <= q
  <2>1. q \notin p .. e - 1
    BY <1>2
  <2> QED
    BY <1>0, <1>2, <2>1 DEF AddressSpace
<1>4. now[e] = 0 /\ \A k \in p .. e - 1 : now[k] # 0
  BY <1>0, <1>2, <1>3 DEF AddressSpace
<1>5. StringAt(m, p) = [i \in 1 .. e - p |-> m[p + i - 1]] /\ StringAt(now, p) = [i \in 1 .. e - p |-> now[p + i - 1]]
  BY <1>2, <1>3, <1>4, StringIs
<1>6. ASSUME NEW i \in 1 .. e - p PROVE now[p + i - 1] = m[p + i - 1]
  <2>1. p + i - 1 \in AddressSpace /\ p + i - 1 <= q
    BY <1>0, <1>2, <1>3, <1>6 DEF AddressSpace
  <2> QED
    BY <2>1
<1> QED
  BY <1>5, <1>6

(* a is such a function, on the first l characters; a run of characters.   *)
Stepwise(a, line, sep, l) == \A n \in 1 .. l : a[n] = SplitStep(a[n - 1], line, sep, n)
WordRun(S, line, sep, n, r) == \A k \in 1 .. r : line[n + k] \in S /\ line[n + k] # sep
SpaceRun(line, sep, n, r) == \A k \in 1 .. r : line[n + k] = sep

(* In front of such a run, and behind it.                                  *)
BeforeWord(S, a, line, sep, n, r) ==
  /\ \E len \in Nat : Stepwise(a, line, sep, len) /\ n + r <= len
  /\ n \in Nat /\ r \in Nat /\ WordRun(S, line, sep, n, r)
  /\ a[n] \in Seq(Seq(S)) /\ a[n] # << >> /\ a[n][Len(a[n])] = << >>
BehindWord(a, line, n, r) == a[n + r] = [a[n] EXCEPT ![Len(a[n])] = [i \in 1 .. r |-> line[n + i]]]

BeforeSpaces(a, line, sep, n, r) ==
  /\ \E len \in Nat : Stepwise(a, line, sep, len) /\ n + r <= len
  /\ n \in Nat /\ r \in Nat \ {0} /\ SpaceRun(line, sep, n, r)
  /\ n = 0 \/ line[n] # sep
BehindSpaces(a, n, r) == a[n + r] = Append(a[n], << >>)

(* A run of the characters of a word lengthens the last argument.          *)
LEMMA WordExtends ==
  ASSUME NEW S, NEW a, NEW line, NEW sep, NEW n, NEW r, BeforeWord(S, a, line, sep, n, r)
  PROVE  BehindWord(a, line, n, r)
<1> SUFFICES ASSUME NEW len \in Nat, Stepwise(a, line, sep, len),
                    n \in Nat, r \in Nat, n + r <= len, WordRun(S, line, sep, n, r),
                    a[n] \in Seq(Seq(S)), a[n] # << >>, a[n][Len(a[n])] = << >>
             PROVE  a[n + r] = [a[n] EXCEPT ![Len(a[n])] = [i \in 1 .. r |-> line[n + i]]]
  BY DEF BeforeWord, BehindWord
<1>0. /\ \A k \in 1 .. r : a[n + k] = SplitStep(a[n + k - 1], line, sep, n + k)
      /\ \A k \in 1 .. r : line[n + k] \in S /\ line[n + k] # sep
  <2>1. ASSUME NEW k \in 1 .. r PROVE a[n + k] = SplitStep(a[n + k - 1], line, sep, n + k)
    <3>1. n + k \in 1 .. len /\ (n + k) - 1 = n + k - 1
      OBVIOUS
    <3> QED
      BY <3>1 DEF Stepwise
  <2>2. \A k \in 1 .. r : line[n + k] \in S /\ line[n + k] # sep
    BY DEF WordRun
  <2> QED
    BY <2>1, <2>2
<1>1. PICK b \in Seq(Seq(S)), l \in Nat \ {0} : b = a[n] /\ l = Len(b) /\ b[l] = << >>
  <2>1. Len(a[n]) \in Nat \ {0}
    BY EmptySeq, LenProperties
  <2> QED
    BY <2>1
<1> DEFINE Word(k) == [i \in 1 .. k |-> line[n + i]]
           Grown(k) == [b EXCEPT ![l] = Word(k)]
           T == {k \in Nat : k <= r => a[n + k] = Grown(k)}
<1>2. 0 \in T
  <2>1. Word(0) = << >> /\ n + 0 = n
    OBVIOUS
  <2>2. [b EXCEPT ![l] = << >>] = b
    <3>1. b = [i \in 1 .. l |-> b[i]]
      BY <1>1
    <3> QED
      BY <1>1, <3>1
  <2> QED
    BY <1>1, <2>1, <2>2
<1>3. ASSUME NEW k \in Nat, k + 1 <= r, a[n + k] = Grown(k) PROVE a[n + (k + 1)] = Grown(k + 1)
  <2>1. k + 1 \in 1 .. r /\ n + (k + 1) - 1 = n + k
    <3>1. k + 1 <= r
      BY <1>3
    <3> QED
      BY <3>1
  <2>2. a[n + (k + 1)] = SplitStep(Grown(k), line, sep, n + (k + 1)) /\ line[n + (k + 1)] \in S /\ line[n + (k + 1)] # sep
    BY <1>0, <1>3, <2>1
  <2>3. Len(Grown(k)) = l /\ Grown(k)[l] = Word(k) /\ l \in DOMAIN b
    BY <1>1
  <2>4. Append(Word(k), line[n + (k + 1)]) = Word(k + 1)
    <3>1. PICK w : w = Word(k)
      OBVIOUS
    <3>2. w \in Seq(S) /\ Len(w) = k /\ \A i \in 1 .. k : w[i] = line[n + i]
      <4>1. \A i \in 1 .. k : line[n + i] \in S
        <5>1. \A i \in 1 .. k : i \in 1 .. r
          BY <2>1
        <5> QED
          BY <1>0, <5>1
      <4> QED
        BY <3>1, <4>1
    <3> QED
      BY <3>1, <3>2
  <2>5. SplitStep(Grown(k), line, sep, n + (k + 1)) = [Grown(k) EXCEPT ![l] = Append(Word(k), line[n + (k + 1)])]
    <3> HIDE DEF Grown, Word
    <3> QED
      BY <2>2, <2>3 DEF SplitStep
  <2>6. [Grown(k) EXCEPT ![l] = Word(k + 1)] = Grown(k + 1)
    BY <1>1
  <2> HIDE DEF Grown, Word
  <2> QED
    BY <2>2, <2>4, <2>5, <2>6
<1>4. \A k \in Nat : k \in T
  <2> HIDE DEF Grown
  <2>1. \A k \in Nat : k \in T => k + 1 \in T
    BY <1>3
  <2> HIDE DEF T
  <2> QED
    BY <1>2, <2>1, SetInduction
<1>5. a[n + r] = Grown(r)
  <2> HIDE DEF Grown
  <2> QED
    BY <1>4
<1> QED
  BY <1>1, <1>5

(* The first separator behind a word starts an argument, the others are    *)
(* skipped.                                                                *)
LEMMA SpacesSkipped ==
  ASSUME NEW a, NEW line, NEW sep, NEW n, NEW r, BeforeSpaces(a, line, sep, n, r)
  PROVE  BehindSpaces(a, n, r)
<1> SUFFICES ASSUME NEW len \in Nat, Stepwise(a, line, sep, len),
                    n \in Nat, r \in Nat \ {0}, n + r <= len, SpaceRun(line, sep, n, r),
                    n = 0 \/ line[n] # sep
             PROVE  a[n + r] = Append(a[n], << >>)
  BY DEF BeforeSpaces, BehindSpaces
<1>0. /\ \A k \in 1 .. r : a[n + k] = SplitStep(a[n + k - 1], line, sep, n + k)
      /\ \A k \in 1 .. r : line[n + k] = sep
  BY DEF Stepwise, SpaceRun
<1> DEFINE T == {k \in Nat : k + 1 <= r => a[n + (k + 1)] = Append(a[n], << >>)}
<1>1. 0 \in T
  <2>1. a[n + 1] = SplitStep(a[n + 1 - 1], line, sep, n + 1) /\ line[n + 1] = sep /\ n + 1 - 1 = n
    BY <1>0
  <2>2. a[n + 1] = SplitStep(a[n], line, sep, n + 1)
    BY <2>1
  <2>3. ~(n + 1 > 1 /\ line[n + 1 - 1] = sep)
    BY <2>1
  <2>4. a[n + 1] = Append(a[n], << >>)
    BY <2>1, <2>2, <2>3 DEF SplitStep
  <2> QED
    BY <2>4
<1>2. ASSUME NEW k \in Nat, k \in T PROVE k + 1 \in T
  <2> SUFFICES ASSUME k + 2 <= r PROVE a[n + (k + 2)] = Append(a[n], << >>)
    BY <1>2
  <2>1. k + 2 \in 1 .. r /\ k + 1 \in 1 .. r /\ n + (k + 2) - 1 = n + (k + 1) /\ n + (k + 2) > 1
    OBVIOUS
  <2>2. a[n + (k + 2)] = SplitStep(a[n + (k + 1)], line, sep, n + (k + 2))
    BY <1>0, <2>1
  <2>3. line[n + (k + 2)] = sep /\ line[n + (k + 2) - 1] = sep
    BY <1>0, <2>1
  <2>4. a[n + (k + 2)] = a[n + (k + 1)]
    BY <2>1, <2>2, <2>3 DEF SplitStep
  <2> QED
    BY <1>2, <2>4
<1>3. \A k \in Nat : k \in T
  <2> HIDE DEF T
  <2> QED
    BY <1>1, <1>2, SetInduction
<1>4. PICK k \in Nat : k + 1 = r
  <2>1. r - 1 \in Nat /\ (r - 1) + 1 = r
    OBVIOUS
  <2> QED
    BY <2>1
<1>5. k + 1 <= r => a[n + (k + 1)] = Append(a[n], << >>)
  BY <1>3
<1>6. k + 1 <= r /\ n + (k + 1) = n + r
  BY <1>4
<1> QED
  BY <1>5, <1>6, Zenon

(* The function that Split is defined by, and what argv points to.         *)
SplitArgs(line) == CHOOSE f : Splits(f, line, 32, Len(line))
Arguments(m, argv) == [k \in 1 .. Len(argv) |-> StringAt(m, argv[k])]

(* Split, one character of a string in memory at a time.                   *)
Splitting(m, p, e, line, a) ==
  /\ e \in Nat /\ e = EndOf(m, p) /\ e - p \in Nat
  /\ line = StringAt(m, p) /\ \A n \in 1 .. e - p : line[n] = m[p + n - 1]
  /\ a = SplitArgs(line) /\ Stepwise(a, line, 32, e - p)
  /\ a[0] = << << >> >> /\ a[e - p] = Text!Split(line)

(* Every string can be split so.                                           *)
LEMMA SplitOfString ==
  ASSUME NEW m \in Memory, NEW p \in Nat, IsString(m, p)
  PROVE  \E e, line, a : Splitting(m, p, e, line, a)
<1>1. PICK e \in Nat : e = EndOf(m, p) /\ e - p \in Nat
  BY EndOfString, UtilAssumption DEF AddressSpace
<1>2. PICK line, a : line = StringAt(m, p) /\ a = SplitArgs(line)
  OBVIOUS
<1>3. Len(line) = e - p /\ \A n \in 1 .. e - p : line[n] = m[p + n - 1]
  BY <1>1, <1>2, CharactersOf
<1>4. PICK l \in Nat : l = Len(line) /\ l = e - p
  BY <1>1, <1>3
<1>5. Splits(a, line, 32, l)
  BY <1>2, <1>4, SplitsExists DEF SplitArgs
<1>6. Text!Split(line) = a[l]
  BY <1>2, <1>4 DEF Text!Split, Text!SP, SplitArgs, Splits
<1>7. \A n \in 0 .. l : a[n] = IF n = 0 THEN << << >> >> ELSE SplitStep(a[n - 1], line, 32, n)
  <2>1. a = [n \in 0 .. l |-> IF n = 0 THEN << << >> >> ELSE SplitStep(a[n - 1], line, 32, n)]
    BY <1>5, SplitsByStep
  <2> QED
    BY <2>1
<1>8. Stepwise(a, line, 32, l) /\ a[0] = << << >> >>
  BY <1>7 DEF Stepwise
<1>9. Splitting(m, p, e, line, a)
  BY <1>1, <1>2, <1>3, <1>4, <1>6, <1>8 DEF Splitting
<1> QED
  BY <1>9

(* How far the loop has come when it looks for a space from t on: all the  *)
(* arguments before t are strings that end before t, they are those of the *)
(* text before t, and from t on the line is as it was.                     *)
Ended(m, argv, t) == \A k \in 1 .. Len(argv) : \E q \in AddressSpace : argv[k] <= q /\ q < t /\ m[q] = 0
CutUp(m, now, p, argv, t) ==
  /\ \A k \in AddressSpace : k >= t => now[k] = m[k]
  /\ Ended(now, argv, t)
  /\ t # p => m[t] # 32
  /\ SplitArgs(StringAt(m, p))[t - p] = Append(Arguments(now, argv), << >>)

(* What argv points to are texts.                                          *)
LEMMA ArgumentsType ==
  ASSUME NEW m \in Memory, NEW argv \in Seq(AddressSpace), NEW t, Ended(m, argv, t)
  PROVE  Arguments(m, argv) \in Seq(Seq(Byte)) /\ Len(Arguments(m, argv)) = Len(argv)
<1>1. PICK l \in Nat : l = Len(argv) /\ \A k \in 1 .. l : argv[k] \in AddressSpace
  BY ElementOfSeq, LenProperties
<1>2. ASSUME NEW k \in 1 .. l PROVE StringAt(m, argv[k]) \in Seq(Byte)
  <2>1. PICK p \in Nat : p = argv[k]
    BY <1>1, UtilAssumption DEF AddressSpace
  <2>2. PICK q \in AddressSpace : p <= q /\ m[q] = 0
    BY <1>1, <2>1 DEF Ended
  <2>3. IsString(m, p)
    BY <2>1, <2>2, UtilAssumption DEF IsString, Memory, AddressSpace
  <2> QED
    BY <2>1, <2>3, CharactersOf
<1>3. PICK texts : texts = Seq(Byte)
  OBVIOUS
<1>4. Arguments(m, argv) = [k \in 1 .. l |-> StringAt(m, argv[k])] /\ \A k \in 1 .. l : StringAt(m, argv[k]) \in texts
  BY <1>1, <1>2, <1>3 DEF Arguments
<1>5. Arguments(m, argv) \in Seq(texts) /\ Len(Arguments(m, argv)) = l
  BY <1>4
<1> QED
  BY <1>1, <1>3, <1>5

(* A NUL behind a word makes it the next argument.                         *)
LEMMA WordCut ==
  ASSUME NEW m \in Memory, NEW now \in Memory, NEW p \in Nat, IsString(m, p),
         NEW argv \in Seq(AddressSpace), NEW t \in p .. EndOf(m, p), CutUp(m, now, p, argv, t),
         NEW s \in t .. EndOf(m, p), \A k \in t .. s - 1 : m[k] # 32,
         NEW next, next = Stored(now, s, 0)
  PROVE  /\ next \in Memory /\ t \in AddressSpace /\ s \in AddressSpace
         /\ Ended(next, Append(argv, t), s + 1)
         /\ Arguments(next, Append(argv, t)) = SplitArgs(StringAt(m, p))[s - p]
<1>1. PICK e \in Nat : /\ e = EndOf(m, p) /\ e \in AddressSpace /\ p <= e /\ m[e] = 0
                       /\ \A k \in p .. e - 1 : k \in AddressSpace /\ m[k] # 0
  <2>1. EndOf(m, p) \in AddressSpace /\ \A j \in AddressSpace : j \in Nat
    BY EndOfString, UtilAssumption DEF AddressSpace
  <2>2. PICK e \in AddressSpace : e = EndOf(m, p)
    BY <2>1
  <2>3. e \in Nat /\ p <= e
    BY <2>1, <2>2, EndOfString
  <2> QED
    BY <2>2, <2>3, EndOfString, Zenon
<1>2. /\ t \in Nat /\ s \in Nat /\ p <= t /\ t <= s /\ s <= e
      /\ t \in AddressSpace /\ s \in AddressSpace /\ MemorySize \in Nat
  BY <1>1, UtilAssumption DEF AddressSpace
<1>3. next \in Memory /\ \A k \in AddressSpace : next[k] = IF k = s THEN 0 ELSE now[k]
  BY <1>2 DEF Stored, Memory, Byte
<1>4. PICK l \in Nat : l = Len(argv) /\ \A k \in 1 .. l : argv[k] \in AddressSpace
  BY ElementOfSeq, LenProperties
<1>5. PICK longer : /\ longer = Append(argv, t) /\ Len(longer) = l + 1 /\ longer[l + 1] = t
                    /\ \A k \in 1 .. l : longer[k] = argv[k]
  <2>1. PICK longer : longer = Append(argv, t)
    OBVIOUS
  <2>2. /\ Len(longer) = Len(argv) + 1 /\ longer[Len(argv) + 1] = t
        /\ \A k \in 1 .. Len(argv) : longer[k] = argv[k]
    BY <1>2, <2>1, AppendProperties
  <2> QED
    BY <1>4, <2>1, <2>2
<1>6. ASSUME NEW k \in 1 .. l
      PROVE  /\ \E q \in AddressSpace : argv[k] <= q /\ q < t /\ next[q] = 0
             /\ StringAt(next, argv[k]) = StringAt(now, argv[k])
  <2>1. PICK a \in Nat : a = argv[k]
    BY <1>4, UtilAssumption DEF AddressSpace
  <2>2. PICK q \in AddressSpace : a <= q /\ q < t /\ now[q] = 0
    BY <1>4, <2>1 DEF CutUp, Ended
  <2>3. \A j \in AddressSpace : j <= q => next[j] = now[j]
    BY <1>2, <1>3, <2>2 DEF AddressSpace
  <2>4. StringAt(next, a) = StringAt(now, a)
    BY <1>3, <2>2, <2>3, StringKept
  <2>5. q <= q
    BY DEF AddressSpace
  <2> QED
    BY <2>1, <2>2, <2>3, <2>4, <2>5
<1>7. StringAt(next, t) = [i \in 1 .. s - t |-> m[t + i - 1]]
  <2>1. ASSUME NEW k \in t .. s - 1 PROVE next[k] = m[k] /\ m[k] # 0
    <3>1. k \in AddressSpace /\ k >= t /\ k # s /\ m[k] # 0
      BY <1>1, <1>2
    <3> QED
      BY <1>3, <3>1 DEF CutUp
  <2>2. next[s] = 0
    BY <1>2, <1>3
  <2>3. StringAt(next, t) = [i \in 1 .. s - t |-> next[t + i - 1]]
    <3>1. \A k \in t .. s - 1 : next[k] # 0
      BY <2>1
    <3> QED
      BY <1>2, <1>3, <2>2, <3>1, StringIs
  <2>4. ASSUME NEW i \in 1 .. s - t PROVE next[t + i - 1] = m[t + i - 1]
    <3>1. t + i - 1 \in t .. s - 1
      BY <1>2
    <3> QED
      BY <2>1, <3>1
  <2> QED
    BY <2>3, <2>4
<1>8. Ended(next, Append(argv, t), s + 1)
  <2> SUFFICES ASSUME NEW k \in 1 .. l + 1
               PROVE  \E q \in AddressSpace : longer[k] <= q /\ q < s + 1 /\ next[q] = 0
    BY <1>5 DEF Ended
  <2>1. CASE k = l + 1
    BY <1>2, <1>3, <1>5, <2>1
  <2>2. CASE k # l + 1
    <3>1. k \in 1 .. l
      BY <2>2
    <3>2. PICK q \in AddressSpace : argv[k] <= q /\ q < t /\ next[q] = 0
      BY <1>6, <3>1
    <3>3. q < s + 1
      BY <1>2, <3>2 DEF AddressSpace
    <3> QED
      BY <1>5, <3>1, <3>2, <3>3
  <2> QED
    BY <2>1, <2>2
<1>9. PICK line, a : Splitting(m, p, e, line, a)
  <2>1. \A f, line, a : Splitting(m, p, f, line, a) => f = e
    BY <1>1 DEF Splitting
  <2> QED
    BY <2>1, SplitOfString
<1>10. /\ line = StringAt(m, p) /\ a = SplitArgs(line)
       /\ Stepwise(a, line, 32, e - p) /\ \A n \in 1 .. e - p : line[n] = m[p + n - 1]
  BY <1>9, Zenon DEF Splitting
<1>11. PICK n \in Nat, r \in Nat : n = t - p /\ r = s - t
  BY <1>2
<1>12. PICK b \in Seq(Seq(Byte)) : /\ b = Arguments(now, argv) /\ Len(b) = l
                                  /\ \A k \in 1 .. l : b[k] = StringAt(now, argv[k])
  <2>1. Ended(now, argv, t)
    BY DEF CutUp
  <2> QED
    BY <1>4, <2>1, ArgumentsType DEF Arguments
<1>13. PICK c : /\ c = Append(b, << >>) /\ c \in Seq(Seq(Byte)) /\ Len(c) = l + 1 /\ c[l + 1] = << >>
                /\ (\A k \in 1 .. l : c[k] = b[k]) /\ DOMAIN c = 1 .. l + 1
  <2>0. << >> \in Seq(Byte)
    OBVIOUS
  <2>1. PICK texts, empty : texts = Seq(Byte) /\ empty = << >> /\ empty \in texts
    BY <2>0, Zenon
  <2>2. PICK c : c = Append(b, empty)
    OBVIOUS
  <2>3. b \in Seq(texts)
    BY <2>1
  <2>4. /\ c \in Seq(texts) /\ Len(c) = Len(b) + 1 /\ c[Len(b) + 1] = empty
        /\ \A k \in 1 .. Len(b) : c[k] = b[k]
    BY <2>1, <2>2, <2>3, AppendProperties
  <2>5. DOMAIN c = 1 .. Len(c)
    BY <2>4
  <2> QED
    BY <1>12, <2>1, <2>2, <2>4, <2>5
<1>14. a[n] = c
  BY <1>10, <1>11, <1>12, <1>13 DEF CutUp
<1>15. e - p \in Nat /\ n + r <= e - p
  BY <1>2, <1>11
<1>16. \A k \in 1 .. r : line[n + k] = m[t + k - 1] /\ line[n + k] \in Byte /\ line[n + k] # 32
  <2> SUFFICES ASSUME NEW k \in 1 .. r
               PROVE  line[n + k] = m[t + k - 1] /\ line[n + k] \in Byte /\ line[n + k] # 32
    OBVIOUS
  <2>1. n + k \in 1 .. e - p /\ p + (n + k) - 1 = t + k - 1 /\ t + k - 1 \in t .. s - 1 /\ t + k - 1 \in p .. e - 1
    BY <1>2, <1>11
  <2>2. line[n + k] = m[p + (n + k) - 1]
    BY <1>10, <2>1
  <2>3. t + k - 1 \in AddressSpace
    BY <1>1, <2>1
  <2>4. m[t + k - 1] # 32
    BY <2>1
  <2> QED
    BY <2>1, <2>2, <2>3, <2>4 DEF Memory
<1>17. a[n + r] = [a[n] EXCEPT ![Len(a[n])] = [i \in 1 .. r |-> line[n + i]]]
  <2>1. a[n] \in Seq(Seq(Byte)) /\ a[n] # << >> /\ a[n][Len(a[n])] = << >>
    BY <1>13, <1>14, EmptySeq
  <2>2. WordRun(Byte, line, 32, n, r)
    BY <1>16 DEF WordRun
  <2>3. n \in Nat /\ r \in Nat /\ Stepwise(a, line, 32, e - p)
    BY <1>10, <1>11
  <2>4. BeforeWord(Byte, a, line, 32, n, r)
    BY <1>15, <2>1, <2>2, <2>3 DEF BeforeWord
  <2>5. BehindWord(a, line, n, r)
    BY <2>4, WordExtends, Zenon
  <2> QED
    BY <2>5, Zenon DEF BehindWord
<1>18. PICK word : word = [i \in 1 .. r |-> line[n + i]] /\ word = StringAt(next, t)
  BY <1>7, <1>11, <1>16
<1>19. a[n + r] = [c EXCEPT ![l + 1] = word]
  BY <1>13, <1>14, <1>17, <1>18
<1>20. Arguments(next, longer) = [c EXCEPT ![l + 1] = word]
  <2>1. Arguments(next, longer) = [k \in 1 .. l + 1 |-> StringAt(next, longer[k])]
    BY <1>5 DEF Arguments
  <2>2. [c EXCEPT ![l + 1] = word] = [k \in 1 .. l + 1 |-> IF k = l + 1 THEN word ELSE c[k]]
    BY <1>13
  <2>3. ASSUME NEW k \in 1 .. l + 1 PROVE StringAt(next, longer[k]) = IF k = l + 1 THEN word ELSE c[k]
    <3>1. CASE k = l + 1
      BY <1>5, <1>18, <3>1
    <3>2. CASE k # l + 1
      <4>1. k \in 1 .. l
        BY <3>2
      <4> QED
        BY <1>5, <1>6, <1>12, <1>13, <3>2, <4>1
    <3> QED
      BY <3>1, <3>2
  <2> QED
    BY <2>1, <2>2, <2>3
<1>21. n + r = s - p
  BY <1>2, <1>11
<1> QED
  BY <1>2, <1>3, <1>5, <1>8, <1>10, <1>19, <1>20, <1>21

(* The spaces behind an argument are skipped, and there the search for the *)
(* next one goes on.                                                       *)
LEMMA SpacesCut ==
  ASSUME NEW m \in Memory, NEW now \in Memory, NEW p \in Nat, IsString(m, p),
         NEW argv \in Seq(AddressSpace), NEW t \in p .. EndOf(m, p), CutUp(m, now, p, argv, t),
         NEW s \in t .. EndOf(m, p), \A k \in t .. s - 1 : m[k] # 32, m[s] = 32,
         NEW u \in s + 1 .. EndOf(m, p), \A k \in s + 1 .. u - 1 : m[k] = 32, m[u] # 32,
         NEW next, next = Stored(now, s, 0)
  PROVE  CutUp(m, next, p, Append(argv, t), u)
<1>1. /\ next \in Memory /\ t \in AddressSpace /\ s \in AddressSpace
      /\ Ended(next, Append(argv, t), s + 1)
      /\ Arguments(next, Append(argv, t)) = SplitArgs(StringAt(m, p))[s - p]
  BY WordCut
<1>2. PICK e, line, a : Splitting(m, p, e, line, a)
  BY SplitOfString
<1>6. e \in Nat /\ e = EndOf(m, p) /\ line = StringAt(m, p) /\ a = SplitArgs(line)
  BY <1>2, Zenon DEF Splitting
<1>3. t \in Nat /\ s \in Nat /\ u \in Nat /\ p <= t /\ t <= s /\ s < u /\ u <= e /\ MemorySize \in Nat
  BY <1>6, UtilAssumption
<1>4. \A k \in AddressSpace : k >= u => next[k] = m[k]
  <2> SUFFICES ASSUME NEW k \in AddressSpace, k >= u PROVE next[k] = m[k]
    OBVIOUS
  <2>1. k # s /\ k >= t
    BY <1>3 DEF AddressSpace
  <2>2. next[k] = now[k]
    BY <2>1 DEF Stored, Memory
  <2> QED
    BY <2>1, <2>2 DEF CutUp
<1>5. Ended(next, Append(argv, t), u)
  <2>1. \A q \in AddressSpace : q < s + 1 => q < u
    BY <1>3 DEF AddressSpace
  <2> QED
    BY <1>1, <2>1 DEF Ended
<1>7. Stepwise(a, line, 32, e - p) /\ \A n \in 1 .. e - p : line[n] = m[p + n - 1]
  BY <1>2, Zenon DEF Splitting
<1>8. PICK n \in Nat, r \in Nat \ {0} : n = s - p /\ r = u - s
  BY <1>3
<1>9. e - p \in Nat /\ n + r <= e - p
  BY <1>3, <1>6, <1>8
<1>10. SpaceRun(line, 32, n, r)
  <2> SUFFICES ASSUME NEW k \in 1 .. r PROVE line[n + k] = 32
    BY DEF SpaceRun
  <2>1. n + k \in 1 .. e - p /\ p + (n + k) - 1 = s + k - 1
    BY <1>3, <1>6, <1>8
  <2>2. line[n + k] = m[s + k - 1]
    BY <1>7, <2>1
  <2>3. s + k - 1 = s \/ s + k - 1 \in s + 1 .. u - 1
    BY <1>3, <1>8
  <2> QED
    BY <2>2, <2>3
<1>11. n = 0 \/ line[n] # 32
  <2>1. CASE s = t
    <3>1. t = p
      BY <2>1 DEF CutUp
    <3> QED
      BY <1>8, <2>1, <3>1
  <2>2. CASE s # t
    <3>1. n \in 1 .. e - p /\ p + n - 1 = s - 1 /\ s - 1 \in t .. s - 1
      BY <1>3, <1>6, <1>8, <2>2
    <3>2. line[n] = m[s - 1]
      BY <1>7, <3>1
    <3> QED
      BY <3>1, <3>2
  <2> QED
    BY <2>1, <2>2
<1>12. a[n + r] = Append(a[n], << >>)
  <2>1. n \in Nat /\ r \in Nat \ {0}
    BY <1>8
  <2>2. BeforeSpaces(a, line, 32, n, r)
    BY <1>7, <1>9, <1>10, <1>11, <2>1 DEF BeforeSpaces
  <2> QED
    BY <2>2, SpacesSkipped DEF BehindSpaces
<1>13. n + r = u - p
  BY <1>3, <1>8
<1>14. SplitArgs(StringAt(m, p))[u - p] = Append(Arguments(next, Append(argv, t)), << >>)
  BY <1>1, <1>6, <1>8, <1>12, <1>13
<1> QED
  BY <1>4, <1>5, <1>14 DEF CutUp

(* The states of the loop: acc holds the arguments so far and where the    *)
(* next one starts, at least as many cells on as there have been rounds,   *)
(* or NULL when there is none.                                             *)
Cursor(argv, t) == acc = Append(argv, t) \/ (acc = << >> /\ argv = << >> /\ t = dst)
Searching ==
  /\ result = << >>
  /\ \E argv \in Seq(AddressSpace), t \in dst .. EndOf(initial, dst) :
       Cursor(argv, t) /\ CutUp(initial, memory, dst, argv, t) /\ dst + pos <= t
Cut ==
  \E argv \in Seq(AddressSpace) :
    /\ acc = Append(argv, NULL) /\ result \in {<< >>, << argv >>}
    /\ Arguments(memory, argv) = Text!Split(StringAt(initial, dst))
    /\ dst + pos <= EndOf(initial, dst) + 1
SplitInv == operation.fct = "split" => Searching \/ Cut

(* What the loop reads off acc.                                            *)
LEMMA CursorRead ==
  ASSUME NEW argv \in Seq(AddressSpace), NEW t \in Nat, dst \in Nat, Cursor(argv, t)
  PROVE  Token = t /\ Argv = argv
<1>1. CASE acc = Append(argv, t)
  <2>1. AddressSpace \subseteq Nat
    BY UtilAssumption DEF AddressSpace
  <2>2. argv \in Seq(Nat)
    BY <2>1, SeqMonotonic
  <2>3. PICK longer : longer = Append(argv, t)
    OBVIOUS
  <2>4. longer[Len(longer)] = t /\ longer # << >>
    BY <2>2, <2>3
  <2>5. SubSeq(longer, 1, Len(longer) - 1) = argv
    BY <2>2, <2>3, EraseAppended
  <2> QED
    BY <1>1, <2>3, <2>4, <2>5 DEF Token, Argv
<1>2. CASE acc = << >> /\ argv = << >> /\ t = dst
  BY <1>2 DEF Token, Argv
<1> QED
  BY <1>1, <1>2 DEF Cursor

(* The same, at the end of the line.                                       *)
LEMMA EndRead ==
  ASSUME NEW argv \in Seq(AddressSpace), acc = Append(argv, NULL)
  PROVE  Token = NULL /\ Argv = argv
<1>1. AddressSpace \subseteq Int /\ NULL \in Int
  BY UtilAssumption DEF AddressSpace, NULL
<1>2. argv \in Seq(Int)
  BY <1>1, SeqMonotonic
<1>3. PICK longer : longer = Append(argv, NULL)
  OBVIOUS
<1>4. longer[Len(longer)] = NULL /\ longer # << >>
  BY <1>1, <1>2, <1>3
<1>5. SubSeq(longer, 1, Len(longer) - 1) = argv
  BY <1>1, <1>2, <1>3, EraseAppended
<1> QED
  BY <1>3, <1>4, <1>5 DEF Token, Argv

(* Two elements more, one after the other.                                 *)
LEMMA AppendTwo ==
  ASSUME NEW S, NEW argv \in Seq(S), NEW t \in S, NEW u
  PROVE  Append(argv, t) \in Seq(S) /\ argv \o << t, u >> = Append(Append(argv, t), u)
<1>1. PICK T : T = S \cup {u}
  OBVIOUS
<1>2. argv \in Seq(T) /\ t \in T /\ u \in T
  BY <1>1, SeqMonotonic
<1>3. Append(argv, t) \in Seq(T) /\ Append(argv, t) = argv \o << t >> /\ << t >> \in Seq(T) /\ << u >> \in Seq(T)
  BY <1>2, AppendProperties, AppendIsConcat
<1>4. Append(Append(argv, t), u) = (argv \o << t >>) \o << u >>
  BY <1>2, <1>3, AppendIsConcat
<1>5. (argv \o << t >>) \o << u >> = argv \o (<< t >> \o << u >>)
  BY <1>2, <1>3, ConcatAssociative
<1>6. << t >> \o << u >> = << t, u >>
  <2>1. Append(<< t >>, u) = << t >> \o << u >>
    BY <1>2, <1>3, AppendIsConcat
  <2>2. PICK one, two, both : one = << t >> /\ two = << t, u >> /\ both = Append(one, u)
    OBVIOUS
  <2>3. one \in Seq(T) /\ Len(one) = 1 /\ one[1] = t
    BY <1>2, <2>2
  <2>4. two \in Seq(T) /\ Len(two) = 2 /\ two[1] = t /\ two[2] = u
    BY <1>2, <2>2
  <2>5. both \in Seq(T) /\ Len(both) = 2 /\ both[1] = t /\ both[2] = u
    BY <1>2, <2>2, <2>3, AppendProperties
  <2>6. both = two
    <3>1. \A i \in 1 .. 2 : i = 1 \/ i = 2
      OBVIOUS
    <3> QED
      BY <2>4, <2>5, <3>1, SeqEqual
  <2> QED
    BY <2>1, <2>2, <2>6
<1>7. Append(argv, t) \in Seq(S)
  BY AppendProperties
<1> QED
  BY <1>4, <1>5, <1>6, <1>7

(* The loop starts in front of the line.                                   *)
LEMMA SplitAtFirst == LibraryInit => SplitInv
<1>1. ASSUME utilInit, operation.fct = "split" PROVE Searching
  <2>1. PICK m \in Memory, o \in Operations : m = initial /\ o = operation /\ Allowed(m, o) /\ memory = m
    BY <1>1, UtilAssumption DEF utilInit, Memory, AddressSpace, Byte
  <2>2. PICK p \in Nat : p = o.dst /\ p <= EndOf(m, p) /\ IsString(m, p)
    BY <1>1, <2>1, OperationFields, AllowedCopies, EndOfString, UtilAssumption DEF AddressSpace
  <2>3. SplitArgs(StringAt(m, p))[0] = << << >> >> /\ EndOf(m, p) \in Nat
    <3>1. PICK e, line, a : Splitting(m, p, e, line, a)
      BY <2>2, SplitOfString
    <3> QED
      BY <3>1, Zenon DEF Splitting
  <2>4. Arguments(m, << >>) = << >>
    BY DEF Arguments
  <2>5. Append(Arguments(m, << >>), << >>) = << << >> >>
    <3>1. \A x : Append(<< >>, x) = << x >>
      OBVIOUS
    <3> QED
      BY <2>4, <3>1
  <2>6. p - p = 0
    BY <2>2
  <2>7. Ended(m, << >>, p)
    BY DEF Ended
  <2>8. CutUp(m, m, p, << >>, p)
    BY <2>3, <2>5, <2>6, <2>7 DEF CutUp
  <2>9. << >> \in Seq(AddressSpace) /\ p \in p .. EndOf(m, p)
    BY <2>2, <2>3
  <2>10. Cursor(<< >>, p) /\ result = << >> /\ dst = p /\ p + pos <= p
    BY <1>1, <2>1, <2>2 DEF utilInit, Cursor, dst
  <2> QED
    BY <2>1, <2>2, <2>8, <2>9, <2>10 DEF Searching
<1>2. utilIdle => operation.fct # "split"
  BY DEF utilIdle, NoOperation
<1> QED
  BY <1>1, <1>2 DEF LibraryInit, SplitInv

(* A step of printf does not touch the line.                               *)
LEMMA SplitRest == ASSUME SplitInv, UNCHANGED utilVars PROVE SplitInv'
BY DEF utilVars, SplitInv, Searching, Cut, Cursor, dst, Arguments

(* One word and the spaces behind it are cut off in an iteration; at the   *)
(* end of the line the last word is.                                       *)
LEMMA SplitNext == ASSUME UtilInv, SplitInv, utilNext PROVE SplitInv'
<1> SUFFICES ASSUME operation.fct = "split" PROVE (Searching \/ Cut)'
  BY DEF utilNext, memcpy, memset, memmove, memcmp, stringToInt, strlen, strcmp, strncmp,
         strcpy, strncpy, strchr, strcat, split, Loop, SplitInv
<1>1. Busy
  BY DEF UtilInv, utilIdle, NoOperation
<1>2. PICK m \in Memory, o \in Operations, n \in Nat :
        /\ m = initial /\ o = operation /\ n = pos /\ Allowed(m, o)
        /\ o.dst \in Nat /\ o.src \in Nat /\ o.count \in Nat
  BY <1>1, CallOf DEF Busy
<1>3. split /\ result = << >> /\ initial' = m /\ operation' = o
  BY <1>2 DEF utilNext, memcpy, memset, memmove, memcmp, stringToInt, strlen, strcmp, strncmp,
              strcpy, strncpy, strchr, strcat, split, Loop
<1>4. PICK p \in Nat, e \in Nat : p = o.dst /\ e = EndOf(m, p) /\ p <= e
  <2>1. IsString(m, o.dst)
    BY <1>2, AllowedCopies
  <2> QED
    BY <1>2, <2>1, EndOfString, UtilAssumption DEF AddressSpace
<1>5. /\ e \in AddressSpace /\ m[e] = 0 /\ IsString(m, p) /\ dst = p /\ dst' = p
      /\ \A k \in p .. e - 1 : k \in AddressSpace /\ m[k] # 0
  <2>1. IsString(m, o.dst)
    BY <1>2, AllowedCopies
  <2> QED
    BY <1>2, <1>3, <1>4, <2>1, EndOfString DEF dst
<1>6. PICK now \in Memory : now = memory
  BY <1>1 DEF Busy
<1>7. CASE Cut
  <2>1. PICK argv \in Seq(AddressSpace) :
          /\ acc = Append(argv, NULL) /\ Arguments(memory, argv) = Text!Split(StringAt(initial, dst))
          /\ dst + pos <= EndOf(initial, dst) + 1
    BY <1>7 DEF Cut
  <2>2. Token = NULL /\ Argv = argv
    BY <2>1, EndRead
  <2>3. result' = << argv >> /\ UNCHANGED << memory, acc, pos >>
    BY <1>3, <2>2 DEF split, Loop
  <2>4. Cut'
    BY <1>2, <1>3, <1>5, <2>1, <2>3 DEF Cut, Arguments
  <2> QED
    BY <2>4
<1>8. CASE Searching
  <2>1. PICK argv \in Seq(AddressSpace), t \in p .. e : Cursor(argv, t) /\ CutUp(m, now, p, argv, t) /\ p + n <= t
    BY <1>2, <1>4, <1>5, <1>6, <1>8 DEF Searching
  <2>2. t \in Nat /\ t \in AddressSpace /\ p <= t /\ t <= e /\ MemorySize \in Nat
    BY <1>4, <1>5, UtilAssumption DEF AddressSpace
  <2>3. Token = t /\ Argv = argv /\ Token # NULL
    BY <1>5, <2>1, <2>2, CursorRead DEF NULL
  <2>4. \A k \in t .. e : k \in AddressSpace /\ now[k] = m[k]
    <3>1. \A k \in t .. e : k \in AddressSpace /\ k >= t
      BY <1>5, <2>2 DEF AddressSpace
    <3> QED
      BY <2>1, <3>1 DEF CutUp
  <2>5. EndOf(now, t) = e
    <3>1. now[e] = 0 /\ \A k \in t .. e - 1 : now[k] # 0
      BY <1>4, <1>5, <2>2, <2>4
    <3> QED
      BY <1>5, <2>2, <3>1, StringIs
  <2> DEFINE spaces == {q \in t .. e : now[q] = 32}
  <2>6. SpaceIn(t) = IF spaces = {} THEN NULL ELSE CHOOSE q \in spaces : \A k \in spaces : q <= k
    BY <1>6, <2>5 DEF SpaceIn
  <2>7. CASE spaces = {}
    <3>1. /\ acc' = argv \o << t, NULL >> /\ memory' = now /\ result' = << >> /\ pos' = n + 1
      BY <1>2, <1>3, <1>6, <2>3, <2>6, <2>7 DEF split, Loop
    <3>2. \A k \in t .. e - 1 : m[k] # 32
      BY <1>4, <2>2, <2>4, <2>7
    <3>3. Stored(now, e, 0) = now
      <4>1. now[e] = 0
        BY <1>5, <2>2, <2>4
      <4> QED
        BY <4>1 DEF Stored, Memory
    <3>4. Arguments(now, Append(argv, t)) = SplitArgs(StringAt(m, p))[e - p]
      <4>1. t \in p .. EndOf(m, p)
        BY <1>4, <2>2
      <4>2. e \in t .. EndOf(m, p)
        BY <1>4, <2>2
      <4>3. IsString(m, p) /\ CutUp(m, now, p, argv, t) /\ now = Stored(now, e, 0)
        BY <1>5, <2>1, <3>3
      <4> HIDE DEF spaces
      <4> QED
        BY <3>2, <4>1, <4>2, <4>3, WordCut
    <3>5. SplitArgs(StringAt(m, p))[e - p] = Text!Split(StringAt(m, p))
      <4>1. PICK f, line, a : Splitting(m, p, f, line, a)
        BY <1>5, SplitOfString
      <4> QED
        BY <1>4, <4>1, Zenon DEF Splitting
    <3>6. Append(argv, t) \in Seq(AddressSpace) /\ argv \o << t, NULL >> = Append(Append(argv, t), NULL)
      BY <2>2, AppendTwo DEF NULL
    <3>7. p + (n + 1) <= e + 1
      BY <2>1, <2>2
    <3>8. Cut'
      BY ZenonT(40), <1>3, <1>4, <1>5, <3>1, <3>4, <3>5, <3>6, <3>7 DEF Cut, Arguments
    <3> QED
      BY <3>8
  <2>8. CASE spaces # {}
    <3>1. PICK s \in spaces : s = SpaceIn(t) /\ \A k \in spaces : s <= k
      <4>1. spaces \in SUBSET Nat
        BY <2>2
      <4>2. \E q \in spaces : \A k \in spaces : q <= k
        <5> HIDE DEF spaces
        <5> QED
          BY <2>8, <4>1, LeastNatural
      <4> HIDE DEF spaces
      <4> QED
        BY <2>6, <2>8, <4>2
    <3>2. /\ s \in t .. e /\ s \in Nat /\ now[s] = 32 /\ m[s] = 32 /\ s # NULL /\ s < e
      <4>1. s \in t .. e /\ now[s] = 32
        OBVIOUS
      <4>2. m[s] = 32 /\ s # e
        BY <1>5, <2>4, <4>1
      <4> QED
        BY <2>2, <4>1, <4>2 DEF NULL
    <3>3. \A k \in t .. s - 1 : m[k] # 32
      <4> SUFFICES ASSUME NEW k \in t .. s - 1, m[k] = 32 PROVE FALSE
        OBVIOUS
      <4>1. k \in t .. e /\ ~(s <= k)
        BY <2>2, <3>2
      <4>2. k \in spaces
        BY <2>4, <4>1
      <4> QED
        BY <3>1, <4>1, <4>2
    <3>4. PICK u \in AddressSpace : u = Behind(s) /\ u > s /\ now[u] # 32 /\ \A k \in s + 1 .. u - 1 : now[k] = 32
      <4> DEFINE others == {q \in AddressSpace : q > s /\ now[q] # 32}
      <4>1. e \in others /\ others \in SUBSET Nat
        BY <1>5, <2>2, <2>4, <3>2 DEF AddressSpace
      <4>2. PICK q \in others : \A k \in others : q <= k
        <5> HIDE DEF others
        <5> QED
          BY <4>1, LeastNatural
      <4>3. \A k \in s + 1 .. q - 1 : now[k] = 32
        <5> SUFFICES ASSUME NEW k \in s + 1 .. q - 1, now[k] # 32 PROVE FALSE
          OBVIOUS
        <5>1. q \in AddressSpace /\ k \in AddressSpace /\ k > s /\ ~(q <= k)
          BY <2>2, <3>2 DEF AddressSpace
        <5>2. k \in others
          BY <5>1
        <5> QED
          BY <4>2, <5>1, <5>2
      <4>4. Behind(s) = CHOOSE u \in AddressSpace : u > s /\ now[u] # 32 /\ \A k \in s + 1 .. u - 1 : now[k] = 32
        BY <1>6 DEF Behind, Addresses, Memory
      <4> QED
        BY <4>3, <4>4
    <3>5. u \in Nat /\ u <= e
      <4>1. e \notin s + 1 .. u - 1
        BY <1>5, <2>2, <2>4, <3>4
      <4> QED
        BY <1>4, <2>2, <3>2, <3>4, <4>1 DEF AddressSpace
    <3>6. m[u] # 32 /\ \A k \in s + 1 .. u - 1 : m[k] = 32
      <4>1. u \in t .. e /\ \A k \in s + 1 .. u - 1 : k \in t .. e
        BY <2>2, <3>2, <3>4, <3>5
      <4> QED
        BY <2>4, <3>4, <4>1
    <3>7. PICK next : next = Stored(now, s, 0)
      OBVIOUS
    <3>8. /\ acc' = argv \o << t, u >> /\ memory' = next /\ result' = << >> /\ pos' = n + 1
      BY <1>2, <1>3, <1>6, <2>3, <3>1, <3>2, <3>4, <3>7 DEF split, Loop, Store, Stored
    <3>9. CutUp(m, next, p, Append(argv, t), u)
      <4>1. s \in t .. EndOf(m, p) /\ t \in p .. EndOf(m, p) /\ u \in s + 1 .. EndOf(m, p)
        BY <1>4, <2>2, <3>2, <3>4, <3>5
      <4> QED
        BY <1>5, <2>1, <3>2, <3>3, <3>6, <3>7, <4>1, SpacesCut
    <3>10. Append(argv, t) \in Seq(AddressSpace) /\ argv \o << t, u >> = Append(Append(argv, t), u)
      BY <2>2, <3>5, AppendTwo
    <3>11. u \in p .. EndOf(m, p)
      BY <1>4, <2>2, <3>2, <3>4, <3>5
    <3>12. p + (n + 1) <= u
      BY <2>1, <2>2, <3>2, <3>4, <3>5
    <3>13. Searching'
      BY <1>3, <1>5, <3>8, <3>9, <3>10, <3>11, <3>12 DEF Searching, Cursor
    <3> QED
      BY <3>13
  <2> QED
    BY <2>7, <2>8
<1> QED
  BY <1>7, <1>8 DEF SplitInv

(* At the end, the arguments are those of Split.                           *)
LEMMA SplitFollows == SplitInv => SplitsAsShellText
<1> SUFFICES ASSUME SplitInv, result # << >>, operation.fct = "split"
             PROVE  [k \in 1 .. Len(result[1]) |-> StringAt(memory, result[1][k])] = Text!Split(StringAt(initial, dst))
  BY DEF SplitsAsShellText
<1>1. PICK argv : result = << argv >> /\ Arguments(memory, argv) = Text!Split(StringAt(initial, dst))
  BY DEF SplitInv, Searching, Cut
<1>2. result[1] = argv
  BY <1>1
<1> QED
  BY <1>1, <1>2 DEF Arguments

(* The line that parseAndExecuteCmd has cut up in place reads, argument by *)
(* argument, as Split says, which is what the model of the shell parses by *)
(* (shell.c:106-116): for every line and wherever it is in memory.         *)
THEOREM SplitInPlace == LibrarySpec => []SplitsAsShellText
<1>1. LibraryInit => UtilInv /\ SplitInv
  BY UtilInitInv, SplitAtFirst
<1>2. UtilInv /\ SplitInv /\ [LibraryNext]_<<vars, utilVars>> => (UtilInv /\ SplitInv)'
  <2> SUFFICES ASSUME UtilInv, SplitInv, [LibraryNext]_<<vars, utilVars>>
               PROVE  UtilInv' /\ SplitInv'
    OBVIOUS
  <2>1. UNCHANGED utilVars \/ utilNext
    BY DEF LibraryNext, vars, utilVars
  <2> QED
    BY <2>1, UtilNextInv, SplitRest, SplitNext
<1> QED
  BY <1>1, <1>2, SplitFollows, PTL DEF LibrarySpec
-----------------------------------------------------------------------------
(* The counter of a loop.                                                  *)

(* A loop that copies ends inside the memory.                              *)
LEMMA RoundsBounded ==
  ASSUME NEW m \in Memory, NEW o \in Operations, Allowed(m, o), o.fct \in Copies
  PROVE  Rounds(m, o) <= MemorySize
<1>0. o.dst \in Nat /\ o.src \in Nat /\ o.count \in Nat /\ MemorySize \in Nat
  BY OperationFields, UtilAssumption
<1>1. PICK t \in Nat, s \in Nat : t = CallTarget(m, o) /\ s = CallSize(m, o) /\ t >= o.dst
  BY CallShape
<1>2. CASE s # 0
  <2>1. s - 1 \in 0 .. s - 1
    BY <1>2
  <2>2. t + (s - 1) \in AddressSpace
    BY <1>1, <2>1, CallShape
  <2> QED
    BY <1>0, <1>1, <2>2 DEF Rounds, AddressSpace
<1>3. CASE s = 0 /\ t # o.dst
  <2>1. o.fct = "strcat"
    BY <1>1, <1>3 DEF CallTarget
  <2>2. t - 1 \in o.dst .. t - 1
    BY <1>0, <1>1, <1>3
  <2>3. t - 1 \in AddressSpace
    BY <1>1, <2>1, <2>2, CallShape
  <2> QED
    BY <1>0, <1>1, <1>3, <2>3 DEF Rounds, AddressSpace
<1>4. CASE s = 0 /\ t = o.dst
  BY <1>0, <1>1, <1>4 DEF Rounds
<1> QED
  BY <1>2, <1>3, <1>4

(* So does one that goes along a string up to its NUL.                     *)
LEMMA StringBounded ==
  ASSUME NEW m \in Memory, NEW p \in Nat, IsString(m, p), NEW n \in Nat,
         \A j \in 0 .. n - 1 : m[p + j] # 0
  PROVE  n <= MemorySize
<1>1. n <= EndOf(m, p) - p
  BY NulIsEnd
<1>2. EndOf(m, p) \in AddressSpace
  BY EndOfString
<1> QED
  BY <1>1, <1>2, UtilAssumption DEF AddressSpace

(* What is none of the functions does not run.                             *)
KnownInv == operation.fct \notin Copies \cup Others => pos = 0

(* Before the first call nothing runs,                                     *)
LEMMA KnownAtFirst == LibraryInit => KnownInv
BY DEF LibraryInit, utilInit, utilIdle, KnownInv

(* and every step is one of a function there is.                           *)
LEMMA KnownNext == ASSUME KnownInv, [LibraryNext]_<<vars, utilVars>> PROVE KnownInv'
<1>1. CASE UNCHANGED utilVars
  BY <1>1 DEF utilVars, KnownInv
<1>2. CASE utilNext
  <2>1. operation' = operation /\ operation.fct \in Copies \cup Others
    BY <1>2 DEF utilNext, memcpy, memset, memmove, memcmp, stringToInt, strlen, strcmp, strncmp,
                strcpy, strncpy, strchr, strcat, split, Loop, Copies, Others
  <2> QED
    BY <2>1 DEF KnownInv
<1> QED
  BY <1>1, <1>2 DEF LibraryNext, vars, utilVars

(* And every other one.                                                    *)
LEMMA CounterBounded ==
  ASSUME UtilInv, Seen, NumberInv, SplitInv, KnownInv
  PROVE  pos \in 0 .. MemorySize
<1>0. MemorySize \in Nat
  BY UtilAssumption
<1>1. CASE utilIdle
  BY <1>0, <1>1 DEF utilIdle
<1>2. CASE Busy
  <2>1. PICK m \in Memory, o \in Operations, n \in Nat :
          /\ m = initial /\ o = operation /\ n = pos /\ Allowed(m, o)
          /\ o.dst \in Nat /\ o.src \in Nat /\ o.count \in Nat
    BY <1>2, CallOf DEF Busy
  <2>2. CASE o.fct \in Copies
    <3>1. n <= Rounds(m, o) /\ Rounds(m, o) \in Nat
      BY <1>2, <2>1, <2>2, NothingYet DEF Busy, CopyInv
    <3> QED
      BY <1>0, <2>1, <2>2, <3>1, RoundsBounded
  <2>3. CASE o.fct \in {"strlen", "strchr", "stringToInt", "strcmp", "strncmp"}
    <3>1. IsString(m, o.dst)
      BY <2>1, <2>3, AllowedCopies
    <3>2. \A j \in 0 .. n - 1 : m[o.dst + j] # 0
      <4>1. o.fct = "strlen" => \A j \in 0 .. n - 1 : m[o.dst + j] # 0
        BY <2>1 DEF Seen, LengthInv, dst
      <4>2. o.fct = "strchr" => \A j \in 0 .. n - 1 : m[o.dst + j] # 0
        BY <2>1 DEF Seen, SearchInv, dst
      <4>3. o.fct \in {"strcmp", "strncmp"} => \A j \in 0 .. n - 1 : m[o.dst + j] # 0
        BY <2>1 DEF Seen, CompareInv, dst
      <4>4. o.fct = "stringToInt" => \A j \in 0 .. n - 1 : m[o.dst + j] \in 48 .. 57
        BY <2>1 DEF NumberInv, dst
      <4>5. \A x \in 48 .. 57 : x # 0
        OBVIOUS
      <4> QED
        BY <2>3, <4>1, <4>2, <4>3, <4>4, <4>5
    <3>3. n <= MemorySize
      <4>1. m \in Memory /\ o.dst \in Nat /\ n \in Nat
        BY <2>1
      <4> QED
        BY <3>1, <3>2, <4>1, StringBounded
    <3>4. n \in 0 .. MemorySize
      <4>1. n \in Nat
        BY <2>1
      <4> QED
        BY <1>0, <3>3, <4>1
    <3> QED
      BY <2>1, <3>4
  <2>4. CASE o.fct = "memcmp"
    <3>1. n <= o.count
      BY <2>1, <2>4 DEF Seen, AreaInv, count
    <3>2. IsArea(m, o.dst, o.count)
      BY <2>1, <2>4, AllowedCopies
    <3>3. \A i \in 0 .. o.count - 1 : o.dst + i \in AddressSpace
      BY <2>1, <3>2, AreaCells
    <3>4. CASE o.count = 0
      BY <1>0, <2>1, <3>1, <3>4
    <3>5. CASE o.count # 0
      <4>1. o.count - 1 \in 0 .. o.count - 1
        BY <2>1, <3>5
      <4>2. o.dst + (o.count - 1) \in AddressSpace
        BY <3>3, <4>1
      <4> QED
        BY <1>0, <2>1, <3>1, <4>2 DEF AddressSpace
    <3> QED
      BY <3>4, <3>5
  <2>5. CASE o.fct = "split"
    <3>1. IsString(m, o.dst)
      BY <2>1, <2>5, AllowedCopies
    <3>2. PICK e \in Nat : e = EndOf(m, o.dst) /\ e \in AddressSpace
      BY <2>1, <3>1, EndOfString, UtilAssumption DEF AddressSpace
    <3>3. o.dst + n <= e + 1
      <4>1. CASE Searching
        <5>1. PICK t \in o.dst .. e : o.dst + n <= t
          BY <2>1, <3>2, <4>1 DEF Searching, dst
        <5> QED
          BY <2>1, <3>2, <5>1
      <4>2. CASE Cut
        BY <2>1, <3>2, <4>2 DEF Cut, dst
      <4> QED
        BY <2>1, <2>5, <4>1, <4>2 DEF SplitInv
    <3> QED
      BY <1>0, <2>1, <3>2, <3>3 DEF AddressSpace
  <2>6. CASE o.fct \notin Copies \cup Others
    BY <1>0, <2>1, <2>6 DEF KnownInv
  <2> QED
    BY <2>2, <2>3, <2>4, <2>5, <2>6 DEF Others
<1> QED
  BY <1>1, <1>2 DEF UtilInv

(* The memory keeps its cells and its bytes, and a number stays an int.    *)
LEMMA UtilTypes ==
  ASSUME UtilInv, Seen, NumberInv, SplitInv, KnownInv
  PROVE  UtilTypeOK
<1>1. DOMAIN memory = DOMAIN initial /\ \A p \in Addresses : memory[p] \in 0 .. 255
  <2>1. CASE utilIdle
    BY <2>1 DEF utilIdle, Addresses
  <2>2. CASE Busy
    BY <2>2 DEF Busy, Called, Memory, Byte, Addresses
  <2> QED
    BY <2>1, <2>2 DEF UtilInv
<1>2. pos \in 0 .. MemorySize
  BY CounterBounded
<1>3. operation.fct = "stringToInt" /\ acc # << >> => acc[1] \in INT_MIN .. INT_MAX
  BY DEF NumberInv, Parsed
<1> QED
  BY <1>1, <1>2, <1>3 DEF UtilTypeOK

(* The types of printf's variables, in the library.                        *)
LEMMA LibraryTypesFirst == LibraryInit /\ ArgumentsFit => TypeOK /\ FieldFilled
<1>1. ASSUME printfIdle PROVE TypeOK /\ FieldFilled
  <2>1. call.format = << >> /\ format = 1 /\ idx = 0 /\ ret = NONE /\ sent = << >> /\ console = << >> /\ field = {} /\ out = "none"
    BY <1>1 DEF printfIdle, NoPrintf
  <2>2. buffer = [k \in 0 .. Cells - 1 |-> Untouched]
    BY <1>1 DEF printfIdle
  <2>3. 0 = Len(<< >>) /\ << >> \in Seq(Characters)
    OBVIOUS
  <2>4. 1 \in 1 .. Len(call.format) + 1
    <3>1. Len(call.format) = 0
      BY <2>1, <2>3
    <3> QED
      BY <3>1
  <2> QED
    BY <2>1, <2>2, <2>3, <2>4 DEF TypeOK, FieldFilled
<1> QED
  BY <1>1, InitTypes DEF LibraryInit

(* A call into the library keeps the types of its variables: for every     *)
(* call of printf's whose arguments fit the parser stays in the format and *)
(* all that it puts out is text, and for every call that C allows into     *)
(* util.c no loop runs longer than the memory is, the memory keeps its     *)
(* bytes and a number parsed stays an int (printf.c:587-849, util.c).      *)
THEOREM LibraryTypesHold == LibrarySpec /\ []ArgumentsFit => []LibraryTypeOK
<1> DEFINE UtilAll == UtilInv /\ Seen /\ NumberInv /\ SplitInv /\ KnownInv
<1>1. LibraryInit /\ ArgumentsFit => UtilAll /\ TypeOK /\ FieldFilled
  BY UtilInitInv, SeenAtFirst, NumberAtFirst, SplitAtFirst, KnownAtFirst, LibraryTypesFirst
<1>2. UtilAll /\ [LibraryNext]_<<vars, utilVars>> => UtilAll'
  <2> SUFFICES ASSUME UtilInv, Seen, NumberInv, SplitInv, KnownInv, [LibraryNext]_<<vars, utilVars>>
               PROVE  UtilInv' /\ Seen' /\ NumberInv' /\ SplitInv' /\ KnownInv'
    OBVIOUS
  <2>1. UNCHANGED utilVars \/ utilNext
    BY DEF LibraryNext, vars, utilVars
  <2> QED
    BY <2>1, UtilNextInv, SeenRest, SeenNext, NumberRest, NumberNext, SplitRest, SplitNext, KnownNext
<1>3. TypeOK /\ FieldFilled /\ ArgumentsFit /\ [LibraryNext]_<<vars, utilVars>> => (TypeOK /\ FieldFilled)'
  <2>1. [LibraryNext]_<<vars, utilVars>> => [Next]_vars
    BY DEF LibraryNext
  <2> QED
    BY <2>1, NextTypes
<1>4. UtilAll /\ TypeOK => LibraryTypeOK
  BY UtilTypes DEF LibraryTypeOK
<1> QED
  BY <1>1, <1>2, <1>3, <1>4, PTL DEF LibrarySpec
=============================================================================
