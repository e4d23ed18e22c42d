------------------------- MODULE LmqttStoreTheorems -------------------------
(***************************************************************************)
(* What the operators of LmqttStore return, for every store: the lemmas    *)
(* that the proofs about the client cite.                                  *)
(***************************************************************************)
EXTENDS LmqttStore, SequenceTheorems, WellFoundedInduction, TLAPS

(* A nonempty set of numbers has a least element (the search of store_find *)
(* and the induction over the loop of client_cleanup_stores need it).      *)
LEMMA NatMinimum ==
  ASSUME NEW S, S \subseteq Nat, S # {}
  PROVE  \E x \in S : \A y \in S : x <= y
<1>1. PICK x \in S : \A y \in S : <<y, x>> \notin OpToRel(<, Nat)
  BY WFMin, NatLessThanWellFounded
<1>2. \A y \in S : ~(y < x)
  BY <1>1 DEF OpToRel
<1>3. \A y \in S : x <= y
  BY <1>2, SMT
<1> QED BY <1>3, Zenon

(* The memmove of store_pop_at closes the gap and keeps the order.         *)
LEMMA RemoveAtLemma ==
  ASSUME NEW E, NEW q \in Seq(E), NEW i \in 1 .. Len(q)
  PROVE  /\ RemoveAt(q, i) \in Seq(E)
         /\ Len(RemoveAt(q, i)) = Len(q) - 1
         /\ \A j \in 1 .. Len(q) - 1 :
              RemoveAt(q, i)[j] = IF j < i THEN q[j] ELSE q[j + 1]
<1> DEFINE a == SubSeq(q, 1, i - 1)
           b == SubSeq(q, i + 1, Len(q))
<1>0. Len(q) \in Nat /\ \A j \in 1 .. Len(q) : q[j] \in E
  BY LenProperties, ElementOfSeq
<1>1. /\ a \in Seq(E) /\ Len(a) = i - 1
      /\ \A j \in 1 .. i - 1 : a[j] = q[j]
  <2>1. /\ SubSeq(q, 1, i - 1) \in Seq(E)
        /\ Len(SubSeq(q, 1, i - 1)) = IF 1 <= i - 1 THEN i - 1 - 1 + 1 ELSE 0
        /\ \A j \in 1 .. i - 1 - 1 + 1 : SubSeq(q, 1, i - 1)[j] = q[1 + j - 1]
    BY <1>0, SubSeqProperties
  <2> QED BY <2>1, <1>0
<1>2. /\ b \in Seq(E) /\ Len(b) = Len(q) - i
      /\ \A j \in 1 .. Len(q) - i : b[j] = q[j + i]
  <2>1. /\ SubSeq(q, i + 1, Len(q)) \in Seq(E)
        /\ Len(SubSeq(q, i + 1, Len(q))) =
             IF i + 1 <= Len(q) THEN Len(q) - (i + 1) + 1 ELSE 0
        /\ \A j \in 1 .. Len(q) - (i + 1) + 1 :
             SubSeq(q, i + 1, Len(q))[j] = q[i + 1 + j - 1]
    BY <1>0, SubSeqProperties
  <2> QED BY <2>1, <1>0
<1>3. /\ a \o b \in Seq(E)
      /\ Len(a \o b) = Len(a) + Len(b)
      /\ \A j \in 1 .. Len(a) + Len(b) :
           (a \o b)[j] = IF j <= Len(a) THEN a[j] ELSE b[j - Len(a)]
  BY <1>1, <1>2, ConcatProperties
<1>4. RemoveAt(q, i) = a \o b
  BY DEF RemoveAt
<1> HIDE DEF a, b
<1>5. \A j \in 1 .. Len(q) - 1 :
        (a \o b)[j] = IF j < i THEN q[j] ELSE q[j + 1]
  <2> SUFFICES ASSUME NEW j \in 1 .. Len(q) - 1
               PROVE  (a \o b)[j] = IF j < i THEN q[j] ELSE q[j + 1]
    OBVIOUS
  <2>1. j \in 1 .. Len(a) + Len(b)
    BY <1>0, <1>1, <1>2
  <2>2. (a \o b)[j] = IF j <= Len(a) THEN a[j] ELSE b[j - Len(a)]
    BY <2>1, <1>3
  <2>3. CASE j < i
    BY <2>2, <2>3, <1>0, <1>1
  <2>4. CASE ~(j < i)
    <3>1. j - Len(a) \in 1 .. Len(q) - i /\ j - Len(a) + i = j + 1
      BY <2>4, <1>0, <1>1
    <3>2. b[j - Len(a)] = q[j + 1]
      BY <3>1, <1>2
    <3> QED BY <2>2, <2>4, <3>2, <1>0, <1>1
  <2> QED BY <2>3, <2>4
<1> QED BY <1>0, <1>1, <1>2, <1>3, <1>4, <1>5

-----------------------------------------------------------------------------
(* lmqtt_store_append on a store with room.                                *)
LEMMA AppendedLemma ==
  ASSUME NEW E, NEW s, WellFormed(s, E), NEW e \in E
  PROVE  /\ WellFormed(Appended(s, e), E)
         /\ Count(Appended(s, e)) = Count(s) + 1
         /\ Appended(s, e).pos = s.pos
         /\ \A j \in 1 .. Count(s) : Appended(s, e).entries[j] = s.entries[j]
         /\ Appended(s, e).entries[Count(s) + 1] = e
BY DEF WellFormed, Appended, Count

(* store_pop_at keeps the store well formed, and an entry that was marked  *)
(* stays marked unless it is the one taken out.                            *)
LEMMA PopAtLemma ==
  ASSUME NEW E, NEW s, WellFormed(s, E), NEW i \in 1 .. Count(s)
  PROVE  /\ WellFormed(PopAt(s, i), E)
         /\ Count(PopAt(s, i)) = Count(s) - 1
         /\ PopAt(s, i).pos = IF s.pos >= i THEN s.pos - 1 ELSE s.pos
         /\ \A j \in 1 .. Count(s) - 1 :
              PopAt(s, i).entries[j] =
                IF j < i THEN s.entries[j] ELSE s.entries[j + 1]
<1>1. /\ s.entries \in Seq(E) /\ s.pos \in Nat /\ s.pos <= Len(s.entries)
      /\ Len(s.entries) \in Nat
  BY LenProperties DEF WellFormed, Count
<1>2. /\ RemoveAt(s.entries, i) \in Seq(E)
      /\ Len(RemoveAt(s.entries, i)) = Len(s.entries) - 1
      /\ \A j \in 1 .. Len(s.entries) - 1 :
           RemoveAt(s.entries, i)[j] =
             IF j < i THEN s.entries[j] ELSE s.entries[j + 1]
  BY <1>1, RemoveAtLemma DEF Count
<1> QED BY <1>1, <1>2 DEF WellFormed, PopAt, Count

(* lmqtt_store_mark_current moves the position over the current entry.     *)
LEMMA MarkCurrentLemma ==
  ASSUME NEW E, NEW s, WellFormed(s, E), HasCurrent(s)
  PROVE  /\ WellFormed(MarkCurrent(s), E)
         /\ MarkCurrent(s).entries = s.entries
         /\ MarkCurrent(s).pos = s.pos + 1
         /\ Current(s) \in E
BY LenProperties, ElementOfSeq
   DEF WellFormed, MarkCurrent, HasCurrent, Current, Count

(* store_find returns a marked entry of that kind and id.                  *)
LEMMA FoundLemma ==
  ASSUME NEW E, NEW s, WellFormed(s, E), NEW kind, NEW id,
         Matching(s, kind, id) # {}
  PROVE  /\ Found(s, kind, id) \in 1 .. s.pos
         /\ Found(s, kind, id) \in 1 .. Count(s)
         /\ s.entries[Found(s, kind, id)].kind = kind
         /\ s.entries[Found(s, kind, id)] \in E
<1>1. /\ s.entries \in Seq(E) /\ s.pos \in Nat /\ s.pos <= Len(s.entries)
      /\ Len(s.entries) \in Nat
  BY LenProperties DEF WellFormed, Count
<1>2. Matching(s, kind, id) \subseteq Nat
  BY <1>1 DEF Matching
<1>3. \E i \in Matching(s, kind, id) : \A j \in Matching(s, kind, id) : i <= j
  BY <1>2, NatMinimum
<1>4. Found(s, kind, id) \in Matching(s, kind, id)
  BY <1>3, Zenon DEF Found
<1>5. /\ Found(s, kind, id) \in 1 .. s.pos
      /\ s.entries[Found(s, kind, id)].kind = kind
  BY <1>4 DEF Matching
<1>6. Found(s, kind, id) \in 1 .. Len(s.entries)
  BY <1>1, <1>5
<1> QED BY <1>1, <1>5, <1>6, ElementOfSeq DEF Count

-----------------------------------------------------------------------------
(* The loop of client_cleanup_stores that deletes entries.                 *)

(* What is left of the first i entries, given what is left before the last *)
(* of them.                                                                *)
KeptStep(s, kinds, i, before) ==
  IF s.entries[i].kind \in kinds THEN before ELSE Append(before, s.entries[i])

KeptTo(f, s, kinds, m) ==
  f = [i \in 0 .. m |->
         IF i = 0 THEN <<>> ELSE KeptStep(s, kinds, i, f[i - 1])]

(* The recursion of Kept is well founded, so Kept satisfies its equation.  *)
LEMMA KeptExists ==
  ASSUME NEW s, NEW kinds, NEW n \in Nat
  PROVE  \E f : KeptTo(f, s, kinds, n)
<1> DEFINE Bad == {m \in Nat : ~ \E f : KeptTo(f, s, kinds, m)}
<1> SUFFICES ASSUME Bad # {} PROVE FALSE
  BY Zenon
<1>1. PICK m \in Bad : \A y \in Bad : m <= y
  <2>1. Bad \subseteq Nat
    OBVIOUS
  <2> HIDE DEF Bad
  <2> QED BY <2>1, NatMinimum
<1>2. m \in Nat /\ ~ \E f : KeptTo(f, s, kinds, m)
  OBVIOUS
<1>3. CASE m = 0
  <2> DEFINE f == [i \in 0 .. 0 |-> <<>>]
  <2>1. KeptTo(f, s, kinds, 0)
    BY DEF KeptTo
  <2> QED BY <1>2, <1>3, <2>1
<1>4. CASE m # 0
  <2>1. m - 1 \in Nat /\ m - 1 \notin Bad
    <3>1. m - 1 \in Nat /\ ~(m <= m - 1)
      BY <1>2, <1>4
    <3> HIDE DEF Bad
    <3> QED BY <1>1, <3>1
  <2>2. PICK f : KeptTo(f, s, kinds, m - 1)
    BY <2>1
  <2> DEFINE g == [i \in 0 .. m |->
                     IF i = m THEN KeptStep(s, kinds, m, f[m - 1]) ELSE f[i]]
  <2>3. \A i \in 0 .. m - 1 :
          f[i] = IF i = 0 THEN <<>> ELSE KeptStep(s, kinds, i, f[i - 1])
    BY <2>2 DEF KeptTo
  <2>4. \A i \in 0 .. m :
          g[i] = IF i = 0 THEN <<>> ELSE KeptStep(s, kinds, i, g[i - 1])
    <3> SUFFICES ASSUME NEW i \in 0 .. m
                 PROVE g[i] = IF i = 0 THEN <<>>
                              ELSE KeptStep(s, kinds, i, g[i - 1])
      OBVIOUS
    <3>1. CASE i = m
      <4>1. m - 1 \in 0 .. m /\ m - 1 # m
        BY <1>2, <1>4
      <4>2. g[m - 1] = f[m - 1] /\ g[m] = KeptStep(s, kinds, m, f[m - 1])
        BY <4>1, <1>2
      <4> QED BY <4>2, <3>1, <1>4
    <3>2. CASE i # m
      <4>1. i \in 0 .. m - 1 /\ (i # 0 => i - 1 \in 0 .. m - 1 /\ i - 1 # m)
        BY <1>2, <3>2
      <4>2. g[i] = f[i] /\ (i # 0 => g[i - 1] = f[i - 1])
        BY <4>1, <3>2, <1>2
      <4> QED BY <4>1, <4>2, <2>3
    <3> QED BY <3>1, <3>2
  <2>5. KeptTo(g, s, kinds, m)
    <3>1. g = [i \in 0 .. m |-> g[i]]
      OBVIOUS
    <3> HIDE DEF g
    <3> QED BY <3>1, <2>4 DEF KeptTo
  <2> QED BY <1>2, <2>5
<1> QED BY <1>3, <1>4

LEMMA KeptDef ==
  ASSUME NEW s, NEW kinds, Count(s) \in Nat
  PROVE  KeptTo(Kept(s, kinds), s, kinds, Count(s))
<1> DEFINE n == Count(s)
           left == CHOOSE f : KeptTo(f, s, kinds, n)
<1>1. KeptTo(left, s, kinds, n)
  BY KeptExists, Zenon
<1>2. Kept(s, kinds) = left
  BY Zenon DEF Kept, KeptTo, KeptStep
<1> QED BY <1>1, <1>2

LEMMA KeptEquation ==
  ASSUME NEW E, NEW s, WellFormed(s, E), NEW kinds
  PROVE  \A i \in 0 .. Count(s) :
           Kept(s, kinds)[i] =
             IF i = 0 THEN <<>>
                      ELSE KeptStep(s, kinds, i, Kept(s, kinds)[i - 1])
<1> DEFINE k == Kept(s, kinds)
<1>1. Count(s) \in Nat
  BY LenProperties DEF WellFormed, Count
<1>2. KeptTo(k, s, kinds, Count(s))
  BY <1>1, KeptDef
<1> HIDE DEF k
<1>3. \A i \in 0 .. Count(s) :
        k[i] = IF i = 0 THEN <<>> ELSE KeptStep(s, kinds, i, k[i - 1])
  BY <1>2 DEF KeptTo
<1> QED BY <1>3 DEF k

KeptSoFar(k, s, E, kinds, p, i) ==
  /\ k[i] \in Seq(E)
  /\ Len(k[i]) <= i
  /\ \A j \in 1 .. Len(k[i]) :
       \E o \in 1 .. i : /\ k[i][j] = s.entries[o]
                         /\ s.entries[o].kind \notin kinds
  /\ i >= p => /\ Len(k[p]) <= Len(k[i])
               /\ \A j \in 1 .. Len(k[p]) : k[i][j] = k[p][j]

(* What is left of a prefix of the entries are entries of that prefix, of  *)
(* the other kinds, and going on only adds to it.                          *)
LEMMA KeptLemma ==
  ASSUME NEW E, NEW s, WellFormed(s, E), NEW kinds, NEW p \in 0 .. Count(s)
  PROVE  \A i \in 0 .. Count(s) :
           KeptSoFar(Kept(s, kinds), s, E, kinds, p, i)
<1> DEFINE k == Kept(s, kinds)
           n == Count(s)
           Good(i) == KeptSoFar(k, s, E, kinds, p, i)
           Bad == {i \in 0 .. n : ~Good(i)}
<1>0. /\ n \in Nat /\ s.entries \in Seq(E) /\ n = Len(s.entries)
      /\ \A i \in 1 .. n : s.entries[i] \in E
  BY LenProperties, ElementOfSeq DEF WellFormed, Count
<1>1. \A i \in 0 .. n :
        k[i] = IF i = 0 THEN <<>> ELSE KeptStep(s, kinds, i, k[i - 1])
  BY KeptEquation
<1> HIDE DEF k
<1>2. SUFFICES ASSUME Bad # {} PROVE FALSE
  BY DEF k
<1>3. PICK m \in Bad : \A y \in Bad : m <= y
  <2>1. Bad \subseteq Nat
    BY <1>0
  <2> HIDE DEF Bad
  <2> QED BY <2>1, <1>2, NatMinimum
<1>4. m \in 0 .. n /\ ~Good(m)
  OBVIOUS
<1>5. CASE m = 0
  <2>1. k[0] = <<>>
    BY <1>0, <1>1
  <2>2. k[0] \in Seq(E) /\ Len(k[0]) = 0
    BY <2>1, EmptySeq
  <2>3. 0 >= p => p = 0
    BY <1>0
  <2>4. Good(0)
    BY <2>2, <2>3 DEF KeptSoFar
  <2> QED BY <1>4, <1>5, <2>4
<1>6. CASE m # 0
  <2>1. m - 1 \in 0 .. n /\ m \in 1 .. n
    BY <1>0, <1>4, <1>6
  <2>2. Good(m - 1)
    <3>1. ~(m <= m - 1)
      BY <1>0, <2>1
    <3>2. m - 1 \notin Bad
      <4> HIDE DEF Bad
      <4> QED BY <1>3, <3>1
    <3> HIDE DEF Good
    <3> QED BY <3>2, <2>1
  <2>3. k[m] = IF s.entries[m].kind \in kinds THEN k[m - 1]
               ELSE Append(k[m - 1], s.entries[m])
    BY <1>1, <1>4, <1>6 DEF KeptStep
  <2>4. CASE s.entries[m].kind \in kinds
    <3>1. k[m] = k[m - 1]
      BY <2>3, <2>4
    <3>2. m >= p => m - 1 >= p \/ m = p
      BY <1>0, <2>1
    <3>3. Len(k[m]) \in Nat
      BY <3>1, <2>2, LenProperties DEF KeptSoFar
    <3>4. Good(m)
      BY <3>1, <3>2, <3>3, <2>1, <2>2, <1>0 DEF KeptSoFar
    <3> QED BY <3>4, <1>4
  <2>5. CASE s.entries[m].kind \notin kinds
    <3> DEFINE e == s.entries[m]
    <3>1. k[m] = Append(k[m - 1], e)
      BY <2>3, <2>5
    <3>2. e \in E
      BY <1>0, <2>1
    <3>3. /\ k[m] \in Seq(E) /\ Len(k[m - 1]) \in Nat
          /\ Len(k[m]) = Len(k[m - 1]) + 1
          /\ \A j \in 1 .. Len(k[m - 1]) : k[m][j] = k[m - 1][j]
          /\ k[m][Len(k[m - 1]) + 1] = e
      <4> HIDE DEF e
      <4> QED BY <3>1, <3>2, <2>2 DEF KeptSoFar
    <3>4. Len(k[m]) <= m
      BY <3>3, <2>2, <2>1 DEF KeptSoFar
    <3>5. \A j \in 1 .. Len(k[m]) :
            \E o \in 1 .. m : /\ k[m][j] = s.entries[o]
                              /\ s.entries[o].kind \notin kinds
      <4> SUFFICES ASSUME NEW j \in 1 .. Len(k[m])
                   PROVE  \E o \in 1 .. m : /\ k[m][j] = s.entries[o]
                                            /\ s.entries[o].kind \notin kinds
        OBVIOUS
      <4>1. CASE j = Len(k[m - 1]) + 1
        BY <4>1, <3>3, <2>5, <2>1
      <4>2. CASE j # Len(k[m - 1]) + 1
        <5>1. j \in 1 .. Len(k[m - 1])
          BY <4>2, <3>3
        <5>2. PICK o \in 1 .. m - 1 : /\ k[m - 1][j] = s.entries[o]
                                      /\ s.entries[o].kind \notin kinds
          BY <5>1, <2>2 DEF KeptSoFar
        <5> QED BY <5>1, <5>2, <3>3, <2>1
      <4> QED BY <4>1, <4>2
    <3>6. m >= p => /\ Len(k[p]) <= Len(k[m])
                    /\ \A j \in 1 .. Len(k[p]) : k[m][j] = k[p][j]
      <4>1. CASE m = p
        BY <4>1, <3>3
      <4>2. CASE m - 1 >= p
        <5>1. /\ Len(k[p]) <= Len(k[m - 1])
              /\ \A j \in 1 .. Len(k[p]) : k[m - 1][j] = k[p][j]
          BY <4>2, <2>2 DEF KeptSoFar
        <5> QED BY <5>1, <3>3
      <4> QED BY <4>1, <4>2, <1>0, <2>1
    <3> QED BY <3>3, <3>4, <3>5, <3>6, <1>4 DEF KeptSoFar
  <2> QED BY <2>4, <2>5
<1> QED BY <1>5, <1>6

(* Deleting entries by kind keeps the others, in a well-formed store no    *)
(* longer than before, and what is marked afterwards was marked before.    *)
LEMMA DeleteKindsLemma ==
  ASSUME NEW E, NEW s, WellFormed(s, E), NEW kinds
  PROVE  LET d == DeleteKinds(s, kinds) IN
         /\ WellFormed(d, E)
         /\ Count(d) <= Count(s)
         /\ \A j \in 1 .. Count(d) :
              \E o \in 1 .. Count(s) : /\ d.entries[j] = s.entries[o]
                                       /\ d.entries[j].kind \notin kinds
         /\ \A j \in 1 .. d.pos :
              \E o \in 1 .. s.pos : d.entries[j] = s.entries[o]
<1> DEFINE k == Kept(s, kinds)
           n == Count(s)
<1>0. /\ n \in Nat /\ s.pos \in Nat /\ s.pos \in 0 .. n /\ n \in 0 .. n
  BY LenProperties DEF WellFormed, Count
<1>a. /\ KeptSoFar(Kept(s, kinds), s, E, kinds, s.pos, Count(s))
      /\ KeptSoFar(Kept(s, kinds), s, E, kinds, s.pos, s.pos)
  BY <1>0, KeptLemma
<1> HIDE DEF k
<1>b. n >= s.pos /\ n = Count(s)
  BY <1>0
<1>1. /\ k[n] \in Seq(E) /\ Len(k[n]) <= n
      /\ \A j \in 1 .. Len(k[n]) :
           \E o \in 1 .. n : /\ k[n][j] = s.entries[o]
                             /\ s.entries[o].kind \notin kinds
      /\ Len(k[s.pos]) <= Len(k[n])
      /\ \A j \in 1 .. Len(k[s.pos]) : k[n][j] = k[s.pos][j]
  BY <1>0, <1>a, <1>b DEF k, KeptSoFar
<1>2. /\ k[s.pos] \in Seq(E)
      /\ \A j \in 1 .. Len(k[s.pos]) :
           \E o \in 1 .. s.pos : k[s.pos][j] = s.entries[o]
  BY <1>0, <1>a DEF k, KeptSoFar
<1>3. Len(k[s.pos]) \in Nat
  BY <1>2, LenProperties
<1>4. /\ DeleteKinds(s, kinds).entries = k[n]
      /\ DeleteKinds(s, kinds).pos = Len(k[s.pos])
      /\ DeleteKinds(s, kinds) = [entries |-> k[n], pos |-> Len(k[s.pos])]
  BY DEF DeleteKinds, k
<1> HIDE DEF n
<1>5. WellFormed(DeleteKinds(s, kinds), E)
  BY <1>1, <1>3, <1>4 DEF WellFormed, Count
<1>6. Count(DeleteKinds(s, kinds)) = Len(k[n])
  BY <1>4 DEF Count
<1> QED BY <1>1, <1>2, <1>4, <1>5, <1>6 DEF n

-----------------------------------------------------------------------------
(* The kinds in a store, the marked ones, and the current entry after each *)
(* operation.                                                              *)

LEMMA EmptyStoreKinds ==
  KindsIn(EmptyStore) = {} /\ MarkedKinds(EmptyStore) = {}
BY DEF KindsIn, MarkedKinds, EmptyStore, Count

(* The entry the encoder is at stays the current one.                      *)
LEMMA AppendedKinds ==
  ASSUME NEW E, NEW s, WellFormed(s, E), NEW e \in E
  PROVE  /\ KindsIn(Appended(s, e)) \subseteq KindsIn(s) \cup {e.kind}
         /\ MarkedKinds(Appended(s, e)) \subseteq MarkedKinds(s)
         /\ HasCurrent(s) => /\ HasCurrent(Appended(s, e))
                             /\ Current(Appended(s, e)) = Current(s)
<1> DEFINE t == Appended(s, e)
<1>0. Count(s) \in Nat /\ s.pos \in Nat /\ s.pos <= Count(s)
  BY LenProperties DEF WellFormed, Count
<1>1. /\ Count(s) \in Nat /\ s.pos \in Nat /\ s.pos <= Count(s)
      /\ Count(t) = Count(s) + 1 /\ t.pos = s.pos
      /\ \A j \in 1 .. Count(s) : t.entries[j] = s.entries[j]
      /\ t.entries[Count(s) + 1] = e
  BY <1>0, AppendedLemma
<1> HIDE DEF t
<1>2. KindsIn(t) \subseteq KindsIn(s) \cup {e.kind}
  BY <1>1 DEF KindsIn
<1>3. MarkedKinds(t) \subseteq MarkedKinds(s)
  BY <1>1 DEF MarkedKinds
<1>4. HasCurrent(s) => HasCurrent(t) /\ Current(t) = Current(s)
  BY <1>1 DEF HasCurrent, Current
<1> QED BY <1>2, <1>3, <1>4 DEF t

LEMMA PopAtKinds ==
  ASSUME NEW E, NEW s, WellFormed(s, E), NEW i \in 1 .. Count(s)
  PROVE  /\ KindsIn(PopAt(s, i)) \subseteq KindsIn(s)
         /\ MarkedKinds(PopAt(s, i)) \subseteq MarkedKinds(s)
         /\ i <= s.pos /\ HasCurrent(s) =>
              /\ HasCurrent(PopAt(s, i))
              /\ Current(PopAt(s, i)) = Current(s)
<1> DEFINE t == PopAt(s, i)
<1>1. /\ Count(s) \in Nat /\ s.pos \in Nat /\ s.pos <= Count(s)
      /\ Count(t) = Count(s) - 1
      /\ t.pos = IF s.pos >= i THEN s.pos - 1 ELSE s.pos
      /\ \A j \in 1 .. Count(s) - 1 :
           t.entries[j] = IF j < i THEN s.entries[j] ELSE s.entries[j + 1]
  BY PopAtLemma, LenProperties DEF WellFormed, Count
<1> HIDE DEF t
<1>2. ASSUME NEW j \in 1 .. Count(t)
      PROVE  \E o \in 1 .. Count(s) : t.entries[j] = s.entries[o]
  <2>1. CASE j < i
    BY <1>1, <1>2, <2>1
  <2>2. CASE ~(j < i)
    BY <1>1, <1>2, <2>2
  <2> QED BY <2>1, <2>2
<1>3. ASSUME NEW j \in 1 .. t.pos
      PROVE  \E o \in 1 .. s.pos : t.entries[j] = s.entries[o]
  <2>1. j \in 1 .. Count(s) - 1 /\ j \in 1 .. s.pos
    BY <1>1, <1>3
  <2>2. CASE j < i
    BY <1>1, <2>1, <2>2
  <2>3. CASE ~(j < i)
    <3>1. j + 1 \in 1 .. s.pos
      BY <1>1, <1>3, <2>3
    <3> QED BY <1>1, <2>1, <2>3, <3>1
  <2> QED BY <2>2, <2>3
<1>4. KindsIn(t) \subseteq KindsIn(s)
  BY <1>2 DEF KindsIn
<1>5. MarkedKinds(t) \subseteq MarkedKinds(s)
  BY <1>3 DEF MarkedKinds
<1>6. i <= s.pos /\ HasCurrent(s) => HasCurrent(t) /\ Current(t) = Current(s)
  <2> SUFFICES ASSUME i <= s.pos, HasCurrent(s)
               PROVE  HasCurrent(t) /\ Current(t) = Current(s)
    OBVIOUS
  <2>1. t.pos + 1 = s.pos /\ s.pos \in 1 .. Count(s) - 1 /\ ~(s.pos < i)
    BY <1>1 DEF HasCurrent
  <2> QED BY <1>1, <2>1 DEF HasCurrent, Current
<1> QED BY <1>4, <1>5, <1>6 DEF t

LEMMA MarkCurrentKinds ==
  ASSUME NEW E, NEW s, WellFormed(s, E), HasCurrent(s)
  PROVE  /\ KindsIn(MarkCurrent(s)) = KindsIn(s)
         /\ MarkedKinds(MarkCurrent(s))
              \subseteq MarkedKinds(s) \cup {Current(s).kind}
         /\ Current(s).kind \in KindsIn(s)
<1>1. /\ MarkCurrent(s).entries = s.entries /\ MarkCurrent(s).pos = s.pos + 1
      /\ s.pos \in Nat /\ Count(s) \in Nat /\ s.pos < Count(s)
  BY MarkCurrentLemma, LenProperties DEF WellFormed, Count, HasCurrent
<1> QED BY <1>1 DEF KindsIn, MarkedKinds, Current, Count

LEMMA DeleteKindsKinds ==
  ASSUME NEW E, NEW s, WellFormed(s, E), NEW kinds
  PROVE  /\ KindsIn(DeleteKinds(s, kinds)) \subseteq KindsIn(s) \ kinds
         /\ MarkedKinds(DeleteKinds(s, kinds)) \subseteq MarkedKinds(s)
<1> DEFINE d == DeleteKinds(s, kinds)
<1>1. /\ \A j \in 1 .. Count(d) :
           \E o \in 1 .. Count(s) : /\ d.entries[j] = s.entries[o]
                                    /\ d.entries[j].kind \notin kinds
      /\ \A j \in 1 .. d.pos :
           \E o \in 1 .. s.pos : d.entries[j] = s.entries[o]
  BY DeleteKindsLemma
<1> HIDE DEF d
<1>2. /\ KindsIn(d) \subseteq KindsIn(s) \ kinds
      /\ MarkedKinds(d) \subseteq MarkedKinds(s)
  BY <1>1 DEF KindsIn, MarkedKinds
<1> QED BY <1>2 DEF d

LEMMA UnmarkAllKinds ==
  ASSUME NEW E, NEW s, WellFormed(s, E)
  PROVE  /\ KindsIn(UnmarkAll(s)) = KindsIn(s)
         /\ MarkedKinds(UnmarkAll(s)) = {}
BY DEF WellFormed, UnmarkAll, KindsIn, MarkedKinds, Count
-----------------------------------------------------------------------------
(* Operations that take entries out keep the order of the others: t embeds *)
(* in s when every two entries of t are two of s, in the same order.       *)
Embeds(t, s) ==
  /\ \A j \in 1 .. Count(t) :
       \E o \in 1 .. Count(s) : t.entries[j] = s.entries[o]
  /\ \A j, l \in 1 .. Count(t) :
       j < l => \E o, p \in 1 .. Count(s) :
                  /\ o < p
                  /\ t.entries[j] = s.entries[o]
                  /\ t.entries[l] = s.entries[p]

(* The memmove of store_pop_at: every entry but the one popped is left.    *)
LEMMA PopAtEmbeds ==
  ASSUME NEW E, NEW s, WellFormed(s, E), NEW i \in 1 .. Count(s)
  PROVE  /\ Embeds(PopAt(s, i), s)
         /\ \A o \in 1 .. Count(s) :
              o # i => \E j \in 1 .. Count(PopAt(s, i)) :
                         PopAt(s, i).entries[j] = s.entries[o]
         /\ \A j \in 1 .. Count(PopAt(s, i)) :
              \E o \in 1 .. Count(s) :
                o # i /\ PopAt(s, i).entries[j] = s.entries[o]
<1> DEFINE t == PopAt(s, i)
           from(j) == IF j < i THEN j ELSE j + 1
<1>1. /\ Count(s) \in Nat /\ Count(t) = Count(s) - 1
      /\ \A j \in 1 .. Count(s) - 1 :
           t.entries[j] = IF j < i THEN s.entries[j] ELSE s.entries[j + 1]
  BY PopAtLemma, LenProperties DEF WellFormed, Count
<1> HIDE DEF t
<1>2. \A j \in 1 .. Count(t) :
        /\ from(j) \in 1 .. Count(s) /\ from(j) # i
        /\ t.entries[j] = s.entries[from(j)]
  BY <1>1
<1>3. \A j, l \in 1 .. Count(t) : j < l => from(j) < from(l)
  BY <1>1
<1>4. ASSUME NEW o \in 1 .. Count(s), o # i
      PROVE  \E j \in 1 .. Count(t) : t.entries[j] = s.entries[o]
  <2>1. CASE o < i
    BY <1>1, <1>4, <2>1
  <2>2. CASE ~(o < i)
    <3>1. o - 1 \in 1 .. Count(t) /\ ~(o - 1 < i) /\ o - 1 + 1 = o
      BY <1>1, <1>4, <2>2
    <3>2. t.entries[o - 1] = s.entries[o]
      BY <1>1, <3>1
    <3> QED BY <3>1, <3>2
  <2> QED BY <2>1, <2>2
<1> HIDE DEF from
<1>5. Embeds(t, s)
  BY <1>2, <1>3 DEF Embeds
<1> QED BY <1>2, <1>4, <1>5 DEF t

KeptInOrder(k, s, kinds, i) ==
  /\ \A j, l \in 1 .. Len(k[i]) :
       j < l => \E o, p \in 1 .. i : /\ o < p
                                     /\ k[i][j] = s.entries[o]
                                     /\ k[i][l] = s.entries[p]
  /\ \A o \in 1 .. i :
       s.entries[o].kind \notin kinds =>
         \E j \in 1 .. Len(k[i]) : k[i][j] = s.entries[o]

(* The loop of client_cleanup_stores leaves the entries in order, and all  *)
(* those of the other kinds.                                               *)
LEMMA KeptOrder ==
  ASSUME NEW E, NEW s, WellFormed(s, E), NEW kinds
  PROVE  \A i \in 0 .. Count(s) : KeptInOrder(Kept(s, kinds), s, kinds, i)
<1> DEFINE k == Kept(s, kinds)
           n == Count(s)
           Bad == {i \in 0 .. n : ~KeptInOrder(k, s, kinds, i)}
<1>0. n \in Nat /\ \A i \in 1 .. n : s.entries[i] \in E
  BY LenProperties, ElementOfSeq DEF WellFormed, Count
<1>1. \A i \in 0 .. n :
        k[i] = IF i = 0 THEN <<>> ELSE KeptStep(s, kinds, i, k[i - 1])
  BY KeptEquation
<1>2. \A i \in 0 .. n : KeptSoFar(k, s, E, kinds, 0, i)
  <2>1. 0 \in 0 .. n
    BY <1>0
  <2> QED BY <2>1, KeptLemma
<1> HIDE DEF k
<1>3. SUFFICES ASSUME Bad # {} PROVE FALSE
  BY DEF k
<1>4. PICK m \in Bad : \A y \in Bad : m <= y
  <2>1. Bad \subseteq Nat
    BY <1>0
  <2> HIDE DEF Bad
  <2> QED BY <2>1, <1>3, NatMinimum
<1>5. m \in 0 .. n /\ ~KeptInOrder(k, s, kinds, m)
  OBVIOUS
<1>6. CASE m = 0
  <2>1. Len(k[0]) = 0
    BY <1>0, <1>1
  <2>2. KeptInOrder(k, s, kinds, 0)
    BY <2>1 DEF KeptInOrder
  <2> QED BY <1>5, <1>6, <2>2
<1>7. CASE m # 0
  <2>1. m - 1 \in 0 .. n /\ m \in 1 .. n
    BY <1>0, <1>5, <1>7
  <2>2. KeptInOrder(k, s, kinds, m - 1)
    <3>1. ~(m <= m - 1)
      BY <1>0, <2>1
    <3>2. m - 1 \notin Bad
      <4> HIDE DEF Bad
      <4> QED BY <1>4, <3>1
    <3> QED BY <3>2, <2>1
  <2>3. k[m] = IF s.entries[m].kind \in kinds THEN k[m - 1]
               ELSE Append(k[m - 1], s.entries[m])
    BY <1>1, <1>5, <1>7 DEF KeptStep
  <2>4. CASE s.entries[m].kind \in kinds
    <3>1. k[m] = k[m - 1]
      BY <2>3, <2>4
    <3>2. KeptInOrder(k, s, kinds, m)
      BY <3>1, <2>1, <2>2, <2>4, <1>0 DEF KeptInOrder
    <3> QED BY <3>2, <1>5
  <2>5. CASE s.entries[m].kind \notin kinds
    <3> DEFINE e == s.entries[m]
               before == k[m - 1]
    <3>1. /\ Len(before) \in Nat /\ Len(k[m]) = Len(before) + 1
          /\ \A j \in 1 .. Len(before) : k[m][j] = before[j]
          /\ k[m][Len(before) + 1] = e
          /\ \A j \in 1 .. Len(before) :
               \E o \in 1 .. m - 1 : before[j] = s.entries[o]
      <4>1. before \in Seq(E) /\ e \in E /\ k[m] = Append(before, e)
        BY <1>0, <1>2, <2>1, <2>3, <2>5 DEF KeptSoFar
      <4>2. \A j \in 1 .. Len(before) :
              \E o \in 1 .. m - 1 : before[j] = s.entries[o]
        BY <1>2, <2>1 DEF KeptSoFar
      <4> HIDE DEF e, before
      <4>3. /\ Len(before) \in Nat /\ Len(k[m]) = Len(before) + 1
            /\ \A j \in 1 .. Len(before) : k[m][j] = before[j]
            /\ k[m][Len(before) + 1] = e
        BY <4>1
      <4> QED BY <4>2, <4>3
    <3>2. ASSUME NEW j \in 1 .. Len(k[m]), NEW l \in 1 .. Len(k[m]), j < l
          PROVE  \E o, p \in 1 .. m : /\ o < p
                                      /\ k[m][j] = s.entries[o]
                                      /\ k[m][l] = s.entries[p]
      <4>1. j \in 1 .. Len(before)
        BY <3>1, <3>2
      <4>2. CASE l = Len(before) + 1
        <5>1. PICK o \in 1 .. m - 1 : before[j] = s.entries[o]
          BY <3>1, <4>1
        <5>2. /\ o < m /\ o \in 1 .. m /\ m \in 1 .. m
              /\ k[m][j] = s.entries[o] /\ k[m][l] = s.entries[m]
          BY <2>1, <3>1, <4>1, <4>2, <5>1
        <5> QED BY <5>2
      <4>3. CASE l # Len(before) + 1
        <5>1. l \in 1 .. Len(before)
          BY <3>1, <4>3
        <5>2. PICK o \in 1 .. m - 1, p \in 1 .. m - 1 :
                o < p /\ before[j] = s.entries[o] /\ before[l] = s.entries[p]
          BY <2>2, <3>2, <4>1, <5>1 DEF KeptInOrder
        <5> QED BY <2>1, <3>1, <4>1, <5>1, <5>2
      <4> QED BY <4>2, <4>3
    <3>3. ASSUME NEW o \in 1 .. m, s.entries[o].kind \notin kinds
          PROVE  \E j \in 1 .. Len(k[m]) : k[m][j] = s.entries[o]
      <4>1. CASE o = m
        BY <3>1, <4>1
      <4>2. CASE o # m
        <5>1. o \in 1 .. m - 1
          BY <2>1, <4>2
        <5>2. PICK j \in 1 .. Len(before) : before[j] = s.entries[o]
          BY <2>2, <3>3, <5>1 DEF KeptInOrder
        <5> QED BY <3>1, <5>2
      <4> QED BY <4>1, <4>2
    <3>4. KeptInOrder(k, s, kinds, m)
      BY <3>2, <3>3 DEF KeptInOrder
    <3> QED BY <3>4, <1>5
  <2> QED BY <2>4, <2>5
<1> QED BY <1>6, <1>7

LEMMA DeleteKindsEmbeds ==
  ASSUME NEW E, NEW s, WellFormed(s, E), NEW kinds
  PROVE  /\ Embeds(DeleteKinds(s, kinds), s)
         /\ \A o \in 1 .. Count(s) :
              s.entries[o].kind \notin kinds =>
                \E j \in 1 .. Count(DeleteKinds(s, kinds)) :
                  DeleteKinds(s, kinds).entries[j] = s.entries[o]
<1> DEFINE d == DeleteKinds(s, kinds)
           k == Kept(s, kinds)
<1>1. Count(s) \in 0 .. Count(s)
  BY LenProperties DEF WellFormed, Count
<1>2. KeptInOrder(k, s, kinds, Count(s))
  BY <1>1, KeptOrder
<1>3. d.entries = k[Count(s)] /\ Count(d) = Len(k[Count(s)])
  BY DEF DeleteKinds, Count
<1>4. \A j \in 1 .. Count(d) :
        \E o \in 1 .. Count(s) : d.entries[j] = s.entries[o]
  BY DeleteKindsLemma
<1> HIDE DEF d, k
<1> QED BY <1>2, <1>3, <1>4 DEF Embeds, KeptInOrder, d
=============================================================================
