-------------------------------- MODULE Counting --------------------------------
(***************************************************************************)
(* Lemmas the proofs share: counting positions of a sequence, what RemoveAt*)
(* leaves, and least elements of sets of naturals.                         *)
(***************************************************************************)
EXTENDS Integers, Sequences, SequencesExt, FiniteSets, FiniteSetTheorems, SequenceTheorems, TLAPS

(* The size of an interval. *)
LEMMA IntervalSize ==
  ASSUME NEW n \in Nat
  PROVE  IsFiniteSet(1 .. n) /\ Cardinality(1 .. n) = n
<1>1. IsFiniteSet(1 .. n) /\ Cardinality(1 .. n) = (IF 1 > n THEN 0 ELSE n - 1 + 1)
  BY FS_Interval
<1> QED BY <1>1

(* A position of a tail is one less than that in the sequence. *)
LEMMA Shifted ==
  ASSUME NEW l \in Nat, NEW i \in 1 .. l - 1
  PROVE  /\ i + 1 \in 1 .. l /\ 1 < i + 1 /\ 1 \in 1 .. l
         /\ i + 1 \in 2 .. l + 1 /\ (i + 1) - 1 = i
OBVIOUS

(* A set of positions is finite. *)
LEMMA PositionsFinite ==
  ASSUME NEW n \in Nat, NEW P \in SUBSET (1 .. n)
  PROVE  IsFiniteSet(P) /\ Cardinality(P) \in Nat
<1>1. IsFiniteSet(1 .. n)
  BY FS_Interval
<1> QED BY <1>1, FS_Subset, FS_CardinalityType

(***************************************************************************)
(* Positions of a concatenation: those of the left part, and those of the  *)
(* right part moved by the length of the left.                             *)
(***************************************************************************)
Spliced(m, n, P, Q, R) ==
    /\ m \in Nat /\ n \in Nat
    /\ P \subseteq 1 .. m /\ Q \subseteq 1 .. n /\ R \subseteq 1 .. m + n
    /\ \A i \in 1 .. m : i \in R <=> i \in P
    /\ \A i \in 1 .. n : m + i \in R <=> i \in Q

LEMMA PositionsConcat ==
  ASSUME NEW m, NEW n, NEW P, NEW Q, NEW R, Spliced(m, n, P, Q, R)
  PROVE  /\ Cardinality(R) = Cardinality(P) + Cardinality(Q)
         /\ Cardinality(P) \in Nat /\ Cardinality(Q) \in Nat
<1> USE DEF Spliced
<1> DEFINE M == {i \in R : i > m}
           f == [i \in Q |-> m + i]
<1>1. IsFiniteSet(P) /\ IsFiniteSet(Q) /\ Cardinality(P) \in Nat /\ Cardinality(Q) \in Nat
  BY PositionsFinite
<1>2. f \in Bijection(Q, M)
  <2>1. f \in [Q -> M]
    OBVIOUS
  <2>2. \A i, j \in Q : f[i] = f[j] => i = j
    OBVIOUS
  <2>3. \A k \in M : \E i \in Q : f[i] = k
    <3> TAKE k \in M
    <3>1. k - m \in 1 .. n /\ m + (k - m) = k
      OBVIOUS
    <3>2. k - m \in Q
      BY <3>1
    <3> QED BY <3>1, <3>2
  <2> QED BY <2>1, <2>2, <2>3 DEF Bijection, Injection, Surjection, IsInjective
<1> HIDE DEF f
<1>3. IsFiniteSet(M) /\ Cardinality(M) = Cardinality(Q)
  BY <1>1, <1>2, FS_Bijection DEF ExistsBijection
<1>4. P \cap M = {} /\ P \cup M = R
  <2>1. \A i \in P : i \in R /\ ~(i > m)
    OBVIOUS
  <2>2. \A i \in R : i > m \/ i \in P
    OBVIOUS
  <2> QED BY <2>1, <2>2
<1> HIDE DEF M
<1>5. Cardinality(P \cap M) = 0
  BY <1>4, FS_EmptySet
<1>6. Cardinality(P \cup M) = Cardinality(P) + Cardinality(M) - Cardinality(P \cap M)
  BY <1>1, <1>3, FS_Union
<1> QED BY <1>1, <1>3, <1>4, <1>5, <1>6

(* The positions of the empty sequence, and of a sequence of one. *)
LEMMA PositionsSmall ==
  /\ \A P \in SUBSET (1 .. 0) : Cardinality(P) = 0
  /\ \A P \in SUBSET (1 .. 1) : Cardinality(P) = IF 1 \in P THEN 1 ELSE 0
<1>1. 1 .. 0 = {} /\ 1 .. 1 = {1}
  OBVIOUS
<1>2. ASSUME NEW P \in SUBSET (1 .. 1) PROVE P = {} \/ P = {1}
  BY <1>1
<1>3. Cardinality({}) = 0 /\ Cardinality({1}) = 1
  BY FS_EmptySet, FS_Singleton
<1>4. ASSUME NEW P \in SUBSET (1 .. 1)
      PROVE  Cardinality(P) = IF 1 \in P THEN 1 ELSE 0
  BY <1>2, <1>3
<1> QED BY <1>1, <1>3, <1>4

(***************************************************************************)
(* How often a sequence holds an element of a set.                         *)
(***************************************************************************)
Occurrences(seq, A) == Cardinality({i \in DOMAIN seq : seq[i] \in A})

LEMMA OccurrencesConcat ==
  ASSUME NEW S, NEW s \in Seq(S), NEW t \in Seq(S), NEW A
  PROVE  /\ Occurrences(s \o t, A) = Occurrences(s, A) + Occurrences(t, A)
         /\ Occurrences(s, A) \in Nat
<1> DEFINE P(seq) == {i \in 1 .. Len(seq) : seq[i] \in A}
<1>1. Len(s) \in Nat /\ Len(t) \in Nat
  BY LenProperties
<1>2. /\ s \o t \in Seq(S) /\ Len(s \o t) = Len(s) + Len(t)
      /\ \A i \in 1 .. Len(s) + Len(t) :
            (s \o t)[i] = IF i <= Len(s) THEN s[i] ELSE t[i - Len(s)]
  BY ConcatProperties
<1>3. DOMAIN s = 1 .. Len(s) /\ DOMAIN t = 1 .. Len(t) /\ DOMAIN (s \o t) = 1 .. Len(s \o t)
  BY <1>2, LenProperties
<1>4. \A i \in 1 .. Len(s) : i \in P(s \o t) <=> i \in P(s)
  BY <1>1, <1>2
<1>5. \A i \in 1 .. Len(t) : Len(s) + i \in P(s \o t) <=> i \in P(t)
  <2> TAKE i \in 1 .. Len(t)
  <2>1. Len(s) + i \in 1 .. Len(s) + Len(t) /\ (s \o t)[Len(s) + i] = t[i]
    BY <1>1, <1>2
  <2> QED BY <1>1, <1>2, <2>1
<1>6. Spliced(Len(s), Len(t), P(s), P(t), P(s \o t))
  BY <1>1, <1>2, <1>4, <1>5 DEF Spliced
<1> HIDE DEF P
<1>7. /\ Cardinality(P(s \o t)) = Cardinality(P(s)) + Cardinality(P(t))
      /\ Cardinality(P(s)) \in Nat
  BY <1>6, PositionsConcat
<1> QED BY <1>3, <1>7 DEF Occurrences, P

LEMMA OccurrencesSmall ==
  ASSUME NEW x, NEW A
  PROVE  /\ Occurrences(<<>>, A) = 0
         /\ x \in A => Occurrences(<<x>>, A) = 1
         /\ x \notin A => Occurrences(<<x>>, A) = 0
<1> DEFINE P == {i \in 1 .. 1 : <<x>>[i] \in A}
<1>1. Occurrences(<<x>>, A) = Cardinality(P) /\ (1 \in P <=> x \in A)
  BY DEF Occurrences
<1>2. Occurrences(<<>>, A) = Cardinality({})
  BY DEF Occurrences
<1>3. P \in SUBSET (1 .. 1)
  OBVIOUS
<1> HIDE DEF P
<1> QED BY <1>1, <1>2, <1>3, PositionsSmall, FS_EmptySet

(* A nonempty sequence is its head before its tail. *)
LEMMA HeadBeforeTail ==
  ASSUME NEW S, NEW s \in Seq(S), s # <<>>
  PROVE  /\ Head(s) \in S /\ Tail(s) \in Seq(S) /\ <<Head(s)>> \in Seq(S)
         /\ s = <<Head(s)>> \o Tail(s) /\ Head(s) = s[1] /\ 1 \in DOMAIN s
<1>1. Head(s) \in S /\ Tail(s) \in Seq(S) /\ Head(s) = s[1] /\ Len(s) \in Nat \ {0}
      /\ Len(Tail(s)) = Len(s) - 1 /\ \A i \in 1 .. Len(Tail(s)) : Tail(s)[i] = s[i + 1]
  BY HeadTailProperties, EmptySeq
<1> DEFINE h == <<Head(s)>>
<1>2. h \in Seq(S) /\ Len(h) = 1 /\ h[1] = s[1]
  BY <1>1
<1> HIDE DEF h
<1>3. /\ h \o Tail(s) \in Seq(S) /\ Len(h \o Tail(s)) = Len(h) + Len(Tail(s))
      /\ \A i \in 1 .. Len(h) + Len(Tail(s)) :
            (h \o Tail(s))[i] = IF i <= Len(h) THEN h[i] ELSE Tail(s)[i - Len(h)]
  BY <1>1, <1>2, ConcatProperties
<1>4. /\ Len(h \o Tail(s)) = Len(s)
      /\ \A i \in 1 .. Len(s) : (h \o Tail(s))[i] = s[i]
  BY <1>1, <1>2, <1>3
<1>5. s = h \o Tail(s)
  BY <1>3, <1>4, SeqEqual
<1> QED BY <1>1, <1>2, <1>5 DEF h

(***************************************************************************)
(* RemoveAt: the rest keeps its order.                                     *)
(***************************************************************************)
Parted(s, i, a, b) ==
    /\ s = (a \o <<s[i]>>) \o b
    /\ RemoveAt(s, i) = a \o b
    /\ Len(a) = i - 1 /\ Len(b) = Len(s) - i

LEMMA RemoveAtParts ==
  ASSUME NEW S, NEW s \in Seq(S), NEW i \in 1 .. Len(s)
  PROVE  \E a \in Seq(S) : \E b \in Seq(S) : Parted(s, i, a, b)
<1>1. Len(s) \in Nat /\ \A j \in 1 .. Len(s) : s[j] \in S
  BY LenProperties, ElementOfSeq
<1> DEFINE a == SubSeq(s, 1, i - 1)
           b == SubSeq(s, i + 1, Len(s))
           c == <<s[i]>>
<1>2. /\ a \in Seq(S) /\ Len(a) = i - 1 /\ \A j \in 1 .. i - 1 : a[j] = s[j]
  <2>1. \A j \in 1 .. i - 1 : s[j] \in S
    BY <1>1
  <2> QED BY <1>1, <2>1, SubSeqProperties
<1>3. /\ b \in Seq(S) /\ Len(b) = Len(s) - i /\ \A j \in 1 .. Len(s) - i : b[j] = s[i + j]
  <2>1. \A j \in i + 1 .. Len(s) : s[j] \in S
    BY <1>1
  <2> QED BY <1>1, <2>1, SubSeqProperties
<1>4. c \in Seq(S) /\ Len(c) = 1 /\ c[1] = s[i]
  BY <1>1
<1>5. RemoveAt(s, i) = a \o b
  BY DEF RemoveAt
<1> HIDE DEF a, b, c
<1>6. /\ a \o c \in Seq(S) /\ Len(a \o c) = i
      /\ \A j \in 1 .. i : (a \o c)[j] = s[j]
  <2>1. /\ a \o c \in Seq(S) /\ Len(a \o c) = Len(a) + Len(c)
        /\ \A j \in 1 .. Len(a) + Len(c) :
             (a \o c)[j] = IF j <= Len(a) THEN a[j] ELSE c[j - Len(a)]
    BY <1>2, <1>4, ConcatProperties
  <2> QED BY <1>1, <1>2, <1>4, <2>1
<1>7. /\ (a \o c) \o b \in Seq(S) /\ Len((a \o c) \o b) = Len(s)
      /\ \A j \in 1 .. Len(s) : ((a \o c) \o b)[j] = s[j]
  <2> DEFINE d == a \o c
  <2>1. d \in Seq(S) /\ Len(d) = i /\ \A j \in 1 .. i : d[j] = s[j]
    BY <1>6
  <2> HIDE DEF d
  <2>2. /\ d \o b \in Seq(S) /\ Len(d \o b) = Len(d) + Len(b)
        /\ \A j \in 1 .. Len(d) + Len(b) :
             (d \o b)[j] = IF j <= Len(d) THEN d[j] ELSE b[j - Len(d)]
    BY <2>1, <1>3, ConcatProperties
  <2> QED BY <1>1, <1>3, <2>1, <2>2 DEF d
<1>8. s = (a \o c) \o b
  BY <1>1, <1>7, SeqEqual
<1>9. Parted(s, i, a, b)
  BY <1>2, <1>3, <1>5, <1>8 DEF c, Parted
<1> QED BY <1>2, <1>3, <1>9

(* One more element, or one less, changes the count by that element. *)
Counted(x, A, less, more) ==
    (x \in A => more = less + 1) /\ (x \notin A => more = less)

LEMMA OccurrencesAppend ==
  ASSUME NEW S, NEW s \in Seq(S), NEW x \in S, NEW A
  PROVE  Counted(x, A, Occurrences(s, A), Occurrences(Append(s, x), A))
<1> DEFINE h == <<x>>
<1>1. Append(s, x) = s \o h
  BY AppendIsConcat
<1>2. h \in Seq(S)
  OBVIOUS
<1>3. /\ x \in A => Occurrences(h, A) = 1
      /\ x \notin A => Occurrences(h, A) = 0
  BY OccurrencesSmall
<1> HIDE DEF h
<1>4. Occurrences(s \o h, A) = Occurrences(s, A) + Occurrences(h, A)
      /\ Occurrences(s, A) \in Nat
  BY <1>2, OccurrencesConcat
<1> QED BY <1>1, <1>3, <1>4 DEF Counted

LEMMA OccurrencesTail ==
  ASSUME NEW S, NEW s \in Seq(S), s # <<>>, NEW A
  PROVE  Counted(Head(s), A, Occurrences(Tail(s), A), Occurrences(s, A))
<1> DEFINE h == <<Head(s)>>
<1>1. h \in Seq(S) /\ Tail(s) \in Seq(S) /\ s = h \o Tail(s)
  BY HeadBeforeTail
<1>2. /\ Head(s) \in A => Occurrences(h, A) = 1
      /\ Head(s) \notin A => Occurrences(h, A) = 0
  BY OccurrencesSmall
<1> HIDE DEF h
<1> DEFINE t == Tail(s)
<1>3. t \in Seq(S) /\ s = h \o t
  BY <1>1
<1> HIDE DEF t
<1>4. Occurrences(h \o t, A) = Occurrences(h, A) + Occurrences(t, A)
  BY <1>1, <1>3, OccurrencesConcat
<1>5. Occurrences(t, A) \in Nat
  BY <1>3, OccurrencesConcat
<1>6. Counted(Head(s), A, Occurrences(t, A), Occurrences(s, A))
  BY <1>2, <1>3, <1>4, <1>5 DEF Counted
<1> QED BY <1>6 DEF t

LEMMA OccurrencesRemoveAt ==
  ASSUME NEW S, NEW s \in Seq(S), NEW i \in 1 .. Len(s), NEW A
  PROVE  Counted(s[i], A, Occurrences(RemoveAt(s, i), A), Occurrences(s, A))
<1> DEFINE c == <<s[i]>>
<1>1. PICK a \in Seq(S), b \in Seq(S) : Parted(s, i, a, b)
  BY RemoveAtParts
<1>2. c \in Seq(S)
  BY ElementOfSeq
<1>3. /\ s[i] \in A => Occurrences(c, A) = 1
      /\ s[i] \notin A => Occurrences(c, A) = 0
  BY OccurrencesSmall
<1>4. s = (a \o c) \o b /\ RemoveAt(s, i) = a \o b
  BY <1>1 DEF Parted
<1> HIDE DEF c
<1>5. a \o c \in Seq(S)
  BY <1>2, ConcatProperties
<1>6. Occurrences((a \o c) \o b, A) = Occurrences(a \o c, A) + Occurrences(b, A)
  BY <1>5, OccurrencesConcat
<1>7. Occurrences(a \o c, A) = Occurrences(a, A) + Occurrences(c, A)
  BY <1>2, OccurrencesConcat
<1>8. /\ Occurrences(a \o b, A) = Occurrences(a, A) + Occurrences(b, A)
      /\ Occurrences(a, A) \in Nat /\ Occurrences(b, A) \in Nat
  BY OccurrencesConcat
<1> QED BY <1>3, <1>4, <1>6, <1>7, <1>8 DEF Counted

(* What RemoveAt leaves is a sequence of the same elements, one shorter. *)
LEMMA RemoveAtTyped ==
  ASSUME NEW S, NEW s \in Seq(S), NEW i \in 1 .. Len(s)
  PROVE  RemoveAt(s, i) \in Seq(S) /\ Len(RemoveAt(s, i)) = Len(s) - 1
<1>1. PICK a \in Seq(S), b \in Seq(S) : Parted(s, i, a, b)
  BY RemoveAtParts
<1>2. RemoveAt(s, i) = a \o b /\ Len(a) = i - 1 /\ Len(b) = Len(s) - i
  BY <1>1 DEF Parted
<1>3. a \o b \in Seq(S) /\ Len(a \o b) = Len(a) + Len(b)
  BY ConcatProperties
<1>4. Len(s) \in Nat
  BY LenProperties
<1> QED BY <1>2, <1>3, <1>4

(* A nonempty set of naturals has a least element. *)
LEMMA Least ==
  ASSUME NEW T \in SUBSET Nat, T # {}
  PROVE  \E n \in T : \A m \in T : n <= m
<1>1. PICK k \in T : TRUE  OBVIOUS
<1> DEFINE I(n) == 0 .. n
           F == {I(n) : n \in {m \in T : m <= k}}
<1>2. IsFiniteSet(I(k))
  BY FS_Interval
<1>3. IsWellFoundedOn(StrictSubsetOrdering(I(k)), FiniteSubsetsOf(I(k)))
  BY FS_StrictSubsetOrderingWellFounded
<1>4. F \subseteq FiniteSubsetsOf(I(k)) /\ F # {}
  <2>1. \A n \in T : n <= k => I(n) \subseteq I(k)  OBVIOUS
  <2>2. \A n \in T : IsFiniteSet(I(n)) BY FS_Interval
  <2> QED BY <2>1, <2>2, <1>1 DEF FiniteSubsetsOf
<1> HIDE DEF F
<1>5. PICK x \in F : \A y \in F : ~ (<<y, x>> \in StrictSubsetOrdering(I(k)))
  BY <1>3, <1>4, WFMin
<1>6. PICK n \in T : n <= k /\ x = I(n)
  BY DEF F
<1>7. ASSUME NEW m \in T, m < n PROVE FALSE
  <2>1. I(m) \in F BY <1>6, <1>7 DEF F
  <2>2. I(m) \subseteq I(n) /\ n \in I(n) /\ n \notin I(m)  BY <1>7
  <2> HIDE DEF I
  <2>3. <<I(m), x>> \in StrictSubsetOrdering(I(k))
    <3>1. I(m) \in SUBSET I(k) /\ I(n) \in SUBSET I(k)
      BY <1>4, <1>6, <2>1 DEF FiniteSubsetsOf
    <3> QED  BY <3>1, <2>2, <1>6 DEF StrictSubsetOrdering
  <2> QED BY <1>5, <2>1, <2>3
<1> QED BY <1>6, <1>7

(* Induction: a set that holds zero and the successors of its elements. *)
LEMMA Induction ==
  ASSUME NEW T \in SUBSET Nat, 0 \in T, \A n \in T : n + 1 \in T
  PROVE  T = Nat
<1>1. SUFFICES ASSUME Nat \ T # {} PROVE FALSE
  OBVIOUS
<1>2. PICK n \in Nat \ T : \A m \in Nat \ T : n <= m
  BY <1>1, Least
<1>3. n # 0 /\ n - 1 \in Nat /\ ~(n <= n - 1) /\ n = (n - 1) + 1
  BY <1>2
<1> QED BY <1>2, <1>3

(* The maximum of a nonempty set of positions is its greatest element. *)
LEMMA GreatestOf ==
  ASSUME NEW n \in Nat, NEW P \in SUBSET (1 .. n), P # {}
  PROVE  \E x \in P : \A y \in P : y <= x
<1> DEFINE T == {m \in Nat : \A y \in P : y <= m}
<1>1. n \in T
  OBVIOUS
<1> HIDE DEF T
<1>2. T \in SUBSET Nat
  BY DEF T
<1>3. PICK m \in T : \A k \in T : m <= k
  BY <1>1, <1>2, Least
<1>4. m \in Nat /\ \A y \in P : y <= m
  BY <1>3 DEF T
<1>5. CASE m \in P
  BY <1>4, <1>5
<1>6. CASE m \notin P
  <2>1. PICK y \in P : y \in 1 .. n /\ y <= m
    BY <1>4
  <2>2. m - 1 \in Nat /\ \A z \in P : z <= m - 1
    BY <1>4, <1>6, <2>1
  <2>3. m - 1 \in T
    BY <2>2 DEF T
  <2> QED BY <1>3, <1>4, <2>3
<1> QED BY <1>5, <1>6

LEMMA MaxIs ==
  ASSUME NEW n \in Nat, NEW P \in SUBSET (1 .. n), P # {}
  PROVE  Max(P) \in P /\ \A y \in P : y <= Max(P)
<1>1. PICK x \in P : \A y \in P : x >= y
  <2>1. PICK x \in P : \A y \in P : y <= x
    BY GreatestOf
  <2> QED BY <2>1
<1>2. Max(P) \in P /\ \A y \in P : Max(P) >= y
  BY <1>1 DEF Max
<1> QED BY <1>2

-----------------------------------------------------------------------------
(* A finite set of naturals can be listed in increasing order, and a list  *)
(* of that length names every member.                                      *)

Increasing(s) == \A i, j \in DOMAIN s : i < j => s[i] < s[j]
Listed(D, n) == \E s \in [1 .. n -> D] : Increasing(s)

LEMMA ListedMore ==
  ASSUME NEW n \in Nat,
         \A D \in SUBSET Nat : IsFiniteSet(D) /\ Cardinality(D) = n => Listed(D, n),
         NEW D \in SUBSET Nat, IsFiniteSet(D), Cardinality(D) = n + 1
  PROVE  Listed(D, n + 1)
<1>1. D # {}
  BY FS_EmptySet
<1>2. PICK x \in D : \A y \in D : x <= y
  BY <1>1, Least
<1>3. IsFiniteSet(D \ {x}) /\ Cardinality(D \ {x}) = n
  BY <1>2, FS_RemoveElement
<1>4. PICK s \in [1 .. n -> D \ {x}] : Increasing(s)
  BY <1>3 DEF Listed
<1> DEFINE t == [i \in 1 .. n + 1 |-> IF i = 1 THEN x ELSE s[i - 1]]
<1>5. t \in [1 .. n + 1 -> D]
  <2>1. \A i \in 1 .. n + 1 : i # 1 => i - 1 \in 1 .. n
    OBVIOUS
  <2>2. \A i \in 1 .. n : s[i] \in D
    BY <1>4
  <2> QED BY <1>2, <2>1, <2>2
<1>6. ASSUME NEW i \in 1 .. n + 1, NEW j \in 1 .. n + 1, i < j PROVE t[i] < t[j]
  <2>1. j - 1 \in 1 .. n /\ t[j] = s[j - 1]
    BY <1>6
  <2>2. CASE i = 1
    <3>1. s[j - 1] \in D /\ s[j - 1] # x /\ t[i] = x
      BY <1>4, <2>1, <2>2
    <3>2. x <= s[j - 1] /\ x \in Nat /\ s[j - 1] \in Nat
      BY <1>2, <3>1
    <3>3. x < s[j - 1]
      BY <3>1, <3>2
    <3> HIDE DEF t
    <3> QED BY <2>1, <3>1, <3>3
  <2>3. CASE i # 1
    <3>1. i - 1 \in 1 .. n /\ t[i] = s[i - 1] /\ i - 1 < j - 1
      BY <1>6, <2>3
    <3>2. DOMAIN s = 1 .. n
      BY <1>4
    <3> QED BY <1>4, <2>1, <3>1, <3>2 DEF Increasing
  <2> QED BY <2>2, <2>3
<1>7. DOMAIN t = 1 .. n + 1
  OBVIOUS
<1> HIDE DEF t
<1>8. Increasing(t)
  BY <1>6, <1>7 DEF Increasing
<1> QED BY <1>5, <1>8 DEF Listed

LEMMA ListedAll ==
  ASSUME NEW D \in SUBSET Nat, IsFiniteSet(D)
  PROVE  Listed(D, Cardinality(D))
<1> DEFINE Fits(n) == \A E \in SUBSET Nat : IsFiniteSet(E) /\ Cardinality(E) = n => Listed(E, n)
           T == {n \in Nat : Fits(n)}
<1>1. Fits(0)
  <2>1. ASSUME NEW E \in SUBSET Nat PROVE Listed(E, 0)
    <3> DEFINE s == [i \in 1 .. 0 |-> 0]
    <3>1. 1 .. 0 = {}
      OBVIOUS
    <3>2. s \in [1 .. 0 -> E] /\ DOMAIN s = {}
      BY <3>1
    <3> HIDE DEF s
    <3> QED BY <3>2 DEF Listed, Increasing
  <2> QED BY <2>1
<1>2. ASSUME NEW n \in Nat, Fits(n) PROVE Fits(n + 1)
  BY <1>2, ListedMore
<1>3. Cardinality(D) \in Nat
  BY FS_CardinalityType
<1> HIDE DEF Fits
<1>4. T \in SUBSET Nat /\ 0 \in T /\ \A n \in T : n + 1 \in T
  BY <1>1, <1>2
<1>5. T = Nat
  <2> HIDE DEF T
  <2> QED BY <1>4, Induction
<1>6. Fits(Cardinality(D))
  BY <1>3, <1>5
<1> QED BY <1>6 DEF Fits

LEMMA ListNames ==
  ASSUME NEW D \in SUBSET Nat, IsFiniteSet(D), NEW s \in [1 .. Cardinality(D) -> D], Increasing(s)
  PROVE  /\ {s[i] : i \in DOMAIN s} = D
         /\ s \in Seq(D)
<1> DEFINE n == Cardinality(D)
<1>1. n \in Nat
  BY FS_CardinalityType
<1>2. IsFiniteSet(1 .. n) /\ Cardinality(1 .. n) = n
  BY <1>1, FS_Interval
<1> HIDE DEF n
<1>3. s \in [1 .. n -> D] /\ DOMAIN s = 1 .. n
  BY DEF n
<1>4. \A i, j \in 1 .. n : s[i] = s[j] => i = j
  <2>1. ASSUME NEW i \in 1 .. n, NEW j \in 1 .. n, i < j PROVE s[i] # s[j]
    <3>1. s[i] < s[j] /\ s[i] \in Nat /\ s[j] \in Nat
      BY <1>3, <2>1 DEF Increasing
    <3> QED BY <3>1
  <2>2. \A i, j \in 1 .. n : i = j \/ i < j \/ j < i
    BY <1>1
  <2> QED BY <2>1, <2>2
<1>5. s \in Injection(1 .. n, D)
  BY <1>3, <1>4 DEF Injection, IsInjective
<1>6. s \in Surjection(1 .. n, D)
  BY <1>2, <1>5, FS_Injection DEF n
<1>7. \A d \in D : \E i \in 1 .. n : s[i] = d
  BY <1>6 DEF Surjection
<1>8. s \in Seq(D)
  BY <1>1, <1>3
<1>9. \A i \in 1 .. n : s[i] \in D
  BY <1>3
<1>10. {s[i] : i \in DOMAIN s} = D
  <2>1. {s[i] : i \in 1 .. n} = D
    BY <1>7, <1>9
  <2> QED BY <1>3, <2>1
<1> QED BY <1>8, <1>10
=============================================================================
