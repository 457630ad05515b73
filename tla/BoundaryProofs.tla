----------------------------- MODULE BoundaryProofs -----------------------------
(***************************************************************************)
(* Proofs about two parts of the boundary of the system.  The loading of   *)
(* images, for every page size, limit, file and setup; and the workbench's *)
(* documents, for every set of texts and settings, and every bound on      *)
(* revisions, identifiers and documents.                                   *)
(***************************************************************************)
EXTENDS LoadingProperties, DocumentsProperties, Counting


-----------------------------------------------------------------------------
(* Pages.                                                                  *)

LEMMA Division ==
    ASSUME NEW p \in Nat \ {0}, NEW a \in Nat
    PROVE  /\ a \div p \in Nat /\ a % p \in 0 .. p - 1
           /\ a = p * (a \div p) + (a % p)
OBVIOUS

LEMMA Quotient ==
    ASSUME NEW p \in Nat \ {0}, NEW a \in Nat, NEW q \in Nat, NEW r \in 0 .. p - 1, a = p * q + r
    PROVE  a \div p = q /\ a % p = r
OBVIOUS

LEMMA MultipleGrows ==
    ASSUME NEW p \in Nat \ {0}, NEW a \in Nat, NEW b \in Nat, a < b
    PROVE  p * a \in Nat /\ p * b \in Nat /\ p * a + p <= p * b
OBVIOUS

(* The first address of a page. *)
Begins(q) == Page * q

LEMMA BeginsGrows ==
    ASSUME NEW q \in Nat
    PROVE  /\ Page \in Nat \ {0} /\ Begins(q) \in Nat /\ Begins(q) % Page = 0
           /\ \A r \in Nat : q < r => Begins(q) + Page <= Begins(r)
<1>1. Page \in Nat \ {0}
  BY LoadingAssumption
<1>2. Page * q \in Nat
  BY <1>1
<1>3. Page * q = Page * q + 0 /\ 0 \in 0 .. Page - 1
  BY <1>1, <1>2
<1>4. (Page * q) % Page = 0
  BY <1>1, <1>2, <1>3, Quotient
<1>5. \A r \in Nat : q < r => Page * q + Page <= Page * r
  BY <1>1, MultipleGrows
<1>. QED
  BY <1>1, <1>2, <1>4, <1>5 DEF Begins

LEMMA PageHolds ==
    ASSUME NEW a \in Nat
    PROVE  /\ a \div Page \in Nat
           /\ Begins(a \div Page) <= a /\ a < Begins(a \div Page) + Page
           /\ a % Page = 0 => a = Begins(a \div Page)
           /\ PageStart(a) = Begins(a \div Page)
<1>1. Page \in Nat \ {0}
  BY LoadingAssumption
<1>2. PICK q : q = a \div Page
  OBVIOUS
<1>3. PICK r : r = a % Page
  OBVIOUS
<1>4. q \in Nat /\ r \in 0 .. Page - 1 /\ a = Begins(q) + r
  BY <1>1, <1>2, <1>3, Division DEF Begins
<1>5. Begins(q) \in Nat
  BY <1>4, BeginsGrows
<1>6. PageStart(a) = a - r
  BY <1>3 DEF PageStart
<1>7. /\ q \in Nat /\ Begins(q) <= a /\ a < Begins(q) + Page
      /\ r = 0 => a = Begins(q)
      /\ a - r = Begins(q)
  BY <1>1, <1>4, <1>5
<1>. QED
  BY <1>2, <1>3, <1>6, <1>7

LEMMA PageIs ==
    ASSUME NEW a \in Nat, NEW q \in Nat, Begins(q) <= a, a < Begins(q) + Page
    PROVE  a \div Page = q
<1>1. PICK p : p = a \div Page
  OBVIOUS
<1>2. p \in Nat /\ Begins(p) <= a /\ a < Begins(p) + Page
  BY <1>1, PageHolds
<1>3. Begins(p) \in Nat /\ Begins(q) \in Nat /\ Page \in Nat
  BY <1>2, BeginsGrows
<1>4. ~(p < q)
  BY <1>2, <1>3, BeginsGrows
<1>5. ~(q < p)
  BY <1>2, <1>3, BeginsGrows
<1>. QED
  BY <1>1, <1>2, <1>4, <1>5

(* Where a page begins, the addresses of one page are on one side. *)
LEMMA Aligned ==
    ASSUME NEW x \in Nat, x % Page = 0, NEW a \in Nat, NEW b \in Nat,
           a \div Page = b \div Page, x <= a
    PROVE  x <= b
<1>1. PICK k : k = x \div Page
  OBVIOUS
<1>2. PICK q : q = a \div Page
  OBVIOUS
<1>3. k \in Nat /\ x = Begins(k)
  BY <1>1, PageHolds
<1>4. q \in Nat /\ a < Begins(q) + Page /\ Begins(q) <= b
  BY <1>2, PageHolds
<1>5. Begins(k) \in Nat /\ Begins(q) \in Nat /\ Page \in Nat
  BY <1>3, <1>4, BeginsGrows
<1>6. ~(q < k)
  BY <1>3, <1>4, <1>5, BeginsGrows
<1>7. q = k \/ k < q
  BY <1>3, <1>4, <1>6
<1>8. CASE q = k
  BY <1>3, <1>4, <1>8
<1>9. CASE k < q
  <2>1. Begins(k) + Page <= Begins(q)
    BY <1>3, <1>4, <1>9, BeginsGrows
  <2>. QED
    BY <1>3, <1>4, <1>5, <2>1
<1>. QED
  BY <1>7, <1>8, <1>9

(* The least page beginning that is not before n. *)
LEMMA NextHolds ==
    ASSUME NEW n \in Nat
    PROVE  /\ NextMultiple(n) \in Nat /\ NextMultiple(n) % Page = 0
           /\ n <= NextMultiple(n)
           /\ \A x \in Nat : x % Page = 0 /\ n <= x => NextMultiple(n) <= x
<1>1. Page \in Nat \ {0}
  BY LoadingAssumption
<1>2. PICK a : a = n + Page - 1
  OBVIOUS
<1>3. PICK q : q = a \div Page
  OBVIOUS
<1>4. a \in Nat
  BY <1>1, <1>2
<1>5. q \in Nat /\ Begins(q) <= a /\ a < Begins(q) + Page
  BY <1>3, <1>4, PageHolds
<1>6. Begins(q) \in Nat /\ Begins(q) % Page = 0
  BY <1>5, BeginsGrows
<1>7. NextMultiple(n) = Begins(q)
  <2>1. q * Page = Page * q
    BY <1>1, <1>5
  <2>. QED
    BY <1>2, <1>3, <2>1 DEF NextMultiple, Begins
<1>8. ASSUME NEW x \in Nat, x % Page = 0, n <= x PROVE Begins(q) <= x
  <2>1. PICK k : k = x \div Page
    OBVIOUS
  <2>2. k \in Nat /\ x = Begins(k)
    BY <1>8, <2>1, PageHolds
  <2>3. ~(k < q)
    <3>1. k < q => Begins(k) + Page <= Begins(q)
      BY <1>5, <2>2, BeginsGrows
    <3>. QED
      BY <1>1, <1>2, <1>5, <1>6, <1>8, <2>2, <3>1
  <2>4. k = q \/ q < k
    BY <1>5, <2>2, <2>3
  <2>5. q < k => Begins(q) + Page <= Begins(k)
    BY <1>5, <2>2, BeginsGrows
  <2>. QED
    BY <1>1, <1>6, <2>2, <2>4, <2>5
<1>9. n <= Begins(q)
  BY <1>1, <1>2, <1>5, <1>6
<1>. QED
  BY <1>6, <1>7, <1>8, <1>9
LEMMA PageStartGrows ==
    ASSUME NEW a \in Nat, NEW b \in Nat, a <= b
    PROVE  PageStart(a) <= PageStart(b)
<1>1. PICK q : q = b \div Page
  OBVIOUS
<1>2. q \in Nat /\ PageStart(b) = Begins(q) /\ Begins(q) \in Nat /\ Page \in Nat \ {0}
  BY <1>1, PageHolds, BeginsGrows
<1>3. Begins(q) \div Page = q
  BY <1>2, PageIs
<1>4. PageStart(a) \in Nat /\ PageStart(a) % Page = 0 /\ PageStart(a) <= b
  <2>1. PICK p : p = a \div Page
    OBVIOUS
  <2>2. p \in Nat /\ PageStart(a) = Begins(p) /\ Begins(p) <= a
    BY <2>1, PageHolds
  <2>3. Begins(p) \in Nat /\ Begins(p) % Page = 0
    BY <2>2, BeginsGrows
  <2>. QED
    BY <2>2, <2>3
<1>. QED
  BY <1>1, <1>2, <1>3, <1>4, Aligned

(* The pages of a range are those that its addresses are on. *)
Spans(range, a) == range.start <= a /\ a < End(range)
PagesIn(range) == {b \div Page : b \in range.start .. range.start + range.length - 1}
Ranges == [start : Nat, length : Nat \ {0}]

LEMMA PagesOfIs ==
    ASSUME NEW range \in Ranges
    PROVE  /\ PagesOf(range) \in Ranges
           /\ PagesOf(range).start = PageStart(range.start)
           /\ PagesOf(range).start % Page = 0 /\ End(PagesOf(range)) % Page = 0
           /\ ContainsRange(PagesOf(range), range)
           /\ \A a \in Nat : Spans(PagesOf(range), a) <=> a \div Page \in PagesIn(range)
<1>1. PICK s : s = range.start
  OBVIOUS
<1>2. PICK e : e = End(range)
  OBVIOUS
<1>3. s \in Nat /\ e \in Nat /\ s < e /\ range.start + range.length = e
  BY <1>1, <1>2 DEF Ranges, End
<1>4. PICK x : x = PageStart(s)
  OBVIOUS
<1>5. PICK y : y = NextMultiple(e)
  OBVIOUS
<1>6. PICK p : p = s \div Page
  OBVIOUS
<1>7. /\ p \in Nat /\ x = Begins(p) /\ x \in Nat /\ x % Page = 0 /\ Page \in Nat \ {0}
      /\ x <= s /\ s < x + Page
  BY <1>3, <1>4, <1>6, PageHolds, BeginsGrows
<1>8. /\ y \in Nat /\ y % Page = 0 /\ e <= y
      /\ \A z \in Nat : z % Page = 0 /\ e <= z => y <= z
  BY <1>3, <1>5, NextHolds
<1>9. PagesOf(range) = [start |-> x, length |-> y - x]
  BY <1>1, <1>2, <1>4, <1>5 DEF PagesOf, AddressRange
<1>10. /\ PagesOf(range) \in Ranges /\ PagesOf(range).start = x
       /\ End(PagesOf(range)) = y
  BY <1>3, <1>7, <1>8, <1>9 DEF Ranges, End
<1>11. ASSUME NEW a \in Nat, NEW b \in s .. e - 1, b \div Page = a \div Page
       PROVE  x <= a /\ a < y
  <2>1. b \in Nat /\ x <= b /\ ~(y <= b)
    BY <1>3, <1>7, <1>8
  <2>2. x <= a
    BY <1>7, <1>11, <2>1, Aligned
  <2>3. ~(y <= a)
    BY <1>8, <1>11, <2>1, Aligned
  <2>. QED
    BY <1>8, <2>2, <2>3
<1>12. ASSUME NEW a \in Nat, x <= a, a < y
       PROVE  \E b \in s .. e - 1 : b \div Page = a \div Page
  <2>1. CASE a < s
    <3>1. a \div Page = p /\ s \div Page = p
      BY <1>3, <1>6, <1>7, <1>12, <2>1, PageIs
    <3>2. s \in s .. e - 1
      BY <1>3
    <3>. QED
      BY <3>1, <3>2
  <2>2. CASE s <= a /\ a < e
    <3>1. a \in s .. e - 1
      BY <1>3, <2>2
    <3>. QED
      BY <3>1
  <2>3. CASE e <= a
    <3>1. PICK q : q = a \div Page
      OBVIOUS
    <3>2. /\ q \in Nat /\ Begins(q) \in Nat /\ Begins(q) % Page = 0
          /\ Begins(q) <= a /\ a < Begins(q) + Page
      BY <3>1, PageHolds, BeginsGrows
    <3>3. ~(e <= Begins(q))
      BY <1>3, <1>8, <1>12, <3>2
    <3>4. e - 1 \in Nat /\ e - 1 \in s .. e - 1 /\ Begins(q) <= e - 1 /\ e - 1 < Begins(q) + Page
      BY <1>3, <1>7, <2>3, <3>2, <3>3
    <3>5. (e - 1) \div Page = q
      BY <3>2, <3>4, PageIs
    <3>. QED
      BY <3>1, <3>4, <3>5
  <2>. QED
    BY <1>3, <2>1, <2>2, <2>3
<1>13. PagesIn(range) = {b \div Page : b \in s .. e - 1}
  <2>1. range.start + range.length - 1 = e - 1 /\ range.length \in Nat
    BY <1>1, <1>3 DEF Ranges
  <2>. QED
    BY <1>1, <2>1 DEF PagesIn
<1>14. ASSUME NEW a \in Nat
       PROVE  Spans(PagesOf(range), a) <=> a \div Page \in PagesIn(range)
  <2>1. Spans(PagesOf(range), a) <=> x <= a /\ a < y
    BY <1>10 DEF Spans
  <2>2. a \div Page \in PagesIn(range) <=> \E b \in s .. e - 1 : b \div Page = a \div Page
    BY <1>13
  <2>. QED
    BY <1>11, <1>12, <2>1, <2>2
<1>15. ContainsRange(PagesOf(range), range)
  BY <1>1, <1>2, <1>3, <1>7, <1>8, <1>10 DEF ContainsRange
<1>. QED
  BY <1>1, <1>4, <1>7, <1>8, <1>10, <1>14, <1>15

(* A range of whole pages holds all or none of a page. *)
LEMMA WholePages ==
    ASSUME NEW range \in Ranges, range.start % Page = 0, range.length % Page = 0, NEW a \in Nat
    PROVE  Spans(range, a) <=> a \div Page \in PagesIn(range)
<1>1. PICK s : s = range.start
  OBVIOUS
<1>2. PICK e : e = End(range)
  OBVIOUS
<1>3. s \in Nat /\ e \in Nat /\ s < e /\ range.start + range.length = e /\ range.length \in Nat
  BY <1>1, <1>2 DEF Ranges, End
<1>4. PICK p \in Nat, q \in Nat : s = Begins(p) /\ range.length = Begins(q)
  BY <1>1, <1>3, PageHolds
<1>5. e % Page = 0
  <2>1. e = Page * p + Page * q /\ Page \in Nat \ {0}
    BY <1>1, <1>3, <1>4, LoadingAssumption DEF Begins
  <2>2. e = Page * (p + q)
    BY <1>4, <2>1
  <2>3. e = Begins(p + q) /\ p + q \in Nat
    BY <1>4, <2>2 DEF Begins
  <2>. QED
    BY <2>3, BeginsGrows
<1>6. PagesIn(range) = {b \div Page : b \in s .. e - 1}
  BY <1>1, <1>3 DEF PagesIn
<1>7. ASSUME NEW b \in s .. e - 1, b \div Page = a \div Page PROVE s <= a /\ a < e
  <2>1. b \in Nat /\ s <= b /\ ~(e <= b)
    BY <1>3
  <2>2. s <= a
    BY <1>1, <1>3, <1>7, <2>1, Aligned
  <2>3. ~(e <= a)
    BY <1>3, <1>5, <1>7, <2>1, Aligned
  <2>. QED
    BY <1>3, <2>2, <2>3
<1>8. s <= a /\ a < e => a \in s .. e - 1
  BY <1>3
<1>. QED
  BY <1>1, <1>2, <1>6, <1>7, <1>8 DEF Spans
-----------------------------------------------------------------------------
(* Sorting by start keeps the elements of a list, and orders them.         *)

Before(v, i, j) == v[i] < v[j] \/ (v[i] = v[j] /\ i < j)
Earlier(v, n, i) == {j \in 1 .. n : Before(v, j, i)}
Orders(v, n, p) ==
    /\ \A i, j \in 1 .. n : i # j => p[i] # p[j]
    /\ \A i, j \in 1 .. n : i < j => Before(v, p[i], p[j])

LEMMA RankGrows ==
    ASSUME NEW n \in Nat, NEW v \in [1 .. n -> Nat], NEW i \in 1 .. n, NEW j \in 1 .. n,
           Before(v, i, j)
    PROVE  /\ Cardinality(Earlier(v, n, i)) \in 0 .. n - 1
           /\ Cardinality(Earlier(v, n, j)) \in Nat
           /\ Cardinality(Earlier(v, n, i)) < Cardinality(Earlier(v, n, j))
<1> DEFINE E == Earlier(v, n, i)
           F == Earlier(v, n, j)
<1>1. E \in SUBSET (1 .. n) /\ F \in SUBSET (1 .. n)
  BY DEF Earlier
<1>2. i \notin E /\ i \in F /\ E \subseteq F
  <2>1. i \notin E /\ i \in F
    BY DEF Earlier, Before
  <2>2. ASSUME NEW k \in 1 .. n, Before(v, k, i) PROVE Before(v, k, j)
    BY <2>2 DEF Before
  <2>. QED
    BY <2>1, <2>2 DEF Earlier
<1>3. IsFiniteSet(1 .. n) /\ Cardinality(1 .. n) = n
  BY IntervalSize
<1>4. IsFiniteSet(E) /\ IsFiniteSet(F) /\ Cardinality(E) \in Nat /\ Cardinality(F) \in Nat
  BY <1>1, PositionsFinite
<1> HIDE DEF E, F
<1>5. E \in SUBSET F
  BY <1>2
<1>6. Cardinality(E) <= Cardinality(F) /\ Cardinality(E) # Cardinality(F)
  BY <1>2, <1>4, <1>5, FS_Subset
<1>7. Cardinality(F) <= n
  <2>1. Cardinality(F) <= Cardinality(1 .. n)
    BY <1>1, <1>3, FS_Subset
  <2>. QED
    BY <1>3, <2>1
<1>8. Cardinality(E) < Cardinality(F) /\ Cardinality(E) \in 0 .. n - 1
  BY <1>4, <1>6, <1>7
<1>. QED
  BY <1>4, <1>8 DEF E, F

LEMMA RankTyped ==
    ASSUME NEW n \in Nat, NEW v \in [1 .. n -> Nat], NEW i \in 1 .. n
    PROVE  Cardinality(Earlier(v, n, i)) + 1 \in 1 .. n
<1> DEFINE E == Earlier(v, n, i)
<1>1. E \in SUBSET (1 .. n) /\ i \notin E
  BY DEF Earlier, Before
<1>2. IsFiniteSet(1 .. n) /\ Cardinality(1 .. n) = n
  BY IntervalSize
<1> HIDE DEF E
<1>3. Cardinality(E) \in Nat
  BY <1>1, PositionsFinite
<1>4. Cardinality(E) <= n /\ (Cardinality(1 .. n) = Cardinality(E) => 1 .. n = E)
  <2>1. /\ Cardinality(E) <= Cardinality(1 .. n)
        /\ Cardinality(1 .. n) = Cardinality(E) => 1 .. n = E
    BY <1>1, <1>2, FS_Subset, Zenon
  <2>. QED
    BY <1>2, <2>1
<1>5. Cardinality(E) # n
  BY <1>1, <1>2, <1>4
<1>6. Cardinality(E) + 1 \in 1 .. n
  BY <1>3, <1>4, <1>5
<1>. QED
  BY <1>6 DEF E

(* A function of 1 .. n to itself that repeats no value takes every one. *)
LEMMA Permuted ==
    ASSUME NEW n \in Nat, NEW f \in [1 .. n -> 1 .. n],
           \A i, j \in 1 .. n : i # j => f[i] # f[j]
    PROVE  \A k \in 1 .. n : \E i \in 1 .. n : f[i] = k
<1>1. IsFiniteSet(1 .. n)
  BY IntervalSize
<1>2. f \in Injection(1 .. n, 1 .. n)
  BY DEF Injection, IsInjective
<1>3. f \in Surjection(1 .. n, 1 .. n)
  BY <1>1, <1>2, FS_Injection
<1>. QED
  BY <1>3 DEF Surjection

LEMMA Orderable ==
    ASSUME NEW n \in Nat, NEW v \in [1 .. n -> Nat]
    PROVE  \E p \in [1 .. n -> 1 .. n] : Orders(v, n, p)
<1> DEFINE R(i) == Cardinality(Earlier(v, n, i)) + 1
           f == [i \in 1 .. n |-> R(i)]
<1>1. ASSUME NEW i \in 1 .. n, NEW j \in 1 .. n, Before(v, i, j) PROVE f[i] < f[j]
  BY <1>1, RankGrows
<1>2. f \in [1 .. n -> 1 .. n]
  BY RankTyped
<1>3. ASSUME NEW i \in 1 .. n, NEW j \in 1 .. n, i # j PROVE Before(v, i, j) \/ Before(v, j, i)
  <2>1. v[i] \in Nat /\ v[j] \in Nat /\ i \in Nat /\ j \in Nat
    OBVIOUS
  <2>. QED
    BY <1>3, <2>1 DEF Before
<1> HIDE DEF f
<1>4. \A i, j \in 1 .. n : i # j => f[i] # f[j]
  <2>1. ASSUME NEW i \in 1 .. n, NEW j \in 1 .. n, i # j PROVE f[i] # f[j]
    <3>1. f[i] \in 1 .. n /\ f[j] \in 1 .. n
      BY <1>2
    <3>2. f[i] < f[j] \/ f[j] < f[i]
      BY <1>1, <1>3, <2>1
    <3>. QED
      BY <3>1, <3>2
  <2>. QED
    BY <2>1
<1>5. \A k \in 1 .. n : \E i \in 1 .. n : f[i] = k
  BY <1>2, <1>4, Permuted
<1> DEFINE p == [k \in 1 .. n |-> CHOOSE i \in 1 .. n : f[i] = k]
<1>6. \A k \in 1 .. n : p[k] \in 1 .. n /\ f[p[k]] = k
  BY <1>5
<1>7. p \in [1 .. n -> 1 .. n]
  BY <1>6
<1> HIDE DEF p
<1>8. ASSUME NEW i \in 1 .. n, NEW j \in 1 .. n, i < j PROVE Before(v, p[i], p[j])
  <2>1. p[i] \in 1 .. n /\ p[j] \in 1 .. n /\ f[p[i]] = i /\ f[p[j]] = j
    BY <1>6
  <2>2. p[i] # p[j]
    BY <1>8, <2>1
  <2>3. ~Before(v, p[j], p[i])
    <3>1. Before(v, p[j], p[i]) => j < i
      BY <1>1, <2>1
    <3>. QED
      BY <1>8, <3>1
  <2>. QED
    BY <1>3, <2>1, <2>2, <2>3
<1>9. \A i, j \in 1 .. n : i # j => p[i] # p[j]
  BY <1>6
<1>. QED
  BY <1>7, <1>8, <1>9 DEF Orders

Reorders(s, list) ==
    /\ \A i \in DOMAIN s : \E j \in DOMAIN list : s[i] = list[j]
    /\ \A j \in DOMAIN list : \E i \in DOMAIN s : s[i] = list[j]
    /\ \A i, j \in DOMAIN s : i < j => s[i].range.start <= s[j].range.start

LEMMA SortedIs ==
    ASSUME NEW S, NEW list \in Seq(S), \A i \in DOMAIN list : list[i].range.start \in Nat,
           NEW s, s = SortedByStart(list)
    PROVE  s \in Seq(S) /\ Reorders(s, list)
<1>1. PICK n \in Nat : n = Len(list) /\ DOMAIN list = 1 .. n
  OBVIOUS
<1> DEFINE v == [i \in 1 .. n |-> list[i].range.start]
           Good(p) == /\ \A i, j \in DOMAIN list : i # j => p[i] # p[j]
                      /\ \A i, j \in DOMAIN list : i < j =>
                            \/ list[p[i]].range.start < list[p[j]].range.start
                            \/ list[p[i]].range.start = list[p[j]].range.start /\ p[i] < p[j]
           places == CHOOSE p \in [DOMAIN list -> DOMAIN list] : Good(p)
<1>2. v \in [1 .. n -> Nat]
  BY <1>1
<1>3. PICK q \in [1 .. n -> 1 .. n] : Orders(v, n, q)
  BY <1>2, Orderable
<1>4. Good(q)
  <2>1. \A i \in 1 .. n : q[i] \in 1 .. n /\ v[q[i]] = list[q[i]].range.start
    BY <1>3
  <2> HIDE DEF v
  <2>2. \A i, j \in 1 .. n : i # j => q[i] # q[j]
    BY <1>3 DEF Orders
  <2>3. ASSUME NEW i \in 1 .. n, NEW j \in 1 .. n, i < j
        PROVE  \/ list[q[i]].range.start < list[q[j]].range.start
               \/ list[q[i]].range.start = list[q[j]].range.start /\ q[i] < q[j]
    <3>1. v[q[i]] < v[q[j]] \/ (v[q[i]] = v[q[j]] /\ q[i] < q[j])
      BY <1>3, <2>3 DEF Orders, Before
    <3>. QED
      BY <2>1, <3>1
  <2>. QED
    BY <1>1, <2>2, <2>3, Zenon
<1>5. places \in [1 .. n -> 1 .. n] /\ Good(places)
  <2> HIDE DEF Good, v
  <2>. QED
    BY <1>1, <1>3, <1>4
<1>6. s = [i \in DOMAIN list |-> list[places[i]]]
  BY DEF SortedByStart
<1> HIDE DEF places, v
<1>7. s = [i \in 1 .. n |-> list[places[i]]] /\ \A i \in 1 .. n : s[i] = list[places[i]] /\ places[i] \in 1 .. n
  BY <1>1, <1>5, <1>6
<1>8. s \in Seq(S) /\ Len(s) = n /\ DOMAIN s = 1 .. n
  <2>1. \A i \in 1 .. n : list[places[i]] \in S
    BY <1>1, <1>7
  <2>. QED
    BY <1>1, <1>7, <2>1
<1>9. \A k \in 1 .. n : \E i \in 1 .. n : places[i] = k
  <2>1. \A i, j \in 1 .. n : i # j => places[i] # places[j]
    BY <1>1, <1>5
  <2>. QED
    BY <1>5, <2>1, Permuted
<1>10. \A i, j \in 1 .. n : i < j => s[i].range.start <= s[j].range.start
  <2>1. \A k \in 1 .. n : list[k].range.start \in Nat
    BY <1>1
  <2>2. ASSUME NEW i \in 1 .. n, NEW j \in 1 .. n, i < j PROVE s[i].range.start <= s[j].range.start
    <3>1. s[i].range.start = list[places[i]].range.start /\ s[j].range.start = list[places[j]].range.start
      BY <1>7
    <3>2. list[places[i]].range.start \in Nat /\ list[places[j]].range.start \in Nat
      BY <1>7, <2>1
    <3>3. \/ list[places[i]].range.start < list[places[j]].range.start
          \/ list[places[i]].range.start = list[places[j]].range.start
      BY <1>1, <1>5, <2>2
    <3>4. PICK x \in Nat : x = list[places[i]].range.start
      BY <3>2
    <3>5. PICK y \in Nat : y = list[places[j]].range.start
      BY <3>2
    <3>6. x < y \/ x = y
      BY <3>3, <3>4, <3>5, Zenon
    <3>7. x <= y
      BY <3>6
    <3>. QED
      BY <3>1, <3>4, <3>5, <3>7
  <2>. QED
    BY <2>2
<1> HIDE DEF Good
<1>11. \A i \in 1 .. n : \E j \in 1 .. n : s[i] = list[j]
  BY <1>7
<1>12. ASSUME NEW j \in 1 .. n PROVE \E i \in 1 .. n : s[i] = list[j]
  <2>1. PICK i \in 1 .. n : places[i] = j
    BY <1>9
  <2>2. s[i] = list[places[i]]
    BY <1>7
  <2>. QED
    BY <2>1, <2>2
<1>. QED
  BY <1>1, <1>8, <1>10, <1>11, <1>12 DEF Reorders
-----------------------------------------------------------------------------
(***************************************************************************)
(* The strengthening.  Segments are the headers that occupy memory, in the *)
(* order of their addresses; mappings are the pages of the segments merged *)
(* so far, each with their permissions; a region is built from the file or *)
(* added.                                                                  *)
(***************************************************************************)
Rights == SUBSET {"r", "w", "x"}
Segs == [range : Ranges, pages : Ranges, permissions : Rights, data : Seq(Nat)]
Mappings == [range : Ranges, permissions : Rights]
Regions == [range : Ranges, permissions : Rights, initial : Seq(Nat)]

Occupies(h) == h.type \in {"load", "raw"} /\ h.size > 0
Occupied(hs) == {i \in DOMAIN hs : Occupies(hs[i])}

InOrder(list) == \A i, j \in DOMAIN list : i < j => End(list[i].range) <= list[j].range.start

Parsed(hs, segs, last) ==
    /\ hs \in Seq(Headers) /\ segs \in Seq(Segs) /\ last \in Nat
    /\ \A i \in DOMAIN segs :
        /\ segs[i].range.start <= last
        /\ segs[i].pages = PagesOf(segs[i].range) /\ Len(segs[i].data) <= segs[i].range.length
    /\ InOrder(segs)
    /\ \A i \in DOMAIN segs : \E j \in Occupied(hs) : segs[i] = Segment(hs[j])
    /\ \A j \in Occupied(hs) :
        /\ hs[j].type = "load" /\ hs[j].flags \in Rights
        /\ \E i \in DOMAIN segs : segs[i] = Segment(hs[j])

LEMMA RangeIs ==
    ASSUME NEW x \in Ranges
    PROVE  x.start \in Nat /\ x.length \in Nat \ {0} /\ End(x) \in Nat /\ x.start < End(x)
BY DEF Ranges, End

LEMMA OrderAppends ==
    ASSUME NEW S, NEW list \in Seq(S), \A i \in DOMAIN list : list[i].range \in Ranges,
           InOrder(list), NEW x \in S, x.range \in Ranges,
           list # <<>> => End(Last(list).range) <= x.range.start
    PROVE  InOrder(Append(list, x))
<1>1. PICK n \in Nat : n = Len(list) /\ DOMAIN list = 1 .. n
  OBVIOUS
<1>2. PICK ts : ts = Append(list, x)
  OBVIOUS
<1>3. DOMAIN ts = 1 .. n + 1 /\ ts[n + 1] = x /\ \A i \in 1 .. n : ts[i] = list[i]
  BY <1>1, <1>2
<1>4. \A i \in 1 .. n : /\ list[i].range.start \in Nat /\ End(list[i].range) \in Nat
                        /\ list[i].range.start < End(list[i].range)
  BY <1>1, RangeIs
<1>5. PICK b \in Nat : b = x.range.start
  BY RangeIs
<1>6. ASSUME NEW i \in 1 .. n PROVE End(list[i].range) <= b
  <2>1. n \in 1 .. n /\ Last(list) = list[n] /\ list # <<>>
    BY <1>1, <1>6 DEF Last
  <2>2. PICK u \in Nat, y \in Nat, z \in Nat :
          u = End(list[i].range) /\ y = list[n].range.start /\ z = End(list[n].range)
    BY <1>4, <2>1
  <2>3. z <= b /\ y < z
    BY <1>4, <1>5, <2>1, <2>2
  <2>4. i < n => u <= y
    BY <1>1, <2>1, <2>2 DEF InOrder
  <2>. QED
    BY <1>5, <2>2, <2>3, <2>4
<1>7. ASSUME NEW i \in 1 .. n + 1, NEW j \in 1 .. n + 1, i < j
      PROVE  End(ts[i].range) <= ts[j].range.start
  <2>1. i \in 1 .. n /\ ts[i] = list[i]
    BY <1>3, <1>7
  <2>2. CASE j \in 1 .. n
    BY <1>1, <1>3, <1>7, <2>1, <2>2 DEF InOrder
  <2>3. CASE j = n + 1
    BY <1>3, <1>5, <1>6, <2>1, <2>3
  <2>. QED
    BY <2>2, <2>3
<1>. QED
  BY <1>2, <1>3, <1>7 DEF InOrder

LEMMA SegmentIs ==
    ASSUME NEW h \in Headers, h.size > 0, h.flags \in Rights, NEW s, s = Segment(h)
    PROVE  /\ {h.start, h.offset, h.size, h.filesize} \subseteq Nat
           /\ s \in Segs /\ s.range = [start |-> h.start, length |-> h.size]
           /\ s.pages = PagesOf(s.range) /\ s.permissions = h.flags
           /\ Len(s.data) = h.filesize
           /\ \A b \in 1 .. h.filesize : s.data[b] = h.offset + b
           /\ PagesIn(s.range) = Pages(h)
<1>1. h.start \in Nat /\ h.offset \in Nat /\ h.size \in Nat \ {0} /\ h.filesize \in Nat
  BY InputsAssumption
<1>2. PICK range : range = [start |-> h.start, length |-> h.size]
  OBVIOUS
<1>3. range \in Ranges /\ range.start = h.start /\ range.length = h.size
  BY <1>1, <1>2 DEF Ranges
<1>4. PICK data : data = [i \in 1 .. h.filesize |-> h.offset + i]
  OBVIOUS
<1>5. data \in Seq(Nat) /\ Len(data) = h.filesize /\ \A b \in 1 .. h.filesize : data[b] = h.offset + b
  BY <1>1, <1>4
<1>6. s = [range |-> range, pages |-> PagesOf(range), permissions |-> h.flags, data |-> data]
  BY <1>2, <1>4 DEF Segment, AddressRange
<1>7. PagesOf(range) \in Ranges
  BY <1>3, PagesOfIs
<1>8. PagesIn(range) = Pages(h)
  BY <1>3 DEF PagesIn, Pages, Bytes
<1>9. /\ s.range = range /\ s.pages = PagesOf(range) /\ s.permissions = h.flags /\ s.data = data
  BY <1>6
<1>10. s \in Segs
  BY <1>3, <1>5, <1>6, <1>7 DEF Segs
<1>11. {h.start, h.offset, h.size, h.filesize} \subseteq Nat
  BY <1>1
<1>. QED
  BY <1>2, <1>5, <1>8, <1>9, <1>10, <1>11

(* A header that occupies nothing changes nothing. *)
LEMMA HeaderPasses ==
    ASSUME NEW hs, NEW segs, NEW last, Parsed(hs, segs, last),
           NEW h \in Headers, ~Occupies(h), NEW next \in Nat, last <= next
    PROVE  Parsed(Append(hs, h), segs, next)
<1>1. PICK gs : gs = Append(hs, h)
  OBVIOUS
<1>2. hs \in Seq(Headers)
  BY DEF Parsed
<1>3. gs \in Seq(Headers) /\ DOMAIN gs = DOMAIN hs \cup {Len(hs) + 1}
      /\ (\A i \in DOMAIN hs : gs[i] = hs[i]) /\ gs[Len(hs) + 1] = h
  BY <1>1, <1>2
<1>4. Occupied(gs) = Occupied(hs) /\ \A i \in Occupied(hs) : gs[i] = hs[i]
  BY <1>3 DEF Occupied
<1>5. \A i \in DOMAIN segs : segs[i].range.start <= next
  <2>1. ASSUME NEW i \in DOMAIN segs PROVE segs[i].range.start <= next
    <3>1. segs[i] \in Segs /\ segs[i].range.start <= last /\ last \in Nat
      BY DEF Parsed
    <3>2. PICK x \in Nat : x = segs[i].range.start
      BY <3>1 DEF Segs, Ranges
    <3>. QED
      BY <3>1, <3>2
  <2>. QED
    BY <2>1
<1>6. \A i \in DOMAIN segs :
        segs[i].pages = PagesOf(segs[i].range) /\ Len(segs[i].data) <= segs[i].range.length
  BY DEF Parsed
<1>7. \A i \in DOMAIN segs : \E j \in Occupied(gs) : segs[i] = Segment(gs[j])
  BY <1>4 DEF Parsed
<1>8. \A j \in Occupied(gs) :
        /\ gs[j].type = "load" /\ gs[j].flags \in Rights
        /\ \E i \in DOMAIN segs : segs[i] = Segment(gs[j])
  BY <1>4 DEF Parsed
<1>9. segs \in Seq(Segs) /\ InOrder(segs)
  BY DEF Parsed
<1>. QED
  BY <1>1, <1>3, <1>5, <1>6, <1>7, <1>8, <1>9 DEF Parsed

(* A segment that begins where the last one ends, or later. *)
LEMMA HeaderOccupies ==
    ASSUME NEW hs, NEW segs, NEW last, Parsed(hs, segs, last),
           NEW h \in Headers, Occupies(h), h.type = "load", h.flags \in Rights,
           h.filesize <= h.size, last <= h.start,
           segs # <<>> => End(Last(segs).range) <= h.start
    PROVE  Parsed(Append(hs, h), Append(segs, Segment(h)), h.start)
<1>1. PICK gs : gs = Append(hs, h)
  OBVIOUS
<1>2. PICK s : s = Segment(h)
  OBVIOUS
<1>3. PICK ts : ts = Append(segs, s)
  OBVIOUS
<1>4. hs \in Seq(Headers) /\ segs \in Seq(Segs) /\ last \in Nat
  BY DEF Parsed
<1>5. gs \in Seq(Headers) /\ DOMAIN gs = DOMAIN hs \cup {Len(hs) + 1}
      /\ (\A i \in DOMAIN hs : gs[i] = hs[i]) /\ gs[Len(hs) + 1] = h
  BY <1>1, <1>4
<1>6. Occupied(gs) = Occupied(hs) \cup {Len(hs) + 1} /\ \A i \in Occupied(hs) : gs[i] = hs[i]
  BY <1>5 DEF Occupied
<1>7. /\ s \in Segs /\ s.range.start = h.start /\ s.range.length = h.size
      /\ s.pages = PagesOf(s.range) /\ Len(s.data) = h.filesize /\ h.start \in Nat
  <2>1. h.size > 0
    BY DEF Occupies
  <2>2. /\ {h.start, h.offset, h.size, h.filesize} \subseteq Nat
        /\ s \in Segs /\ s.range = [start |-> h.start, length |-> h.size]
        /\ s.pages = PagesOf(s.range) /\ Len(s.data) = h.filesize
    BY <1>2, <2>1, SegmentIs
  <2>. QED
    BY <2>2
<1>8. PICK n \in Nat : n = Len(segs) /\ DOMAIN segs = 1 .. n
  BY <1>4
<1>9. ts \in Seq(Segs) /\ DOMAIN ts = 1 .. n + 1 /\ ts[n + 1] = s
      /\ \A i \in 1 .. n : ts[i] = segs[i]
  BY <1>3, <1>4, <1>7, <1>8
<1>10. \A i \in 1 .. n : segs[i].range \in Ranges /\ segs[i].range.start \in Nat
  <2>1. \A i \in 1 .. n : segs[i] \in Segs
    BY <1>4, <1>8
  <2>2. \A x \in Segs : x.range \in Ranges
    BY DEF Segs
  <2>. QED
    BY <2>1, <2>2, RangeIs
<1>11. InOrder(ts)
  <2>1. \A i \in DOMAIN segs : segs[i].range \in Ranges
    BY <1>8, <1>10
  <2>2. s.range \in Ranges /\ InOrder(segs)
    BY <1>7 DEF Segs, Parsed
  <2>. QED
    BY <1>3, <1>4, <1>7, <2>1, <2>2, OrderAppends
<1>12. \A i \in 1 .. n : segs[i].range.start <= h.start
  <2>1. ASSUME NEW i \in 1 .. n PROVE segs[i].range.start <= h.start
    <3>1. PICK x \in Nat : x = segs[i].range.start
      BY <1>10
    <3>2. x <= last
      BY <1>8, <3>1 DEF Parsed
    <3>. QED
      BY <1>4, <1>7, <3>1, <3>2
  <2>. QED
    BY <2>1
<1>13. \A i \in DOMAIN ts :
         /\ ts[i].range.start <= h.start
         /\ ts[i].pages = PagesOf(ts[i].range) /\ Len(ts[i].data) <= ts[i].range.length
  <2>1. ASSUME NEW i \in 1 .. n
        PROVE  segs[i].pages = PagesOf(segs[i].range) /\ Len(segs[i].data) <= segs[i].range.length
    BY <1>8 DEF Parsed
  <2>. QED
    BY <1>7, <1>9, <1>12, <2>1
<1>14. \A i \in DOMAIN ts : \E j \in Occupied(gs) : ts[i] = Segment(gs[j])
  <2>1. ASSUME NEW i \in 1 .. n PROVE \E j \in Occupied(gs) : ts[i] = Segment(gs[j])
    <3>1. PICK j \in Occupied(hs) : segs[i] = Segment(hs[j])
      BY <1>8 DEF Parsed
    <3>2. j \in Occupied(gs) /\ gs[j] = hs[j] /\ ts[i] = segs[i]
      BY <1>6, <1>9
    <3>. QED
      BY <3>1, <3>2
  <2>2. Len(hs) + 1 \in Occupied(gs) /\ ts[n + 1] = Segment(gs[Len(hs) + 1])
    BY <1>2, <1>5, <1>6, <1>9
  <2>3. \A i \in DOMAIN ts : i \in 1 .. n \/ i = n + 1
    BY <1>8, <1>9
  <2>. QED
    BY <2>1, <2>2, <2>3
<1>15. \A j \in Occupied(gs) :
         /\ gs[j].type = "load" /\ gs[j].flags \in Rights
         /\ \E i \in DOMAIN ts : ts[i] = Segment(gs[j])
  <2>1. n + 1 \in DOMAIN ts /\ \A i \in DOMAIN segs : i \in DOMAIN ts /\ ts[i] = segs[i]
    BY <1>8, <1>9
  <2>2. ASSUME NEW j \in Occupied(hs)
        PROVE  /\ gs[j].type = "load" /\ gs[j].flags \in Rights
               /\ \E i \in DOMAIN ts : ts[i] = Segment(gs[j])
    <3>1. /\ hs[j].type = "load" /\ hs[j].flags \in Rights
          /\ \E i \in DOMAIN segs : segs[i] = Segment(hs[j])
      BY DEF Parsed
    <3>. QED
      BY <1>6, <2>1, <3>1
  <2>3. CASE Occupied(gs) = Occupied(hs) \cup {Len(hs) + 1}
    BY <1>2, <1>5, <1>9, <2>1, <2>2, <2>3
  <2>. QED
    BY <1>6, <2>3
<1>. QED
  BY <1>1, <1>2, <1>3, <1>5, <1>7, <1>9, <1>11, <1>13, <1>14, <1>15 DEF Parsed
-----------------------------------------------------------------------------
(* Segments merged into mappings.                                          *)

Joined(segs, n, ms) ==
    /\ n \in 0 .. Len(segs) /\ ms \in Seq(Mappings) /\ InOrder(ms)
    /\ \A k \in DOMAIN ms : \E i \in 1 .. n : ms[k].range.start = segs[i].pages.start
    /\ \A i \in 1 .. n : \E k \in DOMAIN ms :
        ms[k].permissions = segs[i].permissions /\ ContainsRange(ms[k].range, segs[i].pages)
    /\ \A k \in DOMAIN ms : \A a \in Nat : Spans(ms[k].range, a) =>
        \E i \in 1 .. n : Spans(segs[i].pages, a) /\ segs[i].permissions = ms[k].permissions

LEMMA GreatestOfTwo ==
    ASSUME NEW a \in Nat, NEW b \in Nat, NEW g, g = Greatest({a, b})
    PROVE  g \in Nat /\ a <= g /\ b <= g /\ (g = a \/ g = b)
<1>1. \E m \in {a, b} : \A k \in {a, b} : k <= m
  <2>1. CASE a <= b
    BY <2>1
  <2>2. CASE b <= a
    BY <2>2
  <2>. QED
    BY <2>1, <2>2
<1>2. g = CHOOSE m \in {a, b} : \A k \in {a, b} : k <= m
  BY DEF Greatest
<1>. QED
  BY <1>1, <1>2

(* The pages of a segment begin where those of the ones before it do, or later. *)
LEMMA PagesInOrder ==
    ASSUME NEW segs \in Seq(Segs), InOrder(segs),
           \A i \in DOMAIN segs : segs[i].pages = PagesOf(segs[i].range),
           NEW i \in DOMAIN segs, NEW j \in DOMAIN segs, i < j
    PROVE  segs[i].pages.start <= segs[j].pages.start
<1>1. segs[i] \in Segs /\ segs[j] \in Segs
  OBVIOUS
<1>2. segs[i].range \in Ranges /\ segs[j].range \in Ranges
  BY <1>1 DEF Segs
<1>3. PICK a \in Nat, e \in Nat : a = segs[i].range.start /\ e = End(segs[i].range) /\ a < e
  BY <1>2, RangeIs
<1>4. PICK b \in Nat : b = segs[j].range.start
  BY <1>2, RangeIs
<1>5. e <= b
  BY <1>3, <1>4 DEF InOrder
<1>6. PageStart(a) <= PageStart(b)
  BY <1>3, <1>5, PageStartGrows
<1>7. segs[i].pages.start = PageStart(a) /\ segs[j].pages.start = PageStart(b)
  BY <1>2, <1>3, <1>4, PagesOfIs
<1>. QED
  BY <1>6, <1>7

LEMMA MergeAppends ==
    ASSUME NEW segs \in Seq(Segs), NEW n \in Nat, n < Len(segs), NEW ms, Joined(segs, n, ms),
           NEW s, s = segs[n + 1],
           ms # <<>> => End(Last(ms).range) <= s.pages.start
    PROVE  Joined(segs, n + 1, Append(ms, [range |-> s.pages, permissions |-> s.permissions]))
<1>1. PICK x : x = [range |-> s.pages, permissions |-> s.permissions]
  OBVIOUS
<1>2. s \in Segs /\ n + 1 \in 1 .. Len(segs)
  OBVIOUS
<1>3. x \in Mappings /\ x.range = s.pages /\ x.permissions = s.permissions /\ x.range \in Ranges
  BY <1>1, <1>2 DEF Segs, Mappings
<1>4. ms \in Seq(Mappings) /\ InOrder(ms)
  BY DEF Joined
<1>5. PICK ts : ts = Append(ms, x)
  OBVIOUS
<1>6. /\ ts \in Seq(Mappings) /\ DOMAIN ts = DOMAIN ms \cup {Len(ms) + 1}
      /\ ts[Len(ms) + 1] = x /\ \A k \in DOMAIN ms : ts[k] = ms[k]
  BY <1>3, <1>4, <1>5
<1>7. InOrder(ts)
  <2>1. \A k \in DOMAIN ms : ms[k] \in Mappings
    BY <1>4
  <2>2. \A k \in DOMAIN ms : ms[k].range \in Ranges
    BY <2>1 DEF Mappings
  <2>. QED
    BY <1>3, <1>4, <1>5, <2>2, OrderAppends
<1>8. \A k \in DOMAIN ts : \E i \in 1 .. n + 1 : ts[k].range.start = segs[i].pages.start
  <2>1. ASSUME NEW k \in DOMAIN ms PROVE \E i \in 1 .. n + 1 : ts[k].range.start = segs[i].pages.start
    <3>1. PICK i \in 1 .. n : ms[k].range.start = segs[i].pages.start
      BY DEF Joined
    <3>2. i \in 1 .. n + 1
      OBVIOUS
    <3>. QED
      BY <1>6, <3>1, <3>2
  <2>2. n + 1 \in 1 .. n + 1
    OBVIOUS
  <2>. QED
    BY <1>3, <1>6, <2>1, <2>2
<1>9. \A i \in 1 .. n + 1 : \E k \in DOMAIN ts :
        ts[k].permissions = segs[i].permissions /\ ContainsRange(ts[k].range, segs[i].pages)
  <2>1. ASSUME NEW i \in 1 .. n
        PROVE  \E k \in DOMAIN ts :
                 ts[k].permissions = segs[i].permissions /\ ContainsRange(ts[k].range, segs[i].pages)
    BY <1>6 DEF Joined
  <2>2. ContainsRange(x.range, s.pages)
    <3>1. PICK u \in Nat, v \in Nat : u = x.range.start /\ v = End(x.range)
      BY <1>3, RangeIs
    <3>. QED
      BY <1>3, <3>1 DEF ContainsRange
  <2>3. \A i \in 1 .. n + 1 : i \in 1 .. n \/ i = n + 1
    OBVIOUS
  <2>. QED
    BY <1>3, <1>6, <2>1, <2>2, <2>3
<1>10. ASSUME NEW k \in DOMAIN ts, NEW a \in Nat, Spans(ts[k].range, a)
       PROVE  \E i \in 1 .. n + 1 : Spans(segs[i].pages, a) /\ segs[i].permissions = ts[k].permissions
  <2>1. CASE k \in DOMAIN ms
    <3>1. PICK i \in 1 .. n : Spans(segs[i].pages, a) /\ segs[i].permissions = ms[k].permissions
      BY <1>6, <1>10, <2>1 DEF Joined
    <3>2. i \in 1 .. n + 1
      OBVIOUS
    <3>. QED
      BY <1>6, <2>1, <3>1, <3>2
  <2>2. CASE k = Len(ms) + 1
    <3>1. n + 1 \in 1 .. n + 1
      OBVIOUS
    <3>. QED
      BY <1>3, <1>6, <1>10, <2>2, <3>1
  <2>. QED
    BY <1>6, <2>1, <2>2
<1>11. n + 1 \in 0 .. Len(segs)
  BY <1>2
<1>12. ts \in Seq(Mappings)
  BY <1>6
<1>13. Joined(segs, n + 1, ts)
  BY <1>7, <1>8, <1>9, <1>10, <1>11, <1>12 DEF Joined
<1>. QED
  BY <1>1, <1>5, <1>13

LEMMA MergeGrows ==
    ASSUME NEW segs \in Seq(Segs), InOrder(segs),
           \A i \in DOMAIN segs : segs[i].pages = PagesOf(segs[i].range),
           NEW n \in Nat, n < Len(segs), NEW ms, Joined(segs, n, ms),
           NEW s, s = segs[n + 1], ms # <<>>,
           s.pages.start <= End(Last(ms).range), Last(ms).permissions = s.permissions
    PROVE  Joined(segs, n + 1, [ms EXCEPT ![Len(ms)].range.length =
                Greatest({End(Last(ms).range), End(s.pages)}) - Last(ms).range.start])
<1>1. s \in Segs /\ n + 1 \in 1 .. Len(segs) /\ DOMAIN segs = 1 .. Len(segs)
  OBVIOUS
<1>2. s.pages \in Ranges
  BY <1>1 DEF Segs
<1>3. ms \in Seq(Mappings) /\ InOrder(ms)
  BY DEF Joined
<1>4. PICK l \in Nat : l = Len(ms) /\ DOMAIN ms = 1 .. l /\ l \in 1 .. l
  BY <1>3
<1>5. PICK x : x = ms[l]
  OBVIOUS
<1>6. Last(ms) = x /\ x \in Mappings
  BY <1>3, <1>4, <1>5 DEF Last
<1>7. x.range \in Ranges
  BY <1>6 DEF Mappings
<1>8. PICK b \in Nat, e \in Nat : b = x.range.start /\ e = End(x.range) /\ b < e
  BY <1>7, RangeIs
<1>9. PICK c \in Nat, f \in Nat : c = s.pages.start /\ f = End(s.pages) /\ c < f
  BY <1>2, RangeIs
<1>10. PICK g : g = Greatest({e, f})
  OBVIOUS
<1>11. g \in Nat /\ e <= g /\ f <= g /\ (g = e \/ g = f)
  BY <1>10, GreatestOfTwo
<1>12. c <= e
  BY <1>6, <1>8, <1>9
<1>13. PICK i \in 1 .. n : b = segs[i].pages.start
  BY <1>4, <1>5, <1>8 DEF Joined
<1>14. b <= c
  <2>1. i \in DOMAIN segs /\ n + 1 \in DOMAIN segs /\ i < n + 1
    BY <1>1
  <2>. QED
    BY <1>9, <1>13, <2>1, PagesInOrder
<1>15. PICK y : y = [range |-> [start |-> b, length |-> g - b], permissions |-> x.permissions]
  OBVIOUS
<1>16. /\ y \in Mappings /\ y.range.start = b /\ End(y.range) = g /\ y.permissions = x.permissions
       /\ y.range \in Ranges
  <2>1. g - b \in Nat \ {0}
    BY <1>8, <1>11
  <2>2. x.permissions \in Rights
    BY <1>6 DEF Mappings
  <2>. QED
    BY <1>11, <1>15, <2>1, <2>2 DEF Mappings, Ranges, End
<1>17. PICK ts : ts = [ms EXCEPT ![l] = y]
  OBVIOUS
<1>18. [ms EXCEPT ![Len(ms)].range.length =
            Greatest({End(Last(ms).range), End(s.pages)}) - Last(ms).range.start] = ts
  <2>1. [ms EXCEPT ![l].range.length = g - b] = ts
    <3>1. [x EXCEPT !.range.length = g - b] = y
      BY <1>6, <1>8, <1>15 DEF Mappings, Ranges
    <3>. QED
      BY <1>4, <1>5, <1>17, <3>1
  <2>. QED
    BY <1>4, <1>6, <1>8, <1>9, <1>10, <2>1
<1>19. /\ ts \in Seq(Mappings) /\ DOMAIN ts = 1 .. l /\ ts[l] = y
       /\ \A k \in 1 .. l : k # l => ts[k] = ms[k]
  BY <1>3, <1>4, <1>16, <1>17
<1>20. InOrder(ts)
  <2>1. ASSUME NEW j \in 1 .. l, NEW k \in 1 .. l, j < k PROVE End(ts[j].range) <= ts[k].range.start
    <3>1. ts[j] = ms[j] /\ ts[k].range.start = ms[k].range.start
      BY <1>5, <1>8, <1>16, <1>19, <2>1
    <3>. QED
      BY <1>3, <1>4, <2>1, <3>1 DEF InOrder
  <2>. QED
    BY <1>19, <2>1 DEF InOrder
<1>21. \A k \in DOMAIN ts : \E j \in 1 .. n + 1 : ts[k].range.start = segs[j].pages.start
  <2>1. ASSUME NEW k \in 1 .. l PROVE \E j \in 1 .. n + 1 : ts[k].range.start = segs[j].pages.start
    <3>1. ts[k].range.start = ms[k].range.start
      BY <1>5, <1>8, <1>16, <1>19
    <3>2. PICK j \in 1 .. n : ms[k].range.start = segs[j].pages.start
      BY <1>4 DEF Joined
    <3>3. j \in 1 .. n + 1
      OBVIOUS
    <3>. QED
      BY <3>1, <3>2, <3>3
  <2>. QED
    BY <1>19, <2>1
<1>22. ASSUME NEW j \in 1 .. n + 1
       PROVE  \E k \in DOMAIN ts :
                ts[k].permissions = segs[j].permissions /\ ContainsRange(ts[k].range, segs[j].pages)
  <2>1. CASE j = n + 1
    <3>1. ContainsRange(y.range, s.pages)
      BY <1>9, <1>11, <1>14, <1>16 DEF ContainsRange
    <3>. QED
      BY <1>4, <1>6, <1>16, <1>19, <2>1, <3>1
  <2>2. CASE j \in 1 .. n
    <3>1. PICK k \in 1 .. l :
            ms[k].permissions = segs[j].permissions /\ ContainsRange(ms[k].range, segs[j].pages)
      BY <1>4, <2>2 DEF Joined
    <3>2. CASE k # l
      BY <1>19, <3>1, <3>2
    <3>3. CASE k = l
      <4>1. segs[j] \in Segs
        BY <1>1, <2>2
      <4>2. segs[j].pages \in Ranges
        BY <4>1 DEF Segs
      <4>3. PICK u \in Nat, v \in Nat : u = segs[j].pages.start /\ v = End(segs[j].pages)
        BY <4>2, RangeIs
      <4>4. u >= b /\ v <= e
        BY <1>5, <1>8, <3>1, <3>3, <4>3 DEF ContainsRange
      <4>5. ContainsRange(y.range, segs[j].pages)
        BY <1>11, <1>16, <4>3, <4>4 DEF ContainsRange
      <4>. QED
        BY <1>5, <1>16, <1>19, <3>1, <3>3, <4>5
    <3>. QED
      BY <3>2, <3>3
  <2>. QED
    BY <2>1, <2>2
<1>23. ASSUME NEW k \in 1 .. l, NEW a \in Nat, Spans(ts[k].range, a)
       PROVE  \E j \in 1 .. n + 1 : Spans(segs[j].pages, a) /\ segs[j].permissions = ts[k].permissions
  <2>1. CASE ts[k].permissions = ms[k].permissions /\ Spans(ms[k].range, a)
    <3>1. PICK j \in 1 .. n : Spans(segs[j].pages, a) /\ segs[j].permissions = ms[k].permissions
      BY <1>4, <2>1 DEF Joined
    <3>2. j \in 1 .. n + 1
      OBVIOUS
    <3>. QED
      BY <2>1, <3>1, <3>2
  <2>2. CASE k = l /\ e <= a
    <3>1. b <= a /\ a < g
      BY <1>16, <1>19, <1>23, <2>2 DEF Spans
    <3>2. c <= a /\ a < f
      BY <1>11, <1>12, <2>2, <3>1
    <3>3. n + 1 \in 1 .. n + 1 /\ Spans(segs[n + 1].pages, a)
      BY <1>9, <3>2 DEF Spans
    <3>. QED
      BY <1>6, <1>16, <1>19, <2>2, <3>3
  <2>3. CASE k = l /\ ~(e <= a)
    <3>1. b <= a /\ a < e
      BY <1>16, <1>19, <1>23, <2>3 DEF Spans
    <3>. QED
      BY <1>5, <1>8, <1>16, <1>19, <2>1, <2>3, <3>1 DEF Spans
  <2>4. CASE k # l
    BY <1>19, <1>23, <2>1, <2>4
  <2>. QED
    BY <2>2, <2>3, <2>4
<1>24. n + 1 \in 0 .. Len(segs)
  BY <1>1
<1>25. Joined(segs, n + 1, ts)
  BY <1>19, <1>20, <1>21, <1>22, <1>23, <1>24 DEF Joined
<1>. QED
  BY <1>18, <1>25

LEMMA MergeHolds ==
    ASSUME NEW segs \in Seq(Segs), InOrder(segs),
           \A i \in DOMAIN segs : segs[i].pages = PagesOf(segs[i].range),
           NEW n \in Nat, n < Len(segs), NEW ms, Joined(segs, n, ms),
           NEW s, s = segs[n + 1], ~Conflicts(ms, s)
    PROVE  Joined(segs, n + 1, Merge(ms, s))
<1>1. CASE /\ ms # <<>> /\ s.pages.start <= End(Last(ms).range)
           /\ Last(ms).permissions = s.permissions
  BY <1>1, MergeGrows DEF Merge
<1>2. CASE ~(/\ ms # <<>> /\ s.pages.start <= End(Last(ms).range)
             /\ Last(ms).permissions = s.permissions)
  <2>1. ASSUME ms # <<>> PROVE End(Last(ms).range) <= s.pages.start
    <3>1. ms \in Seq(Mappings) /\ s \in Segs
      BY DEF Joined
    <3>2. Last(ms) \in Mappings
      BY <2>1, <3>1 DEF Last
    <3>3. Last(ms).range \in Ranges /\ s.pages \in Ranges
      BY <3>1, <3>2 DEF Mappings, Segs
    <3>4. PICK e \in Nat, c \in Nat : e = End(Last(ms).range) /\ c = s.pages.start
      BY <3>3, RangeIs
    <3>5. Last(ms).permissions # s.permissions => ~(c < e)
      BY <2>1, <3>4 DEF Conflicts
    <3>6. Last(ms).permissions = s.permissions => ~(c <= e)
      BY <1>2, <2>1, <3>4
    <3>7. e <= c
      BY <3>5, <3>6
    <3>. QED
      BY <3>4, <3>7
  <2>2. Merge(ms, s) = Append(ms, [range |-> s.pages, permissions |-> s.permissions])
    BY <1>2 DEF Merge
  <2>. QED
    BY <2>1, <2>2, MergeAppends
<1>. QED
  BY <1>1, <1>2
-----------------------------------------------------------------------------
(* What a mapping's memory begins with.                                    *)

Carries(s, a) == a - s.range.start + 1 \in 1 .. Len(s.data)
Byte(s, a) == s.data[a - s.range.start + 1]
Value(range, bytes, a) ==
    IF a - range.start + 1 \in DOMAIN bytes THEN bytes[a - range.start + 1] ELSE 0

LEMMA ByteIs ==
    ASSUME NEW s \in Segs, Len(s.data) <= s.range.length, NEW a \in Nat, Carries(s, a)
    PROVE  Spans(s.range, a) /\ Byte(s, a) \in Nat
<1>1. s.range \in Ranges /\ s.data \in Seq(Nat)
  BY DEF Segs
<1>2. PICK b \in Nat, l \in Nat : b = s.range.start /\ l = s.range.length /\ End(s.range) = b + l
  BY <1>1 DEF Ranges, End
<1>3. PICK n \in Nat : n = Len(s.data)
  BY <1>1
<1>4. a - b + 1 \in 1 .. n
  BY <1>2, <1>3 DEF Carries
<1>5. b <= a /\ a < b + l
  <2>1. n <= l
    BY <1>2, <1>3
  <2>2. b <= a /\ a < b + n
    BY <1>4
  <2>. QED
    BY <2>1, <2>2
<1>6. s.data[a - b + 1] \in Nat
  BY <1>1, <1>3, <1>4
<1>. QED
  BY <1>2, <1>5, <1>6 DEF Spans, Byte

(* Ranges in order hold an address once. *)
LEMMA HeldOnce ==
    ASSUME NEW list, InOrder(list), NEW i \in DOMAIN list, NEW j \in DOMAIN list,
           DOMAIN list \subseteq Nat, list[i].range \in Ranges, list[j].range \in Ranges,
           NEW a \in Nat, Spans(list[i].range, a), Spans(list[j].range, a)
    PROVE  i = j
<1>1. PICK b \in Nat, e \in Nat : b = list[i].range.start /\ e = End(list[i].range)
  BY RangeIs
<1>2. PICK c \in Nat, f \in Nat : c = list[j].range.start /\ f = End(list[j].range)
  BY RangeIs
<1>3. b <= a /\ a < e /\ c <= a /\ a < f
  BY <1>1, <1>2 DEF Spans
<1>4. ~(i < j)
  BY <1>1, <1>2, <1>3 DEF InOrder
<1>5. ~(j < i)
  BY <1>1, <1>2, <1>3 DEF InOrder
<1>6. i \in Nat /\ j \in Nat
  OBVIOUS
<1>. QED
  BY <1>4, <1>5, <1>6

LEMMA GreatestIs ==
    ASSUME NEW n \in Nat, NEW T \in SUBSET (1 .. n), NEW g, g = Greatest(T)
    PROVE  g \in Nat /\ \A t \in T : t <= g
<1>1. CASE T = {}
  BY <1>1 DEF Greatest
<1>2. CASE T # {}
  <2>1. PICK x \in T : \A y \in T : y <= x
    BY <1>2, GreatestOf
  <2>2. g = CHOOSE m \in T : \A k \in T : k <= m
    BY <1>2 DEF Greatest
  <2>3. g \in T /\ \A k \in T : k <= g
    BY <2>1, <2>2
  <2>. QED
    BY <2>3
<1>. QED
  BY <1>1, <1>2

LEMMA GreatestOfOne ==
    ASSUME NEW i \in Nat
    PROVE  Greatest({i}) = i
BY DEF Greatest

(* The place of an address, counted from one start or from an earlier one. *)
LEMMA Places ==
    ASSUME NEW a \in Nat, NEW s \in Nat, NEW c \in Nat, NEW d \in Nat, NEW g \in Nat, c <= s
    PROVE  /\ a - s + 1 \in 1 .. d <=> a - c + 1 \in s - c + 1 .. s - c + d
           /\ a - s + 1 \in 1 .. d /\ s - c + d <= g => a - c + 1 \in 1 .. g
           /\ (a - c + 1) - (s - c) = a - s + 1
OBVIOUS

(* The bytes of the segments inside it, each at its address. *)
LEMMA InitialIs ==
    ASSUME segments \in Seq(Segs), InOrder(segments),
           \A i \in DOMAIN segments : Len(segments[i].data) <= segments[i].range.length,
           NEW m \in Mappings, NEW bytes, bytes = Initial(m)
    PROVE  /\ bytes \in Seq(Nat)
           /\ \A a \in Nat : a >= m.range.start =>
                /\ (\A i \in Included(m) : ~Carries(segments[i], a)) => Value(m.range, bytes, a) = 0
                /\ \A i \in Included(m) : Carries(segments[i], a) =>
                        Value(m.range, bytes, a) = Byte(segments[i], a)
<1> DEFINE offset(i) == segments[i].range.start - m.range.start
           T == {offset(i) + Len(segments[i].data) : i \in Included(m)}
           within(b) == {i \in Included(m) : b \in offset(i) + 1 .. offset(i) + Len(segments[i].data)}
           at(b) == IF within(b) = {} THEN 0
                    ELSE LET i == Greatest(within(b)) IN segments[i].data[b - offset(i)]
<1>1. PICK c \in Nat, l \in Nat : c = m.range.start /\ l = m.range.length /\ End(m.range) = c + l
  <2>1. m.range \in Ranges
    BY DEF Mappings
  <2>. QED
    BY <2>1 DEF Ranges, End
<1>2. ASSUME NEW i \in Included(m)
      PROVE  /\ i \in DOMAIN segments /\ segments[i] \in Segs /\ segments[i].data \in Seq(Nat)
             /\ segments[i].range \in Ranges /\ segments[i].range.start \in Nat
             /\ Len(segments[i].data) \in Nat \ {0} /\ segments[i].range.start >= c
             /\ segments[i].range.start + Len(segments[i].data) <= c + l
  <2>1. i \in DOMAIN segments /\ ContainsRange(m.range, segments[i].range) /\ segments[i].data # <<>>
    BY DEF Included
  <2>2. segments[i] \in Segs
    BY <2>1
  <2>3. segments[i].range \in Ranges /\ segments[i].data \in Seq(Nat)
    BY <2>2 DEF Segs
  <2>4. PICK s \in Nat, k \in Nat : s = segments[i].range.start /\ k = segments[i].range.length
                                    /\ End(segments[i].range) = s + k
    BY <2>3 DEF Ranges, End
  <2>5. PICK d \in Nat \ {0} : d = Len(segments[i].data)
    BY <2>1, <2>3
  <2>6. s >= c /\ s + k <= c + l /\ d <= k
    BY <1>1, <2>1, <2>4, <2>5 DEF ContainsRange
  <2>7. s + d <= c + l
    <3>1. s \in Nat /\ k \in Nat /\ d \in Nat /\ c \in Nat /\ l \in Nat
      BY <1>1, <2>4, <2>5
    <3>2. s + d <= s + k
      BY <2>6, <3>1
    <3>. QED
      BY <2>6, <3>1, <3>2
  <2>8. segments[i].range.start >= c /\ segments[i].range.start + Len(segments[i].data) <= c + l
    BY <2>4, <2>5, <2>6, <2>7
  <2>9. segments[i].range.start \in Nat /\ Len(segments[i].data) \in Nat \ {0}
    BY <2>4, <2>5
  <2>. QED
    BY <2>1, <2>2, <2>3, <2>8, <2>9
<1>3. T \in SUBSET (1 .. l)
  <2>1. ASSUME NEW i \in Included(m) PROVE offset(i) + Len(segments[i].data) \in 1 .. l
    <3>1. PICK s \in Nat, d \in Nat \ {0} : s = segments[i].range.start /\ d = Len(segments[i].data)
      BY <1>2
    <3>2. s >= c /\ s + d <= c + l
      BY <1>2, <3>1
    <3>3. s - c + d \in 1 .. l
      BY <3>2
    <3>. QED
      BY <1>1, <3>1, <3>3
  <2>. QED
    BY <2>1
<1>4. PICK g \in Nat : g = Greatest(T) /\ \A t \in T : t <= g
  BY <1>3, GreatestIs
<1>5. bytes = [b \in 1 .. g |-> at(b)]
  BY <1>4 DEF Initial
<1>6. ASSUME NEW a \in Nat, a >= c, NEW i \in Included(m)
      PROVE  Carries(segments[i], a) <=> i \in within(a - c + 1)
  <2>1. PICK s \in Nat, d \in Nat : s = segments[i].range.start /\ d = Len(segments[i].data) /\ s >= c
    BY <1>2
  <2>2. offset(i) = s - c
    BY <1>1, <2>1
  <2>3. a - s + 1 \in 1 .. d <=> a - c + 1 \in s - c + 1 .. s - c + d
    BY <2>1, Places
  <2> HIDE DEF offset
  <2>. QED
    BY <2>1, <2>2, <2>3 DEF Carries
<1>7. ASSUME NEW a \in Nat, a >= c, NEW i \in Included(m), Carries(segments[i], a)
      PROVE  /\ a - c + 1 \in 1 .. g /\ at(a - c + 1) = Byte(segments[i], a)
  <2>1. within(a - c + 1) = {i}
    <3>1. ASSUME NEW j \in within(a - c + 1) PROVE i = j
      <4>1. j \in Included(m) /\ Carries(segments[j], a)
        BY <1>6, <1>7
      <4>2. Spans(segments[i].range, a) /\ Spans(segments[j].range, a)
        BY <1>2, <1>7, <4>1, ByteIs
      <4>3. j \in DOMAIN segments /\ i \in DOMAIN segments
        BY <1>2, <4>1, Zenon
      <4>4. segments[i].range \in Ranges /\ segments[j].range \in Ranges
        BY <1>2, <4>1, Zenon
      <4>5. DOMAIN segments \subseteq Nat
        OBVIOUS
      <4>. QED
        BY <4>2, <4>3, <4>4, <4>5, HeldOnce
    <3>. QED
      BY <1>6, <1>7, <3>1
  <2>2. PICK s \in Nat, d \in Nat : s = segments[i].range.start /\ d = Len(segments[i].data) /\ s >= c
    BY <1>2
  <2>3. offset(i) = s - c /\ offset(i) + Len(segments[i].data) = s - c + d
    BY <1>1, <2>2
  <2>4. s - c + d <= g
    BY <1>4, <2>3
  <2>5. a - s + 1 \in 1 .. d
    BY <1>7, <2>2 DEF Carries
  <2>6. a - c + 1 \in 1 .. g
    <3>1. c <= s /\ c \in Nat /\ s \in Nat /\ d \in Nat /\ g \in Nat
      BY <1>1, <1>4, <2>2
    <3> HIDE DEF offset, T, within, at
    <3>. QED
      BY <2>4, <2>5, <3>1, Places
  <2>7. i \in Nat
    BY <1>2
  <2>8. at(a - c + 1) = segments[i].data[(a - c + 1) - offset(i)]
    <3>1. Greatest(within(a - c + 1)) = i
      BY <2>1, <2>7, GreatestOfOne
    <3> HIDE DEF within, offset
    <3>. QED
      BY <2>1, <3>1
  <2>9. (a - c + 1) - offset(i) = a - s + 1
    BY <2>2, <2>3
  <2> HIDE DEF offset, at
  <2>. QED
    BY <2>2, <2>6, <2>8, <2>9 DEF Byte
<1>8. ASSUME NEW b \in 1 .. g PROVE at(b) \in Nat
  <2>1. CASE within(b) = {}
    BY <2>1
  <2>2. CASE within(b) # {}
    <3>1. PICK i \in within(b) : TRUE
      BY <2>2
    <3>2. PICK a \in Nat : a = b + c - 1 /\ a >= c /\ a - c + 1 = b
      BY <1>8
    <3>3. i \in Included(m) /\ Carries(segments[i], a)
      <4>1. i \in Included(m)
        OBVIOUS
      <4>. QED
        BY <1>6, <3>1, <3>2, <4>1
    <3>4. at(b) = Byte(segments[i], a)
      <4> HIDE DEF at
      <4>. QED
        BY <1>7, <3>2, <3>3
    <3>5. Byte(segments[i], a) \in Nat
      BY <1>2, <3>3, ByteIs
    <3> HIDE DEF at
    <3>. QED
      BY <3>4, <3>5
  <2>. QED
    BY <2>1, <2>2
<1>9. ASSUME NEW a \in Nat, a >= c, \A i \in Included(m) : ~Carries(segments[i], a)
      PROVE  at(a - c + 1) = 0
  <2>1. within(a - c + 1) = {}
    <3>1. ASSUME NEW i \in within(a - c + 1) PROVE FALSE
      <4>1. i \in Included(m)
        OBVIOUS
      <4>. QED
        BY <1>6, <1>9, <4>1
    <3>. QED
      BY <3>1
  <2> HIDE DEF within
  <2>. QED
    BY <2>1
<1> HIDE DEF at, T, within, offset
<1>10. bytes \in Seq(Nat) /\ DOMAIN bytes = 1 .. g /\ \A b \in 1 .. g : bytes[b] = at(b)
  BY <1>5, <1>8
<1>11. ASSUME NEW a \in Nat, a >= c, \A i \in Included(m) : ~Carries(segments[i], a)
       PROVE  Value(m.range, bytes, a) = 0
  BY <1>1, <1>9, <1>10, <1>11 DEF Value
<1>12. ASSUME NEW a \in Nat, a >= c, NEW i \in Included(m), Carries(segments[i], a)
       PROVE  Value(m.range, bytes, a) = Byte(segments[i], a)
  BY <1>1, <1>7, <1>10, <1>12 DEF Value
<1>. QED
  BY <1>1, <1>10, <1>11, <1>12
-----------------------------------------------------------------------------
(* A region that is built from the file: on each of its pages the          *)
(* permissions of the headers there, and at each address the file's byte.  *)

Flags(hs, page) == {hs[i].flags : i \in {j \in Occupied(hs) : page \in Pages(hs[j])}}
InFile(hs, a) == {i \in Occupied(hs) : a \in hs[i].start .. hs[i].start + hs[i].filesize - 1}

Built(hs, r) ==
    /\ r \in Regions
    /\ \A a \in Nat : Spans(r.range, a) =>
        /\ Flags(hs, a \div Page) = {r.permissions}
        /\ InFile(hs, a) = {} => Value(r.range, r.initial, a) = 0
        /\ \A i \in InFile(hs, a) :
            Value(r.range, r.initial, a) = hs[i].offset + a - hs[i].start + 1

LEMMA HeaderOfSegment ==
    ASSUME NEW hs, NEW segs, NEW last, Parsed(hs, segs, last), NEW j \in Occupied(hs),
           NEW s, s = Segment(hs[j]), NEW a \in Nat
    PROVE  /\ s \in Segs /\ s.permissions = hs[j].flags /\ s.pages = PagesOf(s.range)
           /\ Spans(s.pages, a) <=> a \div Page \in Pages(hs[j])
           /\ Carries(s, a) <=> a \in hs[j].start .. hs[j].start + hs[j].filesize - 1
           /\ Carries(s, a) => Byte(s, a) = hs[j].offset + a - hs[j].start + 1
<1>1. PICK h : h = hs[j]
  OBVIOUS
<1>2. h \in Headers /\ h.size > 0 /\ h.flags \in Rights
  <2>1. hs \in Seq(Headers) /\ j \in DOMAIN hs /\ Occupies(hs[j])
    BY DEF Parsed, Occupied
  <2>2. hs[j].flags \in Rights
    BY DEF Parsed
  <2>. QED
    BY <1>1, <2>1, <2>2 DEF Occupies
<1>3. /\ {h.start, h.offset, h.size, h.filesize} \subseteq Nat
      /\ s \in Segs /\ s.range = [start |-> h.start, length |-> h.size]
      /\ s.pages = PagesOf(s.range) /\ s.permissions = h.flags
      /\ Len(s.data) = h.filesize
      /\ \A b \in 1 .. h.filesize : s.data[b] = h.offset + b
      /\ PagesIn(s.range) = Pages(h)
  BY <1>1, <1>2, SegmentIs
<1>4. Spans(s.pages, a) <=> a \div Page \in Pages(h)
  <2>1. s.range \in Ranges
    BY <1>3 DEF Segs
  <2>. QED
    BY <1>3, <2>1, PagesOfIs
<1>5. PICK c \in Nat, n \in Nat, o \in Nat :
        c = h.start /\ n = h.filesize /\ o = h.offset /\ s.range.start = c
  BY <1>3
<1>6. a - c + 1 \in 1 .. n <=> a \in c .. c + n - 1
  BY <1>5
<1>7. Carries(s, a) <=> a \in h.start .. h.start + h.filesize - 1
  BY <1>3, <1>5, <1>6 DEF Carries
<1>8. ASSUME Carries(s, a) PROVE Byte(s, a) = h.offset + a - h.start + 1
  <2>1. a - c + 1 \in 1 .. n
    BY <1>3, <1>5, <1>8 DEF Carries
  <2>2. Byte(s, a) = o + (a - c + 1)
    BY <1>3, <1>5, <2>1 DEF Byte
  <2>3. o + (a - c + 1) = o + a - c + 1
    BY <1>5
  <2>. QED
    BY <1>5, <2>2, <2>3
<1>. QED
  BY <1>1, <1>3, <1>4, <1>7, <1>8

LEMMA Inside ==
    ASSUME NEW x, NEW y \in Ranges, NEW z \in Ranges, NEW a \in Nat
    PROVE  /\ ContainsRange(z, y) /\ Spans(y, a) => Spans(z, a)
           /\ x \in Ranges /\ ContainsRange(z, y) /\ ContainsRange(y, x) => ContainsRange(z, x)
<1>1. PICK b \in Nat, e \in Nat : b = y.start /\ e = End(y)
  BY RangeIs
<1>2. PICK c \in Nat, f \in Nat : c = z.start /\ f = End(z)
  BY RangeIs
<1>3. ContainsRange(z, y) <=> c <= b /\ e <= f
  BY <1>1, <1>2 DEF ContainsRange
<1>4. Spans(y, a) => b <= a /\ a < e
  BY <1>1 DEF Spans
<1>5. c <= a /\ a < f => Spans(z, a)
  BY <1>2 DEF Spans
<1>6. ContainsRange(z, y) /\ Spans(y, a) => Spans(z, a)
  BY <1>1, <1>2, <1>3, <1>4, <1>5
<1>7. ASSUME x \in Ranges, ContainsRange(z, y), ContainsRange(y, x) PROVE ContainsRange(z, x)
  <2>1. PICK d \in Nat, g \in Nat : d = x.start /\ g = End(x)
    BY <1>7, RangeIs
  <2>2. b <= d /\ g <= e
    BY <1>1, <1>7, <2>1 DEF ContainsRange
  <2>3. c <= d /\ g <= f
    BY <1>1, <1>2, <1>3, <1>7, <2>1, <2>2
  <2>. QED
    BY <1>2, <2>1, <2>3 DEF ContainsRange
<1>. QED
  BY <1>6, <1>7

(* Initialize makes such a region of each mapping. *)
LEMMA RegionBuilt ==
    ASSUME Parsed(headers, segments, previous), Joined(segments, Len(segments), mappings),
           NEW k \in DOMAIN mappings, NEW m, m = mappings[k]
    PROVE  Built(headers, Region(m))
<1>1. /\ segments \in Seq(Segs) /\ InOrder(segments)
      /\ \A i \in DOMAIN segments : Len(segments[i].data) <= segments[i].range.length
  BY DEF Parsed
<1>2. mappings \in Seq(Mappings) /\ InOrder(mappings) /\ m \in Mappings
  BY DEF Joined
<1>3. m.range \in Ranges /\ m.permissions \in Rights
  BY <1>2 DEF Mappings
<1>4. PICK bytes : bytes = Initial(m)
  OBVIOUS
<1>5. /\ bytes \in Seq(Nat)
      /\ \A a \in Nat : a >= m.range.start =>
           /\ (\A i \in Included(m) : ~Carries(segments[i], a)) => Value(m.range, bytes, a) = 0
           /\ \A i \in Included(m) : Carries(segments[i], a) =>
                   Value(m.range, bytes, a) = Byte(segments[i], a)
  BY <1>1, <1>2, <1>4, InitialIs
<1>6. PICK r : r = [range |-> m.range, permissions |-> m.permissions, initial |-> bytes]
  OBVIOUS
<1>7. /\ Region(m) = r /\ r \in Regions /\ r.range = m.range /\ r.permissions = m.permissions
      /\ r.initial = bytes
  BY <1>3, <1>4, <1>5, <1>6 DEF Region, Regions
<1>8. \A i \in DOMAIN segments : /\ segments[i] \in Segs /\ segments[i].range \in Ranges
                                 /\ segments[i].pages \in Ranges
                                 /\ segments[i].pages = PagesOf(segments[i].range)
  <2>1. \A i \in DOMAIN segments : segments[i] \in Segs
    BY <1>1
  <2>2. \A x \in Segs : x.range \in Ranges /\ x.pages \in Ranges
    BY DEF Segs
  <2>. QED
    BY <2>1, <2>2 DEF Parsed
<1>9. ASSUME NEW a \in Nat, Spans(m.range, a), NEW i \in DOMAIN segments, Spans(segments[i].pages, a)
      PROVE  segments[i].permissions = m.permissions /\ ContainsRange(m.range, segments[i].pages)
  <2>1. i \in 1 .. Len(segments)
    BY <1>1
  <2>2. PICK l \in DOMAIN mappings : /\ mappings[l].permissions = segments[i].permissions
                                     /\ ContainsRange(mappings[l].range, segments[i].pages)
    BY <2>1 DEF Joined
  <2>3. mappings[l] \in Mappings /\ DOMAIN mappings \subseteq Nat
    BY <1>2
  <2>4. mappings[l].range \in Ranges
    BY <2>3 DEF Mappings
  <2>5. Spans(mappings[l].range, a)
    BY <1>8, <1>9, <2>2, <2>4, Inside
  <2>6. l = k
    BY <1>2, <1>3, <1>9, <2>3, <2>4, <2>5, HeldOnce
  <2>. QED
    BY <2>2, <2>6
<1>10. ASSUME NEW a \in Nat, Spans(m.range, a)
       PROVE  Flags(headers, a \div Page) = {m.permissions}
  <2>1. PICK i \in DOMAIN segments :
          Spans(segments[i].pages, a) /\ segments[i].permissions = m.permissions
    <3>1. PICK i \in 1 .. Len(segments) :
            Spans(segments[i].pages, a) /\ segments[i].permissions = m.permissions
      BY <1>10 DEF Joined
    <3>2. i \in DOMAIN segments
      BY <1>1
    <3>. QED
      BY <3>1, <3>2
  <2>2. PICK j \in Occupied(headers) : segments[i] = Segment(headers[j])
    BY DEF Parsed
  <2>3. headers[j].flags = m.permissions /\ a \div Page \in Pages(headers[j])
    BY <2>1, <2>2, HeaderOfSegment
  <2>4. ASSUME NEW l \in Occupied(headers), a \div Page \in Pages(headers[l])
        PROVE  headers[l].flags = m.permissions
    <3>1. PICK n \in DOMAIN segments : segments[n] = Segment(headers[l])
      BY DEF Parsed
    <3>2. Spans(segments[n].pages, a) /\ segments[n].permissions = headers[l].flags
      BY <2>4, <3>1, HeaderOfSegment
    <3>. QED
      BY <1>9, <1>10, <3>2
  <2>. QED
    BY <2>3, <2>4 DEF Flags
<1>11. ASSUME NEW a \in Nat, Spans(m.range, a), NEW j \in InFile(headers, a)
       PROVE  Value(m.range, bytes, a) = headers[j].offset + a - headers[j].start + 1
  <2>1. j \in Occupied(headers) /\ a \in headers[j].start .. headers[j].start + headers[j].filesize - 1
    BY DEF InFile
  <2>2. PICK n \in DOMAIN segments : segments[n] = Segment(headers[j])
    BY <2>1 DEF Parsed
  <2>3. /\ Carries(segments[n], a)
        /\ Byte(segments[n], a) = headers[j].offset + a - headers[j].start + 1
    BY <2>1, <2>2, HeaderOfSegment
  <2>4. Spans(segments[n].range, a)
    BY <1>1, <1>8, <2>3, ByteIs
  <2>5. ContainsRange(segments[n].pages, segments[n].range)
    BY <1>8, PagesOfIs
  <2>6. Spans(segments[n].pages, a)
    BY <1>8, <2>4, <2>5, Inside
  <2>7. ContainsRange(m.range, segments[n].range)
    BY <1>3, <1>8, <1>9, <1>11, <2>5, <2>6, Inside
  <2>8. segments[n].data # <<>>
    BY <2>3 DEF Carries
  <2>9. n \in Included(m)
    BY <2>7, <2>8 DEF Included
  <2>10. a >= m.range.start
    BY <1>11 DEF Spans
  <2>. QED
    BY <1>5, <2>3, <2>9, <2>10
<1>12. ASSUME NEW a \in Nat, Spans(m.range, a), InFile(headers, a) = {}
       PROVE  Value(m.range, bytes, a) = 0
  <2>1. ASSUME NEW n \in Included(m), Carries(segments[n], a) PROVE FALSE
    <3>1. n \in DOMAIN segments
      BY DEF Included
    <3>2. PICK j \in Occupied(headers) : segments[n] = Segment(headers[j])
      BY <3>1 DEF Parsed
    <3>3. a \in headers[j].start .. headers[j].start + headers[j].filesize - 1
      BY <2>1, <3>2, HeaderOfSegment
    <3>. QED
      BY <1>12, <3>3 DEF InFile
  <2>2. a >= m.range.start
    BY <1>12 DEF Spans
  <2>. QED
    BY <1>5, <2>1, <2>2
<1>. QED
  BY <1>7, <1>10, <1>11, <1>12 DEF Built
-----------------------------------------------------------------------------
(* The regions of an image and of the additional mappings.                 *)

Executable(list, e) ==
    \E k \in DOMAIN list : "x" \in list[k].permissions /\ ContainsRange(list[k].range, AddressRange(e, Alignment))

Imaged(hs, rs, ad, e) ==
    /\ rs \in Seq(Regions) /\ ad \in Seq(Additions) /\ Executable(rs, e)
    /\ \A k \in DOMAIN rs : Built(hs, rs[k]) \/ \E j \in DOMAIN ad : rs[k] = ad[j]
    /\ \A j \in DOMAIN ad : IsRegion(ad[j]) /\ \E k \in DOMAIN rs : rs[k] = ad[j]
    /\ \A j \in Occupied(hs) : \E k \in DOMAIN rs :
        /\ Built(hs, rs[k])
        /\ \A a \in Nat : a \div Page \in Pages(hs[j]) => Spans(rs[k].range, a)
    /\ \A a \in Nat : \A j \in InFile(hs, a) : a \div Page \in Pages(hs[j])

(* The inductive invariant, stage by stage. *)
IInv ==
    /\ stage \in {"setup", "headers", "mappings"} =>
        Parsed(headers, segments, previous) /\ added = <<>>
    /\ stage \in {"setup", "headers"} => mapped = 0 /\ mappings = <<>>
    /\ stage = "mappings" =>
        /\ Joined(segments, mapped, mappings)
        /\ entry \in Nat
        /\ \E i \in DOMAIN segments : "x" \in segments[i].permissions
                /\ ContainsRange(segments[i].range, AddressRange(entry, Alignment))
    /\ stage \in {"additions", "planned"} => Imaged(headers, regions, added, entry)
    /\ stage = "planned" => InOrder(regions)

LEMMA EntryRange ==
    ASSUME NEW e \in Nat
    PROVE  AddressRange(e, Alignment) \in Ranges
BY LoadingAssumption DEF AddressRange, Ranges

LEMMA InitHolds == LoadingInit => IInv
<1>1. <<>> \in Seq(Headers) /\ <<>> \in Seq(Segs) /\ DOMAIN <<>> = {} /\ 0 \in Nat
  OBVIOUS
<1>2. Parsed(<<>>, <<>>, 0)
  BY <1>1 DEF Parsed, Occupied, InOrder
<1>. QED
  BY <1>2 DEF LoadingInit, IInv

LEMMA HeaderHolds ==
    ASSUME IInv, ReadHeader
    PROVE  IInv'
<1>1. stage = "headers" /\ Parsed(headers, segments, previous) /\ added = <<>>
      /\ mapped = 0 /\ mappings = <<>>
  BY DEF ReadHeader, IInv
<1>2. PICK h \in Headers :
        /\ headers' = Append(headers, h)
        /\ IF h.type = "load" THEN ReadLoad(h)
           ELSE /\ UNCHANGED <<previous, segments>>
                /\ IF Ignored(h) THEN UNCHANGED <<stage, mapped, mappings, regions, entry, added>>
                   ELSE Refuse
  BY DEF ReadHeader
<1>3. CASE stage' = "refused"
  BY <1>3 DEF IInv
<1>4. h.start \in Nat /\ h.size \in Nat /\ previous \in Nat
  BY <1>1, InputsAssumption DEF Parsed
<1>5. ASSUME UNCHANGED <<stage, mapped, mappings, regions, entry, added>>,
             Parsed(headers', segments', previous')
      PROVE  IInv'
  BY <1>1, <1>5 DEF IInv
<1>6. CASE h.type # "load"
  <2>1. Ignored(h) => ~Occupies(h)
    BY <1>6 DEF Ignored, Occupies
  <2>2. Ignored(h) => Parsed(headers', segments', previous')
    BY <1>1, <1>2, <1>4, <1>6, <2>1, HeaderPasses
  <2>3. ~Ignored(h) => stage' = "refused"
    BY <1>2, <1>6 DEF Refuse
  <2>. QED
    BY <1>2, <1>3, <1>5, <1>6, <2>2, <2>3
<1>7. CASE h.type = "load"
  <2>1. ReadLoad(h)
    BY <1>2, <1>7
  <2>2. CASE previous > h.start \/ ~IsCongruent(h) \/ ~(h.flags \subseteq {"r", "w", "x"})
    BY <1>3, <2>1, <2>2 DEF ReadLoad, Refuse
  <2>3. CASE /\ ~(previous > h.start \/ ~IsCongruent(h) \/ ~(h.flags \subseteq {"r", "w", "x"}))
             /\ h.size = 0
    <3>1. ~Occupies(h) /\ previous <= h.start /\ previous' = h.start
      BY <1>4, <2>1, <2>3 DEF Occupies, ReadLoad
    <3>2. segments' = segments /\ UNCHANGED <<stage, mapped, mappings, regions, entry, added>>
      BY <2>1, <2>3 DEF ReadLoad
    <3>3. Parsed(headers', segments', previous')
      BY <1>1, <1>2, <1>4, <3>1, <3>2, HeaderPasses
    <3>. QED
      BY <1>5, <3>2, <3>3
  <2>4. CASE /\ ~(previous > h.start \/ ~IsCongruent(h) \/ ~(h.flags \subseteq {"r", "w", "x"}))
             /\ h.size # 0
             /\ \/ ~IsLoadable(h)
                \/ segments # <<>> /\ Overlaps(Last(segments).range, AddressRange(h.start, h.size))
    BY <1>3, <2>1, <2>4 DEF ReadLoad, Refuse
  <2>5. CASE /\ ~(previous > h.start \/ ~IsCongruent(h) \/ ~(h.flags \subseteq {"r", "w", "x"}))
             /\ h.size # 0 /\ IsLoadable(h)
             /\ ~(segments # <<>> /\ Overlaps(Last(segments).range, AddressRange(h.start, h.size)))
    <3>1. /\ segments' = Append(segments, Segment(h)) /\ previous' = h.start
          /\ UNCHANGED <<stage, mapped, mappings, regions, entry, added>>
      BY <2>1, <2>5 DEF ReadLoad
    <3>2. Occupies(h) /\ h.flags \in Rights /\ previous <= h.start /\ h.filesize <= h.size
      BY <1>4, <1>7, <2>5 DEF Occupies, Rights, IsCongruent
    <3>3. ASSUME segments # <<>> PROVE End(Last(segments).range) <= h.start
      <4>1. segments \in Seq(Segs) /\ Len(segments) \in DOMAIN segments
        BY <1>1, <3>3 DEF Parsed
      <4>2. Last(segments) = segments[Len(segments)] /\ Last(segments) \in Segs
        BY <4>1 DEF Last
      <4>3. Last(segments).range \in Ranges
        BY <4>2 DEF Segs
      <4>4. PICK b \in Nat, e \in Nat : b = Last(segments).range.start /\ e = End(Last(segments).range)
        BY <4>3, RangeIs
      <4>5. b <= previous
        BY <1>1, <4>1, <4>2, <4>4 DEF Parsed
      <4>6. ~(b < h.start + h.size /\ h.start < e)
        BY <2>5, <3>3, <4>4 DEF Overlaps, End, AddressRange
      <4>7. e <= h.start
        BY <1>4, <2>5, <3>2, <4>4, <4>5, <4>6
      <4>. QED
        BY <4>4, <4>7
    <3>4. Parsed(headers', segments', previous')
      BY <1>1, <1>2, <1>7, <3>1, <3>2, <3>3, HeaderOccupies
    <3>. QED
      BY <1>5, <3>1, <3>4
  <2>. QED
    BY <2>2, <2>3, <2>4, <2>5
<1>. QED
  BY <1>6, <1>7

LEMMA EntryHolds ==
    ASSUME IInv, ValidateEntry
    PROVE  IInv'
<1>1. /\ stage = "headers" /\ Parsed(headers, segments, previous) /\ added = <<>>
      /\ mapped = 0 /\ mappings = <<>>
      /\ UNCHANGED <<headers, previous, segments, mapped, mappings, regions, added>>
  BY DEF ValidateEntry, IInv, reading
<1>2. entry' \in Nat
  BY LoadingAssumption DEF ValidateEntry, Addresses
<1>3. Joined(segments, 0, <<>>)
  <2>1. Len(segments) \in Nat
    BY <1>1 DEF Parsed
  <2>. QED
    BY <2>1 DEF Joined, InOrder
<1>4. DEFINE Run == {i \in DOMAIN segments : "x" \in segments[i].permissions}
<1>5. stage' = IF IsEntry(entry', {segments[i].range : i \in Run}) THEN "mappings" ELSE "refused"
  BY DEF ValidateEntry
<1>6. CASE stage' = "refused"
  BY <1>6 DEF IInv
<1>7. CASE IsEntry(entry', {segments[i].range : i \in Run})
  <2>1. \E i \in DOMAIN segments : "x" \in segments[i].permissions
            /\ ContainsRange(segments[i].range, AddressRange(entry', Alignment))
    BY <1>7 DEF IsEntry
  <2>. QED
    BY <1>1, <1>2, <1>3, <1>5, <1>7, <2>1 DEF IInv
<1>. QED
  BY <1>5, <1>6, <1>7

LEMMA MapHolds ==
    ASSUME IInv, MapSegment
    PROVE  IInv'
<1>1. /\ stage = "mappings" /\ Parsed(headers, segments, previous) /\ added = <<>>
      /\ Joined(segments, mapped, mappings) /\ mapped < Len(segments)
      /\ UNCHANGED <<headers, previous, segments, regions, entry, added>>
  BY DEF MapSegment, IInv, reading
<1>2. PICK s : s = segments[mapped + 1]
  OBVIOUS
<1>3. \/ stage' = "refused"
      \/ /\ ~Conflicts(mappings, s) /\ stage' = stage
         /\ mapped' = mapped + 1 /\ mappings' = Merge(mappings, s)
  BY <1>2 DEF MapSegment
<1>4. CASE stage' = "refused"
  BY <1>4 DEF IInv
<1>5. CASE /\ ~Conflicts(mappings, s) /\ stage' = stage
           /\ mapped' = mapped + 1 /\ mappings' = Merge(mappings, s)
  <2>1. /\ segments \in Seq(Segs) /\ InOrder(segments) /\ mapped \in Nat
        /\ \A i \in DOMAIN segments : segments[i].pages = PagesOf(segments[i].range)
    BY <1>1 DEF Parsed, Joined
  <2>2. Joined(segments, mapped + 1, Merge(mappings, s))
    BY <1>1, <1>2, <1>5, <2>1, MergeHolds
  <2>. QED
    BY <1>1, <1>5, <2>2 DEF IInv
<1>. QED
  BY <1>3, <1>4, <1>5
LEMMA InitializeHolds ==
    ASSUME IInv, Initialize
    PROVE  IInv'
<1>1. /\ stage = "mappings" /\ Parsed(headers, segments, previous) /\ added = <<>>
      /\ Joined(segments, mapped, mappings) /\ mapped = Len(segments) /\ entry \in Nat
      /\ UNCHANGED <<headers, entry, added>>
  BY DEF Initialize, IInv, reading
<1>2. PICK e \in DOMAIN segments : /\ "x" \in segments[e].permissions
                                   /\ ContainsRange(segments[e].range, AddressRange(entry, Alignment))
  BY <1>1 DEF IInv
<1>3. PICK list : list = [i \in DOMAIN mappings |-> Region(mappings[i])]
  OBVIOUS
<1>4. stage' = "refused" \/ (stage' = "additions" /\ regions' = list)
  BY <1>3 DEF Initialize
<1>5. CASE stage' = "refused"
  BY <1>5 DEF IInv
<1>6. CASE stage' = "additions" /\ regions' = list
  <2>1. /\ mappings \in Seq(Mappings) /\ InOrder(mappings) /\ segments \in Seq(Segs)
        /\ Joined(segments, Len(segments), mappings)
    BY <1>1 DEF Joined, Parsed
  <2>2. \A k \in DOMAIN mappings : Built(headers, list[k]) /\ list[k] = Region(mappings[k])
    BY <1>1, <1>3, <2>1, RegionBuilt
  <2>3. list \in Seq(Regions) /\ DOMAIN list = DOMAIN mappings
    <3>1. \A k \in DOMAIN mappings : list[k] \in Regions
      BY <2>2 DEF Built
    <3>2. Len(mappings) \in Nat /\ DOMAIN mappings = 1 .. Len(mappings)
      BY <2>1
    <3>. QED
      BY <1>3, <3>1, <3>2
  <2>4. \A i \in DOMAIN segments : \E k \in DOMAIN list :
          list[k].permissions = segments[i].permissions /\ ContainsRange(list[k].range, segments[i].pages)
    <3>1. ASSUME NEW i \in DOMAIN segments
          PROVE  \E k \in DOMAIN mappings : /\ mappings[k].permissions = segments[i].permissions
                                            /\ ContainsRange(mappings[k].range, segments[i].pages)
      <4>1. i \in 1 .. Len(segments)
        BY <2>1
      <4>. QED
        BY <2>1, <4>1 DEF Joined
    <3>2. \A k \in DOMAIN mappings :
            list[k].range = mappings[k].range /\ list[k].permissions = mappings[k].permissions
      <4>1. \A m : Region(m).range = m.range /\ Region(m).permissions = m.permissions
        BY DEF Region
      <4>. QED
        BY <2>2, <4>1
    <3>. QED
      BY <2>3, <3>1, <3>2
  <2>5. \A k \in DOMAIN list : list[k] \in Regions /\ list[k].range \in Ranges
    <3>1. \A k \in DOMAIN list : list[k] \in Regions
      BY <2>3
    <3>2. \A r \in Regions : r.range \in Ranges
      BY DEF Regions
    <3>. QED
      BY <3>1, <3>2
  <2>6. \A i \in DOMAIN segments : segments[i] \in Segs /\ segments[i].pages \in Ranges
            /\ segments[i].range \in Ranges /\ ContainsRange(segments[i].pages, segments[i].range)
    <3>1. \A i \in DOMAIN segments : segments[i] \in Segs
      BY <2>1
    <3>2. \A s \in Segs : s.range \in Ranges /\ s.pages \in Ranges
      BY DEF Segs
    <3>. QED
      BY <1>1, <3>1, <3>2, PagesOfIs DEF Parsed
  <2>7. Executable(list, entry)
    <3>1. PICK k \in DOMAIN list : /\ list[k].permissions = segments[e].permissions
                                   /\ ContainsRange(list[k].range, segments[e].pages)
      BY <2>4
    <3>2. AddressRange(entry, Alignment) \in Ranges
      BY <1>1, EntryRange
    <3>3. ContainsRange(list[k].range, segments[e].range)
      BY <2>5, <2>6, <3>1, Inside, 0 \in Nat
    <3>4. ContainsRange(list[k].range, AddressRange(entry, Alignment))
      BY <1>2, <2>5, <2>6, <3>2, <3>3, Inside, 0 \in Nat
    <3>. QED
      BY <1>2, <3>1, <3>4 DEF Executable
  <2>8. ASSUME NEW j \in Occupied(headers)
        PROVE  \E k \in DOMAIN list :
                 /\ Built(headers, list[k])
                 /\ \A a \in Nat : a \div Page \in Pages(headers[j]) => Spans(list[k].range, a)
    <3>1. PICK i \in DOMAIN segments : segments[i] = Segment(headers[j])
      BY <1>1 DEF Parsed
    <3>2. PICK k \in DOMAIN list : ContainsRange(list[k].range, segments[i].pages)
      BY <2>4
    <3>3. ASSUME NEW a \in Nat, a \div Page \in Pages(headers[j]) PROVE Spans(list[k].range, a)
      <4>1. Spans(segments[i].pages, a)
        BY <1>1, <3>1, <3>3, HeaderOfSegment
      <4>. QED
        BY <2>5, <2>6, <3>2, <4>1, Inside
    <3>. QED
      BY <2>2, <2>3, <3>3
  <2>9. ASSUME NEW a \in Nat, NEW j \in InFile(headers, a) PROVE a \div Page \in Pages(headers[j])
    <3>1. j \in Occupied(headers) /\ a \in headers[j].start .. headers[j].start + headers[j].filesize - 1
      BY DEF InFile
    <3>2. PICK i \in DOMAIN segments : segments[i] = Segment(headers[j])
      BY <1>1, <3>1 DEF Parsed
    <3>3. Carries(segments[i], a) /\ Len(segments[i].data) <= segments[i].range.length
      BY <1>1, <3>1, <3>2, HeaderOfSegment DEF Parsed
    <3>4. Spans(segments[i].range, a)
      BY <2>6, <3>3, ByteIs
    <3>5. Spans(segments[i].pages, a)
      BY <2>6, <3>4, Inside
    <3>. QED
      BY <1>1, <3>1, <3>2, <3>5, HeaderOfSegment
  <2>10. <<>> \in Seq(Additions) /\ DOMAIN <<>> = {}
    OBVIOUS
  <2>11. Imaged(headers, list, <<>>, entry)
    BY <2>2, <2>3, <2>7, <2>8, <2>9, <2>10 DEF Imaged
  <2>. QED
    BY <1>1, <1>6, <2>11 DEF IInv
<1>. QED
  BY <1>4, <1>5, <1>6

(* Raw code is one header of its own, and one region. *)
RawHeader(raw) ==
    [type |-> "raw", start |-> raw.base, offset |-> 0, size |-> raw.length,
     filesize |-> raw.length, align |-> 1, flags |-> {"r", "x"}]
RawBytes(raw) ==
    [b \in 1 .. (raw.base % Page) + raw.length |->
        IF b <= raw.base % Page THEN 0 ELSE b - (raw.base % Page)]
RawRegion(raw) ==
    [range |-> PagesOf(AddressRange(raw.base, raw.length)), permissions |-> {"r", "x"},
     initial |-> RawBytes(raw)]

LEMMA RawBuilt ==
    ASSUME NEW raw \in Raws, raw.length > 0, NEW hs, hs = <<RawHeader(raw)>>,
           NEW r, r = RawRegion(raw), NEW e \in Nat,
           ContainsRange(AddressRange(raw.base, raw.length), AddressRange(e, Alignment))
    PROVE  Imaged(hs, <<r>>, <<>>, e)
<1>1. PICK b \in Nat, n \in Nat \ {0} : b = raw.base /\ n = raw.length
  BY InputsAssumption, LoadingAssumption DEF Addresses
<1>2. PICK o : o = b % Page
  OBVIOUS
<1>3. PICK range : range = AddressRange(b, n)
  OBVIOUS
<1>4. range \in Ranges /\ range.start = b /\ range.length = n
  BY <1>1, <1>3 DEF AddressRange, Ranges
<1>5. o \in Nat /\ o <= b /\ PageStart(b) = b - o
  <2>1. Page \in Nat \ {0}
    BY LoadingAssumption
  <2>2. PICK q : q = b \div Page
    OBVIOUS
  <2>3. q \in Nat /\ o \in 0 .. Page - 1 /\ b = Page * q + o
    BY <1>1, <1>2, <2>1, <2>2, Division
  <2>4. Page * q \in Nat
    BY <2>1, <2>3
  <2>5. PageStart(b) = b - o
    BY <1>2 DEF PageStart
  <2>. QED
    BY <1>1, <2>1, <2>3, <2>4, <2>5
<1>6. PICK bytes : bytes = [k \in 1 .. o + n |-> IF k <= o THEN 0 ELSE k - o]
  OBVIOUS
<1>7. /\ bytes \in Seq(Nat) /\ DOMAIN bytes = 1 .. o + n
      /\ \A k \in 1 .. o + n : bytes[k] = IF k <= o THEN 0 ELSE k - o
  <2>1. \A k \in 1 .. o + n : (IF k <= o THEN 0 ELSE k - o) \in Nat
    BY <1>1, <1>5
  <2>2. o + n \in Nat
    BY <1>1, <1>5
  <2>. QED
    BY <1>6, <2>1, <2>2
<1>8. r = [range |-> PagesOf(range), permissions |-> {"r", "x"}, initial |-> bytes]
  BY <1>1, <1>2, <1>3, <1>6 DEF RawRegion, RawBytes
<1>9. /\ PagesOf(range) \in Ranges /\ PagesOf(range).start = b - o
      /\ ContainsRange(PagesOf(range), range)
      /\ \A a \in Nat : Spans(PagesOf(range), a) <=> a \div Page \in PagesIn(range)
  BY <1>4, <1>5, PagesOfIs
<1>10. /\ r.range = PagesOf(range) /\ r.permissions = {"r", "x"} /\ r.initial = bytes /\ r \in Regions
  BY <1>7, <1>8, <1>9 DEF Regions, Rights
<1>11. PICK h : h = RawHeader(raw)
  OBVIOUS
<1>12. /\ hs = <<h>> /\ h.start = b /\ h.offset = 0 /\ h.size = n /\ h.filesize = n
       /\ h.flags = {"r", "x"} /\ h.type = "raw"
  BY <1>1, <1>11 DEF RawHeader
<1>13. Occupied(hs) = {1} /\ hs[1] = h
  BY <1>1, <1>12 DEF Occupied, Occupies
<1>14. Pages(h) = PagesIn(range)
  BY <1>4, <1>12 DEF Pages, Bytes, PagesIn
<1>15. \A a \in Nat : Spans(r.range, a) <=> a \div Page \in Pages(h)
  BY <1>9, <1>10, <1>14
<1>16. \A a \in Nat : InFile(hs, a) = IF a \in b .. b + n - 1 THEN {1} ELSE {}
  BY <1>12, <1>13 DEF InFile
<1>17. ASSUME NEW a \in Nat, Spans(r.range, a)
       PROVE  /\ Flags(hs, a \div Page) = {r.permissions}
              /\ InFile(hs, a) = {} => Value(r.range, r.initial, a) = 0
              /\ \A i \in InFile(hs, a) :
                  Value(r.range, r.initial, a) = hs[i].offset + a - hs[i].start + 1
  <2>1. Flags(hs, a \div Page) = {r.permissions}
    <3>1. a \div Page \in Pages(hs[1]) /\ hs[1].flags = r.permissions
      BY <1>10, <1>12, <1>13, <1>15, <1>17
    <3>. QED
      BY <1>13, <3>1 DEF Flags
  <2>2. b - o <= a
    BY <1>9, <1>10, <1>17 DEF Spans
  <2>3. PICK k : k = a - (b - o) + 1
    OBVIOUS
  <2>4. Value(r.range, r.initial, a) = IF k \in 1 .. o + n THEN bytes[k] ELSE 0
    BY <1>7, <1>9, <1>10, <2>3 DEF Value
  <2>5. k \in Nat \ {0} /\ (a < b <=> k <= o) /\ (a <= b + n - 1 <=> k <= o + n) /\ k - o = a - b + 1
    BY <1>1, <1>5, <2>2, <2>3
  <2>6. CASE a \in b .. b + n - 1
    <3>1. k \in 1 .. o + n /\ ~(k <= o)
      BY <1>1, <1>5, <2>5, <2>6
    <3>2. Value(r.range, r.initial, a) = a - b + 1
      BY <1>7, <2>4, <2>5, <3>1
    <3>3. 0 + a - b + 1 = a - b + 1
      BY <1>1
    <3>4. InFile(hs, a) = {1}
      BY <1>16, <2>6
    <3>. QED
      BY <1>12, <1>13, <2>1, <3>2, <3>3, <3>4
  <2>7. CASE a \notin b .. b + n - 1
    <3>1. a < b \/ ~(a <= b + n - 1)
      BY <1>1, <2>7
    <3>2. k \in 1 .. o + n => k <= o
      BY <1>1, <1>5, <2>5, <3>1
    <3>3. Value(r.range, r.initial, a) = 0
      BY <1>7, <2>4, <3>2
    <3>4. InFile(hs, a) = {}
      BY <1>16, <2>7
    <3>. QED
      BY <2>1, <3>3, <3>4
  <2>. QED
    BY <2>6, <2>7
<1>18. Built(hs, r)
  BY <1>10, <1>17 DEF Built
<1>19. Executable(<<r>>, e)
  <2>1. AddressRange(e, Alignment) \in Ranges /\ ContainsRange(range, AddressRange(e, Alignment))
    BY <1>1, <1>3, EntryRange
  <2>2. ContainsRange(PagesOf(range), AddressRange(e, Alignment))
    BY <1>4, <1>9, <2>1, Inside, 0 \in Nat
  <2>3. 1 \in DOMAIN <<r>> /\ <<r>>[1] = r
    OBVIOUS
  <2>4. "x" \in r.permissions
    BY <1>10
  <2>. QED
    BY <1>10, <2>2, <2>3, <2>4 DEF Executable
<1>20. \A a \in Nat : \A j \in InFile(hs, a) : a \div Page \in Pages(hs[j])
  <2>1. ASSUME NEW a \in Nat, NEW j \in InFile(hs, a) PROVE a \div Page \in Pages(hs[j])
    <3>1. j = 1 /\ a \in b .. b + n - 1
      BY <1>16, <2>1
    <3>. QED
      BY <1>12, <1>13, <3>1 DEF Pages, Bytes
  <2>. QED
    BY <2>1
<1>21. /\ <<r>> \in Seq(Regions) /\ DOMAIN <<r>> = {1} /\ <<r>>[1] = r
       /\ <<>> \in Seq(Additions) /\ DOMAIN <<>> = {}
  BY <1>10
<1>22. \A j \in Occupied(hs) : \E k \in DOMAIN <<r>> :
         /\ Built(hs, <<r>>[k])
         /\ \A a \in Nat : a \div Page \in Pages(hs[j]) => Spans(<<r>>[k].range, a)
  BY <1>13, <1>15, <1>18, <1>21
<1>. QED
  BY <1>18, <1>19, <1>20, <1>21, <1>22 DEF Imaged

LEMMA RawHolds ==
    ASSUME IInv, LoadRaw
    PROVE  IInv'
<1>1. stage = "setup" /\ added = <<>> /\ UNCHANGED added
  BY DEF LoadRaw, IInv
<1>2. PICK raw \in Raws :
        /\ headers' = <<RawHeader(raw)>>
        /\ entry' \in Entries
        /\ IF /\ IsRange(AddressRange(raw.base, raw.length), FileLimit)
              /\ IsEntry(entry', {AddressRange(raw.base, raw.length)})
              /\ IsRange(RawRegion(raw).range, MaxMapped) /\ IsRegion(RawRegion(raw))
              /\ IsLayout(<<RawRegion(raw)>>)
           THEN regions' = <<RawRegion(raw)>> /\ stage' = "additions"
           ELSE stage' = "refused" /\ UNCHANGED regions
  BY Zenon DEF LoadRaw, RawHeader, RawRegion, RawBytes
<1>3. CASE stage' = "refused"
  BY <1>3 DEF IInv
<1>4. CASE stage' # "refused"
  <2>1. /\ IsRange(AddressRange(raw.base, raw.length), FileLimit)
        /\ IsEntry(entry', {AddressRange(raw.base, raw.length)})
        /\ regions' = <<RawRegion(raw)>> /\ stage' = "additions"
    BY <1>2, <1>4
  <2>2. entry' \in Nat
    BY <1>2, LoadingAssumption DEF Addresses
  <2>3. raw.length > 0
    <3>1. raw.length \in 1 .. FileLimit /\ raw.length \in Nat
      BY <2>1, InputsAssumption DEF IsRange, AddressRange
    <3>. QED
      BY <3>1
  <2>4. ContainsRange(AddressRange(raw.base, raw.length), AddressRange(entry', Alignment))
    BY <2>1 DEF IsEntry
  <2>5. Imaged(headers', regions', <<>>, entry')
    BY <1>2, <2>1, <2>2, <2>3, <2>4, RawBuilt
  <2>. QED
    BY <1>1, <2>1, <2>5 DEF IInv
<1>. QED
  BY <1>3, <1>4
(* The same elements, in another order, are the same image. *)
LEMMA ImageReordered ==
    ASSUME NEW hs, NEW rs, NEW ad, NEW e, Imaged(hs, rs, ad, e), NEW ts \in Seq(Regions),
           \A i \in DOMAIN ts : \E j \in DOMAIN rs : ts[i] = rs[j],
           \A j \in DOMAIN rs : \E i \in DOMAIN ts : ts[i] = rs[j]
    PROVE  Imaged(hs, ts, ad, e)
<1>1. Executable(ts, e)
  <2>1. PICK k \in DOMAIN rs : /\ "x" \in rs[k].permissions
                               /\ ContainsRange(rs[k].range, AddressRange(e, Alignment))
    BY DEF Imaged, Executable
  <2>2. PICK i \in DOMAIN ts : ts[i] = rs[k]
    OBVIOUS
  <2>. QED
    BY <2>1, <2>2 DEF Executable
<1>2. \A k \in DOMAIN ts : Built(hs, ts[k]) \/ \E j \in DOMAIN ad : ts[k] = ad[j]
  BY DEF Imaged
<1>3. \A j \in DOMAIN ad : IsRegion(ad[j]) /\ \E k \in DOMAIN ts : ts[k] = ad[j]
  BY DEF Imaged
<1>4. ASSUME NEW j \in Occupied(hs)
      PROVE  \E k \in DOMAIN ts :
               /\ Built(hs, ts[k])
               /\ \A a \in Nat : a \div Page \in Pages(hs[j]) => Spans(ts[k].range, a)
  <2>1. PICK k \in DOMAIN rs :
          /\ Built(hs, rs[k])
          /\ \A a \in Nat : a \div Page \in Pages(hs[j]) => Spans(rs[k].range, a)
    BY DEF Imaged
  <2>2. PICK i \in DOMAIN ts : ts[i] = rs[k]
    OBVIOUS
  <2>. QED
    BY <2>1, <2>2
<1>. QED
  BY <1>1, <1>2, <1>3, <1>4 DEF Imaged

LEMMA ImageGrows ==
    ASSUME NEW hs, NEW rs, NEW ad, NEW e, Imaged(hs, rs, ad, e), NEW m \in Additions, IsRegion(m)
    PROVE  Imaged(hs, Append(rs, m), Append(ad, m), e)
<1>1. rs \in Seq(Regions) /\ ad \in Seq(Additions)
  BY DEF Imaged
<1>2. m \in Regions
  BY InputsAssumption DEF Regions, Ranges, Rights
<1>3. PICK ts : ts = Append(rs, m)
  OBVIOUS
<1>4. PICK bs : bs = Append(ad, m)
  OBVIOUS
<1>5. /\ ts \in Seq(Regions) /\ DOMAIN ts = DOMAIN rs \cup {Len(rs) + 1}
      /\ ts[Len(rs) + 1] = m /\ \A k \in DOMAIN rs : ts[k] = rs[k]
  BY <1>1, <1>2, <1>3
<1>6. /\ bs \in Seq(Additions) /\ DOMAIN bs = DOMAIN ad \cup {Len(ad) + 1}
      /\ bs[Len(ad) + 1] = m /\ \A k \in DOMAIN ad : bs[k] = ad[k]
  BY <1>1, <1>4
<1>7. Executable(ts, e)
  <2>1. PICK k \in DOMAIN rs : /\ "x" \in rs[k].permissions
                               /\ ContainsRange(rs[k].range, AddressRange(e, Alignment))
    BY DEF Imaged, Executable
  <2>2. k \in DOMAIN ts /\ ts[k] = rs[k]
    BY <1>5
  <2>. QED
    BY <2>1, <2>2 DEF Executable
<1>8. \A k \in DOMAIN ts : Built(hs, ts[k]) \/ \E j \in DOMAIN bs : ts[k] = bs[j]
  <2>1. ASSUME NEW k \in DOMAIN rs PROVE Built(hs, ts[k]) \/ \E j \in DOMAIN bs : ts[k] = bs[j]
    <3>1. Built(hs, rs[k]) \/ \E j \in DOMAIN ad : rs[k] = ad[j]
      BY DEF Imaged
    <3>. QED
      BY <1>5, <1>6, <3>1
  <2>. QED
    BY <1>5, <1>6, <2>1
<1>9. \A j \in DOMAIN bs : IsRegion(bs[j]) /\ \E k \in DOMAIN ts : ts[k] = bs[j]
  <2>1. ASSUME NEW j \in DOMAIN ad PROVE IsRegion(bs[j]) /\ \E k \in DOMAIN ts : ts[k] = bs[j]
    <3>1. IsRegion(ad[j]) /\ \E k \in DOMAIN rs : rs[k] = ad[j]
      BY DEF Imaged
    <3>. QED
      BY <1>5, <1>6, <3>1
  <2>. QED
    BY <1>5, <1>6, <2>1
<1>10. ASSUME NEW j \in Occupied(hs)
       PROVE  \E k \in DOMAIN ts :
                /\ Built(hs, ts[k])
                /\ \A a \in Nat : a \div Page \in Pages(hs[j]) => Spans(ts[k].range, a)
  <2>1. PICK k \in DOMAIN rs :
          /\ Built(hs, rs[k])
          /\ \A a \in Nat : a \div Page \in Pages(hs[j]) => Spans(rs[k].range, a)
    BY DEF Imaged
  <2>2. k \in DOMAIN ts /\ ts[k] = rs[k]
    BY <1>5
  <2>. QED
    BY <2>1, <2>2
<1>11. \A a \in Nat : \A j \in InFile(hs, a) : a \div Page \in Pages(hs[j])
  BY DEF Imaged
<1>12. ts \in Seq(Regions) /\ bs \in Seq(Additions)
  BY <1>5, <1>6
<1>13. Imaged(hs, ts, bs, e)
  BY <1>7, <1>8, <1>9, <1>10, <1>11, <1>12 DEF Imaged
<1>. QED
  BY <1>3, <1>4, <1>13

LEMMA AddHolds ==
    ASSUME IInv, AddMapping
    PROVE  IInv'
<1>1. /\ stage = "additions" /\ Imaged(headers, regions, added, entry)
      /\ UNCHANGED <<headers, entry>>
  BY DEF AddMapping, IInv, reading
<1>2. PICK m \in Additions :
        /\ added' = Append(added, m)
        /\ IF IsRegion(m) THEN regions' = Append(regions, m) /\ UNCHANGED stage
           ELSE stage' = "refused" /\ UNCHANGED regions
  BY DEF AddMapping
<1>3. CASE IsRegion(m)
  <2>1. Imaged(headers, regions', added', entry)
    BY <1>1, <1>2, <1>3, ImageGrows
  <2>. QED
    BY <1>1, <1>2, <1>3, <2>1 DEF IInv
<1>4. CASE ~IsRegion(m)
  BY <1>2, <1>4 DEF IInv
<1>. QED
  BY <1>3, <1>4

LEMMA EndsBefore ==
    ASSUME NEW a \in Nat, NEW b \in Nat, NEW c \in Nat, NEW e \in Nat, NEW f \in Nat,
           a <= b, b < f, b <= c, ~(a < f /\ b < e)
    PROVE  e <= c
<1>1. a < f
  OBVIOUS
<1>2. e <= b
  BY <1>1
<1>. QED
  BY <1>2

(* Neighbours that do not overlap, in a list sorted by start, are enough. *)
LEMMA NeighboursApart ==
    ASSUME NEW list \in Seq(Regions),
           \A i, j \in DOMAIN list : i < j => list[i].range.start <= list[j].range.start,
           \A i \in 1 .. Len(list) - 1 : ~Overlaps(list[i].range, list[i + 1].range)
    PROVE  InOrder(list)
<1>1. PICK n \in Nat : n = Len(list) /\ DOMAIN list = 1 .. n
  OBVIOUS
<1>2. \A i \in 1 .. n : list[i].range \in Ranges
  <2>1. \A i \in 1 .. n : list[i] \in Regions
    BY <1>1
  <2>2. \A r \in Regions : r.range \in Ranges
    BY DEF Regions
  <2>. QED
    BY <2>1, <2>2
<1>3. ASSUME NEW i \in 1 .. n, NEW j \in 1 .. n, i < j
      PROVE  End(list[i].range) <= list[j].range.start
  <2>1. PICK k \in 1 .. n : k = i + 1 /\ i \in 1 .. n - 1 /\ i < k /\ (k = j \/ k < j)
    BY <1>3
  <2>2. PICK a \in Nat, e \in Nat : a = list[i].range.start /\ e = End(list[i].range)
    BY <1>2, RangeIs
  <2>3. PICK b \in Nat, f \in Nat : b = list[k].range.start /\ f = End(list[k].range) /\ b < f
    BY <1>2, RangeIs
  <2>4. PICK c \in Nat : c = list[j].range.start
    BY <1>2, RangeIs
  <2>5. a <= b
    BY <1>1, <2>1, <2>2, <2>3
  <2>6. b <= c
    <3>1. k < j => b <= c
      BY <1>1, <2>1, <2>3, <2>4
    <3>2. k = j => b = c
      BY <2>3, <2>4
    <3>. QED
      BY <2>1, <2>3, <2>4, <3>1, <3>2
  <2>7. ~Overlaps(list[i].range, list[k].range)
    BY <1>1, <2>1
  <2>8. ~(a < f /\ b < e)
    BY <2>2, <2>3, <2>7 DEF Overlaps
  <2>9. e <= c
    <3>1. b < f
      BY <2>3
    <3>. QED
      BY <2>5, <2>6, <2>8, <3>1, EndsBefore, Zenon
  <2>. QED
    BY <2>2, <2>4, <2>9
<1>. QED
  BY <1>1, <1>3 DEF InOrder

LEMMA PlanHolds ==
    ASSUME IInv, Plan
    PROVE  IInv'
<1>1. /\ stage = "additions" /\ Imaged(headers, regions, added, entry)
      /\ regions' = SortedByStart(regions)
      /\ UNCHANGED <<headers, entry, added>>
  BY DEF Plan, IInv, reading
<1>2. stage' = IF IsLayout(regions') THEN "planned" ELSE "refused"
  BY DEF Plan
<1>3. regions \in Seq(Regions)
  BY <1>1 DEF Imaged
<1>4. \A i \in DOMAIN regions : regions[i].range.start \in Nat
  <2>1. \A i \in DOMAIN regions : regions[i] \in Regions
    BY <1>3
  <2>2. \A r \in Regions : r.range \in Ranges
    BY DEF Regions
  <2>. QED
    BY <2>1, <2>2, RangeIs
<1>5. PICK ts : ts = regions'
  OBVIOUS
<1>6. /\ ts \in Seq(Regions)
      /\ \A i \in DOMAIN ts : \E j \in DOMAIN regions : ts[i] = regions[j]
      /\ \A j \in DOMAIN regions : \E i \in DOMAIN ts : ts[i] = regions[j]
      /\ \A i, j \in DOMAIN ts : i < j => ts[i].range.start <= ts[j].range.start
  <2>1. ts = SortedByStart(regions)
    BY <1>1, <1>5
  <2>2. ts \in Seq(Regions) /\ Reorders(ts, regions)
    BY <1>3, <1>4, <2>1, SortedIs
  <2>. QED
    BY <2>2 DEF Reorders
<1>7. Imaged(headers, ts, added, entry)
  BY <1>1, <1>6, ImageReordered
<1>8. CASE IsLayout(regions')
  <2>1. InOrder(ts)
    BY <1>5, <1>6, <1>8, NeighboursApart DEF IsLayout
  <2>. QED
    BY <1>1, <1>2, <1>5, <1>7, <1>8, <2>1 DEF IInv
<1>9. CASE ~IsLayout(regions')
  BY <1>2, <1>9 DEF IInv
<1>. QED
  BY <1>8, <1>9

LEMMA StepHolds == IInv /\ [LoadingNext]_loadingVars => IInv'
<1> SUFFICES ASSUME IInv, [LoadingNext]_loadingVars
             PROVE  IInv'
  OBVIOUS
<1>1. CASE ReadFileHeader
  BY <1>1 DEF ReadFileHeader, IInv, reading
<1>2. CASE ReadHeader
  BY <1>2, HeaderHolds
<1>3. CASE ValidateEntry
  BY <1>3, EntryHolds
<1>4. CASE MapSegment
  BY <1>4, MapHolds
<1>5. CASE Initialize
  BY <1>5, InitializeHolds
<1>6. CASE LoadRaw
  BY <1>6, RawHolds
<1>7. CASE AddMapping
  BY <1>7, AddHolds
<1>8. CASE Plan
  BY <1>8, PlanHolds
<1>9. CASE UNCHANGED loadingVars
  BY <1>9 DEF IInv, loadingVars, reading
<1>. QED
  BY <1>1, <1>2, <1>3, <1>4, <1>5, <1>6, <1>7, <1>8, <1>9 DEF LoadingNext

LEMMA LoadingHolds == LoadingSpec => []IInv
<1>1. LoadingInit => IInv
  BY InitHolds
<1>2. IInv /\ [LoadingNext]_loadingVars => IInv'
  BY StepHolds
<1>. QED
  BY <1>1, <1>2, PTL DEF LoadingSpec
-----------------------------------------------------------------------------
(* What the planned regions are, address by address.                       *)

LEMMA CardinalityOfOne ==
    ASSUME NEW T, \A x, y \in T : x = y
    PROVE  Cardinality(T) <= 1
<1>1. CASE T = {}
  BY <1>1, FS_EmptySet
<1>2. CASE T # {}
  <2>1. PICK x \in T : T = {x}
    BY <1>2
  <2>2. Cardinality({x}) = 1
    BY FS_Singleton
  <2>. QED
    BY <2>1, <2>2
<1>. QED
  BY <1>1, <1>2

LEMMA FromStart ==
    ASSUME NEW a \in Nat, NEW b \in Nat, NEW n \in Nat
    PROVE  a \in b .. b + n - 1 <=> a - b + 1 \in 1 .. n
  OBVIOUS

LEMMA ImageAt ==
    ASSUME Imaged(headers, regions, added, entry), InOrder(regions), NEW a \in Nat
    PROVE  LET page == a \div Page
               given == IF page \in MappedPages THEN Permissions(page)
                        ELSE {added[i].permissions : i \in {j \in DOMAIN added : page \in Added(added[j])}}
           IN  /\ {regions[i].permissions : i \in Holding(a)} = given
               /\ Cardinality(Holding(a)) <= 1
               /\ \A i \in Holding(a) : At(i, a) = Contents(a)
<1> DEFINE page == a \div Page
           there == {j \in DOMAIN added : page \in Added(added[j])}
<1>1. regions \in Seq(Regions) /\ added \in Seq(Additions)
  BY DEF Imaged
<1>2. DOMAIN regions \subseteq Nat /\ \A k \in DOMAIN regions : regions[k] \in Regions
  BY <1>1
<1>3. \A r \in Regions : r.range \in Ranges /\ r.initial \in Seq(Nat)
  BY DEF Regions
<1>4. \A k \in DOMAIN regions : regions[k].range \in Ranges
  BY <1>2, <1>3
<1>5. \A j \in DOMAIN added : /\ added[j] \in Regions /\ added[j].range \in Ranges
                              /\ added[j].initial \in Seq(Nat) /\ IsRegion(added[j])
  <2>1. Additions \subseteq Regions
    BY InputsAssumption DEF Regions, Ranges, Rights
  <2>2. \A j \in DOMAIN added : added[j] \in Regions
    BY <1>1, <2>1
  <2>. QED
    BY <1>3, <2>2 DEF Imaged
<1>6. Holding(a) = {k \in DOMAIN regions : Spans(regions[k].range, a)}
  <2>1. ASSUME NEW range \in Ranges PROVE a \in range.start .. End(range) - 1 <=> Spans(range, a)
    <3>1. PICK b \in Nat, e \in Nat : b = range.start /\ e = End(range)
      BY RangeIs
    <3>2. a \in b .. e - 1 <=> b <= a /\ a < e
      BY <3>1
    <3>. QED
      BY <3>1, <3>2 DEF Spans
  <2>. QED
    BY <1>4, <2>1 DEF Holding
<1>7. \A i, j \in Holding(a) : i = j
  BY <1>2, <1>4, <1>6, HeldOnce
<1>8. Occupying = Occupied(headers)
  BY DEF Occupying, Occupied, Occupies
<1>9. Permissions(page) = Flags(headers, page)
  BY <1>8 DEF Permissions, Flags
<1>10. \A j \in DOMAIN added : page \in Added(added[j]) <=> Spans(added[j].range, a)
  <2>1. ASSUME NEW j \in DOMAIN added PROVE page \in Added(added[j]) <=> Spans(added[j].range, a)
    <3>1. PICK range \in Ranges : range = added[j].range
      BY <1>5
    <3>2. range.start % Page = 0 /\ range.length % Page = 0
      BY <1>5, <3>1 DEF IsRegion
    <3>3. Spans(range, a) <=> page \in PagesIn(range)
      BY <3>2, WholePages
    <3>4. range.start + range.length - 1 = End(range) - 1
      BY <3>1 DEF Ranges, End
    <3>5. Added(added[j]) = PagesIn(range)
      BY <3>1, <3>4 DEF Added, PagesIn
    <3>. QED
      BY <3>1, <3>3, <3>5
  <2>. QED
    BY <2>1
<1>11. \A j \in DOMAIN added : Spans(added[j].range, a) =>
         \E k \in Holding(a) : regions[k] = added[j]
  BY <1>6 DEF Imaged
<1>12. \A k \in Holding(a) : Built(headers, regions[k]) \/ \E j \in DOMAIN added : regions[k] = added[j]
  BY <1>6 DEF Imaged
<1>13. ASSUME NEW j \in Occupied(headers), page \in Pages(headers[j])
       PROVE  \E k \in Holding(a) : Built(headers, regions[k])
  BY <1>6, <1>13 DEF Imaged
<1>14. \A k \in Holding(a) : Built(headers, regions[k]) =>
         /\ Flags(headers, page) = {regions[k].permissions}
         /\ InFile(headers, a) = {} => Value(regions[k].range, regions[k].initial, a) = 0
         /\ \A i \in InFile(headers, a) :
             Value(regions[k].range, regions[k].initial, a) = headers[i].offset + a - headers[i].start + 1
  BY <1>6 DEF Built
<1>15. page \in MappedPages <=> \E j \in Occupied(headers) : page \in Pages(headers[j])
  BY <1>8 DEF MappedPages
<1> HIDE DEF page
<1>16. ASSUME page \in MappedPages
       PROVE  {regions[i].permissions : i \in Holding(a)} = Permissions(page)
  <2>1. PICK k \in Holding(a) : Built(headers, regions[k])
    BY <1>13, <1>15, <1>16
  <2>2. Holding(a) = {k}
    BY <1>7, <2>1
  <2>3. Permissions(page) = {regions[k].permissions}
    BY <1>9, <1>14, <2>1
  <2>. QED
    BY <2>2, <2>3
<1>17. ASSUME page \notin MappedPages
       PROVE  {regions[i].permissions : i \in Holding(a)} = {added[i].permissions : i \in there}
  <2>1. Flags(headers, page) = {}
    BY <1>15, <1>17 DEF Flags
  <2>2. ASSUME NEW k \in Holding(a) PROVE \E j \in there : regions[k] = added[j]
    <3>1. ~Built(headers, regions[k])
      BY <1>14, <2>1
    <3>2. PICK j \in DOMAIN added : regions[k] = added[j]
      BY <1>12, <3>1
    <3>3. Spans(added[j].range, a)
      BY <1>6, <3>2
    <3>. QED
      BY <1>10, <3>2, <3>3
  <2>3. ASSUME NEW j \in there PROVE \E k \in Holding(a) : regions[k] = added[j]
    BY <1>10, <1>11
  <2>. QED
    BY <2>2, <2>3
<1>18. ASSUME NEW k \in Holding(a)
       PROVE  Value(regions[k].range, regions[k].initial, a) = Contents(a)
  <2> DEFINE inAdded == {i \in DOMAIN added :
                a \in added[i].range.start .. added[i].range.start + Len(added[i].initial) - 1}
  <2>1. InFile(headers, a) = {i \in Occupying :
                a \in headers[i].start .. headers[i].start + headers[i].filesize - 1}
    BY <1>8 DEF InFile
  <2>2. ASSUME NEW j \in DOMAIN added
        PROVE  /\ j \in inAdded <=> a - added[j].range.start + 1 \in DOMAIN added[j].initial
               /\ j \in inAdded => Spans(added[j].range, a)
    <3>1. PICK b \in Nat, l \in Nat : b = added[j].range.start /\ l = added[j].range.length
                                      /\ End(added[j].range) = b + l
      BY <1>5 DEF Ranges, End
    <3>2. PICK n \in Nat : n = Len(added[j].initial) /\ DOMAIN added[j].initial = 1 .. n
      BY <1>5
    <3>3. n <= l
      BY <1>5, <3>1, <3>2 DEF IsRegion
    <3>4. a \in b .. b + n - 1 <=> a - b + 1 \in 1 .. n
      BY FromStart
    <3>5. a \in b .. b + n - 1 => b <= a /\ a < b + l
      BY <3>1, <3>2, <3>3
    <3>. QED
      BY <3>1, <3>2, <3>4, <3>5 DEF Spans
  <2>3. CASE InFile(headers, a) # {}
    <3>1. PICK i \in InFile(headers, a) : i = CHOOSE x \in InFile(headers, a) : TRUE
      BY <2>3
    <3>2. Contents(a) = headers[i].offset + a - headers[i].start + 1
      BY <2>1, <2>3, <3>1, Zenon DEF Contents
    <3>3. i \in Occupied(headers) /\ page \in Pages(headers[i])
      BY DEF Imaged, InFile, page
    <3>4. PICK l \in Holding(a) : Built(headers, regions[l])
      BY <1>13, <3>3
    <3>5. k = l
      BY <1>7
    <3>. QED
      BY <1>14, <3>2, <3>4, <3>5
  <2>4. CASE InFile(headers, a) = {} /\ inAdded # {}
    <3>1. PICK n \in inAdded : n = CHOOSE x \in inAdded : TRUE
      BY <2>4
    <3>2. Contents(a) = added[n].initial[a - added[n].range.start + 1]
      BY <2>1, <2>4, <3>1, Zenon DEF Contents
    <3>3. PICK l \in Holding(a) : regions[l] = added[n]
      BY <1>11, <2>2
    <3>4. k = l
      BY <1>7
    <3>5. a - added[n].range.start + 1 \in DOMAIN added[n].initial
      BY <2>2
    <3>. QED
      BY <3>2, <3>3, <3>4, <3>5 DEF Value
  <2>5. CASE InFile(headers, a) = {} /\ inAdded = {}
    <3>1. Contents(a) = 0
      BY <2>1, <2>5, Zenon DEF Contents
    <3>2. CASE Built(headers, regions[k])
      BY <1>14, <2>5, <3>1, <3>2
    <3>3. CASE \E j \in DOMAIN added : regions[k] = added[j]
      <4>1. PICK j \in DOMAIN added : regions[k] = added[j]
        BY <3>3
      <4>2. ~(a - added[j].range.start + 1 \in DOMAIN added[j].initial)
        BY <2>2, <2>5
      <4>. QED
        BY <3>1, <4>1, <4>2 DEF Value
    <3>. QED
      BY <1>12, <3>2, <3>3
  <2>. QED
    BY <2>3, <2>4, <2>5
<1>19. \A k \in Holding(a) : At(k, a) = Value(regions[k].range, regions[k].initial, a)
  BY DEF At, Value
<1>20. Cardinality(Holding(a)) <= 1
  BY <1>7, CardinalityOfOne
<1>. QED
  BY <1>16, <1>17, <1>18, <1>19, <1>20 DEF page

(* A planned memory is the image of the file and of the additional         *)
(* mappings, address by address, and the entry can be fetched from it:     *)
(* for every page size, every limit and whatever the file and the setup    *)
(* are. (LoadPlan::new)                                                    *)
THEOREM PlannedIsImage == LoadingSpec => []PlanIsImage
<1>1. IInv => PlanIsImage
  <2>1. SUFFICES ASSUME IInv, stage = "planned"
                 PROVE  /\ \A a \in Addresses :
                            LET page == a \div Page
                                given == IF page \in MappedPages THEN Permissions(page)
                                         ELSE {added[i].permissions : i \in {j \in DOMAIN added : page \in Added(added[j])}}
                            IN  /\ {regions[i].permissions : i \in Holding(a)} = given
                                /\ Cardinality(Holding(a)) <= 1
                                /\ \A i \in Holding(a) : At(i, a) = Contents(a)
                        /\ Require(regions, AddressRange(entry, Alignment), {"x"}) # {}
    BY DEF PlanIsImage
  <2>2. Imaged(headers, regions, added, entry) /\ InOrder(regions)
    BY <2>1 DEF IInv
  <2>3. \A a \in Addresses : a \in Nat
    BY LoadingAssumption DEF Addresses
  <2>4. Require(regions, AddressRange(entry, Alignment), {"x"}) # {}
    <3>1. PICK k \in DOMAIN regions : /\ "x" \in regions[k].permissions
                                      /\ ContainsRange(regions[k].range, AddressRange(entry, Alignment))
      BY <2>2 DEF Imaged, Executable
    <3>2. k \in Require(regions, AddressRange(entry, Alignment), {"x"})
      BY <3>1 DEF Require
    <3>. QED
      BY <3>2
  <2>. QED
    BY <2>2, <2>3, <2>4, ImageAt
<1>. QED
  BY <1>1, LoadingHolds, PTL
-----------------------------------------------------------------------------
(***************************************************************************)
(* The documents of the workbench.                                         *)
(***************************************************************************)

USE DocumentsAssumption

(***************************************************************************)
(* The strengthening.  No two documents have the same identifier or place  *)
(* ("object"), and none was drawn later than the last draw.  A result that *)
(* names a document is not newer than it; if as old, it is of its source.  *)
(***************************************************************************)
Idents == [document : Nat, revision : Nat, place : {Place[s] : s \in Settings}]
Results == {Nothing} \cup [identity : Idents, source : Sources]
Docs == [object : Nat, id : Nat, revision : Nat, source : Sources, settings : Settings,
         candidate : Results, failure : Results]
Drafts == [id : Nat, revision : Nat, source : Sources, settings : Settings]
Builds == [object : Nat, identity : Idents, source : Sources]

Apart(docs) ==
    \A i, j \in DOMAIN docs : docs[i].id = docs[j].id \/ docs[i].object = docs[j].object => i = j

Numbered(docs, n) == \A i \in DOMAIN docs : docs[i].id <= n /\ docs[i].object <= n

Agrees(result, d) ==
    result.identity.document = d.id =>
        /\ result.identity.revision <= d.revision
        /\ result.identity.revision = d.revision => result.source = d.source

Fits(result, docs, n) ==
    result # Nothing =>
        result.identity.document <= n /\ \A i \in DOMAIN docs : Agrees(result, docs[i])

Shaped(docs, n) == n \in Nat /\ docs \in Seq(Docs) /\ docs # <<>> /\ Apart(docs) /\ Numbered(docs, n)
Carried(docs, n) ==
    \A i \in DOMAIN docs : Fits(docs[i].candidate, docs, n) /\ Fits(docs[i].failure, docs, n)

InBuild == IF Building THEN [identity |-> building.identity, source |-> building.source] ELSE Nothing
Typed == loading \in Results /\ loaded \in Results /\ building \in Builds \cup {NoBuild}
Live(docs, n) == Fits(loading, docs, n) /\ Fits(loaded, docs, n) /\ Fits(InBuild, docs, n)

(* What may be saved, but for the bounds of a draft, and was drawn. *)
Written(workspace, n) ==
    /\ workspace = [active |-> workspace.active, drafts |-> workspace.drafts]
    /\ workspace.drafts \in Seq(Drafts) /\ workspace.drafts # <<>>
    /\ \A i, j \in DOMAIN workspace.drafts :
          workspace.drafts[i].id = workspace.drafts[j].id => i = j
    /\ \A i \in DOMAIN workspace.drafts : workspace.drafts[i].id <= n
    /\ \E i \in DOMAIN workspace.drafts : workspace.drafts[i].id = workspace.active

(* What is saved can be read. *)
Stored(workspace, n) ==
    workspace # NeverSaved =>
        /\ Written(workspace, n)
        /\ \A i \in DOMAIN workspace.drafts : InBounds(workspace.drafts[i])

Inv ==
    /\ Shaped(documents, drawn) /\ Carried(documents, drawn) /\ active \in Objects
    /\ Typed /\ Live(documents, drawn)
    /\ Stored(saved, drawn)

-----------------------------------------------------------------------------
(* Operators on documents and results.                                     *)

LEMMA Default0 == Default \in Settings
<1>1. \E s \in Defaults : TRUE
  BY DEF Defaults
<1>2. Default \in Defaults
  BY <1>1 DEF Default
<1> QED BY <1>2 DEF Defaults

LEMMA Known ==
  ASSUME NEW docs \in Seq(Docs)
  PROVE  /\ Len(docs) \in Nat /\ DOMAIN docs = 1 .. Len(docs)
         /\ \A i \in DOMAIN docs : docs[i] \in Docs
BY LenProperties, ElementOfSeq

LEMMA DocFields ==
  ASSUME NEW d \in Docs
  PROVE  /\ d.object \in Nat /\ d.id \in Nat /\ d.revision \in Nat /\ d.source \in Sources
         /\ d.settings \in Settings /\ d.candidate \in Results /\ d.failure \in Results
BY DEF Docs

LEMMA Fields ==
  ASSUME NEW r \in Results, r # Nothing
  PROVE  /\ r.identity.document \in Nat /\ r.identity.revision \in Nat
         /\ r.identity \in Idents /\ r.source \in Sources
<1>1. r \in [identity : Idents, source : Sources]
  BY DEF Results
<1>2. r.identity \in Idents /\ r.source \in Sources
  BY <1>1
<1> QED BY <1>2 DEF Idents

(* A new document carries nothing. *)
LEMMA NewIs ==
  ASSUME NEW id \in Nat, NEW settings \in Settings
  PROVE  /\ NewDocument(id, settings) \in Docs
         /\ NewDocument(id, settings).id = id /\ NewDocument(id, settings).object = id
         /\ NewDocument(id, settings).candidate = Nothing
         /\ NewDocument(id, settings).failure = Nothing
<1>1. Nothing \in Results /\ Blank \in Sources
  BY DEF Results
<1> QED BY <1>1, SMT DEF NewDocument, Docs

LEMMA FitsNothing == \A docs, n : Fits(Nothing, docs, n)
  BY DEF Fits

(* The place of an object. *)
LEMMA IndexIs ==
  ASSUME NEW object \in Objects
  PROVE  Index(object) \in DOMAIN documents /\ documents[Index(object)].object = object
<1>1. \E i \in DOMAIN documents : documents[i].object = object
  BY DEF Objects
<1> QED BY <1>1 DEF Index

(***************************************************************************)
(* Documents whose identities, sources and places did not change.          *)
(***************************************************************************)
Alike(docs, more) ==
    /\ DOMAIN more = DOMAIN docs
    /\ \A i \in DOMAIN docs : /\ more[i].id = docs[i].id /\ more[i].object = docs[i].object
                              /\ more[i].revision = docs[i].revision
                              /\ more[i].source = docs[i].source

LEMMA AlikeFits ==
  ASSUME NEW docs, NEW more, NEW n, Alike(docs, more)
  PROVE  /\ \A r : Fits(r, docs, n) => Fits(r, more, n)
         /\ Apart(docs) => Apart(more)
         /\ Numbered(docs, n) => Numbered(more, n)
<1>1. ASSUME NEW r, Fits(r, docs, n) PROVE Fits(r, more, n)
  BY <1>1 DEF Alike, Fits, Agrees
<1> QED BY <1>1 DEF Alike, Apart, Numbered

(* One document in the place of another. *)
Placed(docs, k, d, more) ==
    /\ DOMAIN more = DOMAIN docs /\ more[k] = d
    /\ \A i \in DOMAIN docs : i # k => more[i] = docs[i]

LEMMA PlacedIs ==
  ASSUME NEW docs \in Seq(Docs), NEW k \in DOMAIN docs, NEW d \in Docs
  PROVE  /\ [docs EXCEPT ![k] = d] \in Seq(Docs)
         /\ Placed(docs, k, d, [docs EXCEPT ![k] = d])
<1>1. [docs EXCEPT ![k] = d] \in Seq(Docs)
  BY ExceptSeq
<1> QED BY <1>1 DEF Placed

(* A document replaced by one with the same text, with results that fit.   *)
LEMMA SameText ==
  ASSUME NEW docs, NEW n, Shaped(docs, n), Carried(docs, n), NEW k \in DOMAIN docs,
         NEW d \in Docs, d.id = docs[k].id, d.object = docs[k].object,
         d.revision = docs[k].revision, d.source = docs[k].source,
         Fits(d.candidate, docs, n), Fits(d.failure, docs, n)
  PROVE  LET more == [docs EXCEPT ![k] = d] IN
         /\ Shaped(more, n) /\ Carried(more, n)
         /\ \A r : Fits(r, docs, n) => Fits(r, more, n)
<1> DEFINE more == [docs EXCEPT ![k] = d]
<1>1. more \in Seq(Docs) /\ Placed(docs, k, d, more)
  BY PlacedIs DEF Shaped
<1> HIDE DEF more
<1>2. Alike(docs, more)
  BY <1>1 DEF Alike, Placed
<1>3. \A r : Fits(r, docs, n) => Fits(r, more, n)
  BY <1>2, AlikeFits
<1>4. Apart(more) /\ Numbered(more, n)
  BY <1>2, AlikeFits DEF Shaped
<1>5. more # <<>>
  <2>1. DOMAIN more # {}
    BY <1>1 DEF Placed
  <2> QED BY <2>1
<1>6. Shaped(more, n)
  BY <1>1, <1>4, <1>5 DEF Shaped
<1>7. \A i \in DOMAIN more : \/ more[i] = d
                             \/ i \in DOMAIN docs /\ more[i] = docs[i]
  BY <1>1 DEF Placed
<1>8. Carried(more, n)
  BY <1>3, <1>7 DEF Carried
<1> QED BY <1>3, <1>6, <1>8 DEF more

(* A document edited: it is newer than every result, or has a new name.    *)
LEMMA Edited ==
  ASSUME NEW docs, NEW n, Shaped(docs, n), Carried(docs, n), NEW k \in DOMAIN docs,
         NEW d \in Docs, d.object = docs[k].object,
         d.candidate = docs[k].candidate, d.failure = docs[k].failure, NEW m,
         \/ d.id = docs[k].id /\ d.revision = docs[k].revision + 1 /\ m = n
         \/ d.id = n + 1 /\ m = n + 1
  PROVE  LET more == [docs EXCEPT ![k] = d] IN
         /\ Shaped(more, m) /\ Carried(more, m)
         /\ \A r \in Results : Fits(r, docs, n) => Fits(r, more, m)
<1> DEFINE more == [docs EXCEPT ![k] = d]
<1>1. more \in Seq(Docs) /\ Placed(docs, k, d, more)
  BY PlacedIs DEF Shaped
<1> HIDE DEF more
<1>2. n \in Nat /\ m \in Nat /\ n <= m /\ \A i \in DOMAIN docs : docs[i] \in Docs
  BY Known DEF Shaped
<1>3. \A i \in DOMAIN docs : docs[i].id \in Nat /\ docs[i].object \in Nat /\ docs[i].revision \in Nat
  BY <1>2, DocFields
<1>4. ASSUME NEW r \in Results, Fits(r, docs, n) PROVE Fits(r, more, m)
  <2> SUFFICES ASSUME r # Nothing PROVE Fits(r, more, m)
    BY DEF Fits
  <2>1. r.identity.document \in Nat /\ r.identity.revision \in Nat
    BY Fields
  <2>2. r.identity.document <= n /\ \A i \in DOMAIN docs : Agrees(r, docs[i])
    BY <1>4 DEF Fits
  <2>3. Agrees(r, d)
    <3>1. CASE d.id = n + 1
      BY <1>2, <2>1, <2>2, <3>1 DEF Agrees
    <3>2. CASE d.id = docs[k].id /\ d.revision = docs[k].revision + 1
      BY <1>3, <2>1, <2>2, <3>2 DEF Agrees
    <3> QED BY <3>1, <3>2
  <2>4. \A i \in DOMAIN more : Agrees(r, more[i])
    BY <1>1, <2>2, <2>3 DEF Placed
  <2> QED BY <1>2, <2>1, <2>2, <2>4 DEF Fits
<1>5. Apart(more) /\ Numbered(more, m)
  <2>1. Apart(docs) /\ Numbered(docs, n)
    BY DEF Shaped
  <2>2. d.id <= m /\ \A i \in DOMAIN docs : docs[i].id = d.id => i = k
    <3>1. CASE d.id = n + 1 /\ m = n + 1
      BY <1>2, <1>3, <2>1, <3>1 DEF Numbered
    <3>2. CASE d.id = docs[k].id /\ m = n
      BY <2>1, <3>2 DEF Apart, Numbered
    <3> QED BY <3>1, <3>2
  <2>3. Apart(more)
    BY <1>1, <2>1, <2>2 DEF Apart, Placed
  <2>4. \A i \in DOMAIN docs : docs[i].id <= m /\ docs[i].object <= m
    BY <1>2, <1>3, <2>1 DEF Numbered
  <2>5. Numbered(more, m)
    BY <1>1, <2>2, <2>4 DEF Numbered, Placed
  <2> QED BY <2>3, <2>5
<1>6. more # <<>>
  <2>1. DOMAIN more # {}
    BY <1>1 DEF Placed
  <2> QED BY <2>1
<1>7. Shaped(more, m)
  BY <1>1, <1>2, <1>5, <1>6 DEF Shaped
<1>8. ASSUME NEW i \in DOMAIN more PROVE Fits(more[i].candidate, more, m) /\ Fits(more[i].failure, more, m)
  <2>1. i \in DOMAIN docs /\ more[i].candidate = docs[i].candidate /\ more[i].failure = docs[i].failure
    BY <1>1 DEF Placed
  <2>2. docs[i].candidate \in Results /\ docs[i].failure \in Results
    BY <1>2, <2>1, DocFields
  <2>3. Fits(docs[i].candidate, docs, n) /\ Fits(docs[i].failure, docs, n)
    BY <2>1 DEF Carried
  <2> QED BY <1>4, <2>1, <2>2, <2>3
<1>9. Carried(more, m)
  BY <1>8 DEF Carried
<1> QED BY <1>4, <1>7, <1>9 DEF more

(* A document added to some of the documents there were. *)
LEMMA DocumentAdded ==
  ASSUME NEW docs, NEW n, Shaped(docs, n), Carried(docs, n), NEW more \in Seq(Docs),
         NEW d \in Docs, d.id = n + 1, d.object = n + 1, d.candidate = Nothing, d.failure = Nothing,
         NEW k \in DOMAIN more, more[k] = d,
         \A i \in DOMAIN more : i # k => i \in DOMAIN docs /\ more[i] = docs[i]
  PROVE  /\ Shaped(more, n + 1) /\ Carried(more, n + 1)
         /\ \A r \in Results : Fits(r, docs, n) => Fits(r, more, n + 1)
<1>2. n \in Nat /\ \A i \in DOMAIN docs : docs[i] \in Docs
  BY Known DEF Shaped
<1>3. \A i \in DOMAIN docs : docs[i].id \in Nat /\ docs[i].object \in Nat
  BY <1>2, DocFields
<1>4. ASSUME NEW r \in Results, Fits(r, docs, n) PROVE Fits(r, more, n + 1)
  <2> SUFFICES ASSUME r # Nothing PROVE Fits(r, more, n + 1)
    BY DEF Fits
  <2>1. r.identity.document \in Nat
    BY Fields
  <2>2. r.identity.document <= n /\ \A i \in DOMAIN docs : Agrees(r, docs[i])
    BY <1>4 DEF Fits
  <2>3. Agrees(r, d)
    BY <1>2, <2>1, <2>2 DEF Agrees
  <2>4. \A i \in DOMAIN more : Agrees(r, more[i])
    BY <2>2, <2>3
  <2> QED BY <1>2, <2>1, <2>2, <2>4 DEF Fits
<1>5. Numbered(docs, n) /\ Apart(docs)
  BY DEF Shaped
<1>6. \A i \in DOMAIN docs : docs[i].id < n + 1 /\ docs[i].object < n + 1
  BY <1>2, <1>3, <1>5 DEF Numbered
<1>7. Numbered(more, n + 1)
  BY <1>2, <1>3, <1>6 DEF Numbered
<1>8. Apart(more)
  <2>1. ASSUME NEW i \in DOMAIN more, i # k PROVE more[i].id # d.id /\ more[i].object # d.object
    BY <1>2, <1>3, <1>6, <2>1
  <2>2. \A i, j \in DOMAIN more : i # k /\ j # k =>
           (more[i].id = more[j].id \/ more[i].object = more[j].object => i = j)
    BY <1>5 DEF Apart
  <2> QED BY <2>1, <2>2 DEF Apart
<1>9. more # <<>> /\ n + 1 \in Nat
  BY <1>2
<1>10. \A i \in DOMAIN more : \/ more[i] = d
                              \/ i \in DOMAIN docs /\ more[i] = docs[i]
  OBVIOUS
<1>11. Carried(more, n + 1)
  <2>1. ASSUME NEW i \in DOMAIN docs
        PROVE  Fits(docs[i].candidate, more, n + 1) /\ Fits(docs[i].failure, more, n + 1)
    <3>1. docs[i].candidate \in Results /\ docs[i].failure \in Results
      BY <1>2, DocFields
    <3> QED BY <1>4, <3>1 DEF Carried
  <2> QED BY <1>10, <2>1, FitsNothing DEF Carried
<1> QED BY <1>4, <1>7, <1>8, <1>9, <1>11 DEF Shaped

(* Some of the documents are left. *)
LEMMA Fewer ==
  ASSUME NEW docs, NEW n, Shaped(docs, n), Carried(docs, n), NEW more \in Seq(Docs), more # <<>>,
         NEW from \in [DOMAIN more -> DOMAIN docs],
         \A i \in DOMAIN more : more[i] = docs[from[i]],
         \A i, j \in DOMAIN more : from[i] = from[j] => i = j
  PROVE  /\ Shaped(more, n) /\ Carried(more, n)
         /\ \A r : Fits(r, docs, n) => Fits(r, more, n)
<1>0. \A i \in DOMAIN more : from[i] \in DOMAIN docs /\ more[i] = docs[from[i]]
  OBVIOUS
<1>1. ASSUME NEW r, Fits(r, docs, n) PROVE Fits(r, more, n)
  BY <1>0, <1>1 DEF Fits
<1>2. Apart(docs) /\ Numbered(docs, n)
  BY DEF Shaped
<1>3. Apart(more)
  BY <1>0, <1>2 DEF Apart
<1>4. Numbered(more, n)
  BY <1>0, <1>2 DEF Numbered
<1>5. Carried(more, n)
  BY <1>0, <1>1 DEF Carried
<1> QED BY <1>1, <1>3, <1>4, <1>5 DEF Shaped

(* The sequence without one element, and where the others were. *)
LEMMA RemoveAtFrom ==
  ASSUME NEW S, NEW s \in Seq(S), NEW k \in 1 .. Len(s)
  PROVE  /\ RemoveAt(s, k) \in Seq(S) /\ Len(RemoveAt(s, k)) = Len(s) - 1
         /\ \A i \in 1 .. Len(s) - 1 : RemoveAt(s, k)[i] = s[IF i < k THEN i ELSE i + 1]
<1> DEFINE a == SubSeq(s, 1, k - 1)
           b == SubSeq(s, k + 1, Len(s))
<1>1. Len(s) \in Nat /\ \A j \in 1 .. Len(s) : s[j] \in S
  BY LenProperties, ElementOfSeq
<1>2. /\ a \in Seq(S) /\ Len(a) = k - 1 /\ \A j \in 1 .. k - 1 : a[j] = s[j]
  <2>1. \A j \in 1 .. k - 1 : s[j] \in S
    BY <1>1
  <2> QED BY <1>1, <2>1, SubSeqProperties
<1>3. /\ b \in Seq(S) /\ Len(b) = Len(s) - k /\ \A j \in 1 .. Len(s) - k : b[j] = s[k + j]
  <2>1. \A j \in k + 1 .. Len(s) : s[j] \in S
    BY <1>1
  <2> QED BY <1>1, <2>1, SubSeqProperties
<1>4. RemoveAt(s, k) = a \o b
  BY DEF RemoveAt
<1> HIDE DEF a, b
<1>5. /\ a \o b \in Seq(S) /\ Len(a \o b) = Len(a) + Len(b)
      /\ \A j \in 1 .. Len(a) + Len(b) : (a \o b)[j] = IF j <= Len(a) THEN a[j] ELSE b[j - Len(a)]
  <2>1. a \in Seq(S) /\ b \in Seq(S)
    BY <1>2, <1>3
  <2> QED BY <2>1, ConcatProperties
<1>6. ASSUME NEW i \in 1 .. Len(s) - 1 PROVE (a \o b)[i] = s[IF i < k THEN i ELSE i + 1]
  <2>1. CASE i < k
    <3>1. i \in 1 .. k - 1 /\ i <= Len(a) /\ i \in 1 .. Len(a) + Len(b)
      BY <1>1, <1>2, <1>3, <2>1
    <3> QED BY <1>2, <1>5, <2>1, <3>1
  <2>2. CASE ~(i < k)
    <3>1. i - (k - 1) \in 1 .. Len(s) - k /\ ~(i <= Len(a)) /\ i \in 1 .. Len(a) + Len(b)
      BY <1>1, <1>2, <1>3, <2>2
    <3>2. b[i - (k - 1)] = s[k + (i - (k - 1))] /\ k + (i - (k - 1)) = i + 1
      BY <1>1, <1>3, <3>1
    <3> QED BY <1>2, <1>5, <2>2, <3>1, <3>2
  <2> QED BY <2>1, <2>2
<1> QED BY <1>1, <1>2, <1>3, <1>4, <1>5, <1>6
-----------------------------------------------------------------------------
(* The invariant.                                                          *)

LEMMA InitInv ==
  ASSUME DocumentsInit
  PROVE  Inv
<1> DEFINE d == NewDocument(1, Default)
<1>1. /\ d \in Docs /\ d.id = 1 /\ d.object = 1 /\ d.candidate = Nothing /\ d.failure = Nothing
  BY Default0, NewIs
<1> HIDE DEF d
<1>2. documents = <<d>> /\ active = 1 /\ drawn = 1
  BY DEF DocumentsInit, d
<1>3. documents \in Seq(Docs) /\ documents # <<>> /\ DOMAIN documents = {1} /\ documents[1] = d
  BY <1>1, <1>2
<1>4. Shaped(documents, drawn)
  BY <1>1, <1>2, <1>3 DEF Shaped, Apart, Numbered
<1>5. Carried(documents, drawn)
  BY <1>1, <1>3, FitsNothing DEF Carried
<1>6. active \in Objects
  BY <1>1, <1>2, <1>3 DEF Objects
<1>7. loading = Nothing /\ loaded = Nothing /\ building = NoBuild /\ saved = NeverSaved
  BY DEF DocumentsInit
<1>8. Typed
  BY <1>7 DEF Typed, Results
<1>9. Live(documents, drawn)
  BY <1>7, FitsNothing DEF Live, InBuild, Building
<1> QED BY <1>4, <1>5, <1>6, <1>7, <1>8, <1>9 DEF Inv, Stored

(* The document of an object. *)
LEMMA DocumentIs ==
  ASSUME Inv, NEW object \in Objects
  PROVE  /\ Index(object) \in DOMAIN documents /\ Document(object) = documents[Index(object)]
         /\ Document(object) \in Docs /\ Document(object).object = object
BY IndexIs, Known DEF Inv, Shaped, Document

(* A step that draws nothing, replaces no document and changes no text.    *)
LEMMA Rewritten ==
  ASSUME Inv, NEW object \in Objects, NEW d \in Docs, documents' = With(object, d), drawn' = drawn,
         d.id = Document(object).id, d.object = object,
         d.revision = Document(object).revision, d.source = Document(object).source,
         Fits(d.candidate, documents, drawn), Fits(d.failure, documents, drawn)
  PROVE  /\ Shaped(documents, drawn)' /\ Carried(documents, drawn)' /\ Objects' = Objects
         /\ \A r : Fits(r, documents, drawn) => Fits(r, documents', drawn')
<1> DEFINE k == Index(object)
<1>1. k \in DOMAIN documents /\ documents[k] = Document(object) /\ documents[k].object = object
  BY DocumentIs
<1>2. documents' = [documents EXCEPT ![k] = d]
  BY DEF With
<1> HIDE DEF k
<1>3. Shaped(documents, drawn) /\ Carried(documents, drawn)
  BY DEF Inv
<1>4. /\ Shaped([documents EXCEPT ![k] = d], drawn) /\ Carried([documents EXCEPT ![k] = d], drawn)
      /\ \A r : Fits(r, documents, drawn) => Fits(r, [documents EXCEPT ![k] = d], drawn)
  BY <1>1, <1>3, SameText
<1>5. DOMAIN documents' = DOMAIN documents
      /\ \A i \in DOMAIN documents : documents'[i].object = documents[i].object
  BY <1>1, <1>2
<1>6. Objects' = Objects
  BY <1>5 DEF Objects
<1> QED BY <1>2, <1>4, <1>6

LEMMA StoredLater ==
  ASSUME NEW workspace, NEW n \in Nat, NEW m \in Nat, n <= m, Stored(workspace, n)
  PROVE  Stored(workspace, m)
<1> SUFFICES ASSUME workspace # NeverSaved PROVE Stored(workspace, m)
  BY DEF Stored
<1>1. \A i \in DOMAIN workspace.drafts : workspace.drafts[i] \in Drafts
  BY ElementOfSeq, LenProperties DEF Stored, Written
<1>2. \A i \in DOMAIN workspace.drafts : workspace.drafts[i].id \in Nat
  BY <1>1 DEF Drafts
<1>3. \A i \in DOMAIN workspace.drafts : workspace.drafts[i].id <= m
  BY <1>2 DEF Stored, Written
<1> QED BY <1>3 DEF Stored, Written

(* What is under way when the documents change. *)
LEMMA LiveLater ==
  ASSUME Inv, UNCHANGED <<loading, loaded, building>>,
         \A r \in Results : Fits(r, documents, drawn) => Fits(r, documents', drawn')
  PROVE  Typed' /\ Live(documents, drawn)'
<1>1. Typed'
  BY DEF Inv, Typed
<1>2. InBuild \in Results /\ loading \in Results /\ loaded \in Results
  <2>1. CASE building = NoBuild
    BY <2>1 DEF Inv, Typed, InBuild, Building, Results
  <2>2. CASE building \in Builds
    <3>1. building.identity \in Idents /\ building.source \in Sources
      BY <2>2 DEF Builds
    <3> QED BY <3>1 DEF Inv, Typed, InBuild, Results
  <2> QED BY <2>1, <2>2 DEF Inv, Typed
<1>3. InBuild' = InBuild
  BY DEF InBuild, Building
<1> QED BY <1>1, <1>2, <1>3 DEF Inv, Live

(* Fields replaced. *)
LEMMA Replaced ==
  ASSUME NEW d \in Docs
  PROVE  /\ \A text \in Sources :
              LET e == [d EXCEPT !.source = text] IN
              /\ e \in Docs /\ e.id = d.id /\ e.object = d.object /\ e.revision = d.revision
              /\ e.candidate = d.candidate /\ e.failure = d.failure
         /\ \A n \in Nat :
              LET e == [d EXCEPT !.revision = n] IN
              /\ e \in Docs /\ e.id = d.id /\ e.object = d.object /\ e.revision = n
              /\ e.candidate = d.candidate /\ e.failure = d.failure
         /\ \A n \in Nat :
              LET e == [d EXCEPT !.id = n] IN
              /\ e \in Docs /\ e.id = n /\ e.object = d.object
              /\ e.candidate = d.candidate /\ e.failure = d.failure
<1>1. ASSUME NEW text \in Sources, NEW e, e = [d EXCEPT !.source = text]
      PROVE  /\ e \in Docs /\ e.id = d.id /\ e.object = d.object /\ e.revision = d.revision
             /\ e.candidate = d.candidate /\ e.failure = d.failure
  BY <1>1, SMT DEF Docs
<1>2. ASSUME NEW n \in Nat, NEW e, e = [d EXCEPT !.revision = n]
      PROVE  /\ e \in Docs /\ e.id = d.id /\ e.object = d.object /\ e.revision = n
             /\ e.candidate = d.candidate /\ e.failure = d.failure
  BY <1>2, SMT DEF Docs
<1>3. ASSUME NEW n \in Nat, NEW e, e = [d EXCEPT !.id = n]
      PROVE  /\ e \in Docs /\ e.id = n /\ e.object = d.object
             /\ e.candidate = d.candidate /\ e.failure = d.failure
  BY <1>3, SMT DEF Docs
<1> QED BY <1>1, <1>2, <1>3, Zenon

(* The edited document: the same place and results. *)
LEMMA RevisedIs ==
  ASSUME Inv, NEW d \in Docs, NEW r, r = Revised(d)
  PROVE  /\ r \in Docs /\ r.object = d.object /\ r.candidate = d.candidate /\ r.failure = d.failure
         /\ d.revision = LastRevision => r.id = drawn + 1
         /\ d.revision # LastRevision => r.id = d.id /\ r.revision = d.revision + 1
<1>0. drawn + 1 \in Nat /\ d.revision + 1 \in Nat /\ 0 \in Nat
  BY DocFields DEF Inv, Shaped
<1>1. CASE d.revision = LastRevision
  <2>1. PICK q : q = [d EXCEPT !.id = drawn + 1]
    OBVIOUS
  <2>2. /\ q \in Docs /\ q.id = drawn + 1 /\ q.object = d.object
        /\ q.candidate = d.candidate /\ q.failure = d.failure
    BY <1>0, <2>1, Replaced
  <2>3. r = [q EXCEPT !.revision = 0]
    BY <1>1, <2>1 DEF Revised
  <2>4. /\ r \in Docs /\ r.id = q.id /\ r.object = q.object
        /\ r.candidate = q.candidate /\ r.failure = q.failure
    BY <1>0, <2>2, <2>3, Replaced
  <2> QED BY <1>1, <2>2, <2>4
<1>2. CASE d.revision # LastRevision
  <2>1. r = [d EXCEPT !.revision = d.revision + 1]
    BY <1>2 DEF Revised
  <2>2. /\ r \in Docs /\ r.id = d.id /\ r.object = d.object /\ r.revision = d.revision + 1
        /\ r.candidate = d.candidate /\ r.failure = d.failure
    BY <1>0, <2>1, Replaced
  <2> QED BY <1>2, <2>2
<1> QED BY <1>1, <1>2

LEMMA SetSourceInv ==
  ASSUME Inv, SetSource
  PROVE  Inv'
<1>1. active \in Objects
  BY DEF Inv
<1> DEFINE k == Index(active)
<1>2. k \in DOMAIN documents /\ Active = documents[k] /\ Active \in Docs /\ Active.object = active
  BY <1>1, DocumentIs DEF Active
<1>3. PICK text \in Sources : documents' = With(active, [Revised(Active) EXCEPT !.source = text])
  BY DEF SetSource
<1>4. PICK e : e = [Revised(Active) EXCEPT !.source = text]
  OBVIOUS
<1>5. documents' = [documents EXCEPT ![k] = e]
  BY <1>3, <1>4 DEF With
<1> HIDE DEF k
<1>6. /\ e \in Docs /\ e.object = documents[k].object
      /\ e.candidate = documents[k].candidate /\ e.failure = documents[k].failure
      /\ Active.revision = LastRevision => e.id = drawn + 1
      /\ Active.revision # LastRevision => e.id = documents[k].id /\ e.revision = documents[k].revision + 1
  <2>1. PICK d \in Docs : d = Active /\ d = documents[k]
    BY <1>2
  <2>2. PICK r : r = Revised(d)
    OBVIOUS
  <2>3. /\ r \in Docs /\ r.object = d.object /\ r.candidate = d.candidate /\ r.failure = d.failure
        /\ d.revision = LastRevision => r.id = drawn + 1
        /\ d.revision # LastRevision => r.id = d.id /\ r.revision = d.revision + 1
    BY <2>2, RevisedIs
  <2>4. e = [r EXCEPT !.source = text]
    BY <1>4, <2>1, <2>2
  <2>5. /\ e \in Docs /\ e.id = r.id /\ e.object = r.object /\ e.revision = r.revision
        /\ e.candidate = r.candidate /\ e.failure = r.failure
    BY <2>3, <2>4, Replaced
  <2> QED BY <2>1, <2>3, <2>5
<1>7. \/ e.id = documents[k].id /\ e.revision = documents[k].revision + 1 /\ drawn' = drawn
      \/ e.id = drawn + 1 /\ drawn' = drawn + 1
  BY <1>6 DEF SetSource
<1>8. Shaped(documents, drawn) /\ Carried(documents, drawn)
  BY DEF Inv
<1>9. /\ Shaped(documents', drawn') /\ Carried(documents', drawn')
      /\ \A r \in Results : Fits(r, documents, drawn) => Fits(r, documents', drawn')
  BY <1>2, <1>5, <1>6, <1>7, <1>8, Edited
<1>10. Typed' /\ Live(documents, drawn)'
  BY <1>9, LiveLater DEF SetSource, worker
<1>11. active' = active
  BY DEF SetSource
<1>12. DOMAIN documents' = DOMAIN documents
       /\ \A i \in DOMAIN documents : documents'[i].object = documents[i].object
  BY <1>2, <1>5, <1>6
<1>13. active' \in Objects'
  BY <1>1, <1>11, <1>12 DEF Objects
<1>14. Stored(saved, drawn)'
  <2>1. saved' = saved /\ Stored(saved, drawn) /\ drawn \in Nat /\ drawn' \in Nat /\ drawn <= drawn'
    BY <1>7 DEF SetSource, Persist, Inv, Shaped
  <2> QED BY <2>1, StoredLater
<1> QED BY <1>9, <1>10, <1>13, <1>14 DEF Inv

LEMMA ConfigureInv ==
  ASSUME Inv, Configure
  PROVE  Inv'
<1>1. active \in Objects
  BY DEF Inv
<1>2. Active \in Docs /\ Active.object = active /\ Active = Document(active)
      /\ Index(active) \in DOMAIN documents /\ Active = documents[Index(active)]
  BY <1>1, DocumentIs DEF Active
<1>3. PICK settings \in Settings : documents' = With(active, [Active EXCEPT !.settings = settings])
  BY DEF Configure
<1>4. PICK e : e = [Active EXCEPT !.settings = settings]
  OBVIOUS
<1>5. /\ e \in Docs /\ e.object = active /\ e.candidate = Active.candidate
      /\ e.failure = Active.failure /\ e.id = Active.id /\ e.revision = Active.revision
      /\ e.source = Active.source
  BY <1>2, <1>4, SMT DEF Docs
<1>6. Fits(Active.candidate, documents, drawn) /\ Fits(Active.failure, documents, drawn)
  BY <1>2 DEF Inv, Carried
<1>7. drawn' = drawn /\ documents' = With(active, e) /\ active' = active /\ saved' = saved
  BY <1>3, <1>4 DEF Configure, Persist
<1>8. /\ Shaped(documents, drawn)' /\ Carried(documents, drawn)' /\ Objects' = Objects
      /\ \A r : Fits(r, documents, drawn) => Fits(r, documents', drawn')
  BY <1>1, <1>2, <1>5, <1>6, <1>7, Rewritten
<1>9. Typed' /\ Live(documents, drawn)'
  BY <1>8, LiveLater DEF Configure, worker
<1> QED BY <1>1, <1>7, <1>8, <1>9 DEF Inv

LEMMA CreateDocumentInv ==
  ASSUME Inv, CreateDocument
  PROVE  Inv'
<1>1. PICK settings \in Settings : documents' = Append(documents, NewDocument(drawn + 1, settings))
  BY DEF CreateDocument, Defaults
<1>2. PICK d : d = NewDocument(drawn + 1, settings)
  OBVIOUS
<1>3. drawn \in Nat /\ drawn + 1 \in Nat /\ drawn' = drawn + 1 /\ active' = drawn + 1 /\ saved' = saved
  BY DEF Inv, Shaped, CreateDocument, Persist
<1>4. d \in Docs /\ d.id = drawn + 1 /\ d.object = drawn + 1 /\ d.candidate = Nothing /\ d.failure = Nothing
  BY <1>2, <1>3, NewIs
<1>5. documents' = Append(documents, d)
  BY <1>1, <1>2
<1>6. documents \in Seq(Docs) /\ Shaped(documents, drawn) /\ Carried(documents, drawn)
  BY DEF Inv, Shaped
<1>7. PICK k : k = Len(documents) + 1
  OBVIOUS
<1>8. /\ documents' \in Seq(Docs) /\ k \in DOMAIN documents' /\ documents'[k] = d
      /\ \A i \in DOMAIN documents' : i # k => i \in DOMAIN documents /\ documents'[i] = documents[i]
  BY <1>4, <1>5, <1>6, <1>7, AppendProperties, LenProperties
<1>9. /\ Shaped(documents', drawn + 1) /\ Carried(documents', drawn + 1)
      /\ \A r \in Results : Fits(r, documents, drawn) => Fits(r, documents', drawn + 1)
  BY <1>4, <1>6, <1>8, DocumentAdded
<1>10. active' \in Objects'
  BY <1>3, <1>4, <1>8 DEF Objects
<1>11. Typed' /\ Live(documents, drawn)'
  BY <1>3, <1>9, LiveLater DEF CreateDocument, worker
<1>12. Stored(saved, drawn)'
  BY <1>3, StoredLater DEF Inv
<1> QED BY <1>3, <1>9, <1>10, <1>11, <1>12 DEF Inv

LEMMA CloseDocumentInv ==
  ASSUME Inv, CloseDocument
  PROVE  Inv'
<1>1. PICK object \in Objects :
        LET rest == RemoveAt(documents, Index(object)) IN
        IF rest = <<>>
        THEN /\ drawn' = drawn + 1
             /\ documents' = <<NewDocument(drawn + 1, Default)>>
             /\ active' = drawn + 1
        ELSE /\ documents' = rest
             /\ active' = IF object = active
                          THEN rest[Lesser(Index(object), Len(rest))].object ELSE active
             /\ UNCHANGED drawn
  BY DEF CloseDocument
<1> DEFINE k == Index(object)
           rest == RemoveAt(documents, k)
<1>2. Shaped(documents, drawn) /\ Carried(documents, drawn) /\ documents \in Seq(Docs) /\ drawn \in Nat
  BY DEF Inv, Shaped
<1>3. k \in DOMAIN documents /\ documents[k].object = object
  BY <1>1, DocumentIs
<1>4. Len(documents) \in Nat /\ DOMAIN documents = 1 .. Len(documents)
  BY <1>2, Known
<1>5. saved' = saved /\ UNCHANGED <<loading, loaded, building>>
  BY DEF CloseDocument, Persist, worker
<1>6. CASE rest = <<>>
  <2>1. PICK d : d = NewDocument(drawn + 1, Default)
    OBVIOUS
  <2> HIDE DEF k, rest
  <2>2. d \in Docs /\ d.id = drawn + 1 /\ d.object = drawn + 1 /\ d.candidate = Nothing /\ d.failure = Nothing
    <3>1. drawn + 1 \in Nat /\ Default \in Settings
      BY <1>2, Default0
    <3>. QED
      BY <2>1, <3>1, NewIs
  <2> USE DEF k, rest
  <2>3. documents' = <<d>> /\ drawn' = drawn + 1 /\ active' = drawn + 1
    BY <1>1, <1>6, <2>1
  <2> HIDE DEF k, rest
  <2>4. documents' \in Seq(Docs) /\ DOMAIN documents' = {1} /\ documents'[1] = d
    BY <2>2, <2>3
  <2>5. /\ 1 \in DOMAIN documents' /\ documents'[1] = d
        /\ \A i \in DOMAIN documents' : i # 1 => i \in DOMAIN documents /\ documents'[i] = documents[i]
    BY <2>4
  <2>6. /\ Shaped(documents', drawn + 1) /\ Carried(documents', drawn + 1)
        /\ \A r \in Results : Fits(r, documents, drawn) => Fits(r, documents', drawn + 1)
    BY <1>2, <2>2, <2>4, <2>5, DocumentAdded
  <2>7. active' \in Objects'
    BY <2>2, <2>3, <2>4 DEF Objects
  <2>8. Typed' /\ Live(documents, drawn)'
    BY <1>5, <2>3, <2>6, LiveLater
  <2>9. Stored(saved, drawn)'
    BY <1>2, <1>5, <2>3, StoredLater DEF Inv
  <2> QED BY <2>3, <2>6, <2>7, <2>8, <2>9 DEF Inv
<1>7. CASE rest # <<>>
  <2>1. documents' = rest /\ drawn' = drawn
        /\ active' = IF object = active THEN rest[Lesser(k, Len(rest))].object ELSE active
    BY <1>1, <1>7
  <2>2. /\ rest \in Seq(Docs) /\ Len(rest) = Len(documents) - 1
        /\ \A i \in 1 .. Len(documents) - 1 : rest[i] = documents[IF i < k THEN i ELSE i + 1]
    BY <1>2, <1>3, <1>4, RemoveAtFrom
  <2> HIDE DEF rest
  <2> HIDE DEF k
  <2>3. DOMAIN rest = 1 .. Len(documents) - 1 /\ rest # <<>> /\ Len(rest) >= 1
    <3>1. Len(rest) \in Nat /\ DOMAIN rest = 1 .. Len(rest) /\ (Len(rest) = 0 => rest = <<>>)
      BY <2>2, LenProperties, EmptySeq
    <3> QED BY <1>7, <2>2, <3>1
  <2> DEFINE from == [i \in DOMAIN rest |-> IF i < k THEN i ELSE i + 1]
  <2>4. /\ from \in [DOMAIN rest -> DOMAIN documents]
        /\ \A i \in DOMAIN rest : rest[i] = documents[from[i]]
        /\ \A i, j \in DOMAIN rest : from[i] = from[j] => i = j
        /\ \A m \in DOMAIN documents : m # k => \E i \in DOMAIN rest : from[i] = m
    <3>1. k \in 1 .. Len(documents)
      BY <1>3, <1>4
    <3>2. \A i \in DOMAIN rest : from[i] \in 1 .. Len(documents) /\ (from[i] = IF i < k THEN i ELSE i + 1)
      BY <1>4, <2>3, <3>1
    <3>3. \A i, j \in DOMAIN rest : from[i] = from[j] => i = j
      BY <1>4, <2>3, <3>1
    <3>4. ASSUME NEW m \in DOMAIN documents, m # k PROVE \E i \in DOMAIN rest : from[i] = m
      <4>1. CASE m < k
        <5>1. m \in DOMAIN rest /\ from[m] = m
          BY <1>4, <2>3, <3>1, <4>1
        <5> QED BY <5>1
      <4>2. CASE ~(m < k)
        <5>1. m - 1 \in DOMAIN rest /\ from[m - 1] = m
          BY <1>4, <2>3, <3>1, <3>4, <4>2
        <5> QED BY <5>1
      <4> QED BY <4>1, <4>2
    <3> QED BY <1>4, <2>2, <2>3, <3>2, <3>3, <3>4
  <2> HIDE DEF from
  <2>5. /\ Shaped(rest, drawn) /\ Carried(rest, drawn)
        /\ \A r : Fits(r, documents, drawn) => Fits(r, rest, drawn)
    BY <1>2, <2>2, <2>3, <2>4, Fewer
  <2>6. active' \in Objects'
    <3>1. CASE object = active
      <4>1. k \in 1 .. Len(documents) /\ Len(rest) \in Nat
        BY <1>3, <1>4, <2>2
      <4>2. Lesser(k, Len(rest)) \in DOMAIN rest
        BY <1>4, <2>2, <2>3, <4>1 DEF Lesser
      <4> QED BY <2>1, <3>1, <4>2 DEF Objects
    <3>2. CASE object # active
      <4>1. PICK m \in DOMAIN documents : documents[m].object = active
        BY DEF Inv, Objects
      <4>2. m # k
        BY <1>3, <3>2, <4>1
      <4>3. PICK i \in DOMAIN rest : from[i] = m
        BY <2>4, <4>2
      <4>4. rest[i].object = active /\ active' = active
        BY <2>1, <2>4, <3>2, <4>1, <4>3
      <4> QED BY <2>1, <4>4 DEF Objects
    <3> QED BY <3>1, <3>2
  <2>7. Typed' /\ Live(documents, drawn)'
    BY <1>5, <2>1, <2>5, LiveLater
  <2> QED BY <1>5, <2>1, <2>5, <2>6, <2>7 DEF Inv
<1> QED BY <1>6, <1>7

LEMMA SelectDocumentInv ==
  ASSUME Inv, SelectDocument
  PROVE  Inv'
<1>1. active' \in Objects /\ UNCHANGED <<documents, drawn, saved, loading, loaded, building>>
  BY DEF SelectDocument, Persist, worker
<1>2. Typed' /\ Live(documents, drawn)' /\ Objects' = Objects
  BY <1>1, LiveLater DEF Objects
<1> QED BY <1>1, <1>2 DEF Inv

(* A result or a failure replaced. *)
LEMMA AnsweredInv ==
  ASSUME Inv, NEW object \in Objects, NEW result \in Results, Fits(result, documents, drawn),
         \/ documents' = With(object, [Document(object) EXCEPT !.candidate = result])
         \/ documents' = With(object, [Document(object) EXCEPT !.failure = result]),
         drawn' = drawn
  PROVE  /\ Shaped(documents, drawn)' /\ Carried(documents, drawn)' /\ Objects' = Objects
         /\ \A r : Fits(r, documents, drawn) => Fits(r, documents', drawn')
<1>1. PICK d \in Docs : d = Document(object) /\ d = documents[Index(object)] /\ d.object = object
                        /\ Index(object) \in DOMAIN documents
  BY DocumentIs
<1>2. Fits(d.candidate, documents, drawn) /\ Fits(d.failure, documents, drawn)
  BY <1>1 DEF Inv, Carried
<1>3. PICK e : documents' = With(object, e)
               /\ (e = [d EXCEPT !.candidate = result] \/ e = [d EXCEPT !.failure = result])
  BY <1>1
<1>4. /\ e \in Docs /\ e.id = d.id /\ e.object = d.object /\ e.revision = d.revision
      /\ e.source = d.source /\ Fits(e.candidate, documents, drawn) /\ Fits(e.failure, documents, drawn)
  <2>1. CASE e = [d EXCEPT !.candidate = result]
    <3>1. /\ e \in Docs /\ e.id = d.id /\ e.object = d.object /\ e.revision = d.revision
          /\ e.source = d.source /\ e.candidate = result /\ e.failure = d.failure
      BY <2>1, SMT DEF Docs
    <3>2. Fits(e.candidate, documents, drawn) /\ Fits(e.failure, documents, drawn)
      BY <1>2, <3>1
    <3> QED BY <3>1, <3>2
  <2>2. CASE e = [d EXCEPT !.failure = result]
    <3>1. /\ e \in Docs /\ e.id = d.id /\ e.object = d.object /\ e.revision = d.revision
          /\ e.source = d.source /\ e.candidate = d.candidate /\ e.failure = result
      BY <2>2, SMT DEF Docs
    <3>2. Fits(e.candidate, documents, drawn) /\ Fits(e.failure, documents, drawn)
      BY <1>2, <3>1
    <3> QED BY <3>1, <3>2
  <2> QED BY <1>3, <2>1, <2>2
<1> QED BY <1>1, <1>3, <1>4, Rewritten

LEMMA NoResult == Nothing \in Results
  BY DEF Results

LEMMA AssembleInv ==
  ASSUME Inv, Assemble
  PROVE  Inv'
<1>1. active \in Objects
  BY DEF Inv
<1>2. PICK d \in Docs : d = Active /\ d = Document(active) /\ d = documents[Index(active)]
                        /\ d.object = active /\ Index(active) \in DOMAIN documents
  BY <1>1, DocumentIs DEF Active
<1>3. /\ building' = [object |-> active, identity |-> Identity(d), source |-> d.source]
      /\ documents' = With(active, [Document(active) EXCEPT !.failure = Nothing])
      /\ UNCHANGED <<active, loading, loaded, drawn, saved>>
  BY <1>2 DEF Assemble, storage
<1>4. /\ Shaped(documents, drawn)' /\ Carried(documents, drawn)' /\ Objects' = Objects
      /\ \A r : Fits(r, documents, drawn) => Fits(r, documents', drawn')
  BY <1>1, <1>3, NoResult, FitsNothing, AnsweredInv
<1>5. d.object \in Nat /\ d.id \in Nat /\ d.revision \in Nat /\ d.source \in Sources /\ d.settings \in Settings
  BY DocFields
<1>6. Identity(d) \in Idents /\ Identity(d).document = d.id /\ Identity(d).revision = d.revision
  BY <1>5 DEF Identity, Idents
<1>7. building' \in Builds
  BY <1>2, <1>3, <1>5, <1>6 DEF Builds
<1>8. Typed'
  BY <1>3, <1>7 DEF Inv, Typed
<1> DEFINE made == [identity |-> Identity(d), source |-> d.source]
<1>9. Fits(made, documents, drawn)
  <2>1. d.id <= drawn
    BY <1>2 DEF Inv, Shaped, Numbered
  <2>2. ASSUME NEW i \in DOMAIN documents PROVE Agrees(made, documents[i])
    <3>1. CASE documents[i].id = d.id
      <4>1. i = Index(active)
        BY <1>2, <3>1 DEF Inv, Shaped, Apart
      <4> QED BY <1>2, <1>5, <1>6, <4>1 DEF Agrees
    <3>2. CASE documents[i].id # d.id
      BY <1>6, <3>2 DEF Agrees
    <3> QED BY <3>1, <3>2
  <2> QED BY <1>6, <2>1, <2>2 DEF Fits
<1>10. InBuild' = made \/ InBuild' = Nothing
  BY <1>3 DEF InBuild
<1> HIDE DEF made
<1>11. Fits(InBuild, documents, drawn)'
  BY <1>3, <1>4, <1>9, <1>10, FitsNothing
<1>12. Live(documents, drawn)'
  BY <1>3, <1>4, <1>11 DEF Inv, Live
<1> QED BY <1>1, <1>3, <1>4, <1>8, <1>12 DEF Inv

LEMMA AssembledInv ==
  ASSUME Inv, Assembled
  PROVE  Inv'
<1>1. Building /\ building' = NoBuild /\ UNCHANGED <<active, loading, loaded, drawn, saved>>
  BY DEF Assembled, storage
<1>2. /\ Shaped(documents, drawn)' /\ Carried(documents, drawn)' /\ Objects' = Objects
      /\ \A r : Fits(r, documents, drawn) => Fits(r, documents', drawn')
  <2>1. CASE documents' = documents
    BY <1>1, <2>1 DEF Inv, Objects
  <2>2. CASE documents' # documents
    <3>1. PICK object \in Objects : object = building.object
      BY <2>2 DEF Assembled, Wanted
    <3>2. PICK result : result = Result(object)
      OBVIOUS
    <3>3. result = InBuild
      BY <1>1, <3>2 DEF Result, InBuild
    <3>4. Fits(result, documents, drawn)
      BY <3>3 DEF Inv, Live
    <3>5. building.identity \in Idents /\ building.source \in Sources
      BY <1>1 DEF Inv, Typed, Building, Builds
    <3>6. result \in Results
      BY <3>2, <3>5 DEF Result, Results
    <3>7. \/ documents' = With(object, [Document(object) EXCEPT !.candidate = result])
          \/ documents' = With(object, [Document(object) EXCEPT !.failure = result])
      BY <2>2, <3>1, <3>2 DEF Assembled
    <3> QED BY <1>1, <3>4, <3>6, <3>7, AnsweredInv
  <2> QED BY <2>1, <2>2
<1>3. Typed'
  BY <1>1 DEF Inv, Typed
<1>4. InBuild' = Nothing
  BY <1>1 DEF InBuild, Building
<1>5. Live(documents, drawn)'
  BY <1>1, <1>2, <1>4, FitsNothing DEF Inv, Live
<1> QED BY <1>1, <1>2, <1>3, <1>5 DEF Inv

LEMMA ConnectInv ==
  ASSUME Inv, Connect
  PROVE  Inv'
<1>1. active \in Objects
  BY DEF Inv
<1>2. /\ documents' = With(active, [Document(active) EXCEPT !.failure = Nothing])
      /\ loaded' = Nothing /\ UNCHANGED <<active, loading, building, drawn, saved>>
  BY DEF Connect, storage, Active
<1>3. /\ Shaped(documents, drawn)' /\ Carried(documents, drawn)' /\ Objects' = Objects
      /\ \A r : Fits(r, documents, drawn) => Fits(r, documents', drawn')
  BY <1>1, <1>2, NoResult, FitsNothing, AnsweredInv
<1>4. Typed' /\ InBuild' = InBuild
  BY <1>2, NoResult DEF Inv, Typed, InBuild, Building
<1>5. Live(documents, drawn)'
  BY <1>2, <1>3, <1>4, FitsNothing DEF Inv, Live
<1> QED BY <1>1, <1>2, <1>3, <1>4, <1>5 DEF Inv

LEMMA BuildFailsInv ==
  ASSUME Inv, BuildFails
  PROVE  Inv'
<1>1. building' = NoBuild /\ UNCHANGED <<documents, active, loading, loaded, drawn, saved>>
  BY DEF BuildFails, storage
<1>2. Typed' /\ InBuild' = Nothing /\ Objects' = Objects
  BY <1>1 DEF Inv, Typed, InBuild, Building, Objects
<1> QED BY <1>1, <1>2, FitsNothing DEF Inv, Live

(* Load, Loaded, Unload and Failed hand on a result that fits. *)
LEMMA HandedOn ==
  ASSUME Inv, UNCHANGED <<documents, active, drawn, saved>>,
         building' \in {building, NoBuild},
         loading' \in {loading, loaded, Nothing, Active.candidate},
         loaded' \in {loaded, loading, Nothing}
  PROVE  Inv'
<1>1. active \in Objects
  BY DEF Inv
<1>2. PICK d \in Docs : d = Active /\ d = documents[Index(active)] /\ Index(active) \in DOMAIN documents
  BY <1>1, DocumentIs DEF Active
<1>3. d.candidate \in Results /\ Fits(d.candidate, documents, drawn)
  BY <1>2, DocFields DEF Inv, Carried
<1>4. Typed'
  BY <1>2, <1>3, NoResult DEF Inv, Typed
<1>5. InBuild' = InBuild \/ InBuild' = Nothing
  BY DEF InBuild, Building
<1>6. Live(documents, drawn)'
  BY <1>2, <1>3, <1>5, FitsNothing DEF Inv, Live
<1> QED BY <1>4, <1>6 DEF Inv, Objects

LEMMA LoadingInv ==
  ASSUME Inv, Load \/ Loaded \/ Unload \/ Failed
  PROVE  Inv'
<1>1. /\ UNCHANGED <<documents, active, drawn, saved>>
      /\ building' \in {building, NoBuild}
      /\ loading' \in {loading, loaded, Nothing, Active.candidate}
      /\ loaded' \in {loaded, loading, Nothing}
  BY DEF Load, Loaded, Unload, Failed, storage
<1> QED BY <1>1, HandedOn

(* What is written can be read again. *)
LEMMA DraftIs ==
  ASSUME NEW d \in Docs
  PROVE  Draft(d) \in Drafts /\ Draft(d).id = d.id
BY DocFields DEF Draft, Drafts

LEMMA WorkspaceIs ==
  ASSUME Inv
  PROVE  Written(Workspace, drawn)
<1> DEFINE drafts == [i \in DOMAIN documents |-> Draft(documents[i])]
<1>1. documents \in Seq(Docs) /\ documents # <<>> /\ Apart(documents) /\ Numbered(documents, drawn)
  BY DEF Inv, Shaped
<1>2. DOMAIN documents = 1 .. Len(documents) /\ Len(documents) \in Nat
      /\ \A i \in DOMAIN documents : documents[i] \in Docs
  BY <1>1, Known
<1>3. /\ DOMAIN drafts = DOMAIN documents
      /\ \A i \in DOMAIN drafts : drafts[i] \in Drafts /\ drafts[i].id = documents[i].id
  BY <1>2, DraftIs
<1>4. drafts \in Seq(Drafts)
  <2>1. drafts \in [1 .. Len(documents) -> Drafts]
    BY <1>2, <1>3
  <2> QED BY <1>2, <2>1, SeqDef
<1>5. /\ Workspace.drafts = drafts /\ Workspace.active = Active.id
      /\ Workspace = [active |-> Workspace.active, drafts |-> Workspace.drafts]
  BY DEF Workspace
<1> HIDE DEF drafts
<1>6. drafts # <<>>
  <2>1. Len(documents) # 0
    BY <1>1, EmptySeq
  <2>2. 1 \in DOMAIN documents
    BY <1>2, <2>1
  <2> QED BY <1>3, <2>2
<1>7. \A i, j \in DOMAIN drafts : drafts[i].id = drafts[j].id => i = j
  BY <1>1, <1>3 DEF Apart
<1>8. \A i \in DOMAIN drafts : drafts[i].id <= drawn
  BY <1>1, <1>3 DEF Numbered
<1>9. \E i \in DOMAIN drafts : drafts[i].id = Active.id
  <2>1. active \in Objects
    BY DEF Inv
  <2>2. Index(active) \in DOMAIN documents /\ Active = documents[Index(active)]
    BY <2>1, DocumentIs DEF Active
  <2> QED BY <1>3, <2>2
<1> QED BY <1>4, <1>5, <1>6, <1>7, <1>8, <1>9, Zenon DEF Written

(* As many identifiers as documents. *)
LEMMA ManyIds ==
  ASSUME NEW drafts \in Seq(Drafts),
         \A i, j \in DOMAIN drafts : drafts[i].id = drafts[j].id => i = j
  PROVE  Cardinality({drafts[i].id : i \in DOMAIN drafts}) = Len(drafts)
<1> DEFINE ids == {drafts[i].id : i \in DOMAIN drafts}
           f == [i \in 1 .. Len(drafts) |-> drafts[i].id]
<1>1. Len(drafts) \in Nat /\ DOMAIN drafts = 1 .. Len(drafts)
  BY LenProperties
<1>2. f \in Bijection(1 .. Len(drafts), ids)
  <2>1. f \in [1 .. Len(drafts) -> ids]
    BY <1>1
  <2>2. \A i, j \in 1 .. Len(drafts) : f[i] = f[j] => i = j
    BY <1>1
  <2>3. \A t \in ids : \E i \in 1 .. Len(drafts) : f[i] = t
    BY <1>1
  <2> QED BY <2>1, <2>2, <2>3 DEF Bijection, Injection, Surjection, IsInjective
<1>3. ExistsBijection(1 .. Len(drafts), ids)
  BY <1>2 DEF ExistsBijection
<1> QED BY <1>1, <1>3, FS_CountingElements

LEMMA WrittenOrdered ==
  ASSUME NEW workspace, NEW n, Written(workspace, n)
  PROVE  Ordered(workspace)
<1>1. PICK drafts : drafts = workspace.drafts
  OBVIOUS
<1>2. /\ drafts \in Seq(Drafts) /\ drafts # <<>>
      /\ \A i, j \in DOMAIN drafts : drafts[i].id = drafts[j].id => i = j
      /\ \E i \in DOMAIN drafts : drafts[i].id = workspace.active
  BY <1>1 DEF Written
<1>3. Cardinality({drafts[i].id : i \in DOMAIN drafts}) = Len(drafts)
  BY <1>2, ManyIds
<1>4. workspace.active \in {drafts[i].id : i \in DOMAIN drafts}
  BY <1>2
<1> QED BY <1>1, <1>2, <1>3, <1>4 DEF Ordered

(* What was saved is read back. *)
LEMMA StoredReadable ==
  ASSUME Inv, saved # NeverSaved
  PROVE  Readable(saved)
<1>1. Written(saved, drawn) /\ \A i \in DOMAIN saved.drafts : InBounds(saved.drafts[i])
  BY DEF Inv, Stored
<1>2. Ordered(saved)
  BY <1>1, WrittenOrdered
<1> QED BY <1>1, <1>2 DEF Readable

LEMMA SaveInv ==
  ASSUME Inv, Save
  PROVE  Inv'
<1>1. /\ UNCHANGED <<documents, active, loading, loaded, building, drawn>>
      /\ \/ saved' = saved
         \/ saved' = Workspace /\ Readable(Workspace)
  BY DEF Save, worker
<1>2. Stored(saved', drawn)
  <2>1. CASE saved' = saved
    BY <2>1 DEF Inv
  <2>2. CASE saved' = Workspace /\ Readable(Workspace)
    <3>1. PICK w : w = Workspace
      OBVIOUS
    <3>2. Written(w, drawn) /\ \A i \in DOMAIN w.drafts : InBounds(w.drafts[i])
      BY <2>2, <3>1, WorkspaceIs DEF Readable
    <3> QED BY <2>2, <3>1, <3>2 DEF Stored
  <2> QED BY <1>1, <2>1, <2>2
<1>3. Typed' /\ Live(documents, drawn)' /\ Objects' = Objects
  BY <1>1, LiveLater DEF Objects
<1> QED BY <1>1, <1>2, <1>3 DEF Inv

LEMMA RestoredIs ==
  ASSUME NEW draft \in Drafts
  PROVE  LET d == Restored(draft) IN
         /\ d \in Docs /\ d.id = draft.id /\ d.object = draft.id
         /\ d.candidate = Nothing /\ d.failure = Nothing
<1>1. draft.id \in Nat /\ draft.revision \in Nat /\ draft.source \in Sources /\ draft.settings \in Settings
  BY DEF Drafts
<1>2. PICK new : new = NewDocument(draft.id, draft.settings)
  OBVIOUS
<1>3. /\ new \in Docs /\ new.id = draft.id /\ new.object = draft.id
      /\ new.candidate = Nothing /\ new.failure = Nothing
  BY <1>1, <1>2, NewIs
<1>4. PICK q : q = [new EXCEPT !.revision = draft.revision]
  OBVIOUS
<1>5. /\ q \in Docs /\ q.id = new.id /\ q.object = new.object
      /\ q.candidate = new.candidate /\ q.failure = new.failure
  BY <1>1, <1>3, <1>4, Replaced
<1>6. PICK e : e = [q EXCEPT !.source = draft.source]
  OBVIOUS
<1>7. /\ e \in Docs /\ e.id = q.id /\ e.object = q.object
      /\ e.candidate = q.candidate /\ e.failure = q.failure
  BY <1>1, <1>5, <1>6, Replaced
<1>8. Restored(draft) = e
  BY <1>2, <1>4, <1>6 DEF Restored
<1> QED BY <1>3, <1>5, <1>7, <1>8

LEMMA ReloadInv ==
  ASSUME Inv, Reload
  PROVE  Inv'
<1>1. building' = NoBuild /\ loading' = Nothing /\ loaded' = Nothing /\ saved' = saved
  BY DEF Reload
<1>2. Typed' /\ InBuild' = Nothing
  BY <1>1, NoResult DEF Typed, InBuild, Building
<1>3. Live(documents, drawn)'
  BY <1>1, <1>2, FitsNothing DEF Live
<1>4. drawn \in Nat
  BY DEF Inv, Shaped
<1>5. CASE saved # NeverSaved
  <2>1. /\ documents' = [i \in DOMAIN saved.drafts |-> Restored(saved.drafts[i])]
        /\ active' = saved.active /\ drawn' = drawn
    BY <1>5, StoredReadable DEF Reload, Recovered
  <2>2. PICK drafts : drafts = saved.drafts
    OBVIOUS
  <2>3. /\ drafts \in Seq(Drafts) /\ drafts # <<>>
        /\ \A i, j \in DOMAIN drafts : drafts[i].id = drafts[j].id => i = j
        /\ \A i \in DOMAIN drafts : drafts[i].id <= drawn
        /\ \E i \in DOMAIN drafts : drafts[i].id = saved.active
    BY <1>5, <2>2 DEF Inv, Stored, Written
  <2>4. DOMAIN drafts = 1 .. Len(drafts) /\ Len(drafts) \in Nat /\ \A i \in DOMAIN drafts : drafts[i] \in Drafts
    BY <2>3, LenProperties, ElementOfSeq
  <2>5. /\ DOMAIN documents' = DOMAIN drafts
        /\ \A i \in DOMAIN drafts :
              /\ documents'[i] \in Docs /\ documents'[i].id = drafts[i].id
              /\ documents'[i].object = drafts[i].id
              /\ documents'[i].candidate = Nothing /\ documents'[i].failure = Nothing
    BY <2>1, <2>2, <2>4, RestoredIs
  <2>6. documents' \in Seq(Docs)
    <3>1. documents' \in [1 .. Len(drafts) -> Docs]
      BY <2>1, <2>2, <2>4, <2>5
    <3> QED BY <2>4, <3>1, SeqDef
  <2>7. documents' # <<>>
    <3>1. DOMAIN drafts # {}
      BY <2>3, <2>4
    <3> QED BY <2>5, <3>1
  <2>8. Apart(documents')
    BY <2>3, <2>5 DEF Apart
  <2>9. Numbered(documents', drawn')
    BY <2>1, <2>3, <2>5 DEF Numbered
  <2>10. Shaped(documents', drawn')
    BY <1>4, <2>1, <2>6, <2>7, <2>8, <2>9 DEF Shaped
  <2>11. Carried(documents', drawn')
    BY <2>5, FitsNothing DEF Carried
  <2>12. active' \in Objects'
    <3>1. PICK i \in DOMAIN drafts : drafts[i].id = saved.active
      BY <2>3
    <3>2. i \in DOMAIN documents' /\ documents'[i].object = active'
      BY <2>1, <2>5, <3>1
    <3> QED BY <3>2 DEF Objects
  <2>13. Stored(saved, drawn)'
    BY <1>1, <2>1 DEF Inv
  <2> QED BY <1>2, <1>3, <2>10, <2>11, <2>12, <2>13 DEF Inv
<1>6. CASE saved = NeverSaved
  <2>1. PICK d : d = NewDocument(drawn + 1, Default)
    OBVIOUS
  <2>2. d \in Docs /\ d.id = drawn + 1 /\ d.object = drawn + 1 /\ d.candidate = Nothing /\ d.failure = Nothing
    <3>1. drawn + 1 \in Nat /\ Default \in Settings
      BY <1>4, Default0
    <3> QED BY <2>1, <3>1, NewIs
  <2>3. documents' = <<d>> /\ drawn' = drawn + 1 /\ active' = drawn + 1
    BY <1>6, <2>1 DEF Reload, Recovered
  <2>4. documents' \in Seq(Docs) /\ documents' # <<>> /\ DOMAIN documents' = {1} /\ documents'[1] = d
    BY <2>2, <2>3
  <2>5. Shaped(documents', drawn')
    BY <1>4, <2>2, <2>3, <2>4 DEF Shaped, Apart, Numbered
  <2>6. Carried(documents', drawn')
    BY <2>2, <2>4, FitsNothing DEF Carried
  <2>7. active' \in Objects'
    BY <2>2, <2>3, <2>4 DEF Objects
  <2>8. Stored(saved, drawn)'
    BY <1>1, <1>6 DEF Stored
  <2> QED BY <1>2, <1>3, <2>5, <2>6, <2>7, <2>8 DEF Inv
<1> QED BY <1>5, <1>6

LEMMA NextInv ==
  ASSUME Inv, [DocumentsNext]_documentsVars
  PROVE  Inv'
<1>1. CASE UNCHANGED documentsVars
  <2>1. UNCHANGED <<documents, active, building, loading, loaded, saved, drawn>>
    BY <1>1 DEF documentsVars, worker, storage
  <2>2. Typed' /\ Live(documents, drawn)' /\ Objects' = Objects
    BY <2>1, LiveLater DEF Objects
  <2> QED BY <2>1, <2>2 DEF Inv
<1>2. CASE DocumentsNext
  BY <1>2, SetSourceInv, ConfigureInv, SelectDocumentInv, CreateDocumentInv, CloseDocumentInv,
     AssembleInv, AssembledInv, BuildFailsInv, LoadingInv, ConnectInv, SaveInv, ReloadInv
     DEF DocumentsNext
<1> QED BY <1>1, <1>2

LEMMA Invariant == DocumentsSpec => []Inv
<1>1. DocumentsInit => Inv
  BY InitInv
<1>2. Inv /\ [DocumentsNext]_documentsVars => Inv'
  BY NextInv
<1> QED BY <1>1, <1>2, PTL DEF DocumentsSpec

(***************************************************************************)
(* A result that claims a document's identity was made from the text the   *)
(* document shows, whatever was edited, closed, answered late, lost or     *)
(* recovered in between (controller.svelte.ts: matches, artifactCurrent,   *)
(* loadedCurrent, diagnostic).                                             *)
(***************************************************************************)
THEOREM ResultsAreOfSource == DocumentsSpec => []ShownIsOfSource
<1>1. ASSUME Inv PROVE ShownIsOfSource
  <2> SUFFICES ASSUME NEW i \in DOMAIN documents,
                      NEW result \in {documents[i].candidate, documents[i].failure, loaded, loading},
                      result # Nothing, Matches(result.identity, documents[i])
               PROVE  result.source = documents[i].source
    BY Zenon DEF ShownIsOfSource
  <2>1. documents[i] \in Docs
    BY <1>1, Known DEF Inv, Shaped
  <2>2. Fits(result, documents, drawn)
    BY <1>1 DEF Inv, Carried, Live
  <2>3. Agrees(result, documents[i])
    BY <2>2 DEF Fits
  <2>4. result.identity.document = documents[i].id /\ result.identity.revision = documents[i].revision
    BY DEF Matches, Identity
  <2> QED BY <2>3, <2>4 DEF Agrees
<1> QED BY <1>1, Invariant, PTL

(***************************************************************************)
(* What is shown is what is stored, or the difference is known: an edit    *)
(* starts the timer, and what the timer does not store it reports.         *)
(***************************************************************************)
Kept == unsaved \/ storageFailed \/ saved = Workspace \/ Untouched

(* The same texts in the same places make the same workspace. *)
LEMMA SameWorkspace ==
  ASSUME Inv, active' = active, DOMAIN documents' = DOMAIN documents,
         \A i \in DOMAIN documents : /\ documents'[i].object = documents[i].object
                                     /\ Draft(documents'[i]) = Draft(documents[i])
  PROVE  Workspace' = Workspace
<1>1. Index(active) \in DOMAIN documents /\ documents[Index(active)].object = active
  BY IndexIs DEF Inv
<1>2. Index(active)' \in DOMAIN documents /\ documents[Index(active)'].object = active
  <2>1. \E i \in DOMAIN documents' : documents'[i].object = active'
    BY <1>1
  <2>2. Index(active)' \in DOMAIN documents' /\ documents'[Index(active)'].object = active'
    BY <2>1 DEF Index
  <2> QED BY <2>2
<1>3. Index(active)' = Index(active)
  BY <1>1, <1>2 DEF Inv, Shaped, Apart
<1>4. Active' = documents'[Index(active)] /\ Active = documents[Index(active)]
  BY <1>3 DEF Active, Document
<1>5. Draft(Active') = Draft(Active)
  BY <1>1, <1>4
<1>6. Active'.id = Active.id
  BY <1>5 DEF Draft
<1>7. [i \in DOMAIN documents' |-> Draft(documents'[i])] = [i \in DOMAIN documents |-> Draft(documents[i])]
  BY Zenon
<1> QED BY <1>6, <1>7 DEF Workspace

LEMMA AnsweredWorkspace ==
  ASSUME Inv, NEW object \in Objects, NEW result, active' = active,
         \/ documents' = With(object, [Document(object) EXCEPT !.candidate = result])
         \/ documents' = With(object, [Document(object) EXCEPT !.failure = result])
  PROVE  Workspace' = Workspace
<1>1. PICK d \in Docs, k \in DOMAIN documents :
        /\ d = documents[k] /\ k = Index(object) /\ d = Document(object)
  BY DocumentIs
<1>2. PICK e : /\ documents' = [documents EXCEPT ![k] = e]
               /\ e = [d EXCEPT !.candidate = result] \/ e = [d EXCEPT !.failure = result]
  BY <1>1 DEF With
<1>3. /\ e.object = d.object /\ e.id = d.id /\ e.revision = d.revision
      /\ e.source = d.source /\ e.settings = d.settings
  BY <1>2, SMT DEF Docs
<1>4. Draft(e) = Draft(d)
  BY <1>3 DEF Draft
<1>5. /\ DOMAIN documents' = DOMAIN documents /\ documents'[k] = e
      /\ \A i \in DOMAIN documents : i # k => documents'[i] = documents[i]
  BY <1>2
<1>6. \A i \in DOMAIN documents : /\ documents'[i].object = documents[i].object
                                  /\ Draft(documents'[i]) = Draft(documents[i])
  BY <1>1, <1>3, <1>4, <1>5, Zenon
<1> QED BY <1>5, <1>6, SameWorkspace

LEMMA RestoredDraft ==
  ASSUME NEW draft \in Drafts
  PROVE  Draft(Restored(draft)) = draft
BY SMT DEF Drafts, Draft, Restored, NewDocument

LEMMA ReloadKept ==
  ASSUME Inv, Reload
  PROVE  Kept'
<1>1. CASE saved = NeverSaved
  <2>1. PICK d : d = NewDocument(drawn + 1, Default)
    OBVIOUS
  <2>2. documents' = <<d>> /\ active' = drawn + 1 /\ saved' = NeverSaved
    BY <1>1, <2>1 DEF Reload, Recovered
  <2>3. Workspace'.drafts = [i \in DOMAIN documents' |-> Draft(documents'[i])]
    BY DEF Workspace
  <2>4. Workspace'.drafts = <<Draft(d)>>
    BY <2>2, <2>3
  <2>5. Untouched'
    BY <2>1, <2>2, <2>4 DEF Untouched
  <2> QED BY <2>5 DEF Kept
<1>2. CASE saved # NeverSaved
  <2>1. PICK drafts : drafts = saved.drafts
    OBVIOUS
  <2>2. /\ documents' = [i \in DOMAIN drafts |-> Restored(drafts[i])]
        /\ active' = saved.active /\ saved' = saved
    BY <1>2, <2>1, StoredReadable DEF Reload, Recovered
  <2>3. /\ drafts \in Seq(Drafts) /\ saved = [active |-> saved.active, drafts |-> drafts]
        /\ \E i \in DOMAIN drafts : drafts[i].id = saved.active
    BY <1>2, <2>1 DEF Inv, Stored, Written
  <2>4. /\ \A i \in DOMAIN drafts : drafts[i] \in Drafts
        /\ drafts = [i \in DOMAIN drafts |-> drafts[i]]
    <3>1. DOMAIN drafts = 1 .. Len(drafts) /\ drafts \in [1 .. Len(drafts) -> Drafts]
      BY <2>3, LenProperties
    <3> QED BY <3>1
  <2>5. /\ DOMAIN documents' = DOMAIN drafts
        /\ \A i \in DOMAIN drafts : /\ documents'[i].id = drafts[i].id
                                    /\ documents'[i].object = drafts[i].id
                                    /\ Draft(documents'[i]) = drafts[i]
    BY <2>2, <2>4, RestoredIs, RestoredDraft
  <2>6. [i \in DOMAIN documents' |-> Draft(documents'[i])] = drafts
    BY <2>4, <2>5
  <2>7. Active'.id = saved.active
    <3>1. \E i \in DOMAIN documents' : documents'[i].object = active'
      BY <2>2, <2>3, <2>5
    <3>2. Index(active)' \in DOMAIN documents' /\ documents'[Index(active)'].object = active'
      BY <3>1 DEF Index
    <3>3. Active' = documents'[Index(active)']
      BY DEF Active, Document
    <3> QED BY <2>2, <2>5, <3>2, <3>3
  <2>8. Workspace' = saved'
    BY <2>2, <2>3, <2>6, <2>7 DEF Workspace
  <2> QED BY <2>8 DEF Kept
<1> QED BY <1>1, <1>2

LEMMA KeptNext ==
  ASSUME Inv, Kept, [DocumentsNext]_documentsVars
  PROVE  Kept'
<1>1. ASSUME Workspace' = Workspace, active' = active, UNCHANGED storage
      PROVE  Kept'
  BY <1>1 DEF Kept, Untouched, storage
<1>2. ASSUME UNCHANGED <<documents, active, storage>>
      PROVE  Kept'
  <2>1. Workspace' = Workspace
    BY <1>2 DEF Workspace, Active, Document, Index
  <2> QED BY <1>1, <1>2, <2>1
<1>3. CASE SetSource \/ Configure \/ SelectDocument \/ CreateDocument \/ CloseDocument
  <2>1. unsaved'
    BY <1>3 DEF SetSource, Configure, SelectDocument, CreateDocument, CloseDocument, Persist
  <2> QED BY <2>1 DEF Kept
<1>4. CASE Assemble \/ Connect
  <2>1. /\ documents' = With(active, [Document(active) EXCEPT !.failure = Nothing])
        /\ active' = active /\ UNCHANGED storage
    BY <1>4 DEF Assemble, Connect, Active
  <2>2. Workspace' = Workspace
    BY <2>1, AnsweredWorkspace DEF Inv
  <2> QED BY <1>1, <2>1, <2>2
<1>5. CASE Assembled
  <2>1. active' = active /\ UNCHANGED storage
    BY <1>5 DEF Assembled
  <2>2. CASE documents' = documents
    BY <1>2, <2>1, <2>2
  <2>3. CASE documents' # documents
    <3>1. PICK object \in Objects : object = building.object
      BY <1>5, <2>3 DEF Assembled, Wanted
    <3>2. PICK result : result = Result(object)
      OBVIOUS
    <3>3. \/ documents' = With(object, [Document(object) EXCEPT !.candidate = result])
          \/ documents' = With(object, [Document(object) EXCEPT !.failure = result])
      BY <1>5, <2>3, <3>1, <3>2 DEF Assembled
    <3>4. Workspace' = Workspace
      BY <2>1, <3>3, AnsweredWorkspace
    <3> QED BY <1>1, <2>1, <3>4
  <2> QED BY <2>2, <2>3
<1>6. CASE BuildFails \/ Load \/ Loaded \/ Unload \/ Failed \/ UNCHANGED documentsVars
  <2>1. UNCHANGED <<documents, active, storage>>
    BY <1>6 DEF BuildFails, Load, Loaded, Unload, Failed, documentsVars, storage
  <2> QED BY <1>2, <2>1
<1>7. CASE Save
  <2>1. /\ UNCHANGED <<documents, active>>
        /\ saved' = Workspace \/ storageFailed'
    BY <1>7 DEF Save
  <2>2. Workspace' = Workspace
    BY <2>1 DEF Workspace, Active, Document, Index
  <2> QED BY <2>1, <2>2 DEF Kept
<1> QED BY <1>3, <1>4, <1>5, <1>6, <1>7, ReloadKept DEF DocumentsNext

(***************************************************************************)
(* Whatever is edited, closed, built, saved, refused or lost, the last copy*)
(* that was stored can be read back whole; it is what the screen shows, or *)
(* an edit waits for the timer, a failure to save is reported, or nothing  *)
(* was ever edited (setSource, closeDocument, save, initialize,            *)
(* readWorkspace).  Only a text or a field out of its bounds, or the quota *)
(* of the storage, stops a workspace from being stored.                    *)
(***************************************************************************)
THEOREM RecoverableOrTold == DocumentsSpec => []Recoverable
<1>1. DocumentsInit => Inv /\ Kept
  <2>1. ASSUME DocumentsInit PROVE Untouched
    <3>1. PICK d : d = NewDocument(1, Default)
      OBVIOUS
    <3>2. documents = <<d>> /\ active = 1 /\ saved = NeverSaved
      BY <2>1, <3>1 DEF DocumentsInit
    <3>3. Workspace.drafts = [i \in DOMAIN documents |-> Draft(documents[i])]
      BY DEF Workspace
    <3>4. Workspace.drafts = <<Draft(d)>>
      BY <3>2, <3>3
    <3> QED BY <3>1, <3>2, <3>4 DEF Untouched
  <2> QED BY <2>1, InitInv DEF Kept
<1>2. (Inv /\ Kept) /\ [DocumentsNext]_documentsVars => (Inv /\ Kept)'
  BY NextInv, KeptNext
<1>3. Inv /\ Kept => Recoverable
  <2>1. ASSUME Inv PROVE Ordered(Workspace)
    <3>1. PICK w : w = Workspace
      OBVIOUS
    <3>2. Written(w, drawn)
      BY <2>1, <3>1, WorkspaceIs
    <3> QED BY <3>1, <3>2, WrittenOrdered
  <2> QED BY <2>1, StoredReadable DEF Inv, Kept, Recoverable
<1> QED BY <1>1, <1>2, <1>3, PTL DEF DocumentsSpec
=============================================================================
