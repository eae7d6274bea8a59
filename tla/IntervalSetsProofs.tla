------------------------- MODULE IntervalSetsProofs -------------------------
(***************************************************************************)
(* Proofs about IntervalSets, for every width of the field and every list  *)
(* of ranges over it.                                                      *)
(***************************************************************************)
EXTENDS IntervalSets, ListingProofs

(***************************************************************************)
(* The field, and lists of ranges over it.                                 *)
(***************************************************************************)
LEMMA FieldSize == domain_max \in Nat /\ 2^Bits = domain_max + 1
<1>1. 2^Bits \in Nat \ {0}
  BY BitsAssumption, PowersAssumption
<1> QED
  BY <1>1 DEF domain_max

\* The values of the field are numbers, bounded.
LEMMA DomainNumbers == Domain \subseteq Nat /\ \A v \in Domain : v <= domain_max
BY FieldSize DEF Domain

\* What an element of a list of ranges is.
LEMMA RangeAt ==
  ASSUME NEW s \in Seq(Span), NEW k \in 1 .. Len(s)
  PROVE  /\ s[k] \in Span /\ s[k][1] \in Domain /\ s[k][2] \in Domain
         /\ s[k] = <<s[k][1], s[k][2]>>
         /\ s[k][1] \in Nat /\ s[k][2] \in Nat
         /\ s[k][1] <= domain_max /\ s[k][2] <= domain_max
<1>1. s[k] \in Span
  OBVIOUS
<1>2. s[k][1] \in Domain /\ s[k][2] \in Domain /\ s[k] = <<s[k][1], s[k][2]>>
  BY <1>1 DEF Span
<1> QED
  BY <1>1, <1>2, DomainNumbers

\* The positions of a list.
LEMMA ListDomain ==
  ASSUME NEW s \in Seq(Span)
  PROVE  Len(s) \in Nat /\ DOMAIN s = 1 .. Len(s)
OBVIOUS

\* A value of the set is a value of the field within some range of it.
Within(v, r) == r[1] <= v /\ v <= r[2]

\* A value is in a list when one of its ranges holds it.
LEMMA InValues ==
  ASSUME NEW s \in Seq(Span), NEW v
  PROVE  v \in Values(s) <=> v \in Domain /\ \E k \in 1 .. Len(s) : Within(v, s[k])
<1>1. v \in Values(s) <=> \E k \in 1 .. Len(s) : v \in s[k][1] .. s[k][2]
  BY ListDomain DEF Values, ToSet
<1>2. ASSUME NEW k \in 1 .. Len(s)
      PROVE  v \in s[k][1] .. s[k][2] <=> v \in Domain /\ Within(v, s[k])
  BY RangeAt, FieldSize DEF Domain, Within
<1> QED
  BY <1>1, <1>2

\* A list of ranges holds values of the field only.
LEMMA ValuesInField ==
  ASSUME NEW s \in Seq(Span)
  PROVE  Values(s) \subseteq Domain
BY InValues

\* The ranges of a canonical list are pairwise apart, not only neighbours.
LEMMA Apart ==
  ASSUME NEW s \in Seq(Span), Canonical(s)
  PROVE  /\ \A k \in 1 .. Len(s) : s[k][1] <= s[k][2]
         /\ \A h, k \in 1 .. Len(s) : h < k => s[h][2] + 1 < s[k][1]
<1>1. \A k \in 1 .. Len(s) : s[k][1] <= s[k][2] /\ s[k][1] \in Nat /\ s[k][2] \in Nat
  BY ListDomain, RangeAt DEF Canonical
<1>2. \A k \in 1 .. (Len(s) - 1) : s[k][2] + 1 < s[k + 1][1]
  BY DEF Canonical
<1>3. ASSUME NEW h \in 1 .. Len(s), NEW n \in 1 .. Len(s), h < n, ~(s[h][2] + 1 < s[n][1])
      PROVE  FALSE
  <2> DEFINE T == {k \in 1 .. Len(s) : h < k /\ ~(s[h][2] + 1 < s[k][1])}
  <2>1. T \in SUBSET Nat /\ T # {}
    BY <1>3, ListDomain
  <2>2. PICK m \in T : \A k \in T : m <= k
    BY <2>1, LeastNat
  <2>3. m \in 1 .. Len(s) /\ h < m /\ ~(s[h][2] + 1 < s[m][1]) /\ m - 1 \in 1 .. (Len(s) - 1)
    BY <2>2, ListDomain
  <2>4. s[m - 1][2] + 1 < s[m][1]
    <3>1. (m - 1) + 1 = m
      BY <2>3
    <3> QED
      BY <1>2, <2>3, <3>1
  <2>5. m - 1 # h
    BY <2>3, <2>4
  <2>6. h < m - 1 /\ m - 1 \in 1 .. Len(s) /\ m - 1 \notin T
    BY <2>2, <2>3, <2>5, ListDomain
  <2>7. s[h][2] + 1 < s[m - 1][1]
    BY <2>6
  <2>8. /\ s[h][2] \in Nat /\ s[m][1] \in Nat
        /\ s[m - 1][1] \in Nat /\ s[m - 1][2] \in Nat /\ s[m - 1][1] <= s[m - 1][2]
    BY <1>1, <2>3, <2>6
  <2>9. s[h][2] + 1 < s[m][1]
    <3>1. \A a, b, c, d \in Nat : a + 1 < b /\ b <= c /\ c + 1 < d => a + 1 < d
      OBVIOUS
    <3> QED
      BY <2>4, <2>7, <2>8, <3>1
  <2> QED
    BY <2>3, <2>9
<1> QED
  BY <1>1, <1>3

(***************************************************************************)
(* Adding a range at the end, and widening the last one.                   *)
(***************************************************************************)
LEMMA Appended ==
  ASSUME NEW s \in Seq(Span), NEW r \in Span
  PROVE  /\ Append(s, r) \in Seq(Span) /\ Len(Append(s, r)) = Len(s) + 1
         /\ \A v : v \in Values(Append(s, r)) <=> v \in Values(s) \/ (v \in Domain /\ Within(v, r))
<1> DEFINE t == Append(s, r)
<1>1. /\ t \in Seq(Span) /\ Len(t) = Len(s) + 1 /\ t[Len(s) + 1] = r
      /\ \A k \in 1 .. Len(s) : t[k] = s[k]
  OBVIOUS
<1> HIDE DEF t
<1>2. ASSUME NEW v
      PROVE  v \in Values(t) <=> v \in Values(s) \/ (v \in Domain /\ Within(v, r))
  <2>1. (\E k \in 1 .. Len(t) : Within(v, t[k])) <=> (\E k \in 1 .. Len(s) : Within(v, s[k])) \/ Within(v, r)
    <3>1. \A k \in 1 .. Len(t) : k \in 1 .. Len(s) \/ k = Len(s) + 1
      BY <1>1, ListDomain
    <3>2. \A k \in 1 .. Len(s) : k \in 1 .. Len(t)
      BY <1>1, ListDomain
    <3>3. Len(s) + 1 \in 1 .. Len(t)
      BY <1>1, ListDomain
    <3> QED
      BY <1>1, <3>1, <3>2, <3>3
  <2> QED
    BY <1>1, <2>1, InValues
<1> QED
  BY <1>1, <1>2 DEF t

\* A canonical list stays so when what is appended lies beyond its end and a
\* gap.
LEMMA AppendedCanonical ==
  ASSUME NEW s \in Seq(Span), Canonical(s), NEW r \in Span, r[1] <= r[2],
         \A k \in 1 .. Len(s) : s[k][2] + 1 < r[1]
  PROVE  Canonical(Append(s, r))
<1> DEFINE t == Append(s, r)
<1>1. /\ t \in Seq(Span) /\ Len(t) = Len(s) + 1 /\ t[Len(s) + 1] = r
      /\ \A k \in 1 .. Len(s) : t[k] = s[k]
  OBVIOUS
<1>2. r[2] <= domain_max
  BY DomainNumbers DEF Span
<1> HIDE DEF t
<1>3. ASSUME NEW k \in DOMAIN t PROVE t[k][1] <= t[k][2] /\ t[k][2] <= domain_max
  <2>1. k \in 1 .. Len(s) \/ k = Len(s) + 1
    BY <1>1, ListDomain
  <2> QED
    BY <1>1, <1>2, <2>1, ListDomain DEF Canonical
<1>4. ASSUME NEW k \in 1 .. (Len(t) - 1) PROVE t[k][2] + 1 < t[k + 1][1]
  <2>1. k \in 1 .. Len(s)
    BY <1>1, ListDomain
  <2>2. CASE k = Len(s)
    BY <1>1, <2>1, <2>2
  <2>3. CASE k # Len(s)
    <3>1. k \in 1 .. (Len(s) - 1) /\ k + 1 \in 1 .. Len(s)
      BY <2>1, <2>3, ListDomain
    <3> QED
      BY <1>1, <2>1, <3>1 DEF Canonical
  <2> QED
    BY <2>2, <2>3
<1> QED
  BY <1>3, <1>4 DEF Canonical, t

\* A list that is not empty is its front and its last range.
LEMMA FrontAndLast ==
  ASSUME NEW s \in Seq(Span), s # <<>>
  PROVE  /\ Len(s) \in 1 .. Len(s) /\ Last(s) = s[Len(s)] /\ Last(s) \in Span
         /\ Front(s) \in Seq(Span) /\ Len(Front(s)) = Len(s) - 1
         /\ \A k \in 1 .. (Len(s) - 1) : Front(s)[k] = s[k]
         /\ s = Append(Front(s), Last(s))
         /\ Canonical(s) => Canonical(Front(s))
<1>1. Len(s) \in Nat \ {0} /\ Len(s) \in 1 .. Len(s)
  OBVIOUS
<1>2. Last(s) = s[Len(s)] /\ Last(s) \in Span
  BY <1>1 DEF Last
<1>3. Front(s) = [k \in 1 .. (Len(s) - 1) |-> s[k]]
  BY <1>1 DEF Front
<1>4. /\ Front(s) \in Seq(Span) /\ Len(Front(s)) = Len(s) - 1
      /\ \A k \in 1 .. (Len(s) - 1) : Front(s)[k] = s[k]
  BY <1>1, <1>3
<1>5. s = Append(Front(s), Last(s))
  BY <1>1, <1>2, <1>4
<1>6. ASSUME Canonical(s) PROVE Canonical(Front(s))
  <2>1. \A k \in 1 .. Len(s) : s[k][1] <= s[k][2] /\ s[k][2] <= domain_max
    BY <1>6, ListDomain DEF Canonical
  <2>2. \A k \in 1 .. (Len(s) - 1) : s[k][2] + 1 < s[k + 1][1]
    BY <1>6 DEF Canonical
  <2>3. ASSUME NEW k \in DOMAIN Front(s)
        PROVE  Front(s)[k][1] <= Front(s)[k][2] /\ Front(s)[k][2] <= domain_max
    BY <1>1, <1>4, <2>1
  <2>4. ASSUME NEW k \in 1 .. (Len(Front(s)) - 1)
        PROVE  Front(s)[k][2] + 1 < Front(s)[k + 1][1]
    <3>1. k \in 1 .. (Len(s) - 1) /\ k + 1 \in 1 .. (Len(s) - 1)
      BY <1>1, <1>4
    <3>2. Front(s)[k] = s[k] /\ Front(s)[k + 1] = s[k + 1]
      BY <1>4, <3>1
    <3> QED
      BY <2>2, <3>1, <3>2
  <2> QED
    BY <2>3, <2>4 DEF Canonical
<1> QED
  BY <1>1, <1>2, <1>4, <1>5, <1>6

\* The last range made longer.
LEMMA Widened ==
  ASSUME NEW s \in Seq(Span), Canonical(s), s # <<>>, NEW hi \in Domain, Last(s)[2] <= hi
  PROVE  LET t == Append(Front(s), <<Last(s)[1], hi>>)
         IN /\ t \in Seq(Span) /\ Canonical(t) /\ t # <<>> /\ Last(t) = <<Last(s)[1], hi>>
            /\ \A v : v \in Values(t) <=>
                        v \in Values(s) \/ (v \in Domain /\ Last(s)[1] <= v /\ v <= hi)
<1> DEFINE f == Front(s)
           l == Last(s)
           r == <<l[1], hi>>
           t == Append(f, r)
<1>1. /\ Len(s) \in 1 .. Len(s) /\ l = s[Len(s)] /\ f \in Seq(Span) /\ Len(f) = Len(s) - 1
      /\ \A k \in 1 .. (Len(s) - 1) : f[k] = s[k]
      /\ s = Append(f, l) /\ Canonical(f) /\ l \in Span
  BY FrontAndLast
<1>2. /\ l[1] \in Domain /\ l[2] \in Domain /\ l[1] \in Nat /\ l[2] \in Nat /\ hi \in Nat
      /\ l[1] <= l[2]
  BY <1>1, DomainNumbers, Apart DEF Span
<1>3. r \in Span /\ r[1] = l[1] /\ r[2] = hi /\ r[1] <= r[2]
  BY <1>2 DEF Span
<1>4. \A k \in 1 .. Len(f) : f[k][2] + 1 < r[1]
  <2> SUFFICES ASSUME NEW k \in 1 .. Len(f) PROVE f[k][2] + 1 < l[1]
    BY <1>3
  <2>1. k \in 1 .. (Len(s) - 1) /\ k \in 1 .. Len(s) /\ k < Len(s)
    BY <1>1, ListDomain
  <2> QED
    BY <1>1, <2>1, Apart
<1> HIDE DEF f, l, r
<1>5. Canonical(t)
  BY <1>1, <1>3, <1>4, AppendedCanonical
<1>6. t \in Seq(Span) /\ t # <<>> /\ Last(t) = r
  BY <1>1, <1>3 DEF Last
<1>7. ASSUME NEW v
      PROVE  v \in Values(t) <=> v \in Values(s) \/ (v \in Domain /\ l[1] <= v /\ v <= hi)
  <2>1. v \in Values(t) <=> v \in Values(f) \/ (v \in Domain /\ Within(v, r))
    BY <1>1, <1>3, Appended
  <2>2. v \in Values(s) <=> v \in Values(f) \/ (v \in Domain /\ Within(v, l))
    BY <1>1, Appended
  <2>3. v \in Domain /\ Within(v, l) => Within(v, r)
    <3>1. v \in Domain => v \in Nat
      BY DomainNumbers
    <3>2. l[2] <= hi
      BY DEF l
    <3> QED
      BY <1>2, <1>3, <3>1, <3>2 DEF Within
  <2> QED
    BY <1>3, <2>1, <2>2, <2>3 DEF Within
<1> QED
  BY <1>5, <1>6, <1>7 DEF t, f, l, r

\* The whole field has one canonical list.
LEMMA FullIsOneRange ==
  ASSUME NEW s \in Seq(Span), Canonical(s)
  PROVE  IsFull(s) <=> Values(s) = Domain
<1>1. ASSUME IsFull(s) PROVE Values(s) = Domain
  <2>1. Len(s) = 1 /\ s[1] = <<0, domain_max>>
    BY <1>1 DEF IsFull
  <2>2. ASSUME NEW v \in Domain PROVE v \in Values(s)
    BY <2>1, InValues, DomainNumbers DEF Within
  <2> QED
    BY <2>2, ValuesInField
<1>2. ASSUME Values(s) = Domain PROVE IsFull(s)
  <2> DEFINE n == Len(s)
  <2>1. n \in Nat /\ \A k \in 1 .. n : s[k][1] \in Nat /\ s[k][2] \in Nat /\ s[k][2] <= domain_max
    BY ListDomain, RangeAt
  <2>2. /\ \A k \in 1 .. n : s[k][1] <= s[k][2]
        /\ \A h, k \in 1 .. n : h < k => s[h][2] + 1 < s[k][1]
    BY Apart
  <2>3. 0 \in Domain
    BY FieldSize DEF Domain
  <2>4. PICK z \in 1 .. n : s[z][1] = 0
    <3>1. PICK k \in 1 .. n : Within(0, s[k])
      BY <1>2, <2>3, InValues
    <3> QED
      BY <2>1, <3>1 DEF Within
  <2>5. 1 \in 1 .. n /\ z = 1
    BY <2>1, <2>2, <2>4
  <2>6. s[1][2] = domain_max
    <3> SUFFICES ASSUME s[1][2] # domain_max PROVE FALSE
      OBVIOUS
    <3>1. s[1][2] + 1 \in Domain
      BY <2>1, <2>5, FieldSize DEF Domain
    <3>2. PICK k \in 1 .. n : Within(s[1][2] + 1, s[k])
      BY <1>2, <3>1, InValues
    <3>3. k # 1
      BY <2>1, <2>5, <3>2 DEF Within
    <3>4. s[1][2] + 1 < s[k][1]
      BY <2>1, <2>2, <2>5, <3>3
    <3> QED
      BY <2>1, <2>5, <3>2, <3>4 DEF Within
  <2>7. n = 1
    <3> SUFFICES ASSUME n # 1 PROVE FALSE
      OBVIOUS
    <3>1. 2 \in 1 .. n
      <4>1. n \in Nat /\ 1 <= n
        BY <2>1, <2>5
      <4> QED
        BY <4>1
    <3>2. s[1][2] + 1 < s[2][1] /\ s[2][1] <= s[2][2] /\ s[2][2] <= domain_max
      BY <2>1, <2>2, <2>5, <3>1
    <3> QED
      BY <2>1, <2>5, <2>6, <3>1, <3>2, FieldSize
  <2>8. s[1] = <<0, domain_max>>
    BY <2>4, <2>5, <2>6, RangeAt
  <2>9. s = <<s[1]>>
    BY <2>7
  <2> QED
    BY <2>8, <2>9 DEF IsFull
<1> QED
  BY <1>1, <1>2

(***************************************************************************)
(* Clamping and sorting.                                                   *)
(***************************************************************************)
Rising(s) ==
  /\ \A k \in 1 .. Len(s) : s[k][1] <= s[k][2]
  /\ \A h, k \in 1 .. Len(s) : h < k => s[h][1] <= s[k][1]

\* A clamped range is a range of the field.
LEMMA ClampedInField ==
  ASSUME NEW r \in Span
  PROVE  Clamped(r) = r
<1>1. r[1] \in Domain /\ r[2] \in Domain /\ r = <<r[1], r[2]>>
  BY DEF Span
<1>2. r[1] \in Nat /\ r[2] \in Nat /\ r[1] <= domain_max /\ r[2] <= domain_max
  BY <1>1, DomainNumbers
<1>3. Least(r[1], domain_max) = r[1] /\ Least(r[2], domain_max) = r[2]
  BY <1>2 DEF Least
<1> QED
  BY <1>1, <1>3 DEF Clamped

\* Sorted (from_ranges, union) is a list of clamped ranges, by their lower ends,
\* of the same values.
LEMMA SortedRanges ==
  ASSUME NEW list \in Seq(Span)
  PROVE  /\ Sorted(list) \in Seq(Span) /\ Rising(Sorted(list))
         /\ Values(Sorted(list)) = Values(list)
<1> DEFINE S == {k \in DOMAIN list : list[k][1] <= list[k][2]}
           Before(k, l) == ComesBefore(list, k, l)
           R == {x \in S \X S : Before(x[1], x[2])}
           n == Cardinality(S)
           order == Ranked(S, LAMBDA k, l : ComesBefore(list, k, l))
           t == Sorted(list)
<1>1. /\ S \in SUBSET (1 .. Len(list)) /\ IsFiniteSet(S) /\ S \subseteq Nat
      /\ \A k \in S : /\ list[k] \in Span /\ list[k][1] \in Nat /\ list[k][2] \in Nat
                      /\ list[k] = <<list[k][1], list[k][2]>>
                      /\ list[k][1] <= list[k][2]
                      /\ Clamped(list[k]) = list[k]
  <2>1. S \in SUBSET (1 .. Len(list)) /\ S \subseteq Nat
    BY ListDomain
  <2>2. IsFiniteSet(S)
    BY <2>1, ListDomain, FS_Interval, FS_Subset
  <2> QED
    BY <2>1, <2>2, RangeAt, ClampedInField
<1>2. \A k, l \in S :
        Before(k, l) <=> \/ list[k][1] < list[l][1]
                         \/ list[k][1] = list[l][1] /\ list[k][2] < list[l][2]
                         \/ list[k] = list[l] /\ k < l
  BY <1>1 DEF ComesBefore
<1>3. \A k, l \in S : <<k, l>> \in R <=> Before(k, l)
  OBVIOUS
<1>4. \A k \in S : {l \in S : Before(l, k)} = {l \in S : <<l, k>> \in R}
  BY <1>3
<1>5. order = [k \in 1 .. n |-> order[k]]
  <2> DEFINE E(k) == CHOOSE x \in S : Cardinality({y \in S : ComesBefore(list, y, x)}) = k - 1
  <2>1. order = [k \in 1 .. n |-> E(k)]
    BY DEF Ranked
  <2> HIDE DEF E, order
  <2> QED
    BY <2>1
<1>6. ASSUME NEW k \in 1 .. n, NEW w \in S, Cardinality({y \in S : <<y, w>> \in R}) = k - 1
      PROVE  order[k] \in S /\ Cardinality({y \in S : <<y, order[k]>> \in R}) = k - 1
  <2>1. order[k] = CHOOSE x \in S : Cardinality({y \in S : Before(y, x)}) = k - 1
    BY DEF Ranked
  <2>2. Cardinality({y \in S : Before(y, w)}) = k - 1
    BY <1>4, <1>6
  <2> HIDE DEF order, Before
  <2>3. order[k] \in S /\ Cardinality({y \in S : Before(y, order[k])}) = k - 1
    BY <2>1, <2>2
  <2> QED
    BY <1>4, <2>3
<1>7. t = [k \in DOMAIN order |-> Clamped(list[order[k]])]
  BY DEF Sorted
<1> HIDE DEF R, order, Before, S
<1>8. /\ \A x \in S : <<x, x>> \notin R
      /\ \A x, y \in S : x # y => <<x, y>> \in R \/ <<y, x>> \in R
  <2>1. \A x \in S : ~Before(x, x)
    BY <1>1, <1>2
  <2>2. \A x, y \in S : x # y => Before(x, y) \/ Before(y, x)
    BY <1>1, <1>2
  <2> QED
    BY <1>3, <2>1, <2>2
<1>9. \A x, y, z \in S : <<x, y>> \in R /\ <<y, z>> \in R => <<x, z>> \in R
  <2>1. \A x, y, z \in S : Before(x, y) /\ Before(y, z) => Before(x, z)
    BY <1>1, <1>2
  <2> QED
    BY <1>3, <2>1
<1>10. /\ Cardinality(S) \in Nat
       /\ order \in [1 .. Cardinality(S) -> S]
       /\ \A x \in S : \E k \in 1 .. Cardinality(S) : order[k] = x
       /\ \A h, k \in 1 .. Cardinality(S) : h < k <=> <<order[h], order[k]>> \in R
  <2>1. \A k \in 1 .. Cardinality(S) :
          (\E x \in S : Cardinality({y \in S : <<y, x>> \in R}) = k - 1) =>
             order[k] \in S /\ Cardinality({y \in S : <<y, order[k]>> \in R}) = k - 1
    BY <1>6
  <2> QED
    BY <1>1, <1>5, <1>8, <1>9, <2>1, RankedList
<1> HIDE DEF n, t
<1>11. t \in [1 .. Cardinality(S) -> Span] /\ \A k \in 1 .. Cardinality(S) : t[k] = list[order[k]] /\ order[k] \in S
  BY <1>1, <1>7, <1>10
<1>12. t \in Seq(Span) /\ Len(t) = Cardinality(S)
  BY <1>10, <1>11
<1>13. Rising(t)
  <2>1. \A k \in 1 .. Len(t) : t[k][1] <= t[k][2]
    BY <1>1, <1>11, <1>12
  <2>2. ASSUME NEW h \in 1 .. Len(t), NEW k \in 1 .. Len(t), h < k PROVE t[h][1] <= t[k][1]
    <3>1. Before(order[h], order[k]) /\ order[h] \in S /\ order[k] \in S
      BY <1>3, <1>10, <1>11, <1>12, <2>2
    <3> DEFINE a == list[order[h]]
               b == list[order[k]]
    <3>0. /\ a[1] \in Nat /\ b[1] \in Nat
          /\ a[1] < b[1] \/ a[1] = b[1] \/ a = b
      BY <1>1, <1>2, <3>1
    <3>2. a[1] <= b[1]
      BY <3>0
    <3> QED
      BY <1>11, <1>12, <3>2
  <2> QED
    BY <2>1, <2>2 DEF Rising
<1>14. Values(t) = Values(list)
  <2>1. ASSUME NEW v \in Domain
        PROVE  (\E k \in 1 .. Len(t) : Within(v, t[k])) <=> (\E k \in 1 .. Len(list) : Within(v, list[k]))
    <3>1. ASSUME NEW k \in 1 .. Len(t), Within(v, t[k])
          PROVE  \E l \in 1 .. Len(list) : Within(v, list[l])
      BY <1>1, <1>11, <1>12, <3>1
    <3>2. ASSUME NEW l \in 1 .. Len(list), Within(v, list[l])
          PROVE  \E k \in 1 .. Len(t) : Within(v, t[k])
      <4>1. l \in S
        <5>1. list[l][1] <= list[l][2]
          BY <3>2, RangeAt, DomainNumbers DEF Within
        <5> QED
          BY <5>1, ListDomain DEF S
      <4>2. PICK k \in 1 .. Cardinality(S) : order[k] = l
        BY <1>10, <4>1
      <4> QED
        BY <1>11, <1>12, <3>2, <4>2
    <3> QED
      BY <3>1, <3>2
  <2>2. \A v : v \in Values(t) <=> v \in Values(list)
    BY <1>12, <2>1, InValues
  <2> QED
    BY <2>2
<1> QED
  BY <1>12, <1>13, <1>14 DEF t

\* The greater of two numbers is a number, and no less than either.
LEMMA GreaterNumber ==
  ASSUME NEW a \in Nat, NEW b \in Nat
  PROVE  Greatest(a, b) \in Nat /\ a <= Greatest(a, b) /\ b <= Greatest(a, b)
BY DEF Greatest

\* The empty list holds nothing and is canonical.
LEMMA EmptyList ==
  /\ <<>> \in Seq(Span) /\ Len(<<>>) = 0 /\ Canonical(<<>>) /\ Values(<<>>) = {}
  /\ <<>> \in Seq(Domain \X (0 .. Bits))
<1>1. <<>> \in Seq(Span) /\ Len(<<>>) = 0 /\ <<>> \in Seq(Domain \X (0 .. Bits))
  OBVIOUS
<1>2. Canonical(<<>>)
  BY DEF Canonical
<1>3. Values(<<>>) = {}
  BY DEF Values, ToSet
<1> QED
  BY <1>1, <1>2, <1>3

\* Two lists one after the other hold what either holds.
LEMMA Joined ==
  ASSUME NEW s \in Seq(Span), NEW t \in Seq(Span)
  PROVE  s \o t \in Seq(Span) /\ Values(s \o t) = Values(s) \cup Values(t)
<1> DEFINE u == s \o t
<1>1. /\ u \in Seq(Span) /\ Len(u) = Len(s) + Len(t)
      /\ \A k \in 1 .. Len(u) : u[k] = IF k <= Len(s) THEN s[k] ELSE t[k - Len(s)]
  OBVIOUS
<1> HIDE DEF u
<1>2. Len(s) \in Nat /\ Len(t) \in Nat
  OBVIOUS
<1>3. ASSUME NEW v
      PROVE  (\E k \in 1 .. Len(u) : Within(v, u[k])) <=>
                (\E k \in 1 .. Len(s) : Within(v, s[k])) \/ (\E k \in 1 .. Len(t) : Within(v, t[k]))
  <2>1. ASSUME NEW k \in 1 .. Len(u), Within(v, u[k])
        PROVE  (\E l \in 1 .. Len(s) : Within(v, s[l])) \/ (\E l \in 1 .. Len(t) : Within(v, t[l]))
    <3>1. CASE k <= Len(s)
      <4>1. k \in 1 .. Len(s) /\ u[k] = s[k]
        BY <1>1, <1>2, <3>1
      <4> QED
        BY <2>1, <4>1
    <3>2. CASE ~(k <= Len(s))
      <4>1. k - Len(s) \in 1 .. Len(t) /\ u[k] = t[k - Len(s)]
        BY <1>1, <1>2, <3>2
      <4> QED
        BY <2>1, <4>1
    <3> QED
      BY <3>1, <3>2
  <2>2. ASSUME NEW k \in 1 .. Len(s) PROVE k \in 1 .. Len(u) /\ u[k] = s[k]
    BY <1>1, <1>2
  <2>3. ASSUME NEW k \in 1 .. Len(t) PROVE k + Len(s) \in 1 .. Len(u) /\ u[k + Len(s)] = t[k]
    <3>1. /\ k + Len(s) \in 1 .. Len(u) /\ ~(k + Len(s) <= Len(s))
          /\ (k + Len(s)) - Len(s) = k
      BY <1>1, <1>2
    <3> QED
      BY <1>1, <3>1
  <2> QED
    BY <2>1, <2>2, <2>3
<1>4. \A v : v \in Values(u) <=> v \in Values(s) \/ v \in Values(t)
  BY <1>1, <1>3, InValues
<1> QED
  BY <1>1, <1>4 DEF u

(***************************************************************************)
(* The inductive invariant.                                                *)
(***************************************************************************)
Operations == {"from_ranges", "union", "complement", "intersect", "difference", "prefixes"}

Shape ==
  /\ op \in Operations
  /\ left \in Seq(Span) /\ right \in Seq(Span) /\ ranges \in Seq(Span)
  /\ op # "from_ranges" => Canonical(left) /\ Canonical(right)
  /\ op = "prefixes" => Len(left) = 1
  /\ pc \in {"start", "merge", "sweep", "complement", "prefixes", "done"}
  /\ i \in 1 .. (Greatest(Len(left), Len(ranges)) + 1)
  /\ j \in 1 .. (Len(ranges) + 1)
  /\ cursor \in 0 .. 2^Bits
  /\ op # "prefixes" => out \in Seq(Span) /\ Canonical(out)
  /\ op = "prefixes" => out \in Seq(Domain \X (0 .. Bits))

Starting ==
  pc = "start" => ranges = <<>> /\ i = 1 /\ j = 1 /\ cursor = 0 /\ out = <<>>

\* What has been merged is the values of the ranges before i, and no range still
\* to come starts before the last one produced.
Merging ==
  pc = "merge" =>
    /\ op \in {"from_ranges", "union"}
    /\ i \in 1 .. (Len(ranges) + 1)
    /\ Rising(ranges)
    /\ Values(ranges) = Values(left) \cup Values(right)
    /\ \A v : v \in Values(out) <=> v \in Domain /\ \E k \in 1 .. (i - 1) : Within(v, ranges[k])
    /\ out # <<>> => \A k \in i .. Len(ranges) : Last(out)[1] <= ranges[k][1]

\* What has been complemented is the field below the cursor, which lies past the
\* ranges before i and not past any other.
Complementing ==
  pc = "complement" =>
    /\ op \in {"complement", "difference"}
    /\ ranges = IF op = "difference" THEN right ELSE left
    /\ i \in 1 .. (Len(ranges) + 1) /\ j = 1
    /\ cursor \in Domain
    /\ \A k \in 1 .. Len(ranges) : IF k < i THEN ranges[k][2] < cursor ELSE cursor <= ranges[k][1]
    /\ \A k \in 1 .. Len(out) : out[k][2] + 1 < cursor
    /\ \A v : v \in Values(out) <=> v \in Domain /\ v < cursor /\ v \notin Values(ranges)

\* What is common has been produced, or lies in ranges neither of which the sweep
\* has passed; and the next overlap cannot touch an earlier one.
Sweeping ==
  pc = "sweep" =>
    /\ op \in {"intersect", "difference"}
    /\ i \in 1 .. (Len(left) + 1)
    /\ Canonical(ranges)
    /\ Values(ranges) = IF op = "difference" THEN Domain \ Values(right) ELSE Values(right)
    /\ \A v : v \in Values(out) => v \in Values(left) /\ v \in Values(ranges)
    /\ \A v : v \in Values(left) /\ v \in Values(ranges) /\ v \notin Values(out) =>
         \E k \in i .. Len(left), l \in j .. Len(ranges) : Within(v, left[k]) /\ Within(v, ranges[l])
    /\ i <= Len(left) /\ j <= Len(ranges) =>
         \A k \in 1 .. Len(out) : out[k][2] + 1 < Greatest(left[i][1], ranges[j][1])

Prefixing ==
  pc = "prefixes" => op = "prefixes" /\ cursor \in left[1][1] .. (left[1][2] + 1)

Exact ==
  Values(out) =
    CASE op \in {"from_ranges", "union"} -> Values(left) \cup Values(right)
      [] op = "intersect" -> Values(left) \cap Values(right)
      [] op = "difference" -> Values(left) \ Values(right)
      [] op = "complement" -> Domain \ Values(left)

Finished == pc = "done" /\ op # "prefixes" => Exact

IInv ==
  /\ Shape /\ Starting /\ Merging /\ Complementing /\ Sweeping /\ Prefixing /\ Finished

(***************************************************************************)
(* The invariant holds at the start.                                       *)
(***************************************************************************)
LEMMA InitInv == Init => IInv
<1> SUFFICES ASSUME Init PROVE IInv
  OBVIOUS
<1>0. \A set \in RangeLists : set \in Seq(Span)
  BY RangeListsAssumption
<1>1. /\ op \in Operations /\ pc = "start" /\ ranges = <<>> /\ i = 1 /\ j = 1 /\ cursor = 0 /\ out = <<>>
      /\ left \in Seq(Span) /\ right \in Seq(Span)
      /\ op = "prefixes" => Len(left) = 1
  <2>1. pc = "start" /\ ranges = <<>> /\ i = 1 /\ j = 1 /\ cursor = 0 /\ out = <<>>
    BY DEF Init
  <2>2. op \in Operations /\ left \in RangeLists /\ (right \in RangeLists \/ right = <<>>)
    BY DEF Init, Sets, Operations
  <2>3. op = "prefixes" => Len(left) = 1
    BY DEF Init
  <2>4. <<>> \in Seq(Span)
    OBVIOUS
  <2> QED
    BY <1>0, <2>1, <2>2, <2>3, <2>4
<1>2. Canonical(<<>>)
  BY DEF Canonical
<1>3. op # "from_ranges" => Canonical(left) /\ Canonical(right)
  BY <1>2 DEF Init, Sets
<1>4. Len(left) \in Nat /\ Len(ranges) = 0 /\ <<>> \in Seq(Span) /\ <<>> \in Seq(Domain \X (0 .. Bits))
  BY <1>1
<1>5. i \in 1 .. (Greatest(Len(left), Len(ranges)) + 1) /\ j \in 1 .. (Len(ranges) + 1)
  BY <1>1, <1>4 DEF Greatest
<1>6. cursor \in 0 .. 2^Bits
  BY <1>1, FieldSize
<1>7. Shape
  BY <1>1, <1>2, <1>3, <1>4, <1>5, <1>6 DEF Shape
<1> QED
  BY <1>1, <1>7 DEF IInv, Starting, Merging, Complementing, Sweeping, Prefixing, Finished

(***************************************************************************)
(* Merging.                                                                *)
(***************************************************************************)
LEMMA StartMergeInv == IInv /\ StartMerge => IInv'
<1> SUFFICES ASSUME IInv, StartMerge PROVE IInv'
  OBVIOUS
<1>1. /\ op' = op /\ left' = left /\ right' = right /\ pc' = "merge" /\ ranges' = Sorted(left \o right)
      /\ i' = 1 /\ j' = 1 /\ cursor' = 0 /\ out' = <<>>
      /\ op \in {"from_ranges", "union"} /\ op \in Operations
      /\ left \in Seq(Span) /\ right \in Seq(Span)
      /\ op # "from_ranges" => Canonical(left) /\ Canonical(right)
  BY DEF IInv, Shape, Starting, StartMerge
<1>2. /\ ranges' \in Seq(Span) /\ Rising(ranges')
      /\ Values(ranges') = Values(left) \cup Values(right)
  BY <1>1, Joined, SortedRanges
<1>3. Len(left) \in Nat /\ Len(ranges') \in Nat
  BY <1>1, <1>2
<1>4. /\ i' \in 1 .. (Greatest(Len(left'), Len(ranges')) + 1)
      /\ i' \in 1 .. (Len(ranges') + 1) /\ j' \in 1 .. (Len(ranges') + 1)
  <2>1. Greatest(Len(left), Len(ranges')) \in Nat
    BY <1>3, GreaterNumber
  <2> QED
    BY <1>1, <1>3, <2>1
<1>5. cursor' \in 0 .. 2^Bits
  BY <1>1, FieldSize
<1>6. Shape'
  BY <1>1, <1>2, <1>4, <1>5, EmptyList DEF Shape
<1>7. \A v : v \in Values(out') <=> v \in Domain /\ \E k \in 1 .. (i' - 1) : Within(v, ranges'[k])
  BY <1>1, EmptyList
<1>8. Merging'
  BY <1>1, <1>2, <1>4, <1>7 DEF Merging
<1> QED
  BY <1>1, <1>6, <1>8 DEF IInv, Starting, Complementing, Sweeping, Prefixing, Finished

\* A step of the merge.
LEMMA MergeRangeInv == IInv /\ MergeRange => IInv'
<1> SUFFICES ASSUME IInv, MergeRange PROVE IInv'
  OBVIOUS
<1> DEFINE r == ranges[i]
           l == Last(out)
           hi == Greatest(l[2], r[2])
<1>1. /\ op' = op /\ left' = left /\ right' = right /\ pc' = "merge" /\ ranges' = ranges
      /\ i' = i + 1 /\ j' = j /\ cursor' = cursor /\ pc = "merge" /\ i <= Len(ranges)
      /\ out' = IF out # <<>> /\ Joins(l, r) THEN Append(Front(out), <<l[1], hi>>) ELSE Append(out, r)
  BY DEF MergeRange
<1>2. /\ op \in {"from_ranges", "union"}
      /\ i \in 1 .. (Len(ranges) + 1)
      /\ Rising(ranges)
      /\ Values(ranges) = Values(left) \cup Values(right)
      /\ \A v : v \in Values(out) <=> v \in Domain /\ \E k \in 1 .. (i - 1) : Within(v, ranges[k])
      /\ out # <<>> => \A k \in i .. Len(ranges) : Last(out)[1] <= ranges[k][1]
  BY <1>1 DEF IInv, Merging
<1>3. /\ op # "prefixes" /\ left \in Seq(Span) /\ right \in Seq(Span) /\ ranges \in Seq(Span)
      /\ out \in Seq(Span) /\ Canonical(out)
  BY <1>2 DEF IInv, Shape
<1>4. /\ Len(ranges) \in Nat /\ Len(left) \in Nat /\ i \in 1 .. Len(ranges) /\ i \in Nat
      /\ i' \in 1 .. (Len(ranges) + 1)
  BY <1>1, <1>2, <1>3
<1>5. /\ r \in Span /\ r[1] \in Nat /\ r[2] \in Nat /\ r[1] \in Domain /\ r[2] \in Domain
      /\ r[1] <= r[2]
      /\ \A k \in (i + 1) .. Len(ranges) : k \in 1 .. Len(ranges) /\ r[1] <= ranges[k][1]
  <2>1. /\ r \in Span /\ r[1] \in Nat /\ r[2] \in Nat /\ r[1] \in Domain /\ r[2] \in Domain
    BY <1>3, <1>4, RangeAt
  <2>2. r[1] <= r[2]
    BY <1>2, <1>4 DEF Rising
  <2>3. \A k \in (i + 1) .. Len(ranges) : k \in 1 .. Len(ranges) /\ i < k
    BY <1>4
  <2> QED
    BY <1>2, <1>4, <2>1, <2>2, <2>3 DEF Rising
\* What is to be shown of the set produced.
<1> DEFINE Good ==
      /\ out' \in Seq(Span) /\ Canonical(out') /\ out' # <<>>
      /\ \A v : v \in Values(out') <=> v \in Values(out) \/ (v \in Domain /\ Within(v, r))
      /\ \A k \in (i + 1) .. Len(ranges) : Last(out')[1] <= ranges[k][1]
<1> HIDE DEF r, l, hi
<1>6. ASSUME out # <<>>, Joins(l, r) PROVE Good
  <2>1. /\ l \in Span /\ l[1] \in Domain /\ l[2] \in Domain /\ l[1] \in Nat /\ l[2] \in Nat
        /\ Len(out) \in 1 .. Len(out) /\ l = out[Len(out)]
    BY <1>3, <1>6, FrontAndLast, RangeAt DEF l
  <2>2. hi \in Domain /\ hi \in Nat /\ l[2] <= hi /\ r[2] <= hi /\ (hi = l[2] \/ hi = r[2])
    BY <1>5, <2>1 DEF hi, Greatest
  <2>3. /\ out' \in Seq(Span) /\ Canonical(out') /\ out' # <<>> /\ Last(out') = <<l[1], hi>>
        /\ \A v : v \in Values(out') <=> v \in Values(out) \/ (v \in Domain /\ l[1] <= v /\ v <= hi)
    <3>1. out' = Append(Front(out), <<Last(out)[1], hi>>) /\ Last(out)[2] <= hi
      BY <1>1, <1>6, <2>2 DEF l
    <3> HIDE DEF Good
    <3> QED
      BY <1>3, <1>6, <2>2, <3>1, Widened DEF l
  <2>4. l[1] <= r[1] /\ r[1] <= l[2] + 1
    <3>1. l[1] <= r[1]
      BY <1>2, <1>4, <1>6 DEF l, r
    <3> QED
      BY <1>6, <3>1 DEF Joins
  <2>5. ASSUME NEW v
        PROVE  v \in Values(out') <=> v \in Values(out) \/ (v \in Domain /\ Within(v, r))
    <3>1. CASE v \in Domain
      <4>1. v \in Nat
        BY <3>1, DomainNumbers
      <4>2. l[1] <= v /\ v <= hi => v <= l[2] \/ Within(v, r)
        BY <1>5, <2>1, <2>2, <2>4, <4>1 DEF Within
      <4>3. l[1] <= v /\ v <= l[2] => v \in Values(out)
        BY <1>3, <2>1, <3>1, InValues DEF Within
      <4>4. Within(v, r) => l[1] <= v /\ v <= hi
        BY <1>5, <2>1, <2>2, <2>4, <4>1 DEF Within
      <4> QED
        BY <2>3, <3>1, <4>2, <4>3, <4>4
    <3>2. CASE v \notin Domain
      BY <2>3, <3>2
    <3> QED
      BY <3>1, <3>2
  <2>6. ASSUME NEW k \in (i + 1) .. Len(ranges) PROVE Last(out')[1] <= ranges[k][1]
    <3>1. k \in i .. Len(ranges)
      BY <1>4
    <3> QED
      BY <1>2, <1>6, <2>3, <3>1 DEF l
  <2> QED
    BY <2>3, <2>5, <2>6
<1>7. ASSUME ~(out # <<>> /\ Joins(l, r)) PROVE Good
  <2>1. out' = Append(out, r)
    BY <1>1, <1>7
  <2>2. ASSUME NEW k \in 1 .. Len(out) PROVE out[k][2] + 1 < r[1]
    <3>1. out # <<>>
      BY <1>3
    <3>2. /\ l = out[Len(out)] /\ Len(out) \in 1 .. Len(out) /\ Len(out) \in Nat
          /\ l[1] \in Nat /\ l[2] \in Nat /\ l[1] <= l[2]
      BY <1>3, <3>1, FrontAndLast, RangeAt, Apart, ListDomain DEF l
    <3>3. l[2] + 1 < r[1]
      BY <1>5, <1>7, <3>1, <3>2 DEF Joins
    <3>4. CASE k = Len(out)
      BY <3>2, <3>3, <3>4
    <3>5. CASE k # Len(out)
      <4>1. k < Len(out)
        BY <3>2, <3>5
      <4>2. out[k][2] + 1 < l[1] /\ out[k][2] \in Nat
        BY <1>3, <3>2, <4>1, Apart, RangeAt
      <4> QED
        BY <1>5, <3>2, <3>3, <4>2
    <3> QED
      BY <3>4, <3>5
  <2>3. out' \in Seq(Span) /\ Canonical(out')
    BY <1>3, <1>5, <2>1, <2>2, Appended, AppendedCanonical
  <2>4. \A v : v \in Values(out') <=> v \in Values(out) \/ (v \in Domain /\ Within(v, r))
    BY <1>3, <1>5, <2>1, Appended
  <2>5. out' # <<>> /\ Last(out') = r
    <3>1. Len(out') = Len(out) + 1 /\ Len(out) \in Nat /\ out'[Len(out) + 1] = r
      BY <1>3, <2>1
    <3> QED
      BY <3>1 DEF Last
  <2> QED
    BY <1>5, <2>3, <2>4, <2>5
<1>8. Good
  BY <1>6, <1>7
<1>9. \A v : v \in Values(out') <=> v \in Domain /\ \E k \in 1 .. (i' - 1) : Within(v, ranges'[k])
  <2>1. \A k : k \in 1 .. (i' - 1) <=> k \in 1 .. (i - 1) \/ k = i
    BY <1>1, <1>4
  <2>2. ASSUME NEW v
        PROVE  (\E k \in 1 .. (i' - 1) : Within(v, ranges'[k])) <=>
                  (\E k \in 1 .. (i - 1) : Within(v, ranges[k])) \/ Within(v, r)
    BY <1>1, <2>1 DEF r
  <2> QED
    BY <1>2, <1>8, <2>2
<1>10. Merging'
  BY <1>1, <1>2, <1>4, <1>8, <1>9 DEF Merging
<1>11. Shape'
  <2>1. i' \in 1 .. (Greatest(Len(left'), Len(ranges')) + 1)
    <3>1. /\ Greatest(Len(left), Len(ranges)) \in Nat
          /\ Len(ranges) <= Greatest(Len(left), Len(ranges))
      BY <1>4, GreaterNumber
    <3> QED
      BY <1>1, <1>4, <3>1
  <2> QED
    BY <1>1, <1>3, <1>8, <2>1 DEF IInv, Shape
<1> QED
  BY <1>1, <1>10, <1>11 DEF IInv, Starting, Complementing, Sweeping, Prefixing, Finished

\* The merge's end: every range has been taken.
LEMMA EndMergeInv == IInv /\ EndMerge => IInv'
<1> SUFFICES ASSUME IInv, EndMerge PROVE IInv'
  OBVIOUS
<1>1. /\ UNCHANGED <<op, left, right, ranges, i, j, cursor, out>> /\ pc' = "done"
      /\ pc = "merge" /\ i > Len(ranges)
  BY DEF EndMerge
<1>2. /\ op \in {"from_ranges", "union"}
      /\ i \in 1 .. (Len(ranges) + 1)
      /\ Values(ranges) = Values(left) \cup Values(right)
      /\ \A v : v \in Values(out) <=> v \in Domain /\ \E k \in 1 .. (i - 1) : Within(v, ranges[k])
      /\ ranges \in Seq(Span)
  BY <1>1 DEF IInv, Merging, Shape
<1>3. i - 1 = Len(ranges)
  BY <1>1, <1>2
<1>4. Values(out) = Values(ranges)
  BY <1>2, <1>3, InValues
<1>5. Finished'
  BY <1>1, <1>2, <1>4 DEF Finished, Exact
<1>6. Shape'
  BY <1>1 DEF IInv, Shape
<1> QED
  BY <1>1, <1>5, <1>6 DEF IInv, Starting, Merging, Complementing, Sweeping, Prefixing

(***************************************************************************)
(* Sweeping over two canonical lists.                                      *)
(***************************************************************************)
LEMMA StartIntersectInv == IInv /\ StartIntersect => IInv'
<1> SUFFICES ASSUME IInv, StartIntersect PROVE IInv'
  OBVIOUS
<1>1. /\ op' = op /\ left' = left /\ right' = right /\ pc' = "sweep" /\ ranges' = right
      /\ i' = 1 /\ j' = 1 /\ cursor' = 0 /\ out' = <<>> /\ op = "intersect"
      /\ left \in Seq(Span) /\ right \in Seq(Span) /\ Canonical(left) /\ Canonical(right)
  BY DEF IInv, Shape, Starting, StartIntersect
<1>2. Len(left) \in Nat /\ Len(right) \in Nat
  BY <1>1
<1>3. Shape'
  <2>1. Greatest(Len(left), Len(right)) \in Nat
    BY <1>2, GreaterNumber
  <2>2. i' \in 1 .. (Greatest(Len(left'), Len(ranges')) + 1) /\ j' \in 1 .. (Len(ranges') + 1)
    BY <1>1, <1>2, <2>1
  <2>3. cursor' \in 0 .. 2^Bits
    BY <1>1, FieldSize
  <2> QED
    BY <1>1, <2>2, <2>3, EmptyList DEF Shape, Operations
<1>4. Sweeping'
  <2>1. i' \in 1 .. (Len(left') + 1)
    BY <1>1, <1>2
  <2>2. Values(out') = {} /\ Len(out') = 0
    BY <1>1, EmptyList
  <2>3. ASSUME NEW v, v \in Values(left'), v \in Values(ranges')
        PROVE  \E k \in i' .. Len(left'), l \in j' .. Len(ranges') :
                 Within(v, left'[k]) /\ Within(v, ranges'[l])
    <3>1. PICK k \in 1 .. Len(left) : Within(v, left[k])
      BY <1>1, <2>3, InValues
    <3>2. PICK l \in 1 .. Len(right) : Within(v, right[l])
      BY <1>1, <2>3, InValues
    <3> QED
      BY <1>1, <3>1, <3>2
  <2> QED
    BY <1>1, <2>1, <2>2, <2>3 DEF Sweeping
<1> QED
  BY <1>1, <1>3, <1>4 DEF IInv, Starting, Merging, Complementing, Prefixing, Finished

\* A step of the intersection's sweep.
LEMMA SweepStepInv == IInv /\ SweepStep => IInv'
<1> SUFFICES ASSUME IInv, SweepStep PROVE IInv'
  OBVIOUS
<1> DEFINE a == left[i]
           b == ranges[j]
           lo == Greatest(a[1], b[1])
           hi == Least(a[2], b[2])
<1>1. /\ op' = op /\ left' = left /\ right' = right /\ pc' = "sweep" /\ ranges' = ranges
      /\ cursor' = cursor /\ pc = "sweep" /\ i <= Len(left) /\ j <= Len(ranges)
      /\ out' = IF lo <= hi THEN Append(out, <<lo, hi>>) ELSE out
      /\ i' = IF a[2] < b[2] THEN i + 1 ELSE i
      /\ j' = IF a[2] < b[2] THEN j ELSE j + 1
  BY DEF SweepStep, AdvancesLeft
<1>2. /\ op \in {"intersect", "difference"}
      /\ i \in 1 .. (Len(left) + 1)
      /\ Canonical(ranges)
      /\ Values(ranges) = IF op = "difference" THEN Domain \ Values(right) ELSE Values(right)
      /\ \A v : v \in Values(out) => v \in Values(left) /\ v \in Values(ranges)
      /\ \A v : v \in Values(left) /\ v \in Values(ranges) /\ v \notin Values(out) =>
           \E k \in i .. Len(left), l \in j .. Len(ranges) : Within(v, left[k]) /\ Within(v, ranges[l])
      /\ \A k \in 1 .. Len(out) : out[k][2] + 1 < lo
  BY <1>1 DEF IInv, Sweeping
<1>3. /\ op \notin {"prefixes", "from_ranges"}
      /\ left \in Seq(Span) /\ right \in Seq(Span) /\ ranges \in Seq(Span)
      /\ out \in Seq(Span) /\ Canonical(out) /\ Canonical(left)
      /\ j \in 1 .. (Len(ranges) + 1)
  BY <1>2 DEF IInv, Shape
<1>4. /\ Len(ranges) \in Nat /\ Len(left) \in Nat /\ i \in 1 .. Len(left) /\ j \in 1 .. Len(ranges)
      /\ i \in Nat /\ j \in Nat
      /\ i' \in 1 .. (Len(left) + 1) /\ j' \in 1 .. (Len(ranges) + 1)
      /\ i <= i' /\ j <= j'
  BY <1>1, <1>2, <1>3
<1>5. /\ a[1] \in Nat /\ a[2] \in Nat /\ b[1] \in Nat /\ b[2] \in Nat
      /\ a[1] \in Domain /\ a[2] \in Domain /\ b[1] \in Domain /\ b[2] \in Domain
      /\ a[1] <= a[2] /\ b[1] <= b[2]
  BY <1>2, <1>3, <1>4, RangeAt, Apart
<1>6. /\ \A k \in 1 .. Len(left) : i < k => a[2] + 1 < left[k][1]
      /\ \A l \in 1 .. Len(ranges) : j < l => b[2] + 1 < ranges[l][1]
  BY <1>2, <1>3, <1>4, Apart
<1> HIDE DEF a, b
<1>7. /\ lo \in Domain /\ hi \in Domain /\ lo \in Nat /\ hi \in Nat
      /\ a[1] <= lo /\ b[1] <= lo /\ hi <= a[2] /\ hi <= b[2]
      /\ lo = a[1] \/ lo = b[1]
      /\ hi = IF a[2] < b[2] THEN a[2] ELSE b[2]
      /\ <<lo, hi>> \in Span
  BY <1>5 DEF Greatest, Least, Span
<1> HIDE DEF lo, hi
\* The overlap of the two ranges is what the step adds.
<1>8. \A v \in Domain : Within(v, <<lo, hi>>) <=> Within(v, a) /\ Within(v, b)
  <2> SUFFICES ASSUME NEW v \in Domain
               PROVE  Within(v, <<lo, hi>>) <=> Within(v, a) /\ Within(v, b)
    OBVIOUS
  <2>1. v \in Nat
    BY DomainNumbers
  <2>2. Within(v, <<lo, hi>>) <=> lo <= v /\ v <= hi
    BY DEF Within
  <2> QED
    BY <1>5, <1>7, <2>1, <2>2 DEF Within
<1>9. /\ out' \in Seq(Span) /\ Canonical(out')
      /\ \A v : v \in Values(out') <=> v \in Values(out) \/ (v \in Domain /\ Within(v, a) /\ Within(v, b))
  <2>1. CASE lo <= hi
    <3>1. out' = Append(out, <<lo, hi>>)
      BY <1>1, <2>1
    <3>2. out' \in Seq(Span) /\ Canonical(out')
      BY <1>2, <1>3, <1>7, <2>1, <3>1, Appended, AppendedCanonical
    <3>3. \A v : v \in Values(out') <=> v \in Values(out) \/ (v \in Domain /\ Within(v, <<lo, hi>>))
      BY <1>3, <1>7, <3>1, Appended
    <3> QED
      BY <1>8, <3>2, <3>3
  <2>2. CASE ~(lo <= hi)
    <3>1. out' = out
      BY <1>1, <2>2
    <3>2. \A v \in Domain : ~Within(v, <<lo, hi>>)
      BY <1>7, <2>2, DomainNumbers DEF Within
    <3> QED
      BY <1>3, <1>8, <3>1, <3>2
  <2> QED
    BY <2>1, <2>2
<1>10. ASSUME NEW v, v \in Values(out')
       PROVE  v \in Values(left) /\ v \in Values(ranges)
  <2>1. CASE v \in Values(out)
    BY <1>2, <2>1
  <2>2. CASE v \in Domain /\ Within(v, a) /\ Within(v, b)
    BY <1>3, <1>4, <2>2, InValues DEF a, b
  <2> QED
    BY <1>9, <1>10, <2>1, <2>2
\* Past the range that ends first there is no other overlap with it.
<1>11. ASSUME NEW v, v \in Values(left), v \in Values(ranges), v \notin Values(out')
       PROVE  \E k \in i' .. Len(left), l \in j' .. Len(ranges) :
                Within(v, left[k]) /\ Within(v, ranges[l])
  <2>1. v \in Domain /\ v \in Nat
    BY <1>3, <1>11, ValuesInField, DomainNumbers
  <2>2. v \notin Values(out) /\ ~(Within(v, a) /\ Within(v, b))
    BY <1>9, <1>11, <2>1
  <2>3. PICK k \in i .. Len(left), l \in j .. Len(ranges) : Within(v, left[k]) /\ Within(v, ranges[l])
    BY <1>2, <1>11, <2>2
  <2>4. /\ k \in 1 .. Len(left) /\ l \in 1 .. Len(ranges) /\ i <= k /\ j <= l
        /\ left[k][1] \in Nat /\ ranges[l][1] \in Nat
    <3>1. k \in 1 .. Len(left) /\ l \in 1 .. Len(ranges) /\ i <= k /\ j <= l
      BY <1>4
    <3> QED
      BY <1>3, <3>1, RangeAt
  <2>5. CASE a[2] < b[2]
    <3>1. k # i
      <4> SUFFICES ASSUME k = i PROVE FALSE
        OBVIOUS
      <4>1. Within(v, a)
        BY <2>3 DEF a
      <4>2. l # j
        BY <2>2, <2>3, <4>1 DEF b
      <4>3. b[2] + 1 < ranges[l][1] /\ ranges[l][1] <= v /\ v <= a[2]
        BY <1>4, <1>6, <2>3, <2>4, <4>1, <4>2 DEF Within
      <4> QED
        BY <1>5, <2>1, <2>4, <2>5, <4>3
    <3>2. i' = i + 1 /\ j' = j
      BY <1>1, <2>5 DEF a, b
    <3>3. k \in i' .. Len(left) /\ l \in j' .. Len(ranges)
      BY <1>4, <2>4, <3>1, <3>2
    <3> QED
      BY <2>3, <3>3
  <2>6. CASE ~(a[2] < b[2])
    <3>1. l # j
      <4> SUFFICES ASSUME l = j PROVE FALSE
        OBVIOUS
      <4>1. Within(v, b)
        BY <2>3 DEF b
      <4>2. k # i
        BY <2>2, <2>3, <4>1 DEF a
      <4>3. a[2] + 1 < left[k][1] /\ left[k][1] <= v /\ v <= b[2]
        BY <1>4, <1>6, <2>3, <2>4, <4>1, <4>2 DEF Within
      <4> QED
        BY <1>5, <2>1, <2>4, <2>6, <4>3
    <3>2. i' = i /\ j' = j + 1
      BY <1>1, <2>6 DEF a, b
    <3>3. k \in i' .. Len(left) /\ l \in j' .. Len(ranges)
      BY <1>4, <2>4, <3>1, <3>2
    <3> QED
      BY <2>3, <3>3
  <2> QED
    BY <2>5, <2>6
\* The next overlap starts past the range left behind.
<1>12. ASSUME i' <= Len(left), j' <= Len(ranges), NEW k \in 1 .. Len(out')
       PROVE  out'[k][2] + 1 < Greatest(left[i'][1], ranges[j'][1])
  <2> DEFINE next == Greatest(left[i'][1], ranges[j'][1])
  <2>1. i' \in 1 .. Len(left) /\ j' \in 1 .. Len(ranges) /\ i' \in Nat /\ j' \in Nat
    BY <1>4, <1>12
  <2>2. left[i'][1] \in Nat /\ ranges[j'][1] \in Nat
    BY <1>3, <2>1, RangeAt
  <2>3. next \in Nat /\ left[i'][1] <= next /\ ranges[j'][1] <= next
    BY <2>2, GreaterNumber
  <2> HIDE DEF next
  <2>4. hi + 1 < next
    <3>1. CASE a[2] < b[2]
      <4>1. i' = i + 1 /\ hi = a[2]
        BY <1>1, <1>7, <3>1 DEF a, b
      <4>2. a[2] + 1 < left[i'][1]
        BY <1>4, <1>6, <2>1, <4>1
      <4> QED
        BY <1>5, <2>2, <2>3, <4>1, <4>2
    <3>2. CASE ~(a[2] < b[2])
      <4>1. j' = j + 1 /\ hi = b[2]
        BY <1>1, <1>7, <3>2 DEF a, b
      <4>2. b[2] + 1 < ranges[j'][1]
        BY <1>4, <1>6, <2>1, <4>1
      <4> QED
        BY <1>5, <2>2, <2>3, <4>1, <4>2
    <3> QED
      BY <3>1, <3>2
  <2>5. lo <= next
    <3>1. a[1] <= left[i'][1]
      <4>1. CASE i' = i
        BY <1>5, <4>1 DEF a
      <4>2. CASE i' # i
        <5>1. i < i'
          BY <1>4, <2>1, <4>2
        <5> QED
          BY <1>5, <1>6, <2>1, <2>2, <5>1, SMTT(60)
      <4> QED
        BY <4>1, <4>2
    <3>2. b[1] <= ranges[j'][1]
      <4>1. CASE j' = j
        BY <1>5, <4>1 DEF b
      <4>2. CASE j' # j
        <5>1. j < j'
          BY <1>4, <2>1, <4>2
        <5> QED
          BY <1>5, <1>6, <2>1, <2>2, <5>1, SMTT(60)
      <4> QED
        BY <4>1, <4>2
    <3> QED
      BY <1>5, <1>7, <2>2, <2>3, <3>1, <3>2
  <2>6. CASE k \in 1 .. Len(out)
    <3>1. out'[k] = out[k] /\ out[k][2] \in Nat
      <4>1. out[k][2] \in Nat
        BY <1>3, <2>6, RangeAt
      <4> QED
        BY <1>1, <1>3, <2>6, <4>1 DEF lo, hi
    <3>2. out[k][2] + 1 < lo
      BY <1>2, <2>6
    <3>3. out[k][2] + 1 < next
      BY <1>7, <2>3, <2>5, <3>1, <3>2
    <3> QED
      BY <3>1, <3>3 DEF next
  <2>7. CASE k \notin 1 .. Len(out)
    <3>1. out' = Append(out, <<lo, hi>>)
      BY <1>1, <2>7 DEF lo, hi
    <3>2. k = Len(out) + 1
      BY <1>3, <2>7, <3>1
    <3>3. out'[k] = <<lo, hi>>
      BY <1>3, <3>1, <3>2
    <3> QED
      BY <2>4, <3>3 DEF next
  <2> QED
    BY <2>6, <2>7
<1>13. Sweeping'
  BY <1>1, <1>2, <1>4, <1>10, <1>11, <1>12 DEF Sweeping
<1>14. Shape'
  <2>1. /\ Greatest(Len(left), Len(ranges)) \in Nat
        /\ Len(left) <= Greatest(Len(left), Len(ranges))
    BY <1>4, GreaterNumber
  <2>2. i' \in 1 .. (Greatest(Len(left'), Len(ranges')) + 1) /\ j' \in 1 .. (Len(ranges') + 1)
    BY <1>1, <1>4, <2>1
  <2> QED
    BY <1>1, <1>3, <1>9, <2>2 DEF IInv, Shape
<1> QED
  BY <1>1, <1>13, <1>14 DEF IInv, Starting, Merging, Complementing, Prefixing, Finished

\* The sweep's end: what one operand has left meets nothing of the other.
LEMMA EndSweepInv == IInv /\ EndSweep => IInv'
<1> SUFFICES ASSUME IInv, EndSweep PROVE IInv'
  OBVIOUS
<1>1. /\ UNCHANGED <<op, left, right, ranges, i, j, cursor, out>> /\ pc' = "done"
      /\ pc = "sweep" /\ (i > Len(left) \/ j > Len(ranges))
  BY DEF EndSweep
<1>2. /\ op \in {"intersect", "difference"}
      /\ i \in 1 .. (Len(left) + 1) /\ j \in 1 .. (Len(ranges) + 1)
      /\ left \in Seq(Span) /\ right \in Seq(Span) /\ ranges \in Seq(Span)
      /\ Values(ranges) = IF op = "difference" THEN Domain \ Values(right) ELSE Values(right)
      /\ \A v : v \in Values(out) => v \in Values(left) /\ v \in Values(ranges)
      /\ \A v : v \in Values(left) /\ v \in Values(ranges) /\ v \notin Values(out) =>
           \E k \in i .. Len(left), l \in j .. Len(ranges) : Within(v, left[k]) /\ Within(v, ranges[l])
  BY <1>1 DEF IInv, Sweeping, Shape
<1>3. i .. Len(left) = {} \/ j .. Len(ranges) = {}
  BY <1>1, <1>2
<1>4. Values(out) = Values(left) \cap Values(ranges)
  BY <1>2, <1>3
<1>5. Values(left) \subseteq Domain
  BY <1>2, ValuesInField
<1>6. Exact'
  <2>1. CASE op = "intersect"
    BY <1>1, <1>2, <1>4, <2>1 DEF Exact
  <2>2. CASE op = "difference"
    BY <1>1, <1>2, <1>4, <1>5, <2>2 DEF Exact
  <2> QED
    BY <1>2, <2>1, <2>2
<1>7. Finished'
  BY <1>6 DEF Finished
<1>8. Shape'
  BY <1>1 DEF IInv, Shape
<1> QED
  BY <1>1, <1>7, <1>8 DEF IInv, Starting, Merging, Complementing, Sweeping, Prefixing

(***************************************************************************)
(* Complementing.                                                          *)
(***************************************************************************)
LEMMA StartComplementInv == IInv /\ StartComplement => IInv'
<1> SUFFICES ASSUME IInv, StartComplement PROVE IInv'
  OBVIOUS
<1>1. /\ op' = op /\ left' = left /\ right' = right /\ pc' = "complement"
      /\ ranges' = IF op = "difference" THEN right ELSE left
      /\ i' = 1 /\ j' = 1 /\ cursor' = 0 /\ out' = <<>> /\ op \in {"complement", "difference"}
      /\ left \in Seq(Span) /\ right \in Seq(Span) /\ Canonical(left) /\ Canonical(right)
  BY DEF IInv, Shape, Starting, StartComplement
<1>2. ranges' \in Seq(Span) /\ Len(left) \in Nat /\ Len(ranges') \in Nat
  BY <1>1
<1>3. cursor' \in Domain /\ cursor' \in 0 .. 2^Bits
  BY <1>1, FieldSize DEF Domain
<1>4. Shape'
  <2>1. Greatest(Len(left), Len(ranges')) \in Nat
    BY <1>2, GreaterNumber
  <2>2. i' \in 1 .. (Greatest(Len(left'), Len(ranges')) + 1) /\ j' \in 1 .. (Len(ranges') + 1)
    BY <1>1, <1>2, <2>1
  <2> QED
    BY <1>1, <1>2, <1>3, <2>2, EmptyList DEF Shape, Operations
<1>5. Complementing'
  <2>1. i' \in 1 .. (Len(ranges') + 1)
    BY <1>1, <1>2
  <2>2. \A k \in 1 .. Len(ranges') : ~(k < i') /\ cursor' <= ranges'[k][1]
    BY <1>1, <1>2, RangeAt
  <2>3. \A k \in 1 .. Len(out') : out'[k][2] + 1 < cursor'
    BY <1>1, EmptyList
  <2>4. \A v : v \in Values(out') <=> v \in Domain /\ v < cursor' /\ v \notin Values(ranges')
    <3>1. \A v \in Domain : ~(v < cursor')
      BY <1>1, DomainNumbers
    <3> QED
      BY <1>1, <3>1, EmptyList
  <2> QED
    BY <1>1, <1>3, <2>1, <2>2, <2>3, <2>4 DEF Complementing
<1> QED
  BY <1>1, <1>4, <1>5 DEF IInv, Starting, Merging, Sweeping, Prefixing, Finished

\* The end of the loop, with the whole complement.
LEMMA AfterComplementInv ==
  ASSUME IInv, pc = "complement", NEW set \in Seq(Span), Canonical(set),
         \A v : v \in Values(set) <=> v \in Domain /\ v \notin Values(ranges),
         AfterComplement(set), UNCHANGED <<op, left, right, j, cursor>>
  PROVE  IInv'
<1>1. /\ op' = op /\ left' = left /\ right' = right /\ j' = 1 /\ cursor' = cursor
      /\ op \in {"complement", "difference"} /\ op \in Operations
      /\ left \in Seq(Span) /\ right \in Seq(Span) /\ Canonical(left) /\ Canonical(right)
      /\ ranges = IF op = "difference" THEN right ELSE left
      /\ ranges \in Seq(Span) /\ cursor \in 0 .. 2^Bits
      /\ i \in 1 .. (Greatest(Len(left), Len(ranges)) + 1)
  BY DEF IInv, Shape, Complementing, Operations
<1>2. Values(set) = Domain \ Values(ranges)
  OBVIOUS
<1>3. Len(left) \in Nat /\ Len(set) \in Nat /\ Len(ranges) \in Nat
  BY <1>1
<1>4. CASE op = "difference"
  <2>1. pc' = "sweep" /\ ranges' = set /\ out' = <<>> /\ i' = 1
    BY <1>4 DEF AfterComplement
  <2>2. Shape'
    <3>1. Greatest(Len(left), Len(set)) \in Nat
      BY <1>3, GreaterNumber
    <3>2. i' \in 1 .. (Greatest(Len(left'), Len(ranges')) + 1) /\ j' \in 1 .. (Len(ranges') + 1)
      BY <1>1, <1>3, <2>1, <3>1
    <3> QED
      BY <1>1, <2>1, <3>2, EmptyList DEF Shape
  <2>3. Sweeping'
    <3>1. i' \in 1 .. (Len(left') + 1)
      BY <1>1, <1>3, <2>1
    <3>2. Values(out') = {} /\ Len(out') = 0
      BY <2>1, EmptyList
    <3>3. ASSUME NEW v, v \in Values(left'), v \in Values(ranges')
          PROVE  \E k \in i' .. Len(left'), l \in j' .. Len(ranges') :
                   Within(v, left'[k]) /\ Within(v, ranges'[l])
      <4>1. PICK k \in 1 .. Len(left) : Within(v, left[k])
        BY <1>1, <3>3, InValues
      <4>2. PICK l \in 1 .. Len(set) : Within(v, set[l])
        BY <2>1, <3>3, InValues
      <4> QED
        BY <1>1, <2>1, <4>1, <4>2
    <3>4. Values(ranges') = Domain \ Values(right')
      BY <1>1, <1>2, <1>4, <2>1
    <3> QED
      BY <1>1, <1>4, <2>1, <3>1, <3>2, <3>3, <3>4 DEF Sweeping
  <2> QED
    BY <1>1, <2>1, <2>2, <2>3 DEF IInv, Starting, Merging, Complementing, Prefixing, Finished
<1>5. CASE op = "complement"
  <2>1. pc' = "done" /\ out' = set /\ ranges' = ranges /\ i' = i
    BY <1>5 DEF AfterComplement
  <2>2. Shape'
    BY <1>1, <1>3, <1>5, <2>1 DEF Shape
  <2>3. Finished'
    BY <1>1, <1>2, <1>5, <2>1 DEF Finished, Exact
  <2> QED
    BY <1>1, <2>1, <2>2, <2>3 DEF IInv, Starting, Merging, Complementing, Sweeping, Prefixing
<1> QED
  BY <1>1, <1>4, <1>5

\* A step of the complement: the gap before a range.
LEMMA ComplementRangeInv == IInv /\ ComplementRange => IInv'
<1> SUFFICES ASSUME IInv, ComplementRange PROVE IInv'
  OBVIOUS
<1> DEFINE r == ranges[i]
           gap == IF r[1] > cursor THEN Append(out, <<cursor, r[1] - 1>>) ELSE out
<1>1. /\ pc = "complement" /\ i <= Len(ranges)
      /\ IF ReachesEnd(r)
         THEN AfterComplement(gap) /\ UNCHANGED cursor
         ELSE out' = gap /\ cursor' = r[2] + 1 /\ i' = i + 1 /\ UNCHANGED <<pc, ranges>>
      /\ UNCHANGED <<op, left, right, j>>
  BY DEF ComplementRange
<1>2. /\ op \in {"complement", "difference"}
      /\ ranges = IF op = "difference" THEN right ELSE left
      /\ i \in 1 .. (Len(ranges) + 1) /\ j = 1
      /\ cursor \in Domain
      /\ \A k \in 1 .. Len(ranges) : IF k < i THEN ranges[k][2] < cursor ELSE cursor <= ranges[k][1]
      /\ \A k \in 1 .. Len(out) : out[k][2] + 1 < cursor
      /\ \A v : v \in Values(out) <=> v \in Domain /\ v < cursor /\ v \notin Values(ranges)
  BY <1>1 DEF IInv, Complementing
<1>3. /\ left \in Seq(Span) /\ right \in Seq(Span) /\ ranges \in Seq(Span)
      /\ Canonical(left) /\ Canonical(right) /\ Canonical(ranges)
      /\ out \in Seq(Span) /\ Canonical(out)
  BY <1>2 DEF IInv, Shape
<1>4. Len(ranges) \in Nat /\ Len(left) \in Nat /\ i \in 1 .. Len(ranges) /\ i \in Nat
  BY <1>1, <1>2, <1>3
<1>5. /\ r[1] \in Nat /\ r[2] \in Nat /\ r[1] \in Domain /\ r[2] \in Domain
      /\ r[2] <= domain_max /\ r[1] <= r[2]
      /\ cursor \in Nat /\ cursor <= r[1]
  <2>1. cursor \in Nat
    BY <1>2, DomainNumbers
  <2>2. cursor <= r[1]
    BY <1>2, <1>4
  <2> QED
    BY <1>3, <1>4, <2>1, <2>2, RangeAt, Apart
<1>6. /\ \A k \in 1 .. Len(ranges) : k < i => ranges[k][2] < cursor
      /\ \A k \in 1 .. Len(ranges) : i < k => r[2] + 1 < ranges[k][1]
  BY <1>2, <1>3, <1>4, Apart
<1>7. \A k \in 1 .. Len(ranges) : ranges[k][1] \in Nat /\ ranges[k][2] \in Nat
  BY <1>3, RangeAt
<1> HIDE DEF r
\* The values from the cursor to the end of the range are those of the gap and
\* those of the range.
<1>8. ASSUME NEW v \in Domain, cursor <= v, v <= r[2]
      PROVE  v \in Values(ranges) <=> r[1] <= v
  <2>1. v \in Nat
    BY DomainNumbers
  <2>2. ASSUME r[1] <= v PROVE v \in Values(ranges)
    <3>1. Within(v, ranges[i])
      BY <1>8, <2>2 DEF Within, r
    <3> QED
      BY <1>3, <1>4, <3>1, InValues
  <2>3. ASSUME v \in Values(ranges) PROVE r[1] <= v
    <3>1. PICK k \in 1 .. Len(ranges) : Within(v, ranges[k])
      BY <1>3, <2>3, InValues
    <3>2. ~(k < i)
      BY <1>5, <1>6, <1>7, <1>8, <2>1, <3>1 DEF Within
    <3>3. ~(i < k)
      BY <1>5, <1>6, <1>7, <1>8, <2>1, <3>1 DEF Within
    <3>4. k = i
      BY <1>4, <3>2, <3>3
    <3> QED
      BY <3>1, <3>4 DEF Within, r
  <2> QED
    BY <2>2, <2>3
<1>9. /\ gap \in Seq(Span) /\ Canonical(gap)
      /\ \A k \in 1 .. Len(gap) : gap[k][2] + 1 < r[2] + 1
      /\ \A v : v \in Values(gap) <=>
                  v \in Values(out) \/ (v \in Domain /\ cursor <= v /\ v < r[1])
  <2>1. CASE r[1] > cursor
    <3> DEFINE new == <<cursor, r[1] - 1>>
    <3>1. gap = Append(out, new)
      BY <2>1
    <3>2. r[1] - 1 \in Domain /\ r[1] - 1 \in Nat /\ cursor <= r[1] - 1
      BY <1>5, <2>1, FieldSize DEF Domain
    <3>3. new \in Span /\ new[1] = cursor /\ new[2] = r[1] - 1
      BY <1>2, <3>2 DEF Span
    <3> HIDE DEF new, gap
    <3>4. gap \in Seq(Span) /\ Canonical(gap)
      BY <1>2, <1>3, <3>1, <3>2, <3>3, Appended, AppendedCanonical
    <3>5. \A v : v \in Values(gap) <=> v \in Values(out) \/ (v \in Domain /\ Within(v, new))
      BY <1>3, <3>1, <3>3, Appended
    <3>6. \A v \in Domain : Within(v, new) <=> cursor <= v /\ v < r[1]
      BY <1>5, <3>3, DomainNumbers DEF Within
    <3>7. ASSUME NEW k \in 1 .. Len(gap) PROVE gap[k][2] + 1 < r[2] + 1
      <4>1. CASE k \in 1 .. Len(out)
        <5>1. gap[k] = out[k] /\ out[k][2] \in Nat
          BY <1>3, <3>1, <4>1, RangeAt
        <5>2. out[k][2] + 1 < cursor
          BY <1>2, <4>1
        <5> QED
          BY <1>5, <5>1, <5>2
      <4>2. CASE k \notin 1 .. Len(out)
        <5>1. gap[k] = new
          BY <1>3, <3>1, <4>2
        <5> QED
          BY <1>5, <3>2, <3>3, <5>1
      <4> QED
        BY <4>1, <4>2
    <3> QED
      BY <3>4, <3>5, <3>6, <3>7
  <2>2. CASE ~(r[1] > cursor)
    <3>1. gap = out
      BY <2>2
    <3>2. \A v \in Domain : ~(cursor <= v /\ v < r[1])
      BY <1>5, <2>2, DomainNumbers
    <3>3. ASSUME NEW k \in 1 .. Len(out) PROVE out[k][2] + 1 < r[2] + 1
      <4>1. out[k][2] + 1 < cursor /\ out[k][2] \in Nat
        BY <1>2, <1>3, RangeAt
      <4> QED
        BY <1>5, <4>1
    <3> QED
      BY <1>3, <3>1, <3>2, <3>3
  <2> QED
    BY <2>1, <2>2
<1> HIDE DEF gap
<1>10. ASSUME NEW v
       PROVE  v \in Values(gap) <=> v \in Domain /\ v <= r[2] /\ v \notin Values(ranges)
  <2>1. CASE v \in Domain
    <3>1. v \in Nat
      BY <2>1, DomainNumbers
    <3>2. CASE v < cursor
      <4>1. v <= r[2] /\ ~(cursor <= v)
        BY <1>5, <3>1, <3>2
      <4> QED
        BY <1>2, <1>9, <2>1, <3>2, <4>1
    <3>3. CASE ~(v < cursor)
      <4>1. cursor <= v
        BY <1>5, <3>1, <3>3
      <4>2. v \in Values(gap) <=> v < r[1]
        BY <1>2, <1>9, <2>1, <3>3, <4>1
      <4>3. CASE v <= r[2]
        <5>1. v \in Values(ranges) <=> r[1] <= v
          BY <1>8, <2>1, <4>1, <4>3
        <5>2. ~(r[1] <= v) <=> v < r[1]
          BY <1>5, <3>1
        <5> QED
          BY <2>1, <4>2, <4>3, <5>1, <5>2
      <4>4. CASE ~(v <= r[2])
        <5>1. ~(v < r[1])
          BY <1>5, <3>1, <4>4
        <5> QED
          BY <4>2, <4>4, <5>1
      <4> QED
        BY <4>3, <4>4
    <3> QED
      BY <3>2, <3>3
  <2>2. CASE v \notin Domain
    BY <1>3, <1>9, <2>2, ValuesInField
  <2> QED
    BY <2>1, <2>2
<1>11. CASE ReachesEnd(r)
  <2>1. \A v : v \in Values(gap) <=> v \in Domain /\ v \notin Values(ranges)
    <3>1. \A v \in Domain : v <= r[2]
      BY <1>11, DomainNumbers DEF ReachesEnd
    <3> QED
      BY <1>10, <3>1
  <2>2. AfterComplement(gap) /\ UNCHANGED <<op, left, right, j, cursor>>
    BY <1>1, <1>11
  <2> QED
    BY <1>1, <1>9, <2>1, <2>2, AfterComplementInv
<1>12. CASE ~ReachesEnd(r)
  <2>1. /\ out' = gap /\ cursor' = r[2] + 1 /\ i' = i + 1 /\ pc' = "complement" /\ ranges' = ranges
        /\ op' = op /\ left' = left /\ right' = right /\ j' = j
    BY <1>1, <1>12
  <2>2. /\ cursor' \in Domain /\ cursor' \in 0 .. 2^Bits /\ cursor' \in Nat
        /\ i' \in 1 .. (Len(ranges) + 1) /\ j' \in 1 .. (Len(ranges) + 1)
    <3>1. r[2] + 1 <= domain_max
      BY <1>5, <1>12, FieldSize DEF ReachesEnd
    <3> QED
      BY <1>2, <1>4, <1>5, <2>1, <3>1, FieldSize DEF Domain
  <2>3. ASSUME NEW k \in 1 .. Len(ranges)
        PROVE  IF k < i' THEN ranges[k][2] < cursor' ELSE cursor' <= ranges[k][1]
    <3>1. CASE k < i
      <4>1. ranges[k][2] < cursor /\ ranges[k][2] \in Nat
        BY <1>6, <1>7, <3>1
      <4>2. cursor < cursor' /\ cursor' \in Nat
        BY <1>5, <2>1
      <4>3. ranges[k][2] < cursor'
        BY <1>5, <4>1, <4>2
      <4>4. k < i'
        BY <1>4, <2>1, <3>1
      <4> QED
        BY <4>3, <4>4
    <3>2. CASE k = i
      BY <1>4, <1>5, <2>1, <3>2 DEF r
    <3>3. CASE i < k
      <4>1. r[2] + 1 < ranges[k][1] /\ ~(k < i')
        BY <1>4, <1>6, <2>1, <3>3
      <4> QED
        BY <1>5, <1>7, <2>1, <4>1
    <3> QED
      BY <1>4, <3>1, <3>2, <3>3
  <2>4. \A v : v \in Values(out') <=> v \in Domain /\ v < cursor' /\ v \notin Values(ranges)
    <3>1. \A v \in Domain : v <= r[2] <=> v < cursor'
      BY <1>5, <2>1, DomainNumbers
    <3> QED
      BY <1>10, <2>1, <3>1
  <2>5. Complementing'
    BY <1>2, <1>9, <2>1, <2>2, <2>3, <2>4 DEF Complementing
  <2>6. Shape'
    <3>1. /\ Greatest(Len(left), Len(ranges)) \in Nat
          /\ Len(ranges) <= Greatest(Len(left), Len(ranges))
      BY <1>4, GreaterNumber
    <3>2. i' \in 1 .. (Greatest(Len(left'), Len(ranges')) + 1)
      BY <1>4, <2>1, <2>2, <3>1
    <3> QED
      BY <1>2, <1>3, <1>9, <2>1, <2>2, <3>2 DEF IInv, Shape
  <2> QED
    BY <2>1, <2>5, <2>6 DEF IInv, Starting, Merging, Sweeping, Prefixing, Finished
<1> QED
  BY <1>11, <1>12

\* The complement's end: what follows the last range.
LEMMA EndComplementInv == IInv /\ EndComplement => IInv'
<1> SUFFICES ASSUME IInv, EndComplement PROVE IInv'
  OBVIOUS
<1> DEFINE rest == <<cursor, domain_max>>
           set == Append(out, rest)
<1>1. /\ pc = "complement" /\ i > Len(ranges) /\ AfterComplement(set)
      /\ UNCHANGED <<op, left, right, j, cursor>>
  BY DEF EndComplement
<1>2. /\ op \in {"complement", "difference"} /\ ranges \in Seq(Span)
      /\ i \in 1 .. (Len(ranges) + 1) /\ cursor \in Domain
      /\ \A k \in 1 .. Len(ranges) : IF k < i THEN ranges[k][2] < cursor ELSE cursor <= ranges[k][1]
      /\ \A k \in 1 .. Len(out) : out[k][2] + 1 < cursor
      /\ \A v : v \in Values(out) <=> v \in Domain /\ v < cursor /\ v \notin Values(ranges)
      /\ out \in Seq(Span) /\ Canonical(out)
  BY <1>1 DEF IInv, Complementing, Shape
<1>3. \A k \in 1 .. Len(ranges) : ranges[k][2] < cursor /\ ranges[k][2] \in Nat
  BY <1>1, <1>2, RangeAt
<1>4. cursor \in Nat /\ cursor <= domain_max /\ domain_max \in Domain
  BY <1>2, DomainNumbers, FieldSize DEF Domain
<1>5. rest \in Span /\ rest[1] = cursor /\ rest[2] = domain_max
  BY <1>2, <1>4 DEF Span
<1> HIDE DEF rest
<1>6. /\ set \in Seq(Span) /\ Canonical(set)
      /\ \A v : v \in Values(set) <=> v \in Values(out) \/ (v \in Domain /\ Within(v, rest))
  BY <1>2, <1>4, <1>5, Appended, AppendedCanonical
<1> HIDE DEF set
<1>7. ASSUME NEW v
      PROVE  v \in Values(set) <=> v \in Domain /\ v \notin Values(ranges)
  <2>1. CASE v \in Domain
    <3>1. v \in Nat /\ v <= domain_max
      BY <2>1, DomainNumbers
    <3>2. Within(v, rest) <=> ~(v < cursor)
      BY <1>4, <1>5, <3>1 DEF Within
    <3>3. ASSUME v \in Values(ranges) PROVE v < cursor
      <4>1. PICK k \in 1 .. Len(ranges) : Within(v, ranges[k])
        BY <1>2, <3>3, InValues
      <4> QED
        BY <1>3, <1>4, <3>1, <4>1 DEF Within
    <3> QED
      BY <1>2, <1>6, <2>1, <3>2, <3>3
  <2>2. CASE v \notin Domain
    BY <1>2, <1>6, <2>2, ValuesInField
  <2> QED
    BY <2>1, <2>2
<1> QED
  BY <1>1, <1>6, <1>7, AfterComplementInv

(***************************************************************************)
(* The blocks of a range.                                                  *)
(***************************************************************************)
LEMMA GreatestBits ==
  ASSUME NEW T \in SUBSET (0 .. Bits), T # {}
  PROVE  Max(T) \in T /\ \A n \in T : n <= Max(T)
<1>1. T \in SUBSET Nat /\ Bits \in Nat /\ \A n \in T : n <= Bits
  BY BitsAssumption
<1>2. \E x \in T : \A y \in T : y <= x
  BY <1>1, GreatestNat
<1>3. \E x \in T : \A y \in T : x >= y
  BY <1>1, <1>2
<1>4. Max(T) \in T /\ \A y \in T : Max(T) >= y
  BY <1>3 DEF Max
<1> QED
  BY <1>1, <1>4

\* Powers of two grow.
LEMMA PowersRise ==
  ASSUME NEW m \in 0 .. Bits, NEW n \in 0 .. Bits, m <= n
  PROVE  2^m <= 2^n
<1> DEFINE T == {k \in 0 .. Bits : m <= k /\ ~(2^m <= 2^k)}
<1> SUFFICES ASSUME T # {} PROVE FALSE
  OBVIOUS
<1>1. T \in SUBSET Nat /\ Bits \in Nat
  BY BitsAssumption
<1>2. PICK k \in T : \A l \in T : k <= l
  BY <1>1, LeastNat
<1>3. /\ k \in 0 .. Bits /\ m <= k /\ ~(2^m <= 2^k)
      /\ 2^k \in Nat /\ 2^m \in Nat
  BY <1>2, PowersAssumption
<1>4. k # m
  BY <1>3
<1>5. k - 1 \in 0 .. Bits /\ m <= k - 1 /\ k - 1 \notin T
  BY <1>1, <1>2, <1>3, <1>4
<1>6. 2^m <= 2^(k - 1)
  BY <1>5
<1>7. 2^k = 2 * 2^(k - 1) /\ 2^(k - 1) \in Nat
  <2>1. (k - 1) + 1 = k
    BY <1>3
  <2> QED
    BY <1>5, <2>1, PowersAssumption
<1> QED
  BY <1>3, <1>6, <1>7

\* A block is no longer than what is left of the range.
LEMMA BlockFits ==
  ASSUME NEW cur \in Nat, NEW hi \in Nat, cur <= hi
  PROVE  /\ BlockBits(cur, hi) \in 0 .. Bits
         /\ 2^BlockBits(cur, hi) \in Nat /\ 2^BlockBits(cur, hi) <= (hi - cur) + 1
<1> DEFINE remaining == (hi - cur) + 1
           fitting == {n \in 0 .. Bits : 2^n <= remaining}
           aligned == {n \in 0 .. Bits : cur % 2^n = 0}
           n == BlockBits(cur, hi)
<1>1. Bits \in Nat /\ 0 \in 0 .. Bits /\ Bits \in 0 .. Bits /\ 2^0 = 1 /\ remaining \in Nat /\ 1 <= remaining
  BY BitsAssumption
<1>2. SpanPow(remaining) \in 0 .. Bits /\ 2^SpanPow(remaining) <= remaining
  <2>1. 0 \in fitting
    BY <1>1
  <2>2. Max(fitting) \in fitting
    BY <2>1, GreatestBits
  <2> QED
    BY <2>2 DEF SpanPow
<1>3. Align(cur) \in 0 .. Bits
  <2>1. cur % 1 = 0
    OBVIOUS
  <2>2. 0 \in aligned
    BY <1>1, <2>1
  <2>3. Max(aligned) \in aligned
    BY <2>2, GreatestBits
  <2> QED
    BY <1>1, <2>3 DEF Align
<1>4. n \in 0 .. Bits /\ n <= SpanPow(remaining)
  BY <1>2, <1>3 DEF BlockBits, Least
<1>5. 2^n \in Nat /\ 2^SpanPow(remaining) \in Nat
  BY <1>2, <1>4, PowersAssumption
<1>6. 2^n <= 2^SpanPow(remaining)
  BY <1>2, <1>4, PowersRise
<1> HIDE DEF n, remaining
<1>7. 2^n <= remaining
  BY <1>1, <1>2, <1>5, <1>6
<1> QED
  BY <1>4, <1>5, <1>7 DEF n, remaining

\* The prefixes of a range start at its lower end.
LEMMA StartPrefixesInv == IInv /\ StartPrefixes => IInv'
<1> SUFFICES ASSUME IInv, StartPrefixes PROVE IInv'
  OBVIOUS
<1>1. /\ pc' = "prefixes" /\ cursor' = left[1][1] /\ op = "prefixes"
      /\ UNCHANGED <<op, left, right, ranges, i, j, out>>
      /\ left \in Seq(Span) /\ Len(left) = 1 /\ Canonical(left)
  BY DEF IInv, Shape, StartPrefixes
<1>2. left[1][1] \in Nat /\ left[1][2] \in Nat /\ left[1][1] <= left[1][2] /\ left[1][1] <= domain_max
  BY <1>1, RangeAt, Apart
<1>3. cursor' \in 0 .. 2^Bits /\ cursor' \in left'[1][1] .. (left'[1][2] + 1)
  BY <1>1, <1>2, FieldSize
<1>4. Shape'
  BY <1>1, <1>3 DEF IInv, Shape
<1> QED
  BY <1>1, <1>3, <1>4 DEF IInv, Starting, Merging, Complementing, Sweeping, Prefixing, Finished

\* A block is taken: it lies in the field.
LEMMA PrefixBlockInv == IInv /\ PrefixBlock => IInv'
<1> SUFFICES ASSUME IInv, PrefixBlock PROVE IInv'
  OBVIOUS
<1> DEFINE n == BlockBits(cursor, left[1][2])
<1>1. /\ pc = "prefixes" /\ pc' = "prefixes" /\ cursor <= left[1][2]
      /\ out' = Append(out, <<cursor, Bits - n>>) /\ cursor' = cursor + 2^n
      /\ UNCHANGED <<op, left, right, ranges, i, j>>
  BY DEF PrefixBlock
<1>2. /\ op = "prefixes" /\ cursor \in left[1][1] .. (left[1][2] + 1)
      /\ left \in Seq(Span) /\ Len(left) = 1 /\ out \in Seq(Domain \X (0 .. Bits))
  BY <1>1 DEF IInv, Prefixing, Shape
<1>3. left[1][1] \in Nat /\ left[1][2] \in Nat /\ left[1][2] <= domain_max
  BY <1>2, RangeAt
<1>4. cursor \in Nat /\ left[1][1] <= cursor
  BY <1>2, <1>3
<1>5. n \in 0 .. Bits /\ 2^n \in Nat /\ 2^n <= (left[1][2] - cursor) + 1
  BY <1>1, <1>3, <1>4, BlockFits
<1> HIDE DEF n
<1>6. <<cursor, Bits - n>> \in Domain \X (0 .. Bits)
  <2>1. cursor \in Domain
    BY <1>1, <1>3, <1>4, FieldSize DEF Domain
  <2>2. Bits - n \in 0 .. Bits
    BY <1>5, BitsAssumption
  <2> QED
    BY <2>1, <2>2
<1>7. out' \in Seq(Domain \X (0 .. Bits))
  BY <1>1, <1>2, <1>6
<1>8. cursor' \in left'[1][1] .. (left'[1][2] + 1) /\ cursor' \in 0 .. 2^Bits
  <2>1. left[1][1] <= cursor + 2^n /\ cursor + 2^n <= left[1][2] + 1 /\ cursor + 2^n \in Nat
    BY <1>3, <1>4, <1>5
  <2>2. cursor + 2^n <= 2^Bits
    BY <1>3, <2>1, FieldSize
  <2> QED
    BY <1>1, <1>3, <2>1, <2>2, FieldSize
<1>9. Shape'
  BY <1>1, <1>2, <1>7, <1>8 DEF IInv, Shape
<1> QED
  BY <1>1, <1>2, <1>8, <1>9 DEF IInv, Starting, Merging, Complementing, Sweeping, Prefixing, Finished

\* The prefixes' end.
LEMMA EndPrefixesInv == IInv /\ EndPrefixes => IInv'
<1> SUFFICES ASSUME IInv, EndPrefixes PROVE IInv'
  OBVIOUS
<1>1. /\ pc = "prefixes" /\ pc' = "done"
      /\ UNCHANGED <<op, left, right, ranges, i, j, cursor, out>>
  BY DEF EndPrefixes
<1>2. op = "prefixes"
  BY <1>1 DEF IInv, Prefixing
<1>3. Shape'
  BY <1>1 DEF IInv, Shape
<1> QED
  BY <1>1, <1>2, <1>3 DEF IInv, Starting, Merging, Complementing, Sweeping, Prefixing, Finished

\* A step that changes nothing.
LEMMA StutterInv == IInv /\ UNCHANGED vars => IInv'
BY DEF IInv, Shape, Starting, Merging, Complementing, Sweeping, Prefixing, Finished, Exact, vars

(***************************************************************************)
(* Powers of two of the field.                                             *)
(***************************************************************************)
\* What the lemmas about powers ask of a width.
LEMMA FieldPowers == Bits \in Nat /\ PowersDouble(Bits)
  BY BitsAssumption, PowersAssumption DEF PowersDouble

\* Powers of two are ordered as their exponents.
LEMMA PowersDiffer ==
  ASSUME NEW m \in 0 .. Bits, NEW n \in 0 .. Bits, 2^m <= 2^n
  PROVE  m <= n
<1> SUFFICES ASSUME n < m PROVE FALSE
  BY BitsAssumption
<1>1. n + 1 \in 0 .. Bits /\ n + 1 <= m
  BY BitsAssumption
<1>2. 2^(n + 1) <= 2^m
  BY <1>1, PowersRise
<1>3. 2^(n + 1) = 2 * 2^n /\ 2^n \in Nat \ {0} /\ 2^m \in Nat
  BY PowersAssumption
<1> QED
  BY <1>2, <1>3

(***************************************************************************)
(* The blocks of a range are the maximal ones.                             *)
(***************************************************************************)
\* A block is aligned, and no longer one that fits is.
LEMMA BlockIsLongest ==
  ASSUME NEW cur \in Nat, NEW hi \in Nat, cur <= hi
  PROVE  /\ cur % 2^BlockBits(cur, hi) = 0
         /\ \A m \in 0 .. Bits :
              cur % 2^m = 0 /\ 2^m <= (hi - cur) + 1 => m <= BlockBits(cur, hi)
<1> DEFINE remaining == (hi - cur) + 1
           fitting == {n \in 0 .. Bits : 2^n <= remaining}
           aligned == {n \in 0 .. Bits : cur % 2^n = 0}
           n == BlockBits(cur, hi)
<1>1. Bits \in Nat /\ 0 \in 0 .. Bits /\ Bits \in 0 .. Bits /\ 2^0 = 1 /\ remaining \in Nat /\ 1 <= remaining
  BY BitsAssumption
<1>2. /\ SpanPow(remaining) \in 0 .. Bits
      /\ \A m \in 0 .. Bits : 2^m <= remaining => m <= SpanPow(remaining)
  <2>1. 0 \in fitting
    BY <1>1
  <2>2. Max(fitting) \in fitting /\ \A m \in fitting : m <= Max(fitting)
    BY <2>1, GreatestBits
  <2> QED
    BY <2>2 DEF SpanPow
<1>3. /\ Align(cur) \in 0 .. Bits /\ cur % 2^Align(cur) = 0
      /\ \A m \in 0 .. Bits : cur % 2^m = 0 => m <= Align(cur)
  <2>1. CASE cur = 0
    <3>1. Align(cur) = Bits /\ 2^Bits \in Nat \ {0}
      BY <1>1, <2>1, PowersAssumption DEF Align
    <3>2. 0 % 2^Bits = 0
      <4>1. 0 = 2^Bits * 0
        BY <3>1
      <4> QED
        BY <3>1, <4>1, Multiple
    <3> QED
      BY <1>1, <2>1, <3>1, <3>2
  <2>2. CASE cur # 0
    <3>1. 0 \in aligned
      <4>1. cur % 1 = 0
        OBVIOUS
      <4> QED
        BY <1>1, <4>1
    <3>2. Max(aligned) \in aligned /\ \A m \in aligned : m <= Max(aligned)
      BY <3>1, GreatestBits
    <3>3. Align(cur) = Max(aligned)
      BY <2>2 DEF Align
    <3> QED
      BY <3>2, <3>3
  <2> QED
    BY <2>1, <2>2
<1>4. n \in 0 .. Bits /\ n <= Align(cur) /\ (n = Align(cur) \/ n = SpanPow(remaining))
  BY <1>2, <1>3 DEF BlockBits, Least
<1> HIDE DEF n
<1>5. cur % 2^n = 0
  BY <1>3, <1>4, FieldPowers, LowerPower
<1>6. ASSUME NEW m \in 0 .. Bits, cur % 2^m = 0, 2^m <= remaining PROVE m <= n
  BY <1>2, <1>3, <1>4, <1>6
<1> QED
  BY <1>5, <1>6 DEF n

\* The block of 2^n values at b is aligned and lies in the range.
Inside(lo, hi, b, n) ==
  /\ b \in Domain /\ n \in 0 .. Bits
  /\ b % 2^n = 0
  /\ lo <= b /\ b + 2^n <= hi + 1

\* And in no other block that is.
Maximal(lo, hi, b, n) ==
  /\ Inside(lo, hi, b, n)
  /\ \A c \in Domain, m \in 0 .. Bits :
       Inside(lo, hi, c, m) /\ c <= b /\ b + 2^n <= c + 2^m => c = b /\ m = n

\* Aligned blocks nest: one that starts in a maximal block ends in it.
LEMMA Nested ==
  ASSUME NEW lo \in Nat, NEW hi \in Nat, NEW b, NEW n, NEW c, NEW m,
         Maximal(lo, hi, b, n), Inside(lo, hi, c, m), b <= c, c < b + 2^n
  PROVE  m <= n /\ c + 2^m <= b + 2^n
<1>1. /\ b \in Nat /\ c \in Nat /\ c \in Domain /\ n \in 0 .. Bits /\ m \in 0 .. Bits
      /\ n \in Nat /\ m \in Nat
      /\ b % 2^n = 0 /\ c % 2^m = 0
      /\ 2^n \in Nat \ {0} /\ 2^m \in Nat \ {0}
  BY DomainNumbers, PowersAssumption, BitsAssumption DEF Maximal, Inside
<1>2. ASSUME m <= n PROVE c + 2^m <= b + 2^n
  <2>1. b % 2^m = 0 /\ 2^n % 2^m = 0
    BY <1>1, <1>2, FieldPowers, LowerPower, PowerMultiple
  <2>2. (b + 2^n) % 2^m = 0 /\ b + 2^n \in Nat
    BY <1>1, <2>1, SumOfMultiples
  <2> QED
    BY <1>1, <2>2, NextMultiple
<1>3. ASSUME n < m PROVE FALSE
  <2>1. c % 2^n = 0
    BY <1>1, <1>3, FieldPowers, LowerPower
  <2>2. c = b
    <3>1. ASSUME b < c PROVE FALSE
      <4>1. b + 2^n <= c
        BY <1>1, <2>1, <3>1, NextMultiple
      <4> QED
        BY <1>1, <4>1
    <3> QED
      BY <1>1, <3>1
  <2>3. 2^n <= 2^m
    BY <1>1, <1>3, PowersRise
  <2>4. c <= b /\ b + 2^n <= c + 2^m
    BY <1>1, <2>2, <2>3
  <2>5. m = n
    BY <1>1, <2>4 DEF Maximal
  <2> QED
    BY <1>1, <1>3, <2>5
<1> QED
  BY <1>1, <1>2, <1>3

\* The block taken at the cursor is maximal when no block straddles the cursor.
LEMMA TakenIsMaximal ==
  ASSUME NEW lo \in Nat, NEW hi \in Nat, NEW cur \in Domain, lo <= cur, cur <= hi,
         \A c \in Domain, m \in 0 .. Bits :
           Inside(lo, hi, c, m) => cur <= c \/ c + 2^m <= cur
  PROVE  Maximal(lo, hi, cur, BlockBits(cur, hi))
<1> DEFINE n == BlockBits(cur, hi)
<1>1. /\ cur \in Nat /\ n \in 0 .. Bits /\ n \in Nat
      /\ 2^n \in Nat \ {0} /\ 2^n <= (hi - cur) + 1
      /\ cur % 2^n = 0
  <2>1. cur \in Nat
    BY DomainNumbers
  <2>2. n \in 0 .. Bits /\ 2^n <= (hi - cur) + 1
    BY <2>1, BlockFits
  <2>3. cur % 2^n = 0
    BY <2>1, BlockIsLongest
  <2>4. n \in Nat /\ 2^n \in Nat \ {0}
    BY <2>2, PowersAssumption, BitsAssumption
  <2> QED
    BY <2>1, <2>2, <2>3, <2>4
<1>2. \A m \in 0 .. Bits : cur % 2^m = 0 /\ 2^m <= (hi - cur) + 1 => m <= n
  BY <1>1, BlockIsLongest
<1> HIDE DEF n
<1>3. Inside(lo, hi, cur, n)
  BY <1>1 DEF Inside
<1>4. ASSUME NEW c \in Domain, NEW m \in 0 .. Bits,
             Inside(lo, hi, c, m), c <= cur, cur + 2^n <= c + 2^m
      PROVE  c = cur /\ m = n
  <2>1. /\ c \in Nat /\ 2^m \in Nat \ {0} /\ m \in Nat
        /\ c % 2^m = 0 /\ c + 2^m <= hi + 1
    BY <1>4, DomainNumbers, PowersAssumption, BitsAssumption DEF Inside
  <2>2. cur <= c \/ c + 2^m <= cur
    BY <1>4
  <2>3. c = cur
    BY <1>1, <1>4, <2>1, <2>2
  <2>4. 2^n <= 2^m /\ 2^m <= (hi - cur) + 1
    BY <1>1, <1>4, <2>1, <2>3
  <2>5. n <= m
    BY <1>1, <2>4, PowersDiffer
  <2>6. m <= n
    BY <1>2, <2>1, <2>3, <2>4
  <2> QED
    BY <1>1, <2>1, <2>3, <2>5, <2>6
<1>5. Maximal(lo, hi, cur, n)
  BY <1>3, <1>4 DEF Maximal
<1> QED
  BY <1>5 DEF n

\* Below the cursor the maximal blocks are exactly those produced, one after the
\* other, and no block of the range straddles the cursor.
Covering ==
  op = "prefixes" /\ pc \in {"prefixes", "done"} =>
    LET lo == left[1][1]
        hi == left[1][2]
    IN /\ \A k \in 1 .. Len(out) : Maximal(lo, hi, out[k][1], Bits - out[k][2])
       /\ \A c \in Domain, m \in 0 .. Bits :
            Maximal(lo, hi, c, m) /\ c < cursor => \E k \in 1 .. Len(out) : out[k] = <<c, Bits - m>>
       /\ \A c \in Domain, m \in 0 .. Bits :
            Inside(lo, hi, c, m) => cursor <= c \/ c + 2^m <= cursor
       /\ \A k \in 1 .. (Len(out) - 1) : out[k + 1][1] = out[k][1] + 2^(Bits - out[k][2])
       /\ Len(out) > 0 => cursor = out[Len(out)][1] + 2^(Bits - out[Len(out)][2])
       /\ pc = "done" => cursor > hi

\* Nothing is taken yet.
LEMMA CoveringStart == IInv /\ StartPrefixes => Covering'
<1> SUFFICES ASSUME IInv, StartPrefixes PROVE Covering'
  OBVIOUS
<1>1. /\ pc' = "prefixes" /\ cursor' = left[1][1] /\ left' = left /\ out' = <<>>
      /\ left \in Seq(Span) /\ Len(left) = 1
  BY DEF IInv, Shape, Starting, StartPrefixes
<1>2. left[1][1] \in Nat
  BY <1>1, RangeAt
<1>3. Len(out') = 0
  BY <1>1
<1>4. ASSUME NEW c \in Domain, NEW m, Inside(left[1][1], left[1][2], c, m)
      PROVE  left[1][1] <= c /\ ~(c < left[1][1])
  BY <1>2, <1>4, DomainNumbers DEF Inside
<1>5. ASSUME NEW c \in Domain, NEW m, Maximal(left[1][1], left[1][2], c, m)
      PROVE  ~(c < left[1][1])
  BY <1>4, <1>5 DEF Maximal
<1> QED
  BY <1>1, <1>3, <1>4, <1>5 DEF Covering

\* The end takes nothing more.
LEMMA CoveringEnd == IInv /\ Covering /\ EndPrefixes => Covering'
<1> SUFFICES ASSUME IInv, Covering, EndPrefixes PROVE Covering'
  OBVIOUS
<1>1. /\ pc = "prefixes" /\ cursor > left[1][2] /\ op = "prefixes"
      /\ UNCHANGED <<op, left, cursor, out>>
  BY DEF EndPrefixes, IInv, Prefixing
<1> QED
  BY <1>1 DEF Covering

\* The block taken is maximal and starts where the blocks before it end.
LEMMA CoveringBlock == IInv /\ Covering /\ PrefixBlock => Covering'
<1> SUFFICES ASSUME IInv, Covering, PrefixBlock PROVE Covering'
  OBVIOUS
<1> DEFINE n == BlockBits(cursor, left[1][2])
           lo == left[1][1]
           hi == left[1][2]
           new == <<cursor, Bits - n>>
<1>1. /\ pc = "prefixes" /\ pc' = "prefixes" /\ cursor <= hi
      /\ out' = Append(out, new) /\ cursor' = cursor + 2^n
      /\ UNCHANGED <<op, left, right, ranges, i, j>>
  BY DEF PrefixBlock
<1>2. /\ op = "prefixes" /\ cursor \in lo .. (hi + 1)
      /\ left \in Seq(Span) /\ Len(left) = 1 /\ out \in Seq(Domain \X (0 .. Bits))
  BY <1>1 DEF IInv, Prefixing, Shape
<1>3. lo \in Nat /\ hi \in Nat /\ hi <= domain_max
  BY <1>2, RangeAt
<1>4. cursor \in Nat /\ lo <= cursor /\ cursor \in Domain
  BY <1>1, <1>2, <1>3, FieldSize DEF Domain
<1>5. /\ \A k \in 1 .. Len(out) : Maximal(lo, hi, out[k][1], Bits - out[k][2])
      /\ \A c \in Domain, m \in 0 .. Bits :
           Maximal(lo, hi, c, m) /\ c < cursor => \E k \in 1 .. Len(out) : out[k] = <<c, Bits - m>>
      /\ \A c \in Domain, m \in 0 .. Bits : Inside(lo, hi, c, m) => cursor <= c \/ c + 2^m <= cursor
      /\ \A k \in 1 .. (Len(out) - 1) : out[k + 1][1] = out[k][1] + 2^(Bits - out[k][2])
      /\ Len(out) > 0 => cursor = out[Len(out)][1] + 2^(Bits - out[Len(out)][2])
  BY <1>1, <1>2 DEF Covering
<1>6. Maximal(lo, hi, cursor, n)
  BY <1>1, <1>3, <1>4, <1>5, TakenIsMaximal
<1>7. n \in 0 .. Bits /\ 2^n \in Nat \ {0} /\ Bits - (Bits - n) = n
  <2>1. n \in 0 .. Bits
    BY <1>1, <1>3, <1>4, BlockFits
  <2> QED
    BY <2>1, PowersAssumption, BitsAssumption
<1>8. /\ Len(out') = Len(out) + 1 /\ Len(out) \in Nat
      /\ out'[Len(out) + 1] = new
      /\ \A k \in 1 .. Len(out) : out'[k] = out[k]
  BY <1>1, <1>2
<1>9. new[1] = cursor /\ new[2] = Bits - n
  OBVIOUS
<1>10. left'[1][1] = lo /\ left'[1][2] = hi
  BY <1>1
<1> HIDE DEF n, lo, hi, new
<1>11. \A k \in 1 .. Len(out') : Maximal(lo, hi, out'[k][1], Bits - out'[k][2])
  BY <1>5, <1>6, <1>7, <1>8, <1>9
<1>12. ASSUME NEW c \in Domain, NEW m \in 0 .. Bits, Maximal(lo, hi, c, m), c < cursor'
       PROVE  \E k \in 1 .. Len(out') : out'[k] = <<c, Bits - m>>
  <2>1. CASE c < cursor
    <3>1. PICK k \in 1 .. Len(out) : out[k] = <<c, Bits - m>>
      BY <1>5, <1>12, <2>1
    <3>2. k \in 1 .. Len(out') /\ out'[k] = out[k]
      BY <1>8
    <3> QED
      BY <3>1, <3>2
  <2>2. CASE ~(c < cursor)
    <3>1. c \in Nat /\ m \in Nat /\ cursor <= c /\ c < cursor + 2^n /\ Inside(lo, hi, c, m)
      BY <1>1, <1>4, <1>12, <2>2, DomainNumbers DEF Maximal
    <3>2. m <= n /\ c + 2^m <= cursor + 2^n
      BY <1>3, <1>6, <3>1, Nested
    <3>3. Inside(lo, hi, cursor, n)
      BY <1>6 DEF Maximal
    <3>4. cursor = c /\ n = m
      BY <1>4, <1>7, <1>12, <3>1, <3>2, <3>3 DEF Maximal
    <3>5. out'[Len(out) + 1] = <<c, Bits - m>> /\ Len(out) + 1 \in 1 .. Len(out')
      BY <1>8, <3>4 DEF new
    <3> QED
      BY <3>5
  <2> QED
    BY <2>1, <2>2
<1>13. ASSUME NEW c \in Domain, NEW m \in 0 .. Bits, Inside(lo, hi, c, m)
       PROVE  cursor' <= c \/ c + 2^m <= cursor'
  <2>1. c \in Nat /\ 2^m \in Nat
    BY DomainNumbers, PowersAssumption
  <2>2. CASE c + 2^m <= cursor
    BY <1>1, <1>4, <1>7, <2>1, <2>2
  <2>3. CASE cursor <= c /\ c < cursor + 2^n
    <3>1. c + 2^m <= cursor + 2^n
      BY <1>3, <1>6, <1>13, <2>3, Nested
    <3> QED
      BY <1>1, <3>1
  <2>4. CASE ~(c < cursor + 2^n)
    BY <1>1, <1>4, <1>7, <2>1, <2>4
  <2> QED
    BY <1>5, <1>13, <2>2, <2>3, <2>4
<1>14. ASSUME NEW k \in 1 .. (Len(out') - 1)
       PROVE  out'[k + 1][1] = out'[k][1] + 2^(Bits - out'[k][2])
  <2>1. CASE k = Len(out)
    BY <1>5, <1>8, <1>9, <1>14, <2>1
  <2>2. CASE k # Len(out)
    <3>1. k \in 1 .. (Len(out) - 1) /\ k \in 1 .. Len(out) /\ k + 1 \in 1 .. Len(out)
      BY <1>8, <1>14, <2>2
    <3> QED
      BY <1>5, <1>8, <3>1
  <2> QED
    BY <2>1, <2>2
<1>15. cursor' = out'[Len(out')][1] + 2^(Bits - out'[Len(out')][2])
  BY <1>1, <1>7, <1>8, <1>9
<1> QED
  BY <1>1, <1>10, <1>11, <1>12, <1>13, <1>14, <1>15 DEF Covering

\* No other operation touches the prefixes.
LEMMA CoveringOther ==
  ASSUME IInv, [Next]_vars, ~StartPrefixes, ~PrefixBlock, ~EndPrefixes, Covering
  PROVE  Covering'
<1>1. ASSUME op = "prefixes", ~UNCHANGED vars PROVE FALSE
  <2>1. pc \notin {"merge", "complement", "sweep"}
    BY <1>1 DEF IInv, Merging, Complementing, Sweeping
  <2> QED
    BY <1>1, <2>1 DEF Next, StartMerge, MergeRange, EndMerge, StartIntersect, SweepStep, EndSweep,
      StartComplement, ComplementRange, EndComplement
<1>2. op' = op
  BY DEF Next, vars, StartMerge, MergeRange, EndMerge, StartIntersect, SweepStep, EndSweep,
    StartComplement, ComplementRange, EndComplement
<1>3. CASE UNCHANGED vars
  BY <1>3 DEF Covering, vars
<1> QED
  BY <1>1, <1>2, <1>3 DEF Covering

\* A block as the property writes it, and its values.
LEMMA BlockBounds ==
  ASSUME NEW c \in Domain, NEW m \in 0 .. Bits, NEW lo \in Nat, NEW hi \in Nat
  PROVE  c .. (c + 2^m - 1) \subseteq lo .. hi <=> lo <= c /\ c + 2^m <= hi + 1
<1>1. c \in Nat /\ 2^m \in Nat \ {0}
  BY DomainNumbers, PowersAssumption
<1> DEFINE P == 2^m
<1>2. P \in Nat \ {0}
  BY <1>1
<1> HIDE DEF P
<1>3. ASSUME c .. (c + P - 1) \subseteq lo .. hi PROVE lo <= c /\ c + P <= hi + 1
  <2>1. c \in c .. (c + P - 1) /\ c + P - 1 \in c .. (c + P - 1)
    BY <1>1, <1>2
  <2>2. c \in lo .. hi /\ c + P - 1 \in lo .. hi
    BY <1>3, <2>1
  <2> QED
    BY <1>1, <1>2, <2>2
<1>4. ASSUME lo <= c, c + P <= hi + 1 PROVE c .. (c + P - 1) \subseteq lo .. hi
  BY <1>1, <1>2, <1>4
<1>5. c .. (c + P - 1) \subseteq lo .. hi <=> lo <= c /\ c + P <= hi + 1
  BY <1>3, <1>4
<1> QED
  BY <1>5 DEF P

\* Blocks that are maximal and cover the range are all the maximal ones.
LEMMA CoveringSuffices == IInv /\ Covering => PrefixesAreMaximalBlocks
<1> SUFFICES ASSUME IInv, Covering, pc = "done", op = "prefixes"
             PROVE  PrefixesAreMaximalBlocks
  BY DEF PrefixesAreMaximalBlocks
<1> DEFINE lo == left[1][1]
           hi == left[1][2]
           target == left[1][1] .. left[1][2]
           inside == {block \in Domain \X (0 .. Bits) :
                        block[1] % 2^(Bits - block[2]) = 0 /\ BlockValues(block) \subseteq target}
           maximal == {block \in inside : \A other \in inside :
                         BlockValues(block) \subseteq BlockValues(other) => block = other}
<1>1. left \in Seq(Span) /\ Len(left) = 1 /\ out \in Seq(Domain \X (0 .. Bits))
  BY DEF IInv, Shape
<1>2. lo \in Nat /\ hi \in Nat
  <2>1. 1 \in 1 .. Len(left)
    BY <1>1
  <2>2. left[1][1] \in Nat /\ left[1][2] \in Nat
    BY <1>1, <2>1, RangeAt
  <2> QED
    BY <2>2
<1>3. /\ \A k \in 1 .. Len(out) : Maximal(lo, hi, out[k][1], Bits - out[k][2])
      /\ \A c \in Domain, m \in 0 .. Bits :
           Maximal(lo, hi, c, m) /\ c < cursor => \E k \in 1 .. Len(out) : out[k] = <<c, Bits - m>>
      /\ \A k \in 1 .. (Len(out) - 1) : out[k + 1][1] = out[k][1] + 2^(Bits - out[k][2])
      /\ cursor > hi
  BY DEF Covering
<1>4. cursor \in Nat
  <2>1. cursor \in 0 .. 2^Bits
    BY DEF IInv, Shape
  <2> QED
    BY <2>1, FieldSize
<1> HIDE DEF lo, hi
<1>5. ASSUME NEW block \in Domain \X (0 .. Bits)
      PROVE  /\ block[1] \in Domain /\ Bits - block[2] \in 0 .. Bits /\ block[2] \in 0 .. Bits
             /\ block = <<block[1], block[2]>> /\ Bits - (Bits - block[2]) = block[2]
             /\ block \in inside <=> Inside(lo, hi, block[1], Bits - block[2])
  <2>1. /\ block[1] \in Domain /\ Bits - block[2] \in 0 .. Bits /\ block[2] \in 0 .. Bits
        /\ block = <<block[1], block[2]>> /\ Bits - (Bits - block[2]) = block[2]
    BY BitsAssumption
  <2>2. BlockValues(block) \subseteq target
          <=> lo <= block[1] /\ block[1] + 2^(Bits - block[2]) <= hi + 1
    BY <1>2, <2>1, BlockBounds DEF BlockValues, lo, hi
  <2>3. block \in inside <=> block[1] % 2^(Bits - block[2]) = 0 /\ BlockValues(block) \subseteq target
    OBVIOUS
  <2> QED
    BY <2>1, <2>2, <2>3 DEF Inside
<1>6. ASSUME NEW block \in Domain \X (0 .. Bits), NEW other \in Domain \X (0 .. Bits)
      PROVE  BlockValues(block) \subseteq BlockValues(other) <=>
               /\ other[1] <= block[1]
               /\ block[1] + 2^(Bits - block[2]) <= other[1] + 2^(Bits - other[2])
  <2>1. /\ block[1] \in Domain /\ Bits - block[2] \in 0 .. Bits
        /\ other[1] \in Nat /\ Bits - other[2] \in 0 .. Bits
    BY <1>5, DomainNumbers
  <2>2. 2^(Bits - other[2]) \in Nat \ {0}
    BY <2>1, PowersAssumption
  <2> DEFINE end == other[1] + 2^(Bits - other[2]) - 1
  <2>3. end \in Nat /\ end + 1 = other[1] + 2^(Bits - other[2])
    BY <2>1, <2>2
  <2>4. BlockValues(other) = other[1] .. end
    BY DEF BlockValues
  <2> HIDE DEF end
  <2>5. block[1] .. (block[1] + 2^(Bits - block[2]) - 1) \subseteq other[1] .. end
          <=> other[1] <= block[1] /\ block[1] + 2^(Bits - block[2]) <= end + 1
    BY <2>1, <2>3, BlockBounds
  <2> QED
    BY <2>3, <2>4, <2>5 DEF BlockValues
<1>7. ASSUME NEW block \in Domain \X (0 .. Bits)
      PROVE  block \in maximal <=> Maximal(lo, hi, block[1], Bits - block[2])
  <2>1. ASSUME block \in maximal PROVE Maximal(lo, hi, block[1], Bits - block[2])
    <3>1. Inside(lo, hi, block[1], Bits - block[2])
      BY <1>5, <2>1
    <3>2. ASSUME NEW c \in Domain, NEW m \in 0 .. Bits, Inside(lo, hi, c, m),
                 c <= block[1], block[1] + 2^(Bits - block[2]) <= c + 2^m
          PROVE  c = block[1] /\ m = Bits - block[2]
      <4> DEFINE other == <<c, Bits - m>>
      <4>1. /\ other \in Domain \X (0 .. Bits) /\ other[1] = c /\ other[2] = Bits - m
            /\ Bits - other[2] = m
        BY BitsAssumption
      <4> HIDE DEF other
      <4>2. other \in inside
        BY <1>5, <3>2, <4>1
      <4>3. BlockValues(block) \subseteq BlockValues(other)
        BY <1>6, <3>2, <4>1
      <4>4. block = other
        BY <2>1, <4>2, <4>3
      <4> QED
        BY <4>1, <4>4
    <3> QED
      BY <3>1, <3>2 DEF Maximal
  <2>2. ASSUME Maximal(lo, hi, block[1], Bits - block[2]) PROVE block \in maximal
    <3>1. block \in inside
      BY <1>5, <2>2 DEF Maximal
    <3>2. ASSUME NEW other \in inside, BlockValues(block) \subseteq BlockValues(other)
          PROVE  block = other
      <4>1. other \in Domain \X (0 .. Bits)
        OBVIOUS
      <4>2. /\ other[1] \in Domain /\ Bits - other[2] \in 0 .. Bits
            /\ Inside(lo, hi, other[1], Bits - other[2])
        BY <1>5, <3>2, <4>1
      <4>3. /\ other[1] <= block[1]
            /\ block[1] + 2^(Bits - block[2]) <= other[1] + 2^(Bits - other[2])
        BY <1>6, <3>2, <4>1
      <4>4. other[1] = block[1] /\ Bits - other[2] = Bits - block[2]
        BY <2>2, <4>2, <4>3 DEF Maximal
      <4>5. other[2] = block[2]
        <5>1. Bits - (Bits - other[2]) = other[2] /\ Bits - (Bits - block[2]) = block[2]
          BY <1>5, <4>1
        <5> QED
          BY <4>4, <5>1
      <4> QED
        BY <1>5, <4>1, <4>4, <4>5
    <3> QED
      BY <3>1, <3>2
  <2> QED
    BY <2>1, <2>2
<1> HIDE DEF maximal
<1>8. maximal \subseteq Domain \X (0 .. Bits)
  BY DEF maximal
<1>9. ToSet(out) = maximal
  <2>1. ToSet(out) = {out[k] : k \in 1 .. Len(out)}
    BY <1>1 DEF ToSet
  <2>2. ASSUME NEW k \in 1 .. Len(out) PROVE out[k] \in maximal
    <3>1. out[k] \in Domain \X (0 .. Bits)
      BY <1>1
    <3> QED
      BY <1>3, <1>7, <3>1
  <2>3. ASSUME NEW block \in maximal PROVE \E k \in 1 .. Len(out) : out[k] = block
    <3>1. block \in Domain \X (0 .. Bits)
      BY <1>8
    <3>2. Maximal(lo, hi, block[1], Bits - block[2])
      BY <1>7, <3>1
    <3>3. block[1] < cursor
      <4>1. /\ block[1] \in Nat /\ 2^(Bits - block[2]) \in Nat \ {0}
            /\ block[1] + 2^(Bits - block[2]) <= hi + 1
        BY <1>5, <3>1, <3>2, DomainNumbers, PowersAssumption DEF Maximal, Inside
      <4> QED
        BY <1>2, <1>3, <1>4, <4>1
    <3>4. PICK k \in 1 .. Len(out) : out[k] = <<block[1], Bits - (Bits - block[2])>>
      BY <1>3, <1>5, <3>1, <3>2, <3>3
    <3> QED
      BY <1>5, <3>1, <3>4
  <2> QED
    BY <2>1, <2>2, <2>3
<1> QED
  BY <1>3, <1>9 DEF PrefixesAreMaximalBlocks, maximal

(***************************************************************************)
(* Lowering.                                                               *)
(***************************************************************************)
\* The bits of a value from b to the last, as a number.
LowPart(v, b) == v % 2^(Bits - b)

\* A number's low part with one more bit.
LEMMA Halves ==
  ASSUME NEW v \in Nat, NEW P \in Nat \ {0}
  PROVE  /\ v % P \in 0 .. (P - 1) /\ (v \div P) % 2 \in {0, 1}
         /\ v % (2 * P) = IF (v \div P) % 2 = 1 THEN P + (v % P) ELSE v % P
<1> DEFINE q == v \div P
           r == v % P
           k == q \div 2
           e == q % 2
<1>1. q \in Nat /\ r \in 0 .. (P - 1) /\ v = P * q + r
  OBVIOUS
<1> HIDE DEF q, r
<1>2. k \in Nat /\ e \in {0, 1} /\ q = 2 * k + e
  BY <1>1
<1> HIDE DEF k, e
<1>3. v = (2 * P) * k + (IF e = 1 THEN P + r ELSE r)
  <2>1. P * q = (2 * P) * k + (IF e = 1 THEN P ELSE 0)
    BY <1>2
  <2> QED
    BY <1>1, <1>2, <2>1
<1> DEFINE s == IF e = 1 THEN P + r ELSE r
<1>4. s \in 0 .. (2 * P - 1)
  BY <1>1, <1>2
<1> HIDE DEF s
<1>5. v % (2 * P) = s
  <2> DEFINE M == 2 * P
  <2>1. M \in Nat \ {0} /\ s \in 0 .. (M - 1) /\ v = M * k + s
    BY <1>3, <1>4 DEF s
  <2> HIDE DEF M
  <2>2. v % M = s
    BY <1>2, <2>1
  <2> QED
    BY <2>2 DEF M
<1> QED
  BY <1>1, <1>2, <1>5 DEF s, e, q, r

\* One bit more.
LEMMA OneBit ==
  ASSUME NEW v \in Domain, NEW b \in 0 .. (Bits - 1)
  PROVE  LET P == 2^((Bits - 1) - b)
         IN  /\ P \in Nat \ {0} /\ Bit(v, b) \in {0, 1} /\ LowPart(v, b + 1) \in 0 .. (P - 1)
             /\ LowPart(v, b) = IF Bit(v, b) = 1 THEN P + LowPart(v, b + 1) ELSE LowPart(v, b + 1)
<1> DEFINE n == (Bits - 1) - b
           P == 2^n
<1>1. n \in 0 .. Bits /\ Bits - b = n + 1 /\ Bits - (b + 1) = n
  BY BitsAssumption
<1>2. v \in Nat /\ P \in Nat \ {0} /\ 2^(n + 1) = 2 * P
  BY <1>1, DomainNumbers, PowersAssumption
<1>3. Bit(v, b) = (v \div P) % 2 /\ LowPart(v, b) = v % 2^(n + 1) /\ LowPart(v, b + 1) = v % P
  BY <1>1 DEF Bit, LowPart
<1> HIDE DEF P
<1>4. LowPart(v, b) = v % (2 * P)
  BY <1>2, <1>3
<1>5. /\ v % P \in 0 .. (P - 1) /\ (v \div P) % 2 \in {0, 1}
      /\ v % (2 * P) = IF (v \div P) % 2 = 1 THEN P + (v % P) ELSE v % P
  BY <1>2, Halves
<1> QED
  BY <1>2, <1>3, <1>4, <1>5 DEF P

\* The low part of no bits, and of all.
LEMMA Ends ==
  ASSUME NEW v \in Domain
  PROVE  LowPart(v, 0) = v /\ LowPart(v, Bits) = 0
<1>1. v \in Nat /\ v < 2^Bits /\ 2^Bits \in Nat \ {0} /\ Bits - 0 = Bits /\ Bits - Bits = 0
  BY FieldSize, DomainNumbers, BitsAssumption
<1>2. v % 2^Bits = v
  <2> DEFINE M == 2^Bits
  <2>1. M \in Nat \ {0} /\ v < M
    BY <1>1
  <2> HIDE DEF M
  <2>2. v % M = v
    BY <1>1, <2>1
  <2> QED
    BY <2>2 DEF M
<1>3. 2^0 = 1
  OBVIOUS
<1>4. v % 1 = 0
  BY <1>1
<1> QED
  BY <1>1, <1>2, <1>3, <1>4 DEF LowPart

\* geq: the values from the bound on.
LEMMA GeqExact ==
  ASSUME NEW lo \in Domain
  PROVE  Geq(lo) = {v \in Domain : lo <= v}
<1> DEFINE Loop(g) == [b \in 0 .. Bits |-> IF b = Bits THEN Domain ELSE GeqBit(lo, b, g[b + 1])]
           From(b) == {v \in Domain : LowPart(lo, b) <= LowPart(v, b)}
           acc == CHOOSE g : g = Loop(g)
           closed == [b \in 0 .. Bits |-> From(b)]
<1>1. Geq(lo) = acc[0]
  BY DEF Geq
<1>2. Bits \in Nat \ {0}
  BY BitsAssumption
<1>3. From(Bits) = Domain
  <2>1. \A v \in Domain : LowPart(v, Bits) = 0
    BY Ends
  <2> QED
    BY <2>1
<1>4. ASSUME NEW b \in 0 .. (Bits - 1)
      PROVE  GeqBit(lo, b, From(b + 1)) = From(b)
  <2> DEFINE P == 2^((Bits - 1) - b)
  <2>1. /\ P \in Nat \ {0} /\ Bit(lo, b) \in {0, 1} /\ LowPart(lo, b + 1) \in 0 .. (P - 1)
        /\ LowPart(lo, b) = IF Bit(lo, b) = 1 THEN P + LowPart(lo, b + 1) ELSE LowPart(lo, b + 1)
    BY OneBit
  <2>2. ASSUME NEW v \in Domain
        PROVE  /\ Bit(v, b) \in {0, 1} /\ LowPart(v, b + 1) \in 0 .. (P - 1)
               /\ LowPart(v, b) = IF Bit(v, b) = 1 THEN P + LowPart(v, b + 1) ELSE LowPart(v, b + 1)
    BY OneBit
  <2> HIDE DEF P
  <2>3. ASSUME NEW v \in Domain
        PROVE  v \in GeqBit(lo, b, From(b + 1)) <=> v \in From(b)
    <3>1. CASE Bit(lo, b) = 1
      <4>1. v \in GeqBit(lo, b, From(b + 1)) <=>
              Bit(v, b) = 1 /\ LowPart(lo, b + 1) <= LowPart(v, b + 1)
        BY <3>1 DEF GeqBit, Literal
      <4>2. v \in From(b) <=> LowPart(lo, b) <= LowPart(v, b)
        OBVIOUS
      <4> HIDE DEF From
      <4> QED
        BY <2>1, <2>2, <3>1, <4>1, <4>2
    <3>2. CASE Bit(lo, b) = 0
      <4>1. v \in GeqBit(lo, b, From(b + 1)) <=>
              Bit(v, b) = 1 \/ LowPart(lo, b + 1) <= LowPart(v, b + 1)
        BY <3>2 DEF GeqBit, Literal
      <4>2. v \in From(b) <=> LowPart(lo, b) <= LowPart(v, b)
        OBVIOUS
      <4> HIDE DEF From
      <4> QED
        BY <2>1, <2>2, <3>2, <4>1, <4>2
    <3> QED
      BY <2>1, <3>1, <3>2
  <2>4. GeqBit(lo, b, From(b + 1)) \subseteq Domain
    BY DEF GeqBit, Literal
  <2> QED
    BY <2>3, <2>4
<1>5. closed = Loop(closed)
  <2>1. ASSUME NEW b \in 0 .. Bits PROVE closed[b] = Loop(closed)[b]
    <3> HIDE DEF From
    <3>1. CASE b = Bits
      BY <1>2, <1>3, <3>1
    <3>2. CASE b # Bits
      <4>1. b \in 0 .. (Bits - 1) /\ b + 1 \in 0 .. Bits
        BY <1>2, <3>2
      <4> QED
        BY <1>4, <3>2, <4>1
    <3> QED
      BY <3>1, <3>2
  <2> HIDE DEF From
  <2> QED
    BY <2>1
<1>6. acc = Loop(acc)
  <2> HIDE DEF closed
  <2>1. \E g : g = Loop(g)
    BY <1>5
  <2> QED
    BY <2>1
<1> HIDE DEF acc
<1>7. ASSUME NEW b \in 0 .. Bits PROVE acc[b] = From(b)
  <2> DEFINE T == {n \in 0 .. Bits : acc[n] # From(n)}
  <2> HIDE DEF From
  <2>1. ASSUME T # {} PROVE FALSE
    <3>1. T \in SUBSET Nat /\ \A n \in T : n <= Bits
      BY <1>2
    <3>2. PICK n \in T : \A m \in T : m <= n
      BY <1>2, <2>1, <3>1, GreatestNat
    <3>3. n \in 0 .. Bits /\ acc[n] # From(n)
      BY <3>2
    <3>4. n # Bits
      BY <1>2, <1>3, <1>6, <3>3
    <3>5. n \in 0 .. (Bits - 1) /\ n + 1 \in 0 .. Bits /\ ~(n + 1 <= n)
      BY <1>2, <3>3, <3>4
    <3>6. acc[n + 1] = From(n + 1)
      BY <3>2, <3>5
    <3>7. acc[n] = GeqBit(lo, n, acc[n + 1])
      BY <1>6, <3>3, <3>4
    <3> QED
      BY <1>4, <3>3, <3>5, <3>6, <3>7
  <2> QED
    BY <2>1
<1>8. acc[0] = From(0)
  BY <1>2, <1>7
<1> QED
  BY <1>1, <1>8, Ends
\* leq: the values up to the bound.
LEMMA LeqExact ==
  ASSUME NEW hi \in Domain
  PROVE  Leq(hi) = {v \in Domain : v <= hi}
<1> DEFINE Loop(g) == [b \in 0 .. Bits |-> IF b = Bits THEN Domain ELSE LeqBit(hi, b, g[b + 1])]
           UpTo(b) == {v \in Domain : LowPart(v, b) <= LowPart(hi, b)}
           acc == CHOOSE g : g = Loop(g)
           closed == [b \in 0 .. Bits |-> UpTo(b)]
<1>1. Leq(hi) = acc[0]
  BY DEF Leq
<1>2. Bits \in Nat \ {0}
  BY BitsAssumption
<1>3. UpTo(Bits) = Domain
  <2>1. \A v \in Domain : LowPart(v, Bits) = 0
    BY Ends
  <2> QED
    BY <2>1
<1>4. ASSUME NEW b \in 0 .. (Bits - 1)
      PROVE  LeqBit(hi, b, UpTo(b + 1)) = UpTo(b)
  <2> DEFINE P == 2^((Bits - 1) - b)
  <2>1. /\ P \in Nat \ {0} /\ Bit(hi, b) \in {0, 1} /\ LowPart(hi, b + 1) \in 0 .. (P - 1)
        /\ LowPart(hi, b) = IF Bit(hi, b) = 1 THEN P + LowPart(hi, b + 1) ELSE LowPart(hi, b + 1)
    BY OneBit
  <2>2. ASSUME NEW v \in Domain
        PROVE  /\ Bit(v, b) \in {0, 1} /\ LowPart(v, b + 1) \in 0 .. (P - 1)
               /\ LowPart(v, b) = IF Bit(v, b) = 1 THEN P + LowPart(v, b + 1) ELSE LowPart(v, b + 1)
    BY OneBit
  <2> HIDE DEF P
  <2>3. ASSUME NEW v \in Domain
        PROVE  v \in LeqBit(hi, b, UpTo(b + 1)) <=> v \in UpTo(b)
    <3>1. CASE Bit(hi, b) = 1
      <4>1. v \in LeqBit(hi, b, UpTo(b + 1)) <=>
              Bit(v, b) = 0 \/ LowPart(v, b + 1) <= LowPart(hi, b + 1)
        BY <3>1 DEF LeqBit, Literal
      <4>2. v \in UpTo(b) <=> LowPart(v, b) <= LowPart(hi, b)
        OBVIOUS
      <4> HIDE DEF UpTo
      <4> QED
        BY <2>1, <2>2, <3>1, <4>1, <4>2
    <3>2. CASE Bit(hi, b) = 0
      <4>1. v \in LeqBit(hi, b, UpTo(b + 1)) <=>
              Bit(v, b) = 0 /\ LowPart(v, b + 1) <= LowPart(hi, b + 1)
        BY <3>2 DEF LeqBit, Literal
      <4>2. v \in UpTo(b) <=> LowPart(v, b) <= LowPart(hi, b)
        OBVIOUS
      <4> HIDE DEF UpTo
      <4> QED
        BY <2>1, <2>2, <3>2, <4>1, <4>2
    <3> QED
      BY <2>1, <3>1, <3>2
  <2>4. LeqBit(hi, b, UpTo(b + 1)) \subseteq Domain
    BY DEF LeqBit, Literal
  <2> QED
    BY <2>3, <2>4
<1>5. closed = Loop(closed)
  <2>1. ASSUME NEW b \in 0 .. Bits PROVE closed[b] = Loop(closed)[b]
    <3> HIDE DEF UpTo
    <3>1. CASE b = Bits
      BY <1>2, <1>3, <3>1
    <3>2. CASE b # Bits
      <4>1. b \in 0 .. (Bits - 1) /\ b + 1 \in 0 .. Bits
        BY <1>2, <3>2
      <4> QED
        BY <1>4, <3>2, <4>1
    <3> QED
      BY <3>1, <3>2
  <2> HIDE DEF UpTo
  <2> QED
    BY <2>1
<1>6. acc = Loop(acc)
  <2> HIDE DEF closed
  <2>1. \E g : g = Loop(g)
    BY <1>5
  <2> QED
    BY <2>1
<1> HIDE DEF acc
<1>7. ASSUME NEW b \in 0 .. Bits PROVE acc[b] = UpTo(b)
  <2> DEFINE T == {n \in 0 .. Bits : acc[n] # UpTo(n)}
  <2> HIDE DEF UpTo
  <2>1. ASSUME T # {} PROVE FALSE
    <3>1. T \in SUBSET Nat /\ \A n \in T : n <= Bits
      BY <1>2
    <3>2. PICK n \in T : \A m \in T : m <= n
      BY <1>2, <2>1, <3>1, GreatestNat
    <3>3. n \in 0 .. Bits /\ acc[n] # UpTo(n)
      BY <3>2
    <3>4. n # Bits
      BY <1>2, <1>3, <1>6, <3>3
    <3>5. n \in 0 .. (Bits - 1) /\ n + 1 \in 0 .. Bits /\ ~(n + 1 <= n)
      BY <1>2, <3>3, <3>4
    <3>6. acc[n + 1] = UpTo(n + 1)
      BY <3>2, <3>5
    <3>7. acc[n] = LeqBit(hi, n, acc[n + 1])
      BY <1>6, <3>3, <3>4
    <3> QED
      BY <1>4, <3>3, <3>5, <3>6, <3>7
  <2> QED
    BY <2>1
<1>8. acc[0] = UpTo(0)
  BY <1>2, <1>7
<1> QED
  BY <1>1, <1>8, Ends

\* LowerRange (header.rs, range), the shortcuts for unconstrained bounds
\* included.
LEMMA RangeExact ==
  ASSUME NEW lo \in Domain, NEW hi \in Domain
  PROVE  LowerRange(lo, hi) = {v \in Domain : lo <= v /\ v <= hi}
<1>1. /\ lo \in Nat /\ hi \in Nat /\ hi <= domain_max /\ domain_max \in Nat
      /\ \A v \in Domain : v \in Nat /\ v <= domain_max
  BY DomainNumbers, FieldSize
<1>2. /\ \A v : v \in Geq(lo) <=> v \in Domain /\ lo <= v
      /\ \A v : v \in Leq(hi) <=> v \in Domain /\ v <= hi
  BY GeqExact, LeqExact
<1> DEFINE above == IF lo = 0 THEN Domain ELSE Geq(lo)
           below == IF hi >= domain_max THEN Domain ELSE Leq(hi)
<1>3. LowerRange(lo, hi) = IF lo > hi THEN {} ELSE above \cap below
  BY DEF LowerRange
<1>4. ASSUME NEW v
      PROVE  /\ v \in above <=> v \in Domain /\ lo <= v
             /\ v \in below <=> v \in Domain /\ v <= hi
  <2>1. v \in above <=> v \in Domain /\ lo <= v
    <3>1. CASE lo = 0
      <4>1. v \in Domain => lo <= v
        <5>1. v \in Domain => v \in Nat
          BY <1>1
        <5> QED
          BY <3>1, <5>1
      <4>2. above = Domain
        BY <3>1
      <4> HIDE DEF above
      <4> QED
        BY <4>1, <4>2
    <3>2. CASE lo # 0
      BY <1>2, <3>2
    <3> QED
      BY <3>1, <3>2
  <2>2. v \in below <=> v \in Domain /\ v <= hi
    <3>1. CASE hi >= domain_max
      <4>1. v \in Domain => v <= hi
        BY <1>1, <3>1
      <4> QED
        BY <3>1, <4>1
    <3>2. CASE ~(hi >= domain_max)
      BY <1>2, <3>2
    <3> QED
      BY <3>1, <3>2
  <2> QED
    BY <2>1, <2>2
<1> HIDE DEF above, below
<1>5. ASSUME NEW v PROVE v \in LowerRange(lo, hi) <=> v \in Domain /\ lo <= v /\ v <= hi
  <2>1. CASE lo > hi
    <3>1. v \in Domain /\ lo <= v => ~(v <= hi)
      BY <1>1, <2>1
    <3> QED
      BY <1>3, <2>1, <3>1
  <2>2. CASE ~(lo > hi)
    BY <1>3, <1>4, <2>2
  <2> QED
    BY <2>1, <2>2
<1> QED
  BY <1>5

\* A canonical set is lowered to the values of its ranges.
LEMMA LowerExact ==
  ASSUME NEW set \in Seq(Span), Canonical(set)
  PROVE  Lower(set) = Values(set)
<1>1. CASE IsFull(set)
  BY <1>1, FullIsOneRange DEF Lower
<1>2. CASE ~IsFull(set)
  <2>1. ToSet(set) = {set[k] : k \in 1 .. Len(set)}
    BY ListDomain DEF ToSet
  <2>2. Lower(set) = UNION {LowerRange(r[1], r[2]) : r \in ToSet(set)}
    BY <1>2 DEF Lower
  <2>3. ASSUME NEW v PROVE v \in Lower(set) <=> v \in Values(set)
    <3>1. v \in Lower(set) <=> \E k \in 1 .. Len(set) : v \in LowerRange(set[k][1], set[k][2])
      BY <2>1, <2>2
    <3>2. ASSUME NEW k \in 1 .. Len(set)
          PROVE  v \in LowerRange(set[k][1], set[k][2]) <=> v \in Domain /\ Within(v, set[k])
      <4>1. set[k][1] \in Domain /\ set[k][2] \in Domain
        BY RangeAt
      <4>2. LowerRange(set[k][1], set[k][2]) = {w \in Domain : set[k][1] <= w /\ w <= set[k][2]}
        BY <4>1, RangeExact
      <4> QED
        BY <4>2 DEF Within
    <3>3. v \in Values(set) <=> v \in Domain /\ \E k \in 1 .. Len(set) : Within(v, set[k])
      BY InValues
    <3> QED
      BY <3>1, <3>2, <3>3
  <2> QED
    BY <2>3
<1> QED
  BY <1>1, <1>2

(***************************************************************************)
(* Columns.                                                                *)
(***************************************************************************)
\* A set of values is finite.
LEMMA FieldFinite == \A S \in SUBSET Domain : IsFiniteSet(S)
<1>1. IsFiniteSet(Domain)
  BY FieldSize, FS_Interval DEF Domain
<1> QED
  BY <1>1, FS_Subset

\* A text cut from the terms of U.
Shows(text, form, base, U) ==
  LET named == UNION ToSet(text.terms)
  IN /\ text.form = form /\ text.base = base /\ text.hidden \in Nat
     /\ named \subseteq U
     /\ text.hidden = 0 => named = U
     /\ Cardinality(U \ named) >= text.hidden

\* A list cut at a cap: what is shown is part of the set, what is hidden is not
\* shown and is at least as many values as terms.
LEMMA Cut ==
  ASSUME NEW terms, NEW U \in SUBSET Domain, Terms(terms, U), NEW style \in StyleType,
         NEW form, NEW base
  PROVE  Shows(join(form, base, terms, style), form, base, U)
<1> DEFINE n == Len(terms)
           shown == Min({Len(terms), style.max_terms})
           part == SubSeq(terms, 1, shown)
           text == join(form, base, terms, style)
           named == UNION ToSet(text.terms)
<1>1. n \in Nat /\ style.max_terms \in Nat /\ terms \in Seq(SUBSET Nat)
  BY DEF Terms, StyleType
<1>2. shown \in 0 .. n
  <2> DEFINE both == {n, style.max_terms}
  <2>1. both \in SUBSET Nat /\ both # {} /\ n \in both
    BY <1>1
  <2>2. shown = Min(both)
    OBVIOUS
  <2> HIDE DEF both, shown
  <2>3. shown \in both /\ shown <= n
    BY <2>1, <2>2, LeastNumber
  <2> QED
    BY <1>1, <2>1, <2>3
<1>3. text.form = form /\ text.base = base /\ text.terms = part /\ text.hidden = n - shown
  BY DEF join
<1> HIDE DEF shown
<1>4. Len(part) = shown /\ DOMAIN part = 1 .. shown /\ \A k \in 1 .. shown : part[k] = terms[k]
  BY <1>1, <1>2
<1> HIDE DEF part, text
<1>5. \A v : v \in named <=> \E k \in 1 .. shown : v \in terms[k]
  <2>1. ToSet(text.terms) = {part[k] : k \in 1 .. shown}
    BY <1>3, <1>4 DEF ToSet
  <2> QED
    BY <1>4, <2>1
<1> HIDE DEF named, n
<1>6. \A k \in 1 .. shown : k \in 1 .. n
  BY <1>1, <1>2
<1>7. \A v : v \in U <=> \E k \in 1 .. n : v \in terms[k]
  BY DEF Terms, n
<1>8. named \subseteq U
  BY <1>5, <1>6, <1>7
<1>9. text.hidden = 0 => named = U
  <2>1. text.hidden = 0 => shown = n
    BY <1>1, <1>2, <1>3
  <2> QED
    BY <1>5, <1>7, <2>1
<1>10. Cardinality(U \ named) >= text.hidden
  <2> DEFINE rest == (shown + 1) .. n
             f == [k \in rest |-> CHOOSE v : v \in terms[k]]
  <2>1. \A k \in rest : k \in 1 .. n /\ k \notin 1 .. shown
    BY <1>1, <1>2
  <2>2. \A k \in 1 .. n : terms[k] # {}
    BY DEF Terms, n
  <2>3. \A k \in rest : f[k] \in terms[k]
    BY <2>1, <2>2
  <2>4. \A h, k \in 1 .. n : \A v : h # k /\ v \in terms[h] => v \notin terms[k]
    BY DEF Terms, n
  <2>5. ASSUME NEW k \in rest PROVE f[k] \in U \ named
    <3>1. f[k] \in terms[k] /\ k \in 1 .. n /\ k \notin 1 .. shown
      BY <2>1, <2>3
    <3>2. f[k] \in U
      BY <1>7, <3>1
    <3>3. \A l \in 1 .. shown : f[k] \notin terms[l]
      BY <1>6, <2>4, <3>1
    <3> QED
      BY <1>5, <3>2, <3>3
  <2>6. \A h, k \in rest : f[h] = f[k] => h = k
    <3> HIDE DEF f
    <3> QED
      BY <2>1, <2>3, <2>4
  <2>7. f \in Injection(rest, U \ named)
    <3>1. f \in [rest -> U \ named]
      BY <2>5
    <3> QED
      BY <2>6, <3>1 DEF Injection, IsInjective
  <2>8. IsFiniteSet(U \ named)
    BY FieldFinite
  <2> HIDE DEF f
  <2>9. Cardinality(rest) <= Cardinality(U \ named)
    BY <2>7, <2>8, FS_Injection
  <2>10. Cardinality(rest) = n - shown
    <3>1. shown + 1 \in Int /\ n \in Int
      BY <1>1, <1>2
    <3>2. Cardinality(rest) = IF shown + 1 > n THEN 0 ELSE n - (shown + 1) + 1
      BY <3>1, FS_Interval
    <3> HIDE DEF rest
    <3> QED
      BY <1>1, <1>2, <3>2
  <2>11. Cardinality(U \ named) \in Nat
    BY <2>8, FS_CardinalityType
  <2> QED
    BY <1>1, <1>2, <1>3, <2>9, <2>10, <2>11
<1>11. text.hidden \in Nat
  BY <1>1, <1>2, <1>3
<1> QED
  BY <1>3, <1>8, <1>9, <1>10, <1>11 DEF Shows, text, named
\* A list of terms reads back as their union.
LEMMA ListReads ==
  ASSUME NEW text, NEW S, Shows(text, "list", {}, S)
  PROVE  ReadsBack(text, S, Bits)
<1> DEFINE named == UNION ToSet(text.terms)
<1>1. /\ text.form = "list" /\ text.hidden \in Nat
      /\ named \subseteq S
      /\ text.hidden = 0 => named = S
      /\ Cardinality(S \ named) >= text.hidden
  BY DEF Shows
<1>2. Understood(text, Bits) = named
  BY <1>1 DEF Understood
<1> HIDE DEF named
<1>3. CASE text.hidden = 0
  BY <1>1, <1>2, <1>3 DEF ReadsBack
<1>4. CASE text.hidden > 0
  BY <1>1, <1>2, <1>4 DEF ReadsBack
<1> QED
  BY <1>1, <1>3, <1>4

\* A list cut at the style's cap still reads back.
LEMMA ListReadsBack ==
  ASSUME NEW terms, NEW S \in SUBSET Domain, Terms(terms, S), NEW style \in StyleType
  PROVE  ReadsBack(join("list", {}, terms, style), S, Bits)
<1>1. Shows(join("list", {}, terms, style), "list", {}, S)
  BY Cut
<1> QED
  BY <1>1, ListReads

\* A text that takes terms away reads back as what they leave of its base.
LEMMA RestReads ==
  ASSUME NEW text, NEW base, NEW S \in SUBSET base, NEW form \in {"except", "not"},
         NEW shown, Shows(text, form, shown, base \ S),
         IF form = "not" THEN base = Domain ELSE base = shown
  PROVE  ReadsBack(text, S, Bits)
<1> DEFINE named == UNION ToSet(text.terms)
<1>1. /\ text.form = form /\ text.base = shown /\ text.hidden \in Nat
      /\ named \subseteq base \ S
      /\ text.hidden = 0 => named = base \ S
      /\ Cardinality((base \ S) \ named) >= text.hidden
  BY DEF Shows
<1>2. Understood(text, Bits) = base \ named
  <2>1. CASE form = "not"
    BY <1>1, <2>1 DEF Understood, Domain, domain_max
  <2>2. CASE form = "except"
    BY <1>1, <2>2 DEF Understood
  <2> QED
    BY <2>1, <2>2
<1> HIDE DEF named
<1>3. (base \ named) \ S = (base \ S) \ named /\ S \subseteq base \ named
  BY <1>1
<1>4. CASE text.hidden = 0
  <2>1. base \ named = S
    BY <1>1, <1>4
  <2> QED
    BY <1>1, <1>2, <1>4, <2>1 DEF ReadsBack
<1>5. CASE text.hidden > 0
  <2>1. S \subseteq Understood(text, Bits) /\ Cardinality(Understood(text, Bits) \ S) >= text.hidden
    BY <1>1, <1>2, <1>3
  <2>2. text.form \in {"except", "not"} /\ text.form # "size" /\ text.form # "list" /\ text.hidden # 0
    BY <1>1, <1>5
  <2> QED
    BY <1>5, <2>1, <2>2 DEF ReadsBack
<1> QED
  BY <1>1, <1>4, <1>5

\* The field as the columns write it; it has a value.
LEMMA FieldShape == Domain = 0 .. (2^Bits - 1) /\ 0 \in Domain
<1>1. Domain = 0 .. (2^Bits - 1)
  BY DEF Domain, domain_max
<1>2. 0 \in Domain
  BY FieldSize DEF Domain
<1> QED
  BY <1>1, <1>2

\* The lists a set of the field is shown as, and the block around it.
LEMMA FieldTerms ==
  ASSUME NEW S \in SUBSET Domain
  PROVE  /\ Terms(PrefixesOf(S, Bits), S) /\ Terms(RangesOf(S), S) /\ Terms(Singles(S), S)
         /\ S # {} => S \subseteq Enclosing(S, Bits) /\ Enclosing(S, Bits) \subseteq Domain
<1>1. S \in SUBSET (0 .. (2^Bits - 1)) /\ S \in SUBSET (0 .. domain_max) /\ domain_max \in Nat
  BY FieldShape, FieldSize DEF Domain
<1>2. S \in SUBSET Nat /\ IsFiniteSet(S)
  BY DomainNumbers, FieldFinite
<1>3. Terms(PrefixesOf(S, Bits), S)
  BY <1>1, FieldPowers, PrefixTerms
<1>4. Terms(RangesOf(S), S)
  BY <1>1, RangeTerms
<1>5. Terms(Singles(S), S)
  BY <1>2, SingleTerms
<1>6. S # {} => S \subseteq Enclosing(S, Bits) /\ Enclosing(S, Bits) \subseteq Domain
  <2> SUFFICES ASSUME S # {} PROVE S \subseteq Enclosing(S, Bits) /\ Enclosing(S, Bits) \subseteq Domain
    OBVIOUS
  <2>1. S \subseteq Enclosing(S, Bits) /\ Enclosing(S, Bits) \subseteq 0 .. (2^Bits - 1)
    BY <1>1, FieldPowers, Encloses
  <2> QED
    BY <2>1, FieldShape
<1> QED
  BY <1>3, <1>4, <1>5, <1>6

\* A text of no terms: nothing, anything, and the blank of a column left out.
LEMMA BareReadsBack ==
  /\ ReadsBack(NoneText, {}, Bits)
  /\ ReadsBack(AnyText, Domain, Bits)
  /\ ReadsBack(BlankText, Domain, Bits)
<1>1. Domain = 0 .. (2^Bits - 1)
  BY FieldShape
<1> QED
  BY <1>1 DEF ReadsBack, Understood, NoneText, AnyText, BlankText

\* addr_set: prefixes, or the enclosing one except its holes.
LEMMA AddressesReadBack ==
  ASSUME NEW S \in SUBSET Domain, NEW style \in StyleType
  PROVE  ReadsBack(addr_set(S, Bits, style), S, Bits)
<1> DEFINE direct == PrefixesOf(S, Bits)
           enclosing == Enclosing(S, Bits)
           holes == PrefixesOf(enclosing \ S, Bits)
<1>1. Domain = 0 .. (2^Bits - 1)
  BY FieldShape
<1>2. CASE S = {}
  <2>1. S # 0 .. (2^Bits - 1)
    BY <1>1, <1>2, FieldShape
  <2>2. addr_set(S, Bits, style) = NoneText
    BY <1>2, <2>1 DEF addr_set
  <2> QED
    BY <1>2, <2>2, BareReadsBack
<1>3. CASE S # {} /\ S = Domain
  <2>1. addr_set(S, Bits, style) = AnyText
    BY <1>1, <1>3 DEF addr_set
  <2> QED
    BY <1>3, <2>1, BareReadsBack
<1>4. CASE S # {} /\ S # Domain
  <2>1. \/ addr_set(S, Bits, style) = join("except", enclosing, holes, style)
        \/ addr_set(S, Bits, style) = join("list", {}, direct, style)
    BY <1>1, <1>4 DEF addr_set
  <2>2. ReadsBack(join("list", {}, direct, style), S, Bits)
    BY FieldTerms, ListReadsBack
  <2>3. ReadsBack(join("except", enclosing, holes, style), S, Bits)
    <3>1. S \subseteq enclosing /\ enclosing \subseteq Domain
      BY <1>4, FieldTerms
    <3> HIDE DEF enclosing
    <3>2. Terms(holes, enclosing \ S)
      BY <3>1, FieldTerms
    <3> HIDE DEF holes
    <3>3. Shows(join("except", enclosing, holes, style), "except", enclosing, enclosing \ S)
      BY <3>1, <3>2, Cut
    <3> QED
      BY <3>1, <3>3, RestReads
  <2> QED
    BY <2>1, <2>2, <2>3
<1> QED
  BY <1>2, <1>3, <1>4

\* port_set: ranges.
LEMMA PortsReadBack ==
  ASSUME NEW S \in SUBSET Domain, NEW style \in StyleType
  PROVE  ReadsBack(port_set(S, Bits, style), S, Bits)
<1>1. Domain = 0 .. (2^Bits - 1)
  BY FieldShape
<1>2. CASE S = Domain
  BY <1>1, <1>2, BareReadsBack DEF port_set
<1>3. CASE S # Domain /\ S = {}
  BY <1>1, <1>3, BareReadsBack DEF port_set
<1>4. CASE S # Domain /\ S # {}
  BY <1>1, <1>4, FieldTerms, ListReadsBack DEF port_set
<1> QED
  BY <1>2, <1>3, <1>4

\* proto_set: names or ranges.
LEMMA ProtocolsReadBack ==
  ASSUME NEW S \in SUBSET Domain, NEW style \in StyleType
  PROVE  ReadsBack(proto_set(S, Bits, style), S, Bits)
<1>1. Domain = 0 .. (2^Bits - 1)
  BY FieldShape
<1>2. CASE S = Domain
  BY <1>1, <1>2, BareReadsBack DEF proto_set
<1>3. CASE S # Domain /\ S = {}
  BY <1>1, <1>3, BareReadsBack DEF proto_set
<1>4. CASE S # Domain /\ S # {}
  <2> DEFINE terms == IF Cardinality(S) <= style.handful THEN Singles(S) ELSE RangesOf(S)
  <2>1. proto_set(S, Bits, style) = join("list", {}, terms, style)
    BY <1>1, <1>4 DEF proto_set
  <2>2. Terms(terms, S)
    BY FieldTerms
  <2> HIDE DEF terms
  <2> QED
    BY <2>1, <2>2, ListReadsBack
<1> QED
  BY <1>2, <1>3, <1>4

\* iface_set: names, excluded names, or a size.
LEMMA InterfacesReadBack ==
  ASSUME NEW S \in SUBSET Domain, NEW style \in StyleType
  PROVE  ReadsBack(iface_set(S, Bits, style), S, Bits)
<1> DEFINE others == Domain \ S
           size == [form |-> "size", base |-> {}, terms |-> <<>>, hidden |-> Cardinality(S)]
<1>1. Domain = 0 .. (2^Bits - 1)
  BY FieldShape
<1>2. CASE others = {}
  <2>1. S = Domain /\ S # {}
    BY <1>2, FieldShape
  <2>2. iface_set(S, Bits, style) = BlankText
    BY <1>1, <1>2, <2>1 DEF iface_set
  <2> QED
    BY <2>1, <2>2, BareReadsBack
<1>3. CASE others # {} /\ S = {}
  <2>1. iface_set(S, Bits, style) = NoneText
    BY <1>1, <1>3 DEF iface_set
  <2> QED
    BY <1>3, <2>1, BareReadsBack
<1>4. CASE others # {} /\ S # {}
  <2>1. \/ iface_set(S, Bits, style) = join("list", {}, Singles(S), style)
        \/ iface_set(S, Bits, style) = join("not", {}, Singles(others), style)
        \/ iface_set(S, Bits, style) = size
    BY <1>1, <1>4 DEF iface_set
  <2>2. ReadsBack(join("list", {}, Singles(S), style), S, Bits)
    BY FieldTerms, ListReadsBack
  <2>3. ReadsBack(join("not", {}, Singles(others), style), S, Bits)
    <3>1. Terms(Singles(Domain \ S), Domain \ S)
      BY FieldTerms
    <3>2. Shows(join("not", {}, Singles(Domain \ S), style), "not", {}, Domain \ S)
      BY <3>1, Cut
    <3> QED
      BY <3>2, RestReads
  <2>4. ReadsBack(size, S, Bits)
    BY DEF ReadsBack
  <2> QED
    BY <2>1, <2>2, <2>3, <2>4
<1> QED
  BY <1>2, <1>3, <1>4

(***************************************************************************)
(* The theorems.                                                           *)
(***************************************************************************)
\* The strengthened invariant holds throughout every operation.
THEOREM Inductive == Spec => []IInv
<1>1. IInv /\ [Next]_vars => IInv'
  <2> SUFFICES ASSUME IInv, [Next]_vars PROVE IInv'
    OBVIOUS
  <2>1. CASE StartMerge
    BY <2>1, StartMergeInv
  <2>2. CASE MergeRange
    BY <2>2, MergeRangeInv
  <2>3. CASE EndMerge
    BY <2>3, EndMergeInv
  <2>4. CASE StartIntersect
    BY <2>4, StartIntersectInv
  <2>5. CASE SweepStep
    BY <2>5, SweepStepInv
  <2>6. CASE EndSweep
    BY <2>6, EndSweepInv
  <2>7. CASE StartComplement
    BY <2>7, StartComplementInv
  <2>8. CASE ComplementRange
    BY <2>8, ComplementRangeInv
  <2>9. CASE EndComplement
    BY <2>9, EndComplementInv
  <2>10. CASE StartPrefixes
    BY <2>10, StartPrefixesInv
  <2>11. CASE PrefixBlock
    BY <2>11, PrefixBlockInv
  <2>12. CASE EndPrefixes
    BY <2>12, EndPrefixesInv
  <2>13. CASE UNCHANGED vars
    BY <2>13, StutterInv
  <2> QED
    BY <2>1, <2>2, <2>3, <2>4, <2>5, <2>6, <2>7, <2>8, <2>9, <2>10, <2>11, <2>12, <2>13 DEF Next
<1> QED
  BY <1>1, InitInv, PTL DEF Spec

\* The cursors stay within the lists, and what is produced lies in the field.
THEOREM TypeCorrect == Spec => []TypeOK
<1>1. IInv => TypeOK
  BY DEF IInv, Shape, TypeOK
<1> QED
  BY <1>1, Inductive, PTL

\* Every operation denotes what its name says (intervals.rs), for every width of
\* the field and every operand.
THEOREM ExactResult == Spec => []ResultIsExact
<1>1. IInv => ResultIsExact
  BY DEF IInv, Finished, Exact, ResultIsExact, IsSetOperation
<1> QED
  BY <1>1, Inductive, PTL

\* Every operation returns the canonical form, and is_full recognises the whole
\* field by it, for every width of the field and every operand.
THEOREM CanonicalResult == Spec => []ResultIsCanonical
<1>1. IInv => ResultIsCanonical
  <2> SUFFICES ASSUME IInv, IsSetOperation PROVE Canonical(out) /\ (IsFull(out) <=> Values(out) = Domain)
    BY DEF ResultIsCanonical
  <2>1. out \in Seq(Span) /\ Canonical(out)
    BY DEF IInv, Shape, IsSetOperation
  <2> QED
    BY <2>1, FullIsOneRange
<1> QED
  BY <1>1, Inductive, PTL

\* The prefixes of a range are exactly the maximal aligned blocks in it, in order
\* (range_to_prefixes), for every width of the field and every range.
THEOREM PrefixCover == Spec => []PrefixesAreMaximalBlocks
<1>1. Init => Covering
  BY DEF Init, Covering
<1>2. IInv /\ Covering /\ [Next]_vars => Covering'
  BY CoveringStart, CoveringBlock, CoveringEnd, CoveringOther
<1> QED
  BY <1>1, <1>2, CoveringSuffices, Inductive, PTL DEF Spec

\* The diagram a result is lowered to (header.rs, geq, leq, range, set) admits
\* exactly the values of the set, for every width of the field.
THEOREM ExactLowering == Spec => []LoweringIsExact
<1>1. IInv => LoweringIsExact
  <2> SUFFICES ASSUME IInv, IsSetOperation PROVE Lower(out) = Values(out)
    BY DEF LoweringIsExact
  <2>1. out \in Seq(Span) /\ Canonical(out)
    BY DEF IInv, Shape, IsSetOperation
  <2> QED
    BY <2>1, LowerExact
<1> QED
  BY <1>1, Inductive, PTL

\* A reader of any of the four columns takes from it the set it was made from.
THEOREM ColumnsExact == Spec => []ColumnsReadBack
<1>1. IInv => ColumnsReadBack
  <2> SUFFICES ASSUME IInv, pc = "done", op = "complement", NEW style \in Styles,
                      NEW text \in {addr_set(Values(out), Bits, style), port_set(Values(out), Bits, style),
                                    proto_set(Values(out), Bits, style), iface_set(Values(out), Bits, style)}
               PROVE  ReadsBack(text, Values(out), Bits)
    BY DEF ColumnsReadBack
  <2>1. out \in Seq(Span)
    BY DEF IInv, Shape
  <2>2. Values(out) \in SUBSET Domain
    BY <2>1, ValuesInField
  <2>3. style \in StyleType
    BY StylesAssumption
  <2> QED
    BY <2>2, <2>3, AddressesReadBack, PortsReadBack, ProtocolsReadBack, InterfacesReadBack
<1> QED
  BY <1>1, Inductive, PTL
=============================================================================
