------------------------- MODULE RevisionDiffProofs -------------------------
(***************************************************************************)
(* Proofs about RevisionDiff, for every pair of revisions, every set of    *)
(* predicates and whatever they denote.                                    *)
(***************************************************************************)
EXTENDS RevisionDiff, ChainModelProofs

(***************************************************************************)
(* Lists of numbers.                                                       *)
(***************************************************************************)
Decreasing(s) == \A j, k \in DOMAIN s : j < k => s[j] > s[k]

LEMMA ReversedNumbers ==
  ASSUME NEW S \in SUBSET Int, NEW s \in Seq(S), Increasing(s)
  PROVE  Reverse(s) \in Seq(S) /\ ToSet(Reverse(s)) = ToSet(s) /\ Decreasing(Reverse(s))
<1> DEFINE n == Len(s)
           r == Reverse(s)
           at(i) == (n - i) + 1
<1>1. n \in Nat /\ DOMAIN s = 1 .. n /\ \A k \in 1 .. n : s[k] \in S
  OBVIOUS
<1>2. \A i \in 1 .. n : at(i) \in 1 .. n /\ at(at(i)) = i
  BY <1>1
<1>3. r = [i \in 1 .. n |-> s[at(i)]]
  BY DEF Reverse
<1>4. DOMAIN r = 1 .. n /\ \A i \in 1 .. n : r[i] = s[at(i)]
  BY <1>3
<1>5. r \in [1 .. n -> S]
  BY <1>1, <1>2, <1>3
<1>6. r \in Seq(S)
  BY <1>1, <1>5
<1> HIDE DEF r, n
<1>7. ToSet(r) = ToSet(s)
  BY <1>1, <1>2, <1>4 DEF ToSet
<1>8. ASSUME NEW j \in 1 .. n, NEW k \in 1 .. n, j < k PROVE r[j] > r[k]
  <2>1. at(j) \in 1 .. n /\ at(k) \in 1 .. n /\ at(k) < at(j)
    BY <1>1, <1>2, <1>8
  <2>2. s[at(k)] < s[at(j)] /\ s[at(k)] \in Int /\ s[at(j)] \in Int
    BY <1>1, <2>1 DEF Increasing
  <2> QED
    BY <1>4, <2>2
<1> QED
  BY <1>4, <1>6, <1>7, <1>8 DEF Decreasing, r

\* The last of a decreasing list is its least, and the front is the others.
LEMMA PoppedNumber ==
  ASSUME NEW S \in SUBSET Int, NEW s \in Seq(S), Decreasing(s), s # <<>>
  PROVE  /\ Last(s) \in ToSet(s) /\ Front(s) \in Seq(S) /\ Decreasing(Front(s))
         /\ ToSet(Front(s)) = ToSet(s) \ {Last(s)}
         /\ \A x \in ToSet(s) : x = Last(s) \/ Last(s) < x
<1> DEFINE n == Len(s)
           f == Front(s)
<1>1. n \in Nat /\ n # 0 /\ DOMAIN s = 1 .. n /\ \A k \in 1 .. n : s[k] \in S
  BY EmptySeq
<1>2. /\ f \in Seq(S) /\ Len(f) = n - 1 /\ \A k \in 1 .. (n - 1) : f[k] = s[k]
  <2>1. 1 \in 1 .. n + 1 /\ n - 1 \in 1 - 1 .. n
    BY <1>1
  <2> QED
    BY <1>1, <2>1, SubSeqProperties DEF Front
<1>3. DOMAIN f = 1 .. (n - 1)
  BY <1>2
<1>4. Last(s) = s[n] /\ n \in 1 .. n
  BY <1>1 DEF Last
<1> HIDE DEF f, n
<1>5. \A k \in 1 .. n : k \in 1 .. (n - 1) \/ k = n
  BY <1>1
<1>6. \A k \in 1 .. (n - 1) : k \in 1 .. n /\ s[n] < s[k]
  BY <1>1 DEF Decreasing
<1>7. Decreasing(f)
  BY <1>1, <1>2, <1>3, <1>6 DEF Decreasing
<1>8. ToSet(s) = {s[k] : k \in 1 .. n} /\ ToSet(f) = {s[k] : k \in 1 .. (n - 1)}
  BY <1>1, <1>2, <1>3 DEF ToSet
<1>9. \A k \in 1 .. (n - 1) : s[k] # s[n]
  <2>1. \A k \in 1 .. (n - 1) : s[k] \in Int /\ s[n] \in Int
    BY <1>1, <1>4, <1>6
  <2> QED
    BY <1>6, <2>1
<1>10. ToSet(f) = ToSet(s) \ {Last(s)}
  BY <1>4, <1>5, <1>6, <1>8, <1>9
<1> QED
  BY <1>2, <1>4, <1>5, <1>6, <1>7, <1>8, <1>10 DEF f

\* Taking one item out of a list.
LEMMA ItemRemoved ==
  ASSUME NEW S, NEW s \in Seq(S), NEW i \in 1 .. Len(s)
  PROVE  /\ RemoveAt(s, i) \in Seq(S) /\ Len(RemoveAt(s, i)) = Len(s) - 1
         /\ \A k \in 1 .. (Len(s) - 1) : RemoveAt(s, i)[k] = IF k < i THEN s[k] ELSE s[k + 1]
<1> DEFINE n == Len(s)
<1>1. n \in Nat /\ i \in 1 .. n /\ \A k \in 1 .. n : s[k] \in S
  OBVIOUS
<1> DEFINE left == SubSeq(s, 1, i - 1)
           right == SubSeq(s, i + 1, n)
           r == RemoveAt(s, i)
<1>2. r = left \o right
  BY DEF RemoveAt
<1>3. left \in Seq(S) /\ Len(left) = i - 1 /\ \A k \in 1 .. (i - 1) : left[k] = s[k]
  <2>1. 1 \in 1 .. (n + 1) /\ i - 1 \in (1 - 1) .. n
    BY <1>1
  <2> QED
    BY <1>1, <2>1, SubSeqProperties
<1>4. right \in Seq(S) /\ Len(right) = n - i /\ \A k \in 1 .. (n - i) : right[k] = s[i + k]
  <2> HIDE DEF n
  <2>1. i + 1 \in Int /\ n \in Int /\ \A k \in (i + 1) .. n : s[k] \in S
    BY <1>1
  <2> DEFINE from == i + 1
  <2>2. /\ right \in Seq(S) /\ Len(right) = IF from <= n THEN (n - from) + 1 ELSE 0
        /\ \A k \in 1 .. ((n - from) + 1) : right[k] = s[(from + k) - 1]
    BY <2>1, SubSeqProperties
  <2>3. (n - from) + 1 = n - i /\ (~(from <= n) => n - i = 0)
        /\ \A k \in 1 .. (n - i) : (from + k) - 1 = i + k
    BY <1>1
  <2> HIDE DEF from
  <2> QED
    BY <2>2, <2>3
<1> HIDE DEF left, right, r, n
<1>5. /\ r \in Seq(S) /\ Len(r) = n - 1
      /\ \A k \in 1 .. (n - 1) : r[k] = IF k < i THEN s[k] ELSE s[k + 1]
  <2>1. /\ r \in Seq(S) /\ Len(r) = Len(left) + Len(right)
        /\ \A k \in 1 .. (Len(left) + Len(right)) :
             r[k] = IF k <= Len(left) THEN left[k] ELSE right[k - Len(left)]
    BY <1>2, <1>3, <1>4, ConcatProperties
  <2>2. Len(left) + Len(right) = n - 1
    BY <1>1, <1>3, <1>4
  <2>3. ASSUME NEW k \in 1 .. (n - 1) PROVE r[k] = IF k < i THEN s[k] ELSE s[k + 1]
    <3>1. CASE k < i
      <4>1. k \in 1 .. (i - 1) /\ k <= Len(left)
        BY <1>1, <1>3, <3>1
      <4> QED
        BY <1>3, <2>1, <2>2, <3>1, <4>1
    <3>2. CASE ~(k < i)
      <4>1. k - (i - 1) \in 1 .. (n - i) /\ ~(k <= Len(left)) /\ i + (k - (i - 1)) = k + 1
        BY <1>1, <1>3, <3>2
      <4> QED
        BY <1>3, <1>4, <2>1, <2>2, <3>2, <4>1
    <3> QED
      BY <3>1, <3>2
  <2> QED
    BY <2>1, <2>2, <2>3
<1> QED
  BY <1>5 DEF r, n

\* Taking a number out of an increasing list.
LEMMA NumberRemoved ==
  ASSUME NEW S \in SUBSET Int, NEW s \in Seq(S), Increasing(s), NEW e, Contains(s, e)
  PROVE  /\ RemoveFirst(s, e) \in Seq(S) /\ Increasing(RemoveFirst(s, e))
         /\ ToSet(RemoveFirst(s, e)) = ToSet(s) \ {e}
<1> DEFINE n == Len(s)
           places == {i \in 1 .. n : s[i] = e}
           at == SelectInSeq(s, LAMBDA v : v = e)
<1>1. n \in Nat /\ DOMAIN s = 1 .. n /\ \A k \in 1 .. n : s[k] \in S
  OBVIOUS
<1>2. PICK i \in 1 .. n : s[i] = e
  BY DEF Contains
<1>3. places = {i}
  <2>1. ASSUME NEW j \in 1 .. n, s[j] = s[i] PROVE j = i
    <3>1. s[i] \in Int /\ (j < i => s[j] < s[i]) /\ (i < j => s[i] < s[j])
      BY <1>1 DEF Increasing
    <3> QED
      BY <1>1, <2>1, <3>1
  <2> QED
    BY <1>2, <2>1
<1>4. at = i
  BY <1>1, <1>2, <1>3 DEF SelectInSeq, Min
<1> DEFINE r == RemoveFirst(s, e)
<1>5. r = RemoveAt(s, i)
  BY <1>2, <1>4 DEF RemoveFirst
<1> HIDE DEF r, n
<1>6. /\ r \in Seq(S) /\ Len(r) = n - 1
      /\ \A k \in 1 .. (n - 1) : r[k] = IF k < i THEN s[k] ELSE s[k + 1]
  BY <1>5, ItemRemoved DEF n
<1>7. DOMAIN r = 1 .. (n - 1)
  BY <1>1, <1>6
<1>8. Increasing(r)
  <2> SUFFICES ASSUME NEW j \in 1 .. (n - 1), NEW k \in 1 .. (n - 1), j < k PROVE r[j] < r[k]
    BY <1>7 DEF Increasing
  <2>1. j \in 1 .. n /\ k \in 1 .. n /\ j + 1 \in 1 .. n /\ k + 1 \in 1 .. n
    BY <1>1
  <2>2. \A x, y \in 1 .. n : x < y => s[x] < s[y]
    BY <1>1 DEF Increasing
  <2> QED
    BY <1>1, <1>6, <2>1, <2>2
<1>9. ToSet(r) = ToSet(s) \ {e}
  <2>1. ToSet(r) = {r[k] : k \in 1 .. (n - 1)} /\ ToSet(s) = {s[k] : k \in 1 .. n}
    BY <1>1, <1>7 DEF ToSet
  <2>2. \A j \in 1 .. n : s[j] = e <=> j = i
    BY <1>3
  <2>3. ASSUME NEW k \in 1 .. (n - 1) PROVE r[k] \in ToSet(s) \ {e}
    <3>1. k \in 1 .. n /\ k + 1 \in 1 .. n /\ (~(k < i) => k + 1 # i) /\ (k < i => k # i)
      BY <1>1
    <3> QED
      BY <1>6, <2>1, <2>2, <3>1
  <2>4. ASSUME NEW k \in 1 .. n, k # i PROVE s[k] \in ToSet(r)
    <3>1. CASE k < i
      <4>1. k \in 1 .. (n - 1)
        BY <1>1, <3>1
      <4> QED
        BY <1>6, <2>1, <3>1, <4>1
    <3>2. CASE ~(k < i)
      <4>1. k - 1 \in 1 .. (n - 1) /\ ~(k - 1 < i) /\ (k - 1) + 1 = k
        BY <1>1, <2>4, <3>2
      <4> QED
        BY <1>6, <2>1, <4>1
    <3> QED
      BY <3>1, <3>2
  <2> QED
    BY <2>1, <2>2, <2>3, <2>4
<1> QED
  BY <1>6, <1>8, <1>9 DEF r

(***************************************************************************)
(* Structural changes.                                                     *)
(***************************************************************************)
Changes(S) == [kind : ToSet(Kinds), number : S, why : Seq(Nat)]

\* A kind and a number say which change is meant.
Distinct(S) == \A x, y \in S : x.kind = y.kind /\ x.number = y.number => x = y

LEMMA KindNames ==
  ToSet(Kinds) = {"Added", "Modified", "NoLongerRedundant", "NowReachable", "NowRedundant",
                  "NowUnreachable", "Removed"}
BY DEF ToSet, Kinds

LEMMA RankType ==
  ASSUME NEW kind \in ToSet(Kinds)
  PROVE  Rank(kind) \in Int /\ Kinds[Rank(kind)] = kind
<1>1. DOMAIN Kinds = 1 .. 7
  BY DEF Kinds
<1>2. \E k \in DOMAIN Kinds : Kinds[k] = kind
  BY DEF ToSet
<1> HIDE DEF Kinds
<1>3. Rank(kind) \in DOMAIN Kinds /\ Kinds[Rank(kind)] = kind
  BY <1>2 DEF Rank
<1> QED
  BY <1>1, <1>3

\* The sorted list of a set of changes holds each of them once.
LEMMA RankedChanges ==
  ASSUME NEW N \in SUBSET Int, NEW S \in SUBSET Changes(N), IsFiniteSet(S), Distinct(S)
  PROVE  /\ Ranked(S, Precedes) \in Seq(S) /\ ToSet(Ranked(S, Precedes)) = S
         /\ Len(Ranked(S, Precedes)) = Cardinality(S)
<1> DEFINE R == {x \in S \X S : Precedes(x[1], x[2])}
           n == Cardinality(S)
           list == Ranked(S, Precedes)
<1>1. \A x, y \in S : <<x, y>> \in R <=> Precedes(x, y)
  OBVIOUS
<1>2. \A x \in S : {y \in S : Precedes(y, x)} = {y \in S : <<y, x>> \in R}
  BY <1>1
<1>3. list = [k \in 1 .. n |-> list[k]]
  <2> DEFINE E(k) == CHOOSE x \in S : Cardinality({y \in S : Precedes(y, x)}) = k - 1
  <2>1. list = [k \in 1 .. n |-> E(k)]
    BY DEF Ranked
  <2> HIDE DEF E, list
  <2> QED
    BY <2>1
<1>4. ASSUME NEW k \in 1 .. n, NEW w \in S, Cardinality({y \in S : <<y, w>> \in R}) = k - 1
      PROVE  list[k] \in S /\ Cardinality({y \in S : <<y, list[k]>> \in R}) = k - 1
  <2>1. list[k] = CHOOSE x \in S : Cardinality({y \in S : Precedes(y, x)}) = k - 1
    BY DEF Ranked
  <2>2. Cardinality({y \in S : Precedes(y, w)}) = k - 1
    BY <1>2, <1>4
  <2> HIDE DEF list
  <2>3. list[k] \in S /\ Cardinality({y \in S : Precedes(y, list[k])}) = k - 1
    BY <2>1, <2>2
  <2> QED
    BY <1>2, <2>3
<1> HIDE DEF R, list
<1>5. \A x \in S : x.number \in Int /\ x.kind \in ToSet(Kinds) /\ Rank(x.kind) \in Int
  BY RankType DEF Changes
<1>6. \A x, y \in S : x.kind # y.kind => Rank(x.kind) # Rank(y.kind)
  BY <1>5, RankType
<1>7. \A x \in S : ~Precedes(x, x)
  BY <1>5 DEF Precedes
<1>8. \A x, y \in S : x # y => Precedes(x, y) \/ Precedes(y, x)
  <2> SUFFICES ASSUME NEW x \in S, NEW y \in S, x # y PROVE Precedes(x, y) \/ Precedes(y, x)
    OBVIOUS
  <2>1. x.number # y.number \/ Rank(x.kind) # Rank(y.kind)
    BY <1>6 DEF Distinct
  <2> QED
    BY <1>5, <2>1 DEF Precedes
<1>9. \A x, y, z \in S : Precedes(x, y) /\ Precedes(y, z) => Precedes(x, z)
  BY <1>5 DEF Precedes
<1>10. /\ \A x \in S : <<x, x>> \notin R
       /\ \A x, y \in S : x # y => <<x, y>> \in R \/ <<y, x>> \in R
       /\ \A x, y, z \in S : <<x, y>> \in R /\ <<y, z>> \in R => <<x, z>> \in R
  BY <1>1, <1>7, <1>8, <1>9
<1>11. /\ n \in Nat /\ list \in [1 .. n -> S]
       /\ \A x \in S : \E k \in 1 .. n : list[k] = x
  <2>1. \A k \in 1 .. n :
          (\E x \in S : Cardinality({y \in S : <<y, x>> \in R}) = k - 1) =>
             list[k] \in S /\ Cardinality({y \in S : <<y, list[k]>> \in R}) = k - 1
    BY <1>4
  <2>2. /\ Cardinality(S) \in Nat
        /\ list \in [1 .. Cardinality(S) -> S]
        /\ \A x \in S : \E k \in 1 .. Cardinality(S) : list[k] = x
        /\ \A j, k \in 1 .. Cardinality(S) : j < k <=> <<list[j], list[k]>> \in R
    BY <1>3, <1>10, <2>1, RankedList
  <2> QED
    BY <2>2
<1> HIDE DEF n
<1>12. list \in Seq(S) /\ Len(list) = n /\ ToSet(list) = S
  BY <1>11 DEF ToSet
<1> QED
  BY <1>12 DEF list, n

(***************************************************************************)
(* The models of the two revisions, and what one pair adds to the report.  *)
(***************************************************************************)
LEMMA ResolvedChain ==
  ASSUME NEW w \in Written
  PROVE  /\ Resolved(w) \in Chain
         /\ Len(w.rules) \in Nat /\ Numbers(w) = 1 .. Len(w.rules)
         /\ Len(Resolved(w).rules) = Len(w.rules)
         /\ Resolved(w).policy = w.policy
         /\ \A i \in 1 .. Len(w.rules) :
              /\ w.rules[i] \in Content
              /\ Resolved(w).rules[i]
                   = [match |-> Denotes[w.rules[i].says], action |-> w.rules[i].action]
<1> DEFINE n == Len(w.rules)
           rule(i) == [match |-> Denotes[w.rules[i].says], action |-> w.rules[i].action]
           rules == [i \in 1 .. n |-> rule(i)]
<1>1. w.policy \in Actions /\ w.rules \in Seq(Content)
  BY DEF Written
<1>2. n \in Nat /\ DOMAIN w.rules = 1 .. n /\ \A i \in 1 .. n : w.rules[i] \in Content
  BY <1>1
<1>3. \A i \in 1 .. n : rule(i) \in Rule
  <2>1. \A i \in 1 .. n : w.rules[i].says \in Predicates /\ w.rules[i].action \in Actions
    BY <1>2 DEF Content
  <2> QED
    BY <2>1, DenotesAssumption DEF Rule
<1>4. Resolved(w) = [policy |-> w.policy, rules |-> rules]
  BY <1>2 DEF Resolved
<1> HIDE DEF rule
<1>5. rules \in Seq(Rule) /\ Len(rules) = n /\ \A i \in 1 .. n : rules[i] = rule(i)
  BY <1>2, <1>3
<1> HIDE DEF rules, n
<1>6. Resolved(w) \in Chain
  BY <1>1, <1>4, <1>5 DEF Chain
<1> QED
  BY <1>2, <1>4, <1>5, <1>6 DEF rule, n, Numbers

\* A rule with an empty effective set is covered by the rules before it.
LEMMA ShadowedModel ==
  ASSUME NEW w \in Written, NEW i \in Numbers(w)
  PROVE  /\ DOMAIN ModelOf(w).rules = 1 .. Len(w.rules)
         /\ ModelOf(w).rules[i].shadowed
              = (\A p \in Packets : p \notin ModelOf(w).rules[i].effective)
         /\ ModelOf(w).rules[i].matched = Resolved(w).rules[i].match
         /\ ModelOf(w).rules[i].effective = {p \in Packets : Decides(Resolved(w).rules, i, p)}
         /\ ModelOf(w).rules[i].redundant = AgreesWithRest(Resolved(w), i)
         /\ ModelOf(w).rules[i].shadowed =>
              CoveredBy(ModelOf(w), ModelOf(w).rules[i].matched, 1 .. (i - 1))
<1> DEFINE c == Resolved(w)
           m == ModelOf(w)
<1>1. c \in Chain /\ Len(c.rules) = Len(w.rules) /\ i \in 1 .. Len(c.rules) /\ Len(c.rules) \in Nat
  BY ResolvedChain
<1>2. m.rules = [j \in 1 .. Len(c.rules) |-> CompiledRule(c, j)]
  BY DEF ModelOf, Compile
<1>3. /\ DOMAIN m.rules = 1 .. Len(c.rules)
      /\ \A j \in 1 .. Len(c.rules) : m.rules[j] = CompiledRule(c, j)
  BY <1>2
<1> HIDE DEF c, m
<1>4. \A j \in 1 .. Len(c.rules) :
        /\ m.rules[j].matched = c.rules[j].match
        /\ m.rules[j].effective = EffectiveSet(c, j)
        /\ m.rules[j].shadowed = (EffectiveSet(c, j) = {})
        /\ m.rules[j].redundant = AgreesWithRest(c, j)
  <2> SUFFICES ASSUME NEW j \in 1 .. Len(c.rules)
               PROVE  /\ m.rules[j].matched = c.rules[j].match
                      /\ m.rules[j].effective = EffectiveSet(c, j)
                      /\ m.rules[j].shadowed = (EffectiveSet(c, j) = {})
                      /\ m.rules[j].redundant = AgreesWithRest(c, j)
    OBVIOUS
  <2>1. m.rules[j] = CompiledRule(c, j)
    BY <1>3
  <2>2. /\ m.rules[j].matched = c.rules[j].match
        /\ m.rules[j].effective = EffectiveSet(c, j)
    BY <2>1 DEF CompiledRule
  <2>3. /\ CompiledRule(c, j).shadowed = (EffectiveSet(c, j) = {})
        /\ CompiledRule(c, j).redundant = AgreesWithRest(c, j)
    BY Zenon DEF CompiledRule
  <2> QED
    BY <2>1, <2>2, <2>3, Zenon
<1>5. (EffectiveSet(c, i) = {}) = (\A p \in Packets : p \notin EffectiveSet(c, i))
  BY DEF EffectiveSet
<1>6. ASSUME EffectiveSet(c, i) = {}
      PROVE  CoveredBy(m, m.rules[i].matched, 1 .. (i - 1))
  <2> SUFFICES ASSUME NEW p \in c.rules[i].match
               PROVE  \E j \in 1 .. (i - 1) : p \in m.rules[j].matched
    BY <1>1, <1>4 DEF CoveredBy
  <2>1. p \in Packets
    BY <1>1, ChainShape
  <2>2. ~Decides(c.rules, i, p)
    BY <1>6, <2>1 DEF EffectiveSet
  <2>3. PICK j \in 1 .. (i - 1) : p \in c.rules[j].match
    BY <2>2 DEF Decides
  <2>4. j \in 1 .. Len(c.rules)
    BY <1>1
  <2> QED
    BY <1>4, <2>3, <2>4
<1>7. m.rules[i].shadowed = (\A p \in Packets : p \notin m.rules[i].effective)
  BY <1>1, <1>4, <1>5
<1>8. m.rules[i].shadowed => CoveredBy(m, m.rules[i].matched, 1 .. (i - 1))
  BY <1>1, <1>4, <1>6
<1>9. m.rules[i].effective = {p \in Packets : Decides(c.rules, i, p)}
  BY <1>1, <1>4 DEF EffectiveSet
<1> QED
  BY <1>1, <1>3, <1>4, <1>7, <1>8, <1>9 DEF c, m

\* Explaining a dead rule names rules of its own revision, and unless it
\* matches nothing they do cover it.
LEMMA ExplanationOfDead ==
  ASSUME NEW w \in Written, NEW i \in Numbers(w), ModelOf(w).rules[i].shadowed
  PROVE  /\ ExplainShadow(ModelOf(w), i) \in Seq(Nat)
         /\ ModelOf(w).rules[i].matched # {} =>
              /\ ExplainShadow(ModelOf(w), i) # <<>>
              /\ CoveredBy(ModelOf(w), ModelOf(w).rules[i].matched,
                           ToSet(ExplainShadow(ModelOf(w), i)))
<1> DEFINE m == ModelOf(w)
           why == ExplainShadow(m, i)
           n == Len(w.rules)
<1>1. n \in Nat /\ i \in 1 .. n /\ DOMAIN m.rules = 1 .. n
      /\ CoveredBy(m, m.rules[i].matched, 1 .. (i - 1))
  BY ResolvedChain, ShadowedModel
<1>2. CASE m.rules[i].matched = {}
  <2>1. why = <<>>
    BY <1>2 DEF ExplainShadow
  <2> QED
    BY <1>2, <2>1
<1>3. CASE m.rules[i].matched # {}
  <2> HIDE DEF m, n
  <2>1. /\ why \in Seq(1 .. (i - 1)) /\ Len(why) > 0
        /\ CoveredBy(m, m.rules[i].matched, NamedBy(why))
    BY <1>1, <1>3, ExplanationExact
  <2>2. NamedBy(why) = ToSet(why)
    BY DEF NamedBy, ToSet
  <2> HIDE DEF why
  <2>3. why \in Seq(Nat)
    <3>1. \A k \in 1 .. Len(why) : why[k] \in 1 .. (i - 1) /\ i \in Int
      BY <1>1, <2>1
    <3> QED
      BY <2>1, <3>1
  <2>4. why # <<>>
    BY <2>1, EmptySeq
  <2> QED
    BY <2>1, <2>2, <2>3, <2>4 DEF m, why
<1> QED
  BY <1>2, <1>3

\* What a pair of rules adds to the report, as a set.
Reachability(b, h, bm, hm) ==
  {c \in {Change("NowUnreachable", h, ExplainShadow(hm, h))} :
     ~bm.rules[b].shadowed /\ hm.rules[h].shadowed}
  \cup {c \in {Change("NowReachable", h, ExplainShadow(bm, b))} :
     bm.rules[b].shadowed /\ ~hm.rules[h].shadowed}

Redundancy(b, h, bm, hm) ==
  {c \in {Change("NowRedundant", h, <<>>)} :
     /\ ~bm.rules[b].shadowed /\ ~hm.rules[h].shadowed
     /\ ~bm.rules[b].redundant /\ hm.rules[h].redundant}
  \cup {c \in {Change("NoLongerRedundant", h, <<>>)} :
     /\ ~bm.rules[b].shadowed /\ ~hm.rules[h].shadowed
     /\ bm.rules[b].redundant /\ ~hm.rules[h].redundant}

Status(b, h, bm, hm) == Reachability(b, h, bm, hm) \cup Redundancy(b, h, bm, hm)

LEMMA OneOrNone ==
  ASSUME NEW S, NEW x \in S
  PROVE  /\ <<>> \in Seq(S) /\ ToSet(<<>>) = {}
         /\ <<x>> \in Seq(S) /\ ToSet(<<x>>) = {x}
<1>1. ToSet(<<>>) = {}
  BY DEF ToSet
<1>2. DOMAIN <<x>> = {1} /\ <<x>>[1] = x
  OBVIOUS
<1>3. ToSet(<<x>>) = {x}
  BY <1>2 DEF ToSet
<1> QED
  BY <1>1, <1>3

LEMMA StatusReported ==
  ASSUME NEW v \in Written, NEW w \in Written, NEW b \in Numbers(v), NEW h \in Numbers(w)
  PROVE  LET bm == ModelOf(v)
             hm == ModelOf(w)
             reported == ReachabilityChange(b, h, bm, hm) \o RedundancyChange(b, h, bm, hm)
         IN  /\ ReachabilityChange(b, h, bm, hm) \in Seq(Changes(Numbers(w)))
             /\ RedundancyChange(b, h, bm, hm) \in Seq(Changes(Numbers(w)))
             /\ reported \in Seq(Changes(Numbers(w)))
             /\ ToSet(reported) = Status(b, h, bm, hm)
             /\ Status(b, h, bm, hm) \subseteq Changes(Numbers(w))
             /\ \A x \in Status(b, h, bm, hm) :
                  /\ x.number = h
                  /\ x.kind \in {"NowUnreachable", "NowReachable", "NowRedundant", "NoLongerRedundant"}
             /\ Distinct(Status(b, h, bm, hm))
<1> DEFINE bm == ModelOf(v)
           hm == ModelOf(w)
           S == Changes(Numbers(w))
           bs == bm.rules[b].shadowed
           hs == hm.rules[h].shadowed
           reach == ReachabilityChange(b, h, bm, hm)
           redun == RedundancyChange(b, h, bm, hm)
           dies == Change("NowUnreachable", h, ExplainShadow(hm, h))
           wakes == Change("NowReachable", h, ExplainShadow(bm, b))
           idles == Change("NowRedundant", h, <<>>)
           works == Change("NoLongerRedundant", h, <<>>)
<1>1. idles \in S /\ works \in S
  BY KindNames DEF Change, Changes
<1>2. hs => dies \in S
  BY KindNames, ExplanationOfDead DEF Change, Changes
<1>3. bs => wakes \in S
  BY KindNames, ExplanationOfDead DEF Change, Changes
<1>4. /\ dies.number = h /\ dies.kind = "NowUnreachable"
      /\ wakes.number = h /\ wakes.kind = "NowReachable"
      /\ idles.number = h /\ idles.kind = "NowRedundant"
      /\ works.number = h /\ works.kind = "NoLongerRedundant"
  BY DEF Change
<1>5. reach \in Seq(S) /\ ToSet(reach) = Reachability(b, h, bm, hm)
  <2>1. reach = CASE ~bs /\ hs -> <<dies>> [] bs /\ ~hs -> <<wakes>> [] OTHER -> <<>>
    BY DEF ReachabilityChange
  <2>2. Reachability(b, h, bm, hm) = {x \in {dies} : ~bs /\ hs} \cup {x \in {wakes} : bs /\ ~hs}
    BY DEF Reachability
  <2> HIDE DEF reach, dies, wakes, bs, hs, S, bm, hm
  <2>3. CASE ~bs /\ hs
    <3>1. reach = <<dies>> /\ Reachability(b, h, bm, hm) = {dies}
      BY <2>1, <2>2, <2>3
    <3> QED
      BY <1>2, <2>3, <3>1, OneOrNone
  <2>4. CASE bs /\ ~hs
    <3>1. reach = <<wakes>> /\ Reachability(b, h, bm, hm) = {wakes}
      BY <2>1, <2>2, <2>4
    <3> QED
      BY <1>3, <2>4, <3>1, OneOrNone
  <2>5. CASE ~(~bs /\ hs) /\ ~(bs /\ ~hs)
    <3>1. reach = <<>> /\ Reachability(b, h, bm, hm) = {}
      BY <2>1, <2>2, <2>5
    <3> QED
      BY <1>1, <3>1, OneOrNone
  <2> QED
    BY <2>3, <2>4, <2>5
<1> DEFINE br == bm.rules[b].redundant
           hr == hm.rules[h].redundant
<1>6. redun \in Seq(S) /\ ToSet(redun) = Redundancy(b, h, bm, hm)
  <2>1. redun = IF bs \/ hs THEN <<>>
                ELSE CASE ~br /\ hr -> <<idles>> [] br /\ ~hr -> <<works>> [] OTHER -> <<>>
    BY DEF RedundancyChange
  <2>2. Redundancy(b, h, bm, hm)
          = {x \in {idles} : ~bs /\ ~hs /\ ~br /\ hr} \cup {x \in {works} : ~bs /\ ~hs /\ br /\ ~hr}
    BY DEF Redundancy
  <2> HIDE DEF redun, idles, works, bs, hs, br, hr, S, bm, hm
  <2>3. CASE ~bs /\ ~hs /\ ~br /\ hr
    <3>1. redun = <<idles>> /\ Redundancy(b, h, bm, hm) = {idles}
      BY <2>1, <2>2, <2>3
    <3> QED
      BY <1>1, <3>1, OneOrNone
  <2>4. CASE ~bs /\ ~hs /\ br /\ ~hr
    <3>1. redun = <<works>> /\ Redundancy(b, h, bm, hm) = {works}
      BY <2>1, <2>2, <2>4
    <3> QED
      BY <1>1, <3>1, OneOrNone
  <2>5. CASE ~(~bs /\ ~hs /\ ~br /\ hr) /\ ~(~bs /\ ~hs /\ br /\ ~hr)
    <3>1. Redundancy(b, h, bm, hm) = {}
      BY <2>2, <2>5
    <3>2. redun = <<>>
      <4>1. CASE bs \/ hs
        BY <2>1, <4>1
      <4>2. CASE ~(bs \/ hs)
        <5>1. ~(~br /\ hr) /\ ~(br /\ ~hr)
          BY <2>5, <4>2
        <5> QED
          BY <2>1, <4>2, <5>1
      <4> QED
        BY <4>1, <4>2
    <3> QED
      BY <1>1, <3>1, <3>2, OneOrNone
  <2> QED
    BY <2>3, <2>4, <2>5
<1>7. Status(b, h, bm, hm) \subseteq {x \in {dies, wakes, idles, works} : x \in S}
  BY <1>1, <1>2, <1>3 DEF Status, Reachability, Redundancy
<1> DEFINE T == Status(b, h, bm, hm)
<1> HIDE DEF reach, redun, dies, wakes, idles, works, bs, hs, S, bm, hm, T
<1>8. reach \o redun \in Seq(S) /\ ToSet(reach \o redun) = ToSet(reach) \cup ToSet(redun)
  BY <1>5, <1>6, ConcatSet
<1>9. ToSet(reach \o redun) = T
  BY <1>5, <1>6, <1>8 DEF T, Status
<1>10. /\ T \subseteq S
       /\ \A x \in T : /\ x.number = h
                       /\ x.kind \in {"NowUnreachable", "NowReachable", "NowRedundant", "NoLongerRedundant"}
       /\ Distinct(T)
  <2>1. T \subseteq {dies, wakes, idles, works} /\ T \subseteq S
    BY <1>7 DEF T
  <2> QED
    BY <1>4, <2>1 DEF Distinct
<1> QED
  BY <1>5, <1>6, <1>8, <1>9, <1>10 DEF reach, redun, bm, hm, S, T

(***************************************************************************)
(* The inductive invariant.                                                *)
(***************************************************************************)
Position(phase) ==
  CASE phase \in {"index", "pair"} -> Len(base.rules)
    [] phase = "compare" -> Len(paired)
    [] phase \in {"reconcile", "done"} -> Len(removed)

\* Types, and how far each loop has to go.
Shape ==
  /\ base \in Written /\ head \in Written
  /\ pc \in {"index", "pair", "compare", "reconcile", "done"}
  /\ cursor \in 1 .. (Position(pc) + 1)
  /\ by_key \in [DOMAIN by_key -> Seq(Numbers(head))]
  /\ paired \in Seq([base : Numbers(base), head : Numbers(head)])
  /\ removed \in Seq(Numbers(base)) /\ removed_left \in Seq(Numbers(base))
  /\ added_left \in Seq(Numbers(head))
  /\ out \in Seq(Changes(Numbers(base) \cup Numbers(head)))

\* The base rules pair_rules has been through, and the head rules it has left.
Walked == IF pc \in {"index", "pair"} THEN 1 .. (cursor - 1) ELSE Numbers(base)
Left == Numbers(head) \ HeadPaired

\* The index holds what is left, the earliest rule of each key on top.
Indexed ==
  /\ pc = "index" => cursor = 1 /\ paired = <<>> /\ removed = <<>>
  /\ pc = "pair" =>
       /\ DOMAIN by_key = KeysOf(head)
       /\ \A key \in KeysOf(head) :
            /\ Decreasing(by_key[key])
            /\ ToSet(by_key[key]) = {h \in Left : content_key(head, h) = key}

SameKey(k, n) == base.rules[paired[k].base] = head.rules[n]

\* A rule walked is paired or removed, never both; pairs say the same, equal
\* rules pair in order and the earliest first, and a rule is removed when none
\* was left.
Pairs ==
  /\ \A k \in DOMAIN paired : SameKey(k, paired[k].head)
  /\ \A j, k \in DOMAIN paired : j < k => paired[j].base < paired[k].base
  /\ \A j, k \in DOMAIN paired : j < k /\ SameKey(j, paired[k].head) => paired[j].head < paired[k].head
  /\ \A k \in DOMAIN paired, h \in Left : SameKey(k, h) => paired[k].head < h
  /\ BasePaired \cup ToSet(removed) = Walked
  /\ BasePaired \cap ToSet(removed) = {}
  /\ Increasing(removed)
  /\ \A b \in ToSet(removed), h \in Left : base.rules[b] # head.rules[h]

\* The removed rules the reconciliation has been through.
Considered ==
  IF pc = "reconcile" THEN {removed[k] : k \in 1 .. (cursor - 1)}
  ELSE IF pc = "done" THEN ToSet(removed) ELSE {}

\* The additions left are the unpaired head rules at no considered position.
Rest ==
  /\ pc \in {"index", "pair"} => added_left = <<>>
  /\ pc \in {"compare", "reconcile", "done"} =>
       Increasing(added_left) /\ ToSet(added_left) = Left \ Considered
  /\ ToSet(removed_left) = Considered \ Left

\* The pairs structural_changes has compared, and what they add.
Seen ==
  CASE pc \in {"index", "pair"} -> {}
    [] pc = "compare" -> 1 .. (cursor - 1)
    [] pc \in {"reconcile", "done"} -> DOMAIN paired

StatusOf(k) == Status(paired[k].base, paired[k].head, ModelOf(base), ModelOf(head))

Statuses == UNION {StatusOf(k) : k \in Seen}

Listed(kind, numbers) == {Change(kind, n, <<>>) : n \in numbers}

\* What has been reported, exactly.
Said ==
  /\ ToSet(out) =
       Statuses \cup Listed("Modified", Considered \cap Left)
       \cup (IF pc = "done"
             THEN Listed("Removed", ToSet(removed) \ Left) \cup Listed("Added", Left \ ToSet(removed))
             ELSE {})
  /\ pc = "done" => Len(out) = Cardinality(ToSet(out))

IInv == Shape /\ Indexed /\ Pairs /\ Rest /\ Said

LEMMA Started == Init => IInv
<1> SUFFICES ASSUME Init PROVE IInv
  OBVIOUS
<1>1. /\ base \in Written /\ head \in Written /\ pc = "index" /\ cursor = 1
      /\ by_key = [c \in {} |-> <<>>]
      /\ paired = <<>> /\ removed = <<>> /\ added_left = <<>> /\ removed_left = <<>> /\ out = <<>>
  BY RevisionsAssumption DEF Init
<1>2. Len(base.rules) \in Nat
  BY <1>1, ResolvedChain
<1>3. ToSet(<<>>) = {} /\ \A S : <<>> \in Seq(S)
  <2>1. ToSet(<<>>) = {}
    BY DEF ToSet
  <2> QED
    BY <2>1
<1>4. BasePaired = {} /\ HeadPaired = {} /\ DOMAIN paired = {} /\ DOMAIN removed = {}
  BY <1>1 DEF BasePaired, HeadPaired
<1>5. Shape
  <2>1. cursor \in 1 .. (Position(pc) + 1)
    BY <1>1, <1>2 DEF Position
  <2>2. DOMAIN by_key = {} /\ by_key \in [{} -> Seq(Numbers(head))]
    BY <1>1
  <2> QED
    BY <1>1, <1>3, <2>1, <2>2 DEF Shape
<1>6. Indexed
  BY <1>1 DEF Indexed
<1>7. Pairs
  <2>1. Walked = {}
    BY <1>1 DEF Walked
  <2>2. ToSet(removed) = {}
    BY <1>1, <1>3
  <2>3. Increasing(removed)
    BY <1>4 DEF Increasing
  <2> QED
    BY <1>4, <2>1, <2>2, <2>3 DEF Pairs
<1>8. Considered = {}
  BY <1>1 DEF Considered
<1>9. Rest
  <2>1. ToSet(removed_left) = {}
    BY <1>1, <1>3
  <2> QED
    BY <1>1, <1>8, <2>1 DEF Rest
<1>10. Said
  <2>1. ToSet(out) = {}
    BY <1>1, <1>3
  <2>2. Statuses = {}
    BY <1>1 DEF Statuses, Seen
  <2>3. Listed("Modified", Considered \cap Left) = {}
    BY <1>8 DEF Listed
  <2> QED
    BY <1>1, <2>1, <2>2, <2>3 DEF Said
<1> QED
  BY <1>5, <1>6, <1>7, <1>9, <1>10 DEF IInv

(***************************************************************************)
(* Pairing.                                                                *)
(***************************************************************************)
\* The stack of a key: its rules, the earliest on top.
LEMMA Stack ==
  ASSUME head \in Written, NEW key
  PROVE  /\ Unpaired(key) \in Seq(Numbers(head)) /\ Decreasing(Unpaired(key))
         /\ ToSet(Unpaired(key)) = {h \in Numbers(head) : content_key(head, h) = key}
<1> DEFINE n == Len(head.rules)
           S == {h \in DOMAIN head.rules : content_key(head, h) = key}
<1>1. n \in Nat /\ Numbers(head) = 1 .. n /\ DOMAIN head.rules = 1 .. n
  BY ResolvedChain DEF Numbers
<1>2. S \in SUBSET (1 .. n) /\ S \subseteq Numbers(head)
  BY <1>1
<1> HIDE DEF S, n
<1>3. /\ Ascending(S) \in Seq(S) /\ ToSet(Ascending(S)) = S /\ Increasing(Ascending(S))
      /\ S \in SUBSET Int
  BY <1>1, <1>2, AscendingNumbers, NumbersFinite
<1> DEFINE s == Ascending(S)
<1> HIDE DEF s
<1>4. Reverse(s) \in Seq(S) /\ ToSet(Reverse(s)) = S /\ Decreasing(Reverse(s))
  BY <1>3, ReversedNumbers DEF s
<1>5. Unpaired(key) = Reverse(s)
  BY DEF Unpaired, NumbersOf, s, S
<1> DEFINE r == Reverse(s)
<1> HIDE DEF r
<1>6. r \in Seq(Numbers(head))
  <2>1. r \in Seq(S)
    BY <1>4 DEF r
  <2>2. \A k \in 1 .. Len(r) : r[k] \in S
    BY <2>1
  <2>3. \A k \in 1 .. Len(r) : r[k] \in Numbers(head)
    BY <1>2, <2>2
  <2> QED
    BY <2>1, <2>3
<1>7. S = {h \in Numbers(head) : content_key(head, h) = key}
  BY DEF S, Numbers
<1> QED
  BY <1>4, <1>5, <1>6, <1>7 DEF r

LEMMA IndexStep == IInv /\ IndexHead => IInv'
<1> SUFFICES ASSUME IInv, IndexHead PROVE IInv'
  OBVIOUS
<1>1. /\ pc = "index" /\ pc' = "pair" /\ by_key' = [key \in KeysOf(head) |-> Unpaired(key)]
      /\ base' = base /\ head' = head /\ cursor' = cursor /\ paired' = paired /\ removed' = removed
      /\ added_left' = added_left /\ removed_left' = removed_left /\ out' = out
  BY DEF IndexHead
<1>2. Shape /\ Indexed /\ Pairs /\ Rest /\ Said
  BY DEF IInv
<1>3. head \in Written /\ cursor = 1 /\ paired = <<>>
  BY <1>1, <1>2 DEF Shape, Indexed
<1>4. HeadPaired' = HeadPaired /\ BasePaired' = BasePaired /\ Left' = Left /\ HeadPaired = {}
  BY <1>1, <1>3 DEF HeadPaired, BasePaired, Left
<1>5. Walked' = Walked /\ Considered' = Considered /\ Statuses' = Statuses
  BY <1>1 DEF Walked, Considered, Statuses, Seen
<1>6. Shape'
  <2>1. Position(pc)' = Position(pc)
    BY <1>1 DEF Position
  <2>2. DOMAIN by_key' = KeysOf(head) /\ by_key' \in [KeysOf(head) -> Seq(Numbers(head))]
    BY <1>1, <1>3, Stack
  <2> QED
    BY <1>1, <1>2, <2>1, <2>2 DEF Shape
<1>7. Indexed'
  <2>1. Left = Numbers(head)
    BY <1>4 DEF Left
  <2>2. DOMAIN by_key' = KeysOf(head) /\ \A key \in KeysOf(head) : by_key'[key] = Unpaired(key)
    BY <1>1
  <2>3. \A key \in KeysOf(head) :
          /\ Decreasing(by_key'[key])
          /\ ToSet(by_key'[key]) = {h \in Left : content_key(head, h) = key}
    BY <1>3, <2>1, <2>2, Stack
  <2> QED
    BY <1>1, <1>4, <2>2, <2>3 DEF Indexed
<1>8. Pairs'
  BY <1>1, <1>2, <1>4, <1>5 DEF Pairs, SameKey
<1>9. Rest'
  BY <1>1, <1>2, <1>4, <1>5 DEF Rest
<1>10. Said'
  BY <1>1, <1>2, <1>4, <1>5 DEF Said
<1> QED
  BY <1>6, <1>7, <1>8, <1>9, <1>10 DEF IInv

\* A rule finds its equal: the earliest one left.
LEMMA PopStep ==
  ASSUME IInv, PairRule, content_key(base, cursor) \in DOMAIN by_key,
         by_key[content_key(base, cursor)] # <<>>
  PROVE  IInv'
<1> DEFINE key == content_key(base, cursor)
           stack == by_key[key]
           h == Last(stack)
           n == Len(paired)
<1>1. /\ pc = "pair" /\ pc' = pc /\ cursor <= Len(base.rules) /\ cursor' = cursor + 1
      /\ paired' = Append(paired, [base |-> cursor, head |-> h])
      /\ by_key' = [by_key EXCEPT ![key] = Front(stack)]
      /\ base' = base /\ head' = head /\ removed' = removed
      /\ added_left' = added_left /\ removed_left' = removed_left /\ out' = out
  BY DEF PairRule
<1>2. Shape /\ Indexed /\ Pairs /\ Rest /\ Said
  BY DEF IInv
<1>3. /\ base \in Written /\ head \in Written
      /\ cursor \in 1 .. (Len(base.rules) + 1)
      /\ Len(base.rules) \in Nat /\ Numbers(base) = 1 .. Len(base.rules)
      /\ Len(head.rules) \in Nat /\ Numbers(head) = 1 .. Len(head.rules)
  <2>1. base \in Written /\ head \in Written
    BY <1>2 DEF Shape
  <2>2. cursor \in 1 .. (Len(base.rules) + 1)
    BY <1>1, <1>2 DEF Shape, Position
  <2> QED
    BY <2>1, <2>2, ResolvedChain
<1>4. cursor \in Numbers(base) /\ cursor \in Int /\ cursor' - 1 = cursor
  BY <1>1, <1>3
<1>5. /\ DOMAIN by_key = KeysOf(head) /\ key \in KeysOf(head)
      /\ \A other \in KeysOf(head) :
           /\ by_key[other] \in Seq(Numbers(head))
           /\ Decreasing(by_key[other])
           /\ ToSet(by_key[other]) = {x \in Left : content_key(head, x) = other}
  BY <1>1, <1>2 DEF Shape, Indexed
<1> HIDE DEF h, n, stack, key
<1>6. /\ h \in ToSet(stack) /\ Front(stack) \in Seq(Numbers(head)) /\ Decreasing(Front(stack))
      /\ ToSet(Front(stack)) = ToSet(stack) \ {h}
      /\ \A x \in ToSet(stack) : x = h \/ h < x
  <2>1. stack \in Seq(Numbers(head)) /\ Decreasing(stack)
    BY <1>5 DEF stack
  <2>2. stack # <<>>
    BY DEF stack, key
  <2>3. Numbers(head) \in SUBSET Int
    BY <1>3
  <2> QED
    BY <2>1, <2>2, <2>3, PoppedNumber DEF h
<1>7. /\ h \in Left /\ head.rules[h] = key /\ h \in Numbers(head) /\ h \notin HeadPaired
      /\ \A x \in Left : head.rules[x] = key => x = h \/ h < x
  BY <1>5, <1>6 DEF stack, content_key, Left
<1>8. key = base.rules[cursor]
  BY DEF key, content_key
<1>9. /\ n \in Nat /\ DOMAIN paired = 1 .. n /\ DOMAIN paired' = 1 .. (n + 1)
      /\ paired' \in Seq([base : Numbers(base), head : Numbers(head)])
      /\ \A k \in 1 .. n : paired'[k] = paired[k]
      /\ \A k \in 1 .. n : paired[k].base \in Numbers(base) /\ paired[k].head \in Numbers(head)
      /\ paired'[n + 1].base = cursor /\ paired'[n + 1].head = h
  <2> DEFINE pair == [base |-> cursor, head |-> h]
             P == [base : Numbers(base), head : Numbers(head)]
  <2>1. paired \in Seq(P) /\ pair \in P
    BY <1>2, <1>4, <1>7 DEF Shape
  <2>2. pair.base = cursor /\ pair.head = h /\ paired' = Append(paired, pair)
    BY <1>1
  <2>3. \A p \in P : p.base \in Numbers(base) /\ p.head \in Numbers(head)
    OBVIOUS
  <2> HIDE DEF pair, P
  <2>4. /\ n \in Nat /\ DOMAIN paired = 1 .. n /\ DOMAIN paired' = 1 .. (n + 1)
        /\ paired' \in Seq(P) /\ paired'[n + 1] = pair
        /\ \A k \in 1 .. n : paired'[k] = paired[k] /\ paired[k] \in P
    BY <2>1, <2>2, AppendProperties DEF n
  <2> QED
    BY <2>2, <2>3, <2>4 DEF P
<1>10. \A k \in 1 .. (n + 1) : k \in 1 .. n \/ k = n + 1
  BY <1>9
<1>11. \A k \in 1 .. n : k \in 1 .. (n + 1) /\ k # n + 1 /\ ~(n + 1 < k)
  BY <1>9
<1>12. n + 1 \in 1 .. (n + 1) /\ ~(n + 1 < n + 1)
  BY <1>9
<1>13. HeadPaired' = HeadPaired \cup {h} /\ BasePaired' = BasePaired \cup {cursor}
  <2>1. HeadPaired' = {paired'[k].head : k \in 1 .. (n + 1)}
        /\ BasePaired' = {paired'[k].base : k \in 1 .. (n + 1)}
    BY <1>9 DEF HeadPaired, BasePaired
  <2>2. HeadPaired = {paired[k].head : k \in 1 .. n} /\ BasePaired = {paired[k].base : k \in 1 .. n}
    BY <1>9 DEF HeadPaired, BasePaired
  <2> QED
    BY <1>9, <1>10, <1>11, <1>12, <2>1, <2>2
<1>14. Left' = Left \ {h}
  BY <1>1, <1>13 DEF Left
<1>15. Walked = 1 .. (cursor - 1) /\ Walked' = Walked \cup {cursor} /\ cursor \notin Walked
  <2>1. Walked' = 1 .. cursor
    BY <1>1, <1>4 DEF Walked
  <2>2. Walked = 1 .. (cursor - 1)
    BY <1>1 DEF Walked
  <2> QED
    BY <1>3, <2>1, <2>2
<1>16. Shape'
  <2>1. cursor' \in 1 .. (Position(pc)' + 1)
    BY <1>1, <1>3 DEF Position
  <2>2. by_key' \in [DOMAIN by_key' -> Seq(Numbers(head))]
    <3>1. by_key \in [DOMAIN by_key -> Seq(Numbers(head))]
      BY <1>2 DEF Shape
    <3> QED
      BY <1>1, <1>6, <3>1
  <2> QED
    BY <1>1, <1>2, <1>9, <2>1, <2>2 DEF Shape
<1>17. Indexed'
  <2>1. DOMAIN by_key' = KeysOf(head)
    BY <1>1, <1>5
  <2>2. ASSUME NEW other \in KeysOf(head)
        PROVE  /\ Decreasing(by_key'[other])
               /\ ToSet(by_key'[other]) = {x \in Left' : content_key(head, x) = other}
    <3>1. CASE other = key
      <4>1. by_key'[other] = Front(stack)
        BY <1>1, <1>5, <3>1
      <4>2. ToSet(Front(stack)) = {x \in Left : content_key(head, x) = key} \ {h}
        BY <1>5, <1>6 DEF stack
      <4> QED
        BY <1>6, <1>14, <3>1, <4>1, <4>2
    <3>2. CASE other # key
      <4>1. by_key'[other] = by_key[other]
        BY <1>1, <1>5, <3>2
      <4>2. content_key(head, h) # other
        BY <1>7, <3>2 DEF content_key
      <4> QED
        BY <1>5, <1>14, <4>1, <4>2
    <3> QED
      BY <3>1, <3>2
  <2> QED
    BY <1>1, <2>1, <2>2 DEF Indexed
<1>18. Pairs'
  <2>1. ASSUME NEW k \in 1 .. n
        PROVE  /\ paired[k].base < cursor /\ base.rules[paired[k].base] = head.rules[paired[k].head]
               /\ base.rules[paired[k].base] = head.rules[h] => paired[k].head < h
    <3>1. paired[k].base \in Walked
      BY <1>2, <1>9 DEF Pairs, BasePaired
    <3>2. paired[k].base < cursor
      BY <1>4, <1>9, <1>15, <3>1
    <3>3. k \in DOMAIN paired /\ base.rules[paired[k].base] = head.rules[paired[k].head]
      BY <1>2, <1>9 DEF Pairs, SameKey
    <3>4. base.rules[paired[k].base] = head.rules[h] => paired[k].head < h
      BY <1>2, <1>7, <3>3 DEF Pairs, SameKey
    <3> QED
      BY <3>2, <3>3, <3>4
  <2>2. ASSUME NEW k \in 1 .. (n + 1)
        PROVE  base.rules[paired'[k].base] = head.rules[paired'[k].head]
    BY <1>7, <1>8, <1>9, <1>10, <2>1, <2>2
  <2>3. ASSUME NEW j \in 1 .. (n + 1), NEW k \in 1 .. (n + 1), j < k
        PROVE  /\ paired'[j].base < paired'[k].base
               /\ base.rules[paired'[j].base] = head.rules[paired'[k].head]
                    => paired'[j].head < paired'[k].head
    <3>1. j \in 1 .. n
      BY <1>9, <2>3
    <3>2. CASE k \in 1 .. n
      <4>1. paired'[j] = paired[j] /\ paired'[k] = paired[k]
        BY <1>9, <3>1, <3>2
      <4>2. /\ paired[j].base < paired[k].base
            /\ base.rules[paired[j].base] = head.rules[paired[k].head]
                 => paired[j].head < paired[k].head
        BY <1>2, <1>9, <2>3, <3>1, <3>2 DEF Pairs, SameKey
      <4> QED
        BY <4>1, <4>2
    <3>3. CASE k = n + 1
      BY <1>9, <2>1, <3>1, <3>3
    <3> QED
      BY <1>10, <3>2, <3>3
  <2>4. ASSUME NEW k \in 1 .. (n + 1), NEW x \in Left', base.rules[paired'[k].base] = head.rules[x]
        PROVE  paired'[k].head < x
    <3>1. x \in Left /\ x # h
      BY <1>14
    <3>2. CASE k \in 1 .. n
      BY <1>2, <1>9, <2>4, <3>1, <3>2 DEF Pairs, SameKey
    <3>3. CASE k = n + 1
      <4>1. head.rules[x] = key
        BY <1>8, <1>9, <2>4, <3>3
      <4> QED
        BY <1>7, <1>9, <3>1, <3>3, <4>1
    <3> QED
      BY <1>10, <3>2, <3>3
  <2>5. /\ BasePaired' \cup ToSet(removed') = Walked' /\ BasePaired' \cap ToSet(removed') = {}
        /\ Increasing(removed')
    <3>1. /\ BasePaired \cup ToSet(removed) = Walked /\ BasePaired \cap ToSet(removed) = {}
          /\ Increasing(removed)
      BY <1>2 DEF Pairs
    <3> QED
      BY <1>1, <1>13, <1>15, <3>1
  <2>6. \A b \in ToSet(removed'), x \in Left' : base.rules[b] # head.rules[x]
    BY <1>1, <1>2, <1>14 DEF Pairs
  <2> QED
    BY <1>1, <1>9, <2>2, <2>3, <2>4, <2>5, <2>6 DEF Pairs, SameKey
<1>19. Considered = {} /\ Considered' = {} /\ Statuses = {} /\ Statuses' = {}
  BY <1>1 DEF Considered, Statuses, Seen
<1>20. Rest'
  BY <1>1, <1>2, <1>19 DEF Rest
<1>21. Said'
  BY <1>1, <1>2, <1>19 DEF Said, Listed
<1> QED
  BY <1>16, <1>17, <1>18, <1>20, <1>21 DEF IInv

\* A rule finds no equal left.
LEMMA RemoveStep ==
  ASSUME IInv, PairRule,
         ~(content_key(base, cursor) \in DOMAIN by_key /\ by_key[content_key(base, cursor)] # <<>>)
  PROVE  IInv'
<1> DEFINE key == content_key(base, cursor)
<1>1. /\ pc = "pair" /\ pc' = pc /\ cursor <= Len(base.rules) /\ cursor' = cursor + 1
      /\ removed' = Append(removed, cursor)
      /\ base' = base /\ head' = head /\ paired' = paired /\ by_key' = by_key
      /\ added_left' = added_left /\ removed_left' = removed_left /\ out' = out
  BY DEF PairRule
<1>2. Shape /\ Indexed /\ Pairs /\ Rest /\ Said
  BY DEF IInv
<1>3. /\ base \in Written /\ head \in Written
      /\ cursor \in 1 .. (Len(base.rules) + 1)
      /\ Len(base.rules) \in Nat /\ Numbers(base) = 1 .. Len(base.rules)
  <2>1. base \in Written /\ head \in Written
    BY <1>2 DEF Shape
  <2>2. cursor \in 1 .. (Len(base.rules) + 1)
    BY <1>1, <1>2 DEF Shape, Position
  <2> QED
    BY <2>1, <2>2, ResolvedChain
<1>4. cursor \in Numbers(base) /\ cursor \in Int /\ cursor' - 1 = cursor
  BY <1>1, <1>3
<1>5. \A x \in Left : base.rules[cursor] # head.rules[x]
  <2> SUFFICES ASSUME NEW x \in Left, head.rules[x] = key PROVE FALSE
    BY DEF content_key
  <2>1. key \in KeysOf(head)
    BY DEF Left, Numbers, KeysOf, content_key
  <2>2. DOMAIN by_key = KeysOf(head) /\ by_key[key] = <<>>
    BY <1>1, <1>2, <2>1 DEF Indexed
  <2>3. ToSet(by_key[key]) = {y \in Left : content_key(head, y) = key}
    BY <1>1, <1>2, <2>1 DEF Indexed
  <2>4. ToSet(by_key[key]) = {}
    BY <2>2 DEF ToSet
  <2>5. x \in ToSet(by_key[key])
    BY <2>3 DEF content_key
  <2> QED
    BY <2>4, <2>5
<1> HIDE DEF key
<1>6. removed \in Seq(Numbers(base)) /\ Increasing(removed)
  BY <1>2 DEF Shape, Pairs
<1>7. removed' \in Seq(Numbers(base)) /\ ToSet(removed') = ToSet(removed) \cup {cursor}
  BY <1>1, <1>4, <1>6, AppendSet
<1>8. HeadPaired' = HeadPaired /\ BasePaired' = BasePaired /\ Left' = Left
  BY <1>1 DEF HeadPaired, BasePaired, Left
<1>9. Walked = 1 .. (cursor - 1) /\ Walked' = Walked \cup {cursor} /\ cursor \notin Walked
  <2>1. Walked' = 1 .. cursor
    BY <1>1, <1>4 DEF Walked
  <2>2. Walked = 1 .. (cursor - 1)
    BY <1>1 DEF Walked
  <2> QED
    BY <1>3, <2>1, <2>2
<1>10. Shape'
  <2>1. cursor' \in 1 .. (Position(pc)' + 1)
    BY <1>1, <1>3 DEF Position
  <2> QED
    BY <1>1, <1>2, <1>7, <2>1 DEF Shape
<1>11. Indexed'
  BY <1>1, <1>2, <1>8 DEF Indexed
<1>12. Increasing(removed')
  <2> DEFINE n == Len(removed)
  <2>1. /\ n \in Nat /\ DOMAIN removed = 1 .. n /\ DOMAIN removed' = 1 .. (n + 1)
        /\ removed'[n + 1] = cursor
        /\ \A k \in 1 .. n : removed'[k] = removed[k]
    BY <1>1, <1>4, <1>6, AppendProperties
  <2> HIDE DEF n
  <2>2. \A k \in 1 .. n : removed[k] \in Walked
    BY <1>2, <2>1 DEF Pairs, ToSet
  <2>3. \A k \in 1 .. n : removed[k] < cursor
    BY <1>3, <1>9, <2>2
  <2>4. ASSUME NEW j \in 1 .. (n + 1), NEW k \in 1 .. (n + 1), j < k
        PROVE  removed'[j] < removed'[k]
    <3>1. j \in 1 .. n /\ (k \in 1 .. n \/ k = n + 1)
      BY <2>1, <2>4
    <3>2. CASE k \in 1 .. n
      BY <1>6, <2>1, <2>4, <3>1, <3>2 DEF Increasing
    <3>3. CASE k = n + 1
      BY <2>1, <2>3, <3>1, <3>3
    <3> QED
      BY <3>1, <3>2, <3>3
  <2> QED
    BY <2>1, <2>4 DEF Increasing
<1>13. Pairs'
  <2>1. /\ BasePaired' \cup ToSet(removed') = Walked'
        /\ BasePaired' \cap ToSet(removed') = {}
    <3>1. BasePaired \cup ToSet(removed) = Walked /\ BasePaired \cap ToSet(removed) = {}
      BY <1>2 DEF Pairs
    <3> QED
      BY <1>7, <1>8, <1>9, <3>1
  <2>2. \A b \in ToSet(removed'), x \in Left' : base.rules[b] # head.rules[x]
    BY <1>2, <1>5, <1>7, <1>8 DEF Pairs
  <2> QED
    BY <1>1, <1>2, <1>8, <1>12, <2>1, <2>2 DEF Pairs, SameKey
<1>14. Considered = {} /\ Considered' = {} /\ Statuses = {} /\ Statuses' = {}
  BY <1>1 DEF Considered, Statuses, Seen
<1>15. Rest'
  BY <1>1, <1>2, <1>14 DEF Rest
<1>16. Said'
  BY <1>1, <1>2, <1>14 DEF Said, Listed
<1> QED
  BY <1>10, <1>11, <1>13, <1>15, <1>16 DEF IInv

LEMMA CollectStep == IInv /\ CollectAdded => IInv'
<1> SUFFICES ASSUME IInv, CollectAdded PROVE IInv'
  OBVIOUS
<1> DEFINE popped == UNION {ToSet(by_key[c]) : c \in DOMAIN by_key}
<1>1. /\ pc = "pair" /\ pc' = "compare" /\ cursor > Len(base.rules) /\ cursor' = 1
      /\ added_left' = Ascending(popped)
      /\ base' = base /\ head' = head /\ paired' = paired /\ by_key' = by_key
      /\ removed' = removed /\ removed_left' = removed_left /\ out' = out
  BY DEF CollectAdded
<1>2. Shape /\ Indexed /\ Pairs /\ Rest /\ Said
  BY DEF IInv
<1>3. /\ base \in Written /\ head \in Written
      /\ cursor \in 1 .. (Len(base.rules) + 1)
      /\ Len(base.rules) \in Nat /\ Numbers(base) = 1 .. Len(base.rules)
      /\ Len(head.rules) \in Nat /\ Numbers(head) = 1 .. Len(head.rules)
  <2>1. base \in Written /\ head \in Written
    BY <1>2 DEF Shape
  <2>2. cursor \in 1 .. (Len(base.rules) + 1)
    BY <1>1, <1>2 DEF Shape, Position
  <2> QED
    BY <2>1, <2>2, ResolvedChain
<1>4. popped = Left
  <2>1. /\ DOMAIN by_key = KeysOf(head)
        /\ \A c \in KeysOf(head) : ToSet(by_key[c]) = {x \in Left : content_key(head, x) = c}
    BY <1>1, <1>2 DEF Indexed
  <2>2. \A x \in Left : content_key(head, x) \in KeysOf(head)
    BY DEF Left, Numbers, KeysOf
  <2> QED
    BY <2>1, <2>2
<1> HIDE DEF popped
<1>5. /\ added_left' \in Seq(Left) /\ ToSet(added_left') = Left /\ Increasing(added_left')
  <2>1. Left \in SUBSET (1 .. Len(head.rules))
    BY <1>3 DEF Left
  <2> QED
    BY <1>1, <1>3, <1>4, <2>1, AscendingNumbers
<1>6. HeadPaired' = HeadPaired /\ BasePaired' = BasePaired /\ Left' = Left
  BY <1>1 DEF HeadPaired, BasePaired, Left
<1>7. Walked' = Walked
  BY <1>1, <1>3 DEF Walked
<1>8. Considered' = Considered /\ Considered = {}
  BY <1>1 DEF Considered
<1>9. Statuses' = {} /\ Statuses = {}
  BY <1>1 DEF Statuses, Seen
<1>10. Shape'
  <2>1. cursor' \in 1 .. (Position(pc)' + 1)
    <3>1. Len(paired) \in Nat
      BY <1>2 DEF Shape
    <3> QED
      BY <1>1, <3>1 DEF Position
  <2>2. added_left' \in Seq(Numbers(head))
    <3>1. \A k \in 1 .. Len(added_left') : added_left'[k] \in Left
      BY <1>5
    <3>2. \A k \in 1 .. Len(added_left') : added_left'[k] \in Numbers(head)
      BY <3>1 DEF Left
    <3> QED
      BY <1>5, <3>2
  <2> QED
    BY <1>1, <1>2, <2>1, <2>2 DEF Shape
<1>11. Indexed'
  BY <1>1 DEF Indexed
<1>12. Pairs'
  BY <1>1, <1>2, <1>6, <1>7 DEF Pairs, SameKey
<1>13. Rest'
  BY <1>1, <1>2, <1>5, <1>6, <1>8 DEF Rest
<1>14. Said'
  BY <1>1, <1>2, <1>8, <1>9 DEF Said, Listed
<1> QED
  BY <1>10, <1>11, <1>12, <1>13, <1>14 DEF IInv

(***************************************************************************)
(* The structural changes.                                                 *)
(***************************************************************************)
LEMMA PairShape ==
  ASSUME Shape, NEW k \in DOMAIN paired
  PROVE  /\ paired[k].base \in Numbers(base) /\ paired[k].head \in Numbers(head)
         /\ DOMAIN paired = 1 .. Len(paired) /\ Len(paired) \in Nat /\ k \in Int
<1> DEFINE P == [base : Numbers(base), head : Numbers(head)]
<1>1. paired \in Seq(P)
  BY DEF Shape
<1>2. \A p \in P : p.base \in Numbers(base) /\ p.head \in Numbers(head)
  OBVIOUS
<1> HIDE DEF P
<1> QED
  BY <1>1, <1>2

\* No head rule is in two pairs.
LEMMA HeadsDistinct ==
  ASSUME Shape, Pairs, NEW j \in DOMAIN paired, NEW k \in DOMAIN paired,
         paired[j].head = paired[k].head
  PROVE  j = k
<1>1. /\ j \in Int /\ k \in Int /\ paired[j].head \in Int
  <2>1. head \in Written
    BY DEF Shape
  <2> QED
    BY <2>1, PairShape, ResolvedChain
<1>2. SameKey(j, paired[k].head) /\ SameKey(k, paired[j].head)
  BY DEF Pairs
<1>3. ~(j < k) /\ ~(k < j)
  BY <1>1, <1>2 DEF Pairs
<1> QED
  BY <1>1, <1>3

\* The status of a pair says which pair it is of.
LEMMA StatusOfOne ==
  ASSUME Shape, NEW k \in DOMAIN paired
  PROVE  /\ StatusOf(k) \subseteq Changes(Numbers(base) \cup Numbers(head))
         /\ \A x \in StatusOf(k) :
              /\ x.number = paired[k].head
              /\ x.kind \in {"NowUnreachable", "NowReachable", "NowRedundant", "NoLongerRedundant"}
         /\ Distinct(StatusOf(k))
<1>1. /\ base \in Written /\ head \in Written
      /\ paired[k].base \in Numbers(base) /\ paired[k].head \in Numbers(head)
  BY PairShape DEF Shape
<1>2. StatusOf(k) \subseteq Changes(Numbers(head))
  BY <1>1, StatusReported DEF StatusOf
<1>3. Changes(Numbers(head)) \subseteq Changes(Numbers(base) \cup Numbers(head))
  BY DEF Changes
<1> QED
  BY <1>1, <1>2, <1>3, StatusReported DEF StatusOf

LEMMA StatusesDistinct ==
  ASSUME Shape, Pairs, Seen \subseteq DOMAIN paired
  PROVE  /\ Statuses \subseteq Changes(Numbers(base) \cup Numbers(head))
         /\ \A x \in Statuses :
              x.kind \in {"NowUnreachable", "NowReachable", "NowRedundant", "NoLongerRedundant"}
         /\ Distinct(Statuses)
<1>1. \A x \in Statuses : \E k \in DOMAIN paired : x \in StatusOf(k)
  BY DEF Statuses
<1>2. ASSUME NEW x \in Statuses, NEW y \in Statuses, x.kind = y.kind, x.number = y.number
      PROVE  x = y
  <2>1. PICK j \in DOMAIN paired : x \in StatusOf(j)
    BY <1>1
  <2>2. PICK k \in DOMAIN paired : y \in StatusOf(k)
    BY <1>1
  <2>3. paired[j].head = paired[k].head
    BY <1>2, <2>1, <2>2, StatusOfOne
  <2>4. j = k
    BY <2>3, HeadsDistinct
  <2> QED
    BY <1>2, <2>1, <2>2, <2>4, StatusOfOne DEF Distinct
<1>3. Statuses \subseteq Changes(Numbers(base) \cup Numbers(head))
  BY <1>1, StatusOfOne
<1>4. \A x \in Statuses :
        x.kind \in {"NowUnreachable", "NowReachable", "NowRedundant", "NoLongerRedundant"}
  BY <1>1, StatusOfOne
<1> QED
  BY <1>2, <1>3, <1>4 DEF Distinct

LEMMA CompareStep == IInv /\ ComparePair => IInv'
<1> SUFFICES ASSUME IInv, ComparePair PROVE IInv'
  OBVIOUS
<1> DEFINE b == paired[cursor].base
           h == paired[cursor].head
           reach == ReachabilityChange(b, h, ModelOf(base), ModelOf(head))
           redun == RedundancyChange(b, h, ModelOf(base), ModelOf(head))
           C == Changes(Numbers(base) \cup Numbers(head))
<1>1. /\ pc = "compare" /\ pc' = pc /\ cursor <= Len(paired) /\ cursor' = cursor + 1
      /\ out' = out \o reach \o redun
      /\ base' = base /\ head' = head /\ paired' = paired /\ by_key' = by_key
      /\ removed' = removed /\ added_left' = added_left /\ removed_left' = removed_left
  BY DEF ComparePair
<1>2. Shape /\ Indexed /\ Pairs /\ Rest /\ Said
  BY DEF IInv
<1>3. /\ base \in Written /\ head \in Written /\ Len(paired) \in Nat
      /\ DOMAIN paired = 1 .. Len(paired) /\ cursor \in 1 .. Len(paired)
  <2>1. cursor \in 1 .. (Len(paired) + 1)
    BY <1>1, <1>2 DEF Shape, Position
  <2>2. base \in Written /\ head \in Written
        /\ Len(paired) \in Nat /\ DOMAIN paired = 1 .. Len(paired)
    BY <1>2 DEF Shape
  <2> QED
    BY <1>1, <2>1, <2>2
<1>4. b \in Numbers(base) /\ h \in Numbers(head)
  BY <1>2, <1>3, PairShape
<1>5. /\ reach \in Seq(Changes(Numbers(head))) /\ redun \in Seq(Changes(Numbers(head)))
      /\ ToSet(reach \o redun) = StatusOf(cursor)
  BY <1>3, <1>4, StatusReported DEF StatusOf
<1>6. Changes(Numbers(head)) \subseteq C
  BY DEF Changes
<1> HIDE DEF reach, redun, b, h, C
<1>7. reach \in Seq(C) /\ redun \in Seq(C)
  <2>1. /\ \A k \in 1 .. Len(reach) : reach[k] \in Changes(Numbers(head))
        /\ \A k \in 1 .. Len(redun) : redun[k] \in Changes(Numbers(head))
    BY <1>5
  <2>2. /\ \A k \in 1 .. Len(reach) : reach[k] \in C
        /\ \A k \in 1 .. Len(redun) : redun[k] \in C
    BY <1>6, <2>1
  <2> QED
    BY <1>5, <2>2
<1>8. out' \in Seq(C) /\ ToSet(out') = ToSet(out) \cup StatusOf(cursor)
  <2>1. out \in Seq(C)
    BY <1>2 DEF Shape, C
  <2>2. reach \o redun \in Seq(C)
    BY <1>7, ConcatSet
  <2>3. out' = out \o (reach \o redun)
    BY <1>1, <1>7, <2>1, ConcatAssociative
  <2> DEFINE more == reach \o redun
  <2> HIDE DEF more
  <2>4. more \in Seq(C) /\ ToSet(more) = StatusOf(cursor) /\ out' = out \o more
    BY <1>5, <2>2, <2>3 DEF more
  <2> QED
    BY <2>1, <2>4, ConcatSet
<1>9. HeadPaired' = HeadPaired /\ BasePaired' = BasePaired /\ Left' = Left
      /\ Walked' = Walked /\ Considered' = {} /\ Considered = {}
  BY <1>1 DEF HeadPaired, BasePaired, Left, Walked, Considered
<1>10. Statuses' = Statuses \cup StatusOf(cursor)
  <2>1. Seen = 1 .. (cursor - 1) /\ Seen' = 1 .. cursor
    BY <1>1, <1>3 DEF Seen
  <2>2. Seen' = Seen \cup {cursor}
    BY <1>3, <2>1
  <2>3. \A k : StatusOf(k)' = StatusOf(k)
    BY <1>1 DEF StatusOf
  <2>4. Statuses' = UNION {StatusOf(k) : k \in Seen'}
    BY <1>1 DEF Statuses, StatusOf
  <2> QED
    BY <2>2, <2>4 DEF Statuses
<1>11. Shape'
  <2>1. cursor' \in 1 .. (Position(pc)' + 1)
    BY <1>1, <1>3 DEF Position
  <2> QED
    BY <1>1, <1>2, <1>8, <2>1 DEF Shape, C
<1>12. Indexed'
  BY <1>1 DEF Indexed
<1>13. Pairs'
  BY <1>1, <1>2, <1>9 DEF Pairs, SameKey
<1>14. Rest'
  BY <1>1, <1>2, <1>9 DEF Rest
<1>15. Said'
  <2>1. ToSet(out) = Statuses \cup Listed("Modified", Considered \cap Left)
    BY <1>1, <1>2 DEF Said
  <2>2. (Considered \cap Left)' = Considered \cap Left
    BY <1>9
  <2>3. ToSet(out') = Statuses' \cup Listed("Modified", Considered \cap Left)
    BY <1>8, <1>10, <2>1
  <2> QED
    BY <1>1, <2>2, <2>3 DEF Said
<1> QED
  BY <1>11, <1>12, <1>13, <1>14, <1>15 DEF IInv

LEMMA ReconcileStart == IInv /\ StartReconcile => IInv'
<1> SUFFICES ASSUME IInv, StartReconcile PROVE IInv'
  OBVIOUS
<1>1. /\ pc = "compare" /\ pc' = "reconcile" /\ cursor > Len(paired) /\ cursor' = 1
      /\ base' = base /\ head' = head /\ paired' = paired /\ by_key' = by_key /\ out' = out
      /\ removed' = removed /\ added_left' = added_left /\ removed_left' = removed_left
  BY DEF StartReconcile, FirstRemoved
<1>2. Shape /\ Indexed /\ Pairs /\ Rest /\ Said
  BY DEF IInv
<1>3. /\ Len(paired) \in Nat /\ DOMAIN paired = 1 .. Len(paired) /\ Len(removed) \in Nat
      /\ cursor \in 1 .. (Len(paired) + 1)
  <2>1. cursor \in 1 .. (Len(paired) + 1)
    BY <1>1, <1>2 DEF Shape, Position
  <2> QED
    BY <1>2, <2>1 DEF Shape
<1>4. HeadPaired' = HeadPaired /\ BasePaired' = BasePaired /\ Left' = Left /\ Walked' = Walked
  BY <1>1 DEF HeadPaired, BasePaired, Left, Walked
<1>5. Considered = {} /\ Considered' = {}
  BY <1>1 DEF Considered
<1>6. Statuses' = Statuses
  <2>1. Seen = 1 .. (cursor - 1) /\ Seen' = DOMAIN paired
    BY <1>1 DEF Seen
  <2>2. Seen' = Seen
    BY <1>1, <1>3, <2>1
  <2> QED
    BY <1>1, <2>2 DEF Statuses, StatusOf
<1>7. Shape'
  <2>1. cursor' \in 1 .. (Position(pc)' + 1)
    BY <1>1, <1>3 DEF Position
  <2> QED
    BY <1>1, <1>2, <2>1 DEF Shape
<1>8. Indexed'
  BY <1>1 DEF Indexed
<1>9. Pairs'
  BY <1>1, <1>2, <1>4 DEF Pairs, SameKey
<1>10. Rest'
  BY <1>1, <1>2, <1>4, <1>5 DEF Rest
<1>11. Said'
  BY <1>1, <1>2, <1>4, <1>5, <1>6 DEF Said
<1> QED
  BY <1>7, <1>8, <1>9, <1>10, <1>11 DEF IInv

LEMMA ReconcileStep == IInv /\ ReconcileRemoved => IInv'
<1> SUFFICES ASSUME IInv, ReconcileRemoved PROVE IInv'
  OBVIOUS
<1> DEFINE number == removed[cursor]
           change == Change("Modified", number, <<>>)
           C == Changes(Numbers(base) \cup Numbers(head))
<1>1. /\ pc = "reconcile" /\ pc' = pc /\ cursor <= Len(removed) /\ cursor' = cursor + 1
      /\ base' = base /\ head' = head /\ paired' = paired /\ by_key' = by_key /\ removed' = removed
  BY DEF ReconcileRemoved
<1>2. Shape /\ Indexed /\ Pairs /\ Rest /\ Said
  BY DEF IInv
<1>3. /\ Len(removed) \in Nat /\ DOMAIN removed = 1 .. Len(removed)
      /\ cursor \in 1 .. Len(removed) /\ number \in Numbers(base) /\ base \in Written /\ head \in Written
  <2>1. cursor \in 1 .. (Len(removed) + 1)
    BY <1>1, <1>2 DEF Shape, Position
  <2>2. removed \in Seq(Numbers(base)) /\ base \in Written /\ head \in Written
    BY <1>2 DEF Shape
  <2> QED
    BY <1>1, <2>1, <2>2
<1>4. HeadPaired' = HeadPaired /\ BasePaired' = BasePaired /\ Left' = Left
      /\ Walked' = Walked /\ Statuses' = Statuses
  BY <1>1 DEF HeadPaired, BasePaired, Left, Walked, Statuses, StatusOf, Seen
<1> HIDE DEF number, change, C
<1>5. Considered' = Considered \cup {number} /\ number \notin Considered
  <2>1. Considered = {removed[k] : k \in 1 .. (cursor - 1)}
    BY <1>1 DEF Considered
  <2>2. Considered' = {removed[k] : k \in 1 .. cursor}
    BY <1>1, <1>3 DEF Considered
  <2>3. \A k \in 1 .. cursor : k \in 1 .. (cursor - 1) \/ k = cursor
    BY <1>3
  <2>4. cursor \in 1 .. cursor /\ \A k \in 1 .. (cursor - 1) : k \in 1 .. cursor
    BY <1>3
  <2>5. \A k \in 1 .. (cursor - 1) : k \in DOMAIN removed /\ k < cursor
    BY <1>3
  <2>6. \A k \in 1 .. (cursor - 1) : removed[k] < number
    BY <1>2, <1>3, <2>5 DEF Pairs, Increasing, number
  <2>7. number \in Int
    BY <1>3, ResolvedChain
  <2>8. \A k \in 1 .. (cursor - 1) : removed[k] # number
    BY <2>6, <2>7
  <2> QED
    BY <2>1, <2>2, <2>3, <2>4, <2>8 DEF number
<1>6. /\ added_left \in Seq(Numbers(head)) /\ Increasing(added_left)
      /\ ToSet(added_left) = Left \ Considered /\ ToSet(removed_left) = Considered \ Left
      /\ removed_left \in Seq(Numbers(base)) /\ out \in Seq(C)
  BY <1>1, <1>2 DEF Shape, Rest, C
<1>7. Contains(added_left, number) <=> number \in Left
  <2>1. Contains(added_left, number) <=> number \in ToSet(added_left)
    BY <1>6 DEF Contains, ToSet
  <2> QED
    BY <1>5, <1>6, <2>1
<1>8. Position(pc)' = Len(removed)
  BY <1>1 DEF Position
<1>9. cursor' \in 1 .. (Position(pc)' + 1)
  BY <1>1, <1>3, <1>8
<1>10. Indexed' /\ Pairs'
  <2>1. Indexed'
    BY <1>1 DEF Indexed
  <2>2. Pairs'
    BY <1>1, <1>2, <1>4 DEF Pairs, SameKey
  <2> QED
    BY <2>1, <2>2
<1>11. ToSet(out) = Statuses \cup Listed("Modified", Considered \cap Left)
  BY <1>1, <1>2 DEF Said
<1>12. CASE Contains(added_left, number)
  <2>1. /\ added_left' = RemoveFirst(added_left, number) /\ removed_left' = removed_left
        /\ out' = Append(out, change)
    BY <1>12 DEF ReconcileRemoved, WithoutAddition, number, change
  <2>2. /\ added_left' \in Seq(Numbers(head)) /\ Increasing(added_left')
        /\ ToSet(added_left') = (Left \ Considered) \ {number}
    <3>1. Numbers(head) \in SUBSET Int
      BY <1>3, ResolvedChain
    <3> QED
      BY <1>6, <1>12, <2>1, <3>1, NumberRemoved
  <2>3. change \in C
    <3>1. "Modified" \in ToSet(Kinds) /\ <<>> \in Seq(Nat)
      BY KindNames
    <3> QED
      BY <1>3, <3>1 DEF C, Changes, change, Change
  <2>4. out' \in Seq(C) /\ ToSet(out') = ToSet(out) \cup {change}
    BY <1>6, <2>1, <2>3, AppendSet
  <2>5. Shape'
    BY <1>1, <1>2, <1>9, <2>1, <2>2, <2>4 DEF Shape, C
  <2>6. Rest'
    <3>1. ToSet(added_left') = Left \ Considered'
      BY <1>5, <2>2
    <3>2. ToSet(removed_left') = Considered' \ Left
      BY <1>5, <1>6, <1>7, <1>12, <2>1
    <3> QED
      BY <1>1, <1>4, <2>2, <3>1, <3>2 DEF Rest
  <2>7. Said'
    <3>1. Considered' \cap Left = (Considered \cap Left) \cup {number}
      BY <1>5, <1>7, <1>12
    <3>2. Listed("Modified", Considered' \cap Left)
            = Listed("Modified", Considered \cap Left) \cup {change}
      BY <3>1 DEF Listed, change
    <3>3. ToSet(out') = Statuses' \cup Listed("Modified", Considered' \cap Left')
      BY <1>4, <1>11, <2>4, <3>2
    <3> QED
      BY <1>1, <3>3 DEF Said
  <2> QED
    BY <1>10, <2>5, <2>6, <2>7 DEF IInv
<1>13. CASE ~Contains(added_left, number)
  <2>1. /\ added_left' = added_left /\ removed_left' = Append(removed_left, number) /\ out' = out
    BY <1>13 DEF ReconcileRemoved, number
  <2>2. /\ removed_left' \in Seq(Numbers(base))
        /\ ToSet(removed_left') = ToSet(removed_left) \cup {number}
    BY <1>3, <1>6, <2>1, AppendSet
  <2>3. Shape'
    BY <1>1, <1>2, <1>9, <2>1, <2>2 DEF Shape
  <2>4. Rest'
    <3>1. ToSet(added_left') = Left \ Considered'
      BY <1>5, <1>6, <1>7, <1>13, <2>1
    <3>2. ToSet(removed_left') = Considered' \ Left
      BY <1>5, <1>6, <1>7, <1>13, <2>2
    <3> QED
      BY <1>1, <1>4, <1>6, <2>1, <3>1, <3>2 DEF Rest
  <2>5. Said'
    <3>1. Considered' \cap Left = Considered \cap Left
      BY <1>5, <1>7, <1>13
    <3>2. ToSet(out') = Statuses' \cup Listed("Modified", Considered' \cap Left')
      BY <1>4, <1>11, <2>1, <3>1
    <3> QED
      BY <1>1, <3>2 DEF Said
  <2> QED
    BY <1>10, <2>3, <2>4, <2>5 DEF IInv
<1> QED
  BY <1>12, <1>13

\* The changes of one kind, from a list of numbers.
LEMMA ListedInOrder ==
  ASSUME NEW N, NEW s \in Seq(N), NEW kind \in ToSet(Kinds)
  PROVE  LET t == [k \in DOMAIN s |-> Change(kind, s[k], <<>>)]
         IN  t \in Seq(Changes(N)) /\ ToSet(t) = Listed(kind, ToSet(s))
<1> DEFINE t == [k \in DOMAIN s |-> Change(kind, s[k], <<>>)]
<1>1. DOMAIN s = 1 .. Len(s) /\ Len(s) \in Nat /\ \A k \in 1 .. Len(s) : s[k] \in N
  OBVIOUS
<1>2. \A n \in N : Change(kind, n, <<>>) \in Changes(N)
  BY DEF Change, Changes
<1>3. t \in Seq(Changes(N))
  BY <1>1, <1>2
<1>4. ToSet(t) = Listed(kind, ToSet(s))
  BY DEF ToSet, Listed
<1> QED
  BY <1>3, <1>4

LEMMA ItemsFinite ==
  ASSUME NEW S, NEW s \in Seq(S)
  PROVE  IsFiniteSet(ToSet(s)) /\ ToSet(s) \in SUBSET S
<1>1. DOMAIN s = 1 .. Len(s) /\ Len(s) \in Nat /\ \A k \in 1 .. Len(s) : s[k] \in S
  OBVIOUS
<1>2. s = [k \in 1 .. Len(s) |-> s[k]]
  BY <1>1
<1> DEFINE T == ToSet(s)
<1>3. \A k \in 1 .. Len(s) : s[k] \in T
  BY <1>1 DEF ToSet
<1>4. \A x \in T : \E k \in 1 .. Len(s) : s[k] = x
  BY <1>1 DEF ToSet
<1> HIDE DEF T
<1>5. s \in Surjection(1 .. Len(s), T)
  BY <1>2, <1>3, <1>4 DEF Surjection
<1>6. IsFiniteSet(1 .. Len(s))
  BY <1>1, FS_Interval
<1>7. IsFiniteSet(T)
  BY <1>5, <1>6, FS_Surjection
<1>8. T \in SUBSET S
  BY <1>1, <1>4
<1> QED
  BY <1>7, <1>8 DEF T

LEMMA ListStep == IInv /\ ListRest => IInv'
<1> SUFFICES ASSUME IInv, ListRest PROVE IInv'
  OBVIOUS
<1> DEFINE gone == [k \in DOMAIN removed_left |-> Change("Removed", removed_left[k], <<>>)]
           new == [k \in DOMAIN added_left |-> Change("Added", added_left[k], <<>>)]
           all == out \o gone \o new
           N == Numbers(base) \cup Numbers(head)
           S == ToSet(all)
<1>1. /\ pc = "reconcile" /\ pc' = "done" /\ cursor > Len(removed) /\ cursor' = cursor
      /\ out' = Ranked(S, Precedes)
      /\ base' = base /\ head' = head /\ paired' = paired /\ by_key' = by_key
      /\ removed' = removed /\ added_left' = added_left /\ removed_left' = removed_left
  BY DEF ListRest
<1>2. Shape /\ Indexed /\ Pairs /\ Rest /\ Said
  BY DEF IInv
<1>3. /\ Len(removed) \in Nat /\ DOMAIN removed = 1 .. Len(removed)
      /\ cursor \in 1 .. (Len(removed) + 1) /\ base \in Written /\ head \in Written
  <2>1. cursor \in 1 .. (Len(removed) + 1)
    BY <1>1, <1>2 DEF Shape, Position
  <2>2. removed \in Seq(Numbers(base)) /\ base \in Written /\ head \in Written
    BY <1>2 DEF Shape
  <2> QED
    BY <1>1, <2>1, <2>2
<1>4. Considered = ToSet(removed) /\ Considered' = ToSet(removed)
  <2>1. 1 .. (cursor - 1) = DOMAIN removed
    BY <1>1, <1>3
  <2> QED
    BY <1>1, <2>1 DEF Considered, ToSet
<1>5. HeadPaired' = HeadPaired /\ BasePaired' = BasePaired /\ Left' = Left
      /\ Walked' = Walked /\ Statuses' = Statuses
  BY <1>1 DEF HeadPaired, BasePaired, Left, Walked, Statuses, StatusOf, Seen
<1>6. /\ removed_left \in Seq(Numbers(base)) /\ added_left \in Seq(Numbers(head)) /\ out \in Seq(Changes(N))
      /\ Increasing(added_left)
      /\ ToSet(added_left) = Left \ ToSet(removed) /\ ToSet(removed_left) = ToSet(removed) \ Left
  BY <1>1, <1>2, <1>4 DEF Shape, Rest
<1>7. removed_left \in Seq(N) /\ added_left \in Seq(N)
  <2>1. /\ \A k \in 1 .. Len(removed_left) : removed_left[k] \in N
        /\ \A k \in 1 .. Len(added_left) : added_left[k] \in N
    BY <1>6
  <2> QED
    BY <1>6, <2>1
<1>8. N \in SUBSET Int
  BY <1>3, ResolvedChain
<1> HIDE DEF N
<1>9. /\ gone \in Seq(Changes(N)) /\ ToSet(gone) = Listed("Removed", ToSet(removed_left))
      /\ new \in Seq(Changes(N)) /\ ToSet(new) = Listed("Added", ToSet(added_left))
  <2>1. "Removed" \in ToSet(Kinds) /\ "Added" \in ToSet(Kinds)
    BY KindNames
  <2> QED
    BY <1>7, <2>1, ListedInOrder
<1> HIDE DEF gone, new
<1>10. all \in Seq(Changes(N)) /\ ToSet(all) = ToSet(out) \cup ToSet(gone) \cup ToSet(new)
  <2> DEFINE some == out \o gone
  <2>1. some \in Seq(Changes(N)) /\ ToSet(some) = ToSet(out) \cup ToSet(gone)
    BY <1>6, <1>9, ConcatSet
  <2> HIDE DEF some
  <2>2. some \o new \in Seq(Changes(N)) /\ ToSet(some \o new) = ToSet(some) \cup ToSet(new)
    BY <1>9, <2>1, ConcatSet
  <2> QED
    BY <2>1, <2>2 DEF some
<1> HIDE DEF all
<1>11. S = Statuses \cup Listed("Modified", ToSet(removed) \cap Left)
             \cup Listed("Removed", ToSet(removed) \ Left) \cup Listed("Added", Left \ ToSet(removed))
  <2>1. ToSet(out) = Statuses \cup Listed("Modified", ToSet(removed) \cap Left)
    BY <1>1, <1>2, <1>4 DEF Said
  <2> QED
    BY <1>6, <1>9, <1>10, <2>1
<1>12. Distinct(S)
  <2>1. Seen = DOMAIN paired
    BY <1>1 DEF Seen
  <2>2. /\ \A x \in Statuses :
             x.kind \in {"NowUnreachable", "NowReachable", "NowRedundant", "NoLongerRedundant"}
        /\ Distinct(Statuses)
    BY <1>2, <2>1, StatusesDistinct
  <2>3. \A kind, numbers : \A x \in Listed(kind, numbers) :
          x.kind = kind /\ x = Change(kind, x.number, <<>>)
    BY DEF Listed, Change
  <2>4. \A x \in S :
          \/ x \in Statuses
          \/ x.kind \in {"Modified", "Removed", "Added"} /\ x = Change(x.kind, x.number, <<>>)
    BY <1>11, <2>3
  <2> QED
    BY <2>2, <2>4 DEF Distinct
<1>13. IsFiniteSet(S) /\ S \in SUBSET Changes(N)
  BY <1>10, ItemsFinite
<1> HIDE DEF S
<1>14. out' \in Seq(S) /\ ToSet(out') = S /\ Len(out') = Cardinality(S)
  BY <1>1, <1>8, <1>12, <1>13, RankedChanges
<1>15. out' \in Seq(Changes(N))
  <2>1. \A k \in 1 .. Len(out') : out'[k] \in S
    BY <1>14
  <2>2. \A k \in 1 .. Len(out') : out'[k] \in Changes(N)
    BY <1>13, <2>1
  <2> QED
    BY <1>14, <2>2
<1>16. Shape'
  <2>1. cursor' \in 1 .. (Position(pc)' + 1)
    BY <1>1, <1>3 DEF Position
  <2> QED
    BY <1>1, <1>2, <1>15, <2>1 DEF Shape, N
<1>17. Indexed'
  BY <1>1 DEF Indexed
<1>18. Pairs'
  BY <1>1, <1>2, <1>5 DEF Pairs, SameKey
<1>19. Rest'
  <2>1. ToSet(added_left') = Left' \ Considered' /\ ToSet(removed_left') = Considered' \ Left'
    BY <1>1, <1>4, <1>5, <1>6
  <2> QED
    BY <1>1, <1>6, <2>1 DEF Rest
<1>20. Said'
  <2>1. ToSet(out') = Statuses' \cup Listed("Modified", Considered' \cap Left')
          \cup (Listed("Removed", ToSet(removed') \ Left') \cup Listed("Added", Left' \ ToSet(removed')))
    BY <1>1, <1>4, <1>5, <1>11, <1>14
  <2>2. Len(out') = Cardinality(ToSet(out'))
    BY <1>14
  <2> QED
    BY <1>1, <2>1, <2>2 DEF Said
<1> QED
  BY <1>16, <1>17, <1>18, <1>19, <1>20 DEF IInv

LEMMA Unchanged == IInv /\ UNCHANGED vars => IInv'
<1> SUFFICES ASSUME IInv, UNCHANGED vars PROVE IInv'
  OBVIOUS
<1>1. /\ base' = base /\ head' = head /\ pc' = pc /\ cursor' = cursor /\ by_key' = by_key
      /\ paired' = paired /\ removed' = removed /\ out' = out
      /\ added_left' = added_left /\ removed_left' = removed_left
  BY DEF vars
<1>2. Shape /\ Indexed /\ Pairs /\ Rest /\ Said
  BY DEF IInv
<1>3. HeadPaired' = HeadPaired /\ BasePaired' = BasePaired /\ Left' = Left
      /\ Walked' = Walked /\ Considered' = Considered
  BY <1>1 DEF HeadPaired, BasePaired, Left, Walked, Considered
<1>4. Statuses' = Statuses
  BY <1>1 DEF Statuses, StatusOf, Seen
<1>5. Shape'
  BY <1>1, <1>2 DEF Shape, Position
<1>6. Indexed' /\ Pairs'
  BY <1>1, <1>2, <1>3 DEF Indexed, Pairs, SameKey
<1>7. Rest' /\ Said'
  BY <1>1, <1>2, <1>3, <1>4 DEF Rest, Said
<1> QED
  BY <1>5, <1>6, <1>7 DEF IInv

\* The invariant is inductive.
THEOREM Inductive == Spec => []IInv
<1>1. IInv /\ [Next]_vars => IInv'
  <2> SUFFICES ASSUME IInv, [Next]_vars PROVE IInv'
    OBVIOUS
  <2>1. CASE IndexHead
    BY <2>1, IndexStep
  <2>2. CASE PairRule
    BY <2>2, PopStep, RemoveStep
  <2>3. CASE CollectAdded
    BY <2>3, CollectStep
  <2>4. CASE ComparePair
    BY <2>4, CompareStep
  <2>5. CASE StartReconcile
    BY <2>5, ReconcileStart
  <2>6. CASE ReconcileRemoved
    BY <2>6, ReconcileStep
  <2>7. CASE ListRest
    BY <2>7, ListStep
  <2>8. CASE UNCHANGED vars
    BY <2>8, Unchanged
  <2> QED
    BY <2>1, <2>2, <2>3, <2>4, <2>5, <2>6, <2>7, <2>8 DEF Next
<1> QED
  BY Started, <1>1, PTL DEF Spec

(***************************************************************************)
(* What it gives.                                                          *)
(***************************************************************************)
\* Types are kept: pair_rules and structural_changes put numbers of the right
\* revision everywhere, and the sorted list is a list of changes.
THEOREM TypeCorrect == Spec => []TypeOK
<1>1. IInv => TypeOK
  <2> SUFFICES ASSUME IInv PROVE TypeOK
    OBVIOUS
  <2>1. Shape
    BY DEF IInv
  <2>2. Position(pc) \in Nat
    <3>1. base \in Written /\ Len(paired) \in Nat /\ Len(removed) \in Nat
      BY <2>1 DEF Shape
    <3> QED
      BY <2>1, <3>1, ResolvedChain DEF Shape, Position
  <2>3. cursor \in Nat \ {0}
    BY <2>1, <2>2 DEF Shape
  <2> QED
    BY <2>1, <2>3 DEF Shape, TypeOK, Changes
<1> QED
  BY <1>1, Inductive, PTL

\* pair_rules pairs equal rules in file order and as many as it can.
THEOREM MaximalPairing == Spec => []PairingIsMaximal
<1>1. IInv => PairingIsMaximal
  <2> SUFFICES ASSUME IInv, pc = "compare" PROVE PairingIsMaximal
    BY DEF PairingIsMaximal
  <2>1. Shape /\ Pairs /\ Rest
    BY DEF IInv
  <2>2. \A k \in DOMAIN paired : base.rules[paired[k].base] = head.rules[paired[k].head]
    BY <2>1 DEF Pairs, SameKey
  <2>3. ASSUME NEW j \in DOMAIN paired, NEW k \in DOMAIN paired, j < k,
               base.rules[paired[j].base] = base.rules[paired[k].base]
        PROVE  paired[j].base < paired[k].base /\ paired[j].head < paired[k].head
    <3>1. SameKey(j, paired[k].head)
      BY <2>2, <2>3 DEF SameKey
    <3> QED
      BY <2>1, <2>3, <3>1 DEF Pairs
  <2>4. ToSet(added_left) \subseteq Left
    BY <2>1 DEF Rest
  <2>5. {base.rules[b] : b \in ToSet(removed)} \cap {head.rules[h] : h \in ToSet(added_left)} = {}
    BY <2>1, <2>4 DEF Pairs
  <2> QED
    BY <2>2, <2>3, <2>5 DEF PairingIsMaximal
<1> QED
  BY <1>1, Inductive, PTL

\* What a finished comparison lists, kind by kind.
LEMMA Reports ==
  ASSUME IInv, pc = "done"
  PROVE  /\ Reported("Modified") = ToSet(removed) \cap Left
         /\ Reported("Removed") = ToSet(removed) \ Left
         /\ Reported("Added") = Left \ ToSet(removed)
         /\ \A kind \in {"NowUnreachable", "NowReachable", "NowRedundant", "NoLongerRedundant"} :
              {out[k] : k \in {j \in DOMAIN out : out[j].kind = kind}}
                = {x \in Statuses : x.kind = kind}
<1> DEFINE edits == ToSet(removed) \cap Left
           gone == ToSet(removed) \ Left
           new == Left \ ToSet(removed)
           status == {"NowUnreachable", "NowReachable", "NowRedundant", "NoLongerRedundant"}
<1>1. Shape /\ Pairs /\ Said
  BY DEF IInv
<1>2. Seen = DOMAIN paired /\ Considered = ToSet(removed)
  BY DEF Seen, Considered
<1>3. \A x \in Statuses : x.kind \in status
  BY <1>1, <1>2, StatusesDistinct
<1>4. {out[k] : k \in DOMAIN out}
        = Statuses \cup Listed("Modified", edits) \cup Listed("Removed", gone) \cup Listed("Added", new)
  BY <1>1, <1>2 DEF Said, ToSet
<1>5. \A kind, numbers :
        \A x : x \in Listed(kind, numbers) =>
                 x.kind = kind /\ x.number \in numbers
  BY DEF Listed, Change
<1>6. \A kind, numbers : \A n \in numbers :
        /\ Change(kind, n, <<>>) \in Listed(kind, numbers)
        /\ Change(kind, n, <<>>).kind = kind /\ Change(kind, n, <<>>).number = n
  BY DEF Listed, Change
<1> HIDE DEF edits, gone, new
<1>7. Reported("Modified") = edits
  <2>1. \A k \in DOMAIN out : out[k].kind = "Modified" => out[k].number \in edits
    BY <1>3, <1>4, <1>5
  <2>2. ASSUME NEW n \in edits PROVE \E k \in DOMAIN out : out[k].kind = "Modified" /\ out[k].number = n
    <3> DEFINE c == Change("Modified", n, <<>>)
    <3>1. c \in Listed("Modified", edits) /\ c.kind = "Modified" /\ c.number = n
      BY <1>6
    <3> HIDE DEF c
    <3>2. c \in {out[k] : k \in DOMAIN out}
      BY <1>4, <3>1
    <3> QED
      BY <3>1, <3>2
  <2> QED
    BY <2>1, <2>2 DEF Reported
<1>8. Reported("Removed") = gone
  <2>1. \A k \in DOMAIN out : out[k].kind = "Removed" => out[k].number \in gone
    BY <1>3, <1>4, <1>5
  <2>2. ASSUME NEW n \in gone PROVE \E k \in DOMAIN out : out[k].kind = "Removed" /\ out[k].number = n
    <3> DEFINE c == Change("Removed", n, <<>>)
    <3>1. c \in Listed("Removed", gone) /\ c.kind = "Removed" /\ c.number = n
      BY <1>6
    <3> HIDE DEF c
    <3>2. c \in {out[k] : k \in DOMAIN out}
      BY <1>4, <3>1
    <3> QED
      BY <3>1, <3>2
  <2> QED
    BY <2>1, <2>2 DEF Reported
<1>9. Reported("Added") = new
  <2>1. \A k \in DOMAIN out : out[k].kind = "Added" => out[k].number \in new
    BY <1>3, <1>4, <1>5
  <2>2. ASSUME NEW n \in new PROVE \E k \in DOMAIN out : out[k].kind = "Added" /\ out[k].number = n
    <3> DEFINE c == Change("Added", n, <<>>)
    <3>1. c \in Listed("Added", new) /\ c.kind = "Added" /\ c.number = n
      BY <1>6
    <3> HIDE DEF c
    <3>2. c \in {out[k] : k \in DOMAIN out}
      BY <1>4, <3>1
    <3> QED
      BY <3>1, <3>2
  <2> QED
    BY <2>1, <2>2 DEF Reported
<1>10. ASSUME NEW kind \in status
       PROVE  {out[k] : k \in {j \in DOMAIN out : out[j].kind = kind}}
                = {x \in Statuses : x.kind = kind}
  <2>1. \A k \in DOMAIN out : out[k].kind = kind => out[k] \in Statuses
    BY <1>4, <1>5, <1>10
  <2>2. \A x \in Statuses : \E k \in DOMAIN out : out[k] = x
    BY <1>4
  <2> QED
    BY <2>1, <2>2
<1> QED
  BY <1>7, <1>8, <1>9, <1>10 DEF edits, gone, new

\* A list without repetitions is as long as the set of its items is large.
LEMMA HeadsCounted ==
  ASSUME Shape, Pairs
  PROVE  Cardinality(HeadPaired) = Len(paired) /\ Cardinality(BasePaired) = Len(paired)
<1> DEFINE n == Len(paired)
           heads == [k \in 1 .. n |-> paired[k].head]
           bases == [k \in 1 .. n |-> paired[k].base]
<1>1. n \in Nat /\ DOMAIN paired = 1 .. n
  BY DEF Shape
<1>2. IsFiniteSet(1 .. n) /\ Cardinality(1 .. n) = n
  <2> HIDE DEF n
  <2> QED
    BY <1>1, FS_Interval
<1>3. \A j, k \in 1 .. n : paired[j].head = paired[k].head => j = k
  BY <1>1, HeadsDistinct
<1>4. \A j, k \in 1 .. n : paired[j].base = paired[k].base => j = k
  <2> SUFFICES ASSUME NEW j \in 1 .. n, NEW k \in 1 .. n, paired[j].base = paired[k].base PROVE j = k
    OBVIOUS
  <2>1. paired[j].base \in Int
    <3>1. base \in Written
      BY DEF Shape
    <3> QED
      BY <1>1, <3>1, PairShape, ResolvedChain
  <2>2. ~(j < k) /\ ~(k < j)
    BY <1>1, <2>1 DEF Pairs
  <2> QED
    BY <1>1, <2>2
<1>5. HeadPaired = {heads[k] : k \in 1 .. n} /\ BasePaired = {bases[k] : k \in 1 .. n}
  BY <1>1 DEF HeadPaired, BasePaired
<1>6. /\ \A j, k \in 1 .. n : heads[j] = heads[k] => j = k
      /\ \A j, k \in 1 .. n : bases[j] = bases[k] => j = k
  BY <1>3, <1>4
<1>7. heads = [k \in 1 .. n |-> heads[k]] /\ bases = [k \in 1 .. n |-> bases[k]]
  OBVIOUS
<1> HIDE DEF heads, bases, n
<1>8. heads \in Surjection(1 .. n, HeadPaired) /\ bases \in Surjection(1 .. n, BasePaired)
  BY <1>5, <1>7 DEF Surjection
<1>9. heads \in Injection(1 .. n, HeadPaired) /\ bases \in Injection(1 .. n, BasePaired)
  BY <1>5, <1>6, <1>7 DEF Injection, IsInjective
<1> QED
  BY <1>2, <1>8, <1>9, FS_Surjection DEF n

\* Every rule of both revisions is paired, listed once, or both sides of an edit.
THEOREM AllAccounted == Spec => []EveryRuleAccountedOnce
<1>1. IInv => EveryRuleAccountedOnce
  <2> SUFFICES ASSUME IInv, pc = "done" PROVE EveryRuleAccountedOnce
    BY DEF EveryRuleAccountedOnce
  <2>1. Shape /\ Pairs /\ Said
    BY DEF IInv
  <2>2. BasePaired \cup ToSet(removed) = Numbers(base) /\ BasePaired \cap ToSet(removed) = {}
    BY <2>1 DEF Pairs, Walked
  <2>3. HeadPaired \subseteq Numbers(head) /\ Left = Numbers(head) \ HeadPaired
    BY <2>1, PairShape DEF HeadPaired, Left
  <2>4. /\ Reported("Modified") = ToSet(removed) \cap Left
        /\ Reported("Removed") = ToSet(removed) \ Left
        /\ Reported("Added") = Left \ ToSet(removed)
    BY Reports
  <2> DEFINE kinds == [k \in {"Added", "Removed", "Modified"} |-> Reported(k)]
  <2>5. /\ DOMAIN kinds = {"Added", "Removed", "Modified"} /\ kinds["Added"] = Left \ ToSet(removed)
        /\ kinds["Removed"] = ToSet(removed) \ Left /\ kinds["Modified"] = ToSet(removed) \cap Left
    BY <2>4
  <2> HIDE DEF kinds
  <2>6. /\ BasePaired \cup kinds["Removed"] \cup kinds["Modified"] = Numbers(base)
        /\ HeadPaired \cup kinds["Added"] \cup kinds["Modified"] = Numbers(head)
        /\ BasePaired \cap (kinds["Removed"] \cup kinds["Modified"]) = {}
        /\ HeadPaired \cap (kinds["Added"] \cup kinds["Modified"]) = {}
    BY <2>2, <2>3, <2>5
  <2>7. \A j, k \in DOMAIN kinds : j # k => kinds[j] \cap kinds[k] = {}
    BY <2>5
  <2>8. Len(out) = Cardinality(ToSet(out)) /\ Cardinality(HeadPaired) = Len(paired)
    BY <2>1, HeadsCounted DEF Said
  <2> QED
    BY <2>6, <2>7, <2>8 DEF EveryRuleAccountedOnce, kinds
<1> QED
  BY <1>1, Inductive, PTL

(***************************************************************************)
(* Inserting and deleting one rule.                                        *)
(***************************************************************************)
Saying(rules, c) == {n \in DOMAIN rules : rules[n] = c}

\* A list says everything at least as often as the same list one item shorter.
LEMMA InsertedCounts ==
  ASSUME NEW S, NEW t \in Seq(S), NEW i \in DOMAIN t, NEW c
  PROVE  LET s == RemoveAt(t, i)
         IN  /\ Len(t) = Len(s) + 1 /\ s \in Seq(S)
             /\ IsFiniteSet(Saying(s, c)) /\ IsFiniteSet(Saying(t, c))
             /\ Cardinality(Saying(s, c)) <= Cardinality(Saying(t, c))
<1> DEFINE s == RemoveAt(t, i)
           n == Len(t)
           at(k) == IF k < i THEN k ELSE k + 1
           f == [k \in Saying(s, c) |-> at(k)]
<1>1. n \in Nat /\ DOMAIN t = 1 .. n /\ i \in 1 .. n
  OBVIOUS
<1>2. s \in Seq(S) /\ Len(s) = n - 1
      /\ \A k \in 1 .. (n - 1) : s[k] = IF k < i THEN t[k] ELSE t[k + 1]
  BY <1>1, ItemRemoved
<1> HIDE DEF s, n
<1>3. DOMAIN s = 1 .. (n - 1)
  BY <1>1, <1>2
<1>4. /\ Saying(s, c) \subseteq 1 .. (n - 1) /\ Saying(t, c) \subseteq 1 .. n
      /\ \A k \in 1 .. (n - 1) : k \in Saying(s, c) <=> s[k] = c
      /\ \A k \in 1 .. n : k \in Saying(t, c) <=> t[k] = c
  BY <1>1, <1>3 DEF Saying
<1>5. IsFiniteSet(Saying(s, c)) /\ IsFiniteSet(Saying(t, c))
  <2>1. IsFiniteSet(1 .. (n - 1)) /\ IsFiniteSet(1 .. n)
    BY <1>1, FS_Interval
  <2> QED
    BY <1>4, <2>1, FS_Subset
<1>6. \A k \in 1 .. (n - 1) : at(k) \in 1 .. n /\ s[k] = t[at(k)]
  BY <1>1, <1>2
<1>7. \A j, k \in 1 .. (n - 1) : at(j) = at(k) => j = k
  BY <1>1
<1> HIDE DEF at
<1>8. f \in Injection(Saying(s, c), Saying(t, c))
  <2>1. f \in [Saying(s, c) -> Saying(t, c)]
    BY <1>4, <1>6
  <2>2. \A j, k \in Saying(s, c) : f[j] = f[k] => j = k
    BY <1>4, <1>7
  <2> QED
    BY <2>1, <2>2 DEF Injection, IsInjective
<1>9. Cardinality(Saying(s, c)) <= Cardinality(Saying(t, c))
  BY <1>5, <1>8, FS_Injection
<1> QED
  BY <1>1, <1>2, <1>5, <1>9 DEF s, n

LEMMA PairSides ==
  ASSUME Shape, Pairs, NEW k \in DOMAIN paired
  PROVE  /\ base.rules[paired[k].base] = head.rules[paired[k].head]
         /\ paired[k].base \in BasePaired /\ paired[k].head \in HeadPaired
         /\ \A j \in DOMAIN paired : paired[j].base = paired[k].base => j = k
<1>1. base.rules[paired[k].base] = head.rules[paired[k].head]
  BY DEF Pairs, SameKey
<1>2. ASSUME NEW j \in DOMAIN paired, paired[j].base = paired[k].base PROVE j = k
  <2>1. paired[j].base \in Int /\ j \in Int /\ k \in Int
    <3>1. base \in Written
      BY DEF Shape
    <3> QED
      BY <3>1, PairShape, ResolvedChain
  <2>2. ~(j < k) /\ ~(k < j)
    BY <1>2, <2>1 DEF Pairs
  <2> QED
    BY <2>1, <2>2
<1> QED
  BY <1>1, <1>2 DEF BasePaired, HeadPaired

\* As many base rules as head rules of a content are paired.
LEMMA PairedBasesFit ==
  ASSUME Shape, Pairs, NEW c, NEW H, IsFiniteSet(H),
         \A k \in DOMAIN paired : base.rules[paired[k].base] = c => paired[k].head \in H,
         Saying(base.rules, c) \subseteq BasePaired
  PROVE  Cardinality(Saying(base.rules, c)) <= Cardinality(H)
<1> DEFINE B == Saying(base.rules, c)
           pair(b) == CHOOSE k \in DOMAIN paired : paired[k].base = b
           f == [b \in B |-> paired[pair(b)].head]
<1>1. \A b \in B : \E k \in DOMAIN paired : paired[k].base = b
  BY DEF BasePaired
<1>2. \A b \in B : pair(b) \in DOMAIN paired /\ paired[pair(b)].base = b
  BY <1>1
<1>3. \A b \in B : base.rules[b] = c
  BY DEF Saying
<1> HIDE DEF pair, B
<1>4. f \in [B -> H]
  BY <1>2, <1>3
<1>5. \A b, d \in B : f[b] = f[d] => b = d
  <2> SUFFICES ASSUME NEW b \in B, NEW d \in B, f[b] = f[d] PROVE b = d
    OBVIOUS
  <2>1. pair(b) = pair(d)
    BY <1>2, HeadsDistinct
  <2> QED
    BY <1>2, <2>1
<1> HIDE DEF f
<1>6. f \in Injection(B, H)
  BY <1>4, <1>5 DEF Injection, IsInjective
<1> QED
  BY <1>6, FS_Injection DEF B

LEMMA PairedHeadsFit ==
  ASSUME Shape, Pairs, NEW c, NEW B, IsFiniteSet(B),
         \A k \in DOMAIN paired : head.rules[paired[k].head] = c => paired[k].base \in B,
         Saying(head.rules, c) \subseteq HeadPaired
  PROVE  Cardinality(Saying(head.rules, c)) <= Cardinality(B)
<1> DEFINE H == Saying(head.rules, c)
           pair(h) == CHOOSE k \in DOMAIN paired : paired[k].head = h
           f == [h \in H |-> paired[pair(h)].base]
<1>1. \A h \in H : \E k \in DOMAIN paired : paired[k].head = h
  BY DEF HeadPaired
<1>2. \A h \in H : pair(h) \in DOMAIN paired /\ paired[pair(h)].head = h
  BY <1>1
<1>3. \A h \in H : head.rules[h] = c
  BY DEF Saying
<1> HIDE DEF pair, H
<1>4. f \in [H -> B]
  BY <1>2, <1>3
<1>5. \A h, d \in H : f[h] = f[d] => h = d
  <2> SUFFICES ASSUME NEW h \in H, NEW d \in H, f[h] = f[d] PROVE h = d
    OBVIOUS
  <2>1. pair(h) = pair(d)
    BY <1>2, PairSides
  <2> QED
    BY <1>2, <2>1
<1> HIDE DEF f
<1>6. f \in Injection(H, B)
  BY <1>4, <1>5 DEF Injection, IsInjective
<1> QED
  BY <1>6, FS_Injection DEF H

\* A finished pairing, in numbers.
LEMMA Counted ==
  ASSUME IInv, pc = "done"
  PROVE  /\ Shape /\ Pairs
         /\ base.rules \in Seq(Content) /\ head.rules \in Seq(Content)
         /\ Numbers(base) = DOMAIN base.rules /\ Numbers(head) = DOMAIN head.rules
         /\ BasePaired \cup ToSet(removed) = Numbers(base) /\ BasePaired \cap ToSet(removed) = {}
         /\ HeadPaired \cup Left = Numbers(head) /\ HeadPaired \cap Left = {}
         /\ IsFiniteSet(ToSet(removed)) /\ IsFiniteSet(Left)
         /\ Cardinality(ToSet(removed)) = Len(base.rules) - Len(paired)
         /\ Cardinality(Left) = Len(head.rules) - Len(paired)
         /\ Len(paired) \in Nat
<1>1. /\ Shape /\ Pairs
  BY DEF IInv
<1>2. /\ base.rules \in Seq(Content) /\ head.rules \in Seq(Content)
      /\ Numbers(base) = 1 .. Len(base.rules) /\ Numbers(head) = 1 .. Len(head.rules)
      /\ Len(base.rules) \in Nat /\ Len(head.rules) \in Nat
  <2>1. base \in Written /\ head \in Written
    BY <1>1 DEF Shape
  <2> QED
    BY <2>1, ResolvedChain DEF Written
<1>3. BasePaired \cup ToSet(removed) = Numbers(base) /\ BasePaired \cap ToSet(removed) = {}
  BY <1>1 DEF Pairs, Walked
<1>4. HeadPaired \subseteq Numbers(head)
  BY <1>1, PairShape DEF HeadPaired
<1>5. HeadPaired \cup Left = Numbers(head) /\ HeadPaired \cap Left = {}
  BY <1>4 DEF Left
<1>6. /\ IsFiniteSet(Numbers(base)) /\ Cardinality(Numbers(base)) = Len(base.rules)
      /\ IsFiniteSet(Numbers(head)) /\ Cardinality(Numbers(head)) = Len(head.rules)
  <2>1. \A n \in Nat : IsFiniteSet(1 .. n) /\ Cardinality(1 .. n) = n
    BY FS_Interval
  <2> QED
    BY <1>2, <2>1
<1>7. Cardinality(HeadPaired) = Len(paired) /\ Cardinality(BasePaired) = Len(paired)
  BY <1>1, HeadsCounted
<1>8. /\ IsFiniteSet(ToSet(removed))
      /\ Cardinality(ToSet(removed)) = Len(base.rules) - Len(paired)
  <2>1. ToSet(removed) = Numbers(base) \ BasePaired /\ Numbers(base) \cap BasePaired = BasePaired
    BY <1>3
  <2>2. /\ IsFiniteSet(Numbers(base) \ BasePaired)
        /\ Cardinality(Numbers(base) \ BasePaired)
             = Cardinality(Numbers(base)) - Cardinality(Numbers(base) \cap BasePaired)
    BY <1>6, FS_Difference
  <2> QED
    BY <1>6, <1>7, <2>1, <2>2
<1>9. /\ IsFiniteSet(Left) /\ Cardinality(Left) = Len(head.rules) - Len(paired)
  <2>1. Left = Numbers(head) \ HeadPaired /\ Numbers(head) \cap HeadPaired = HeadPaired
    BY <1>4 DEF Left
  <2>2. /\ IsFiniteSet(Numbers(head) \ HeadPaired)
        /\ Cardinality(Numbers(head) \ HeadPaired)
             = Cardinality(Numbers(head)) - Cardinality(Numbers(head) \cap HeadPaired)
    BY <1>6, FS_Difference
  <2> QED
    BY <1>6, <1>7, <2>1, <2>2
<1>10. Len(paired) \in Nat
  BY <1>1 DEF Shape
<1> QED
  BY <1>1, <1>2, <1>3, <1>5, <1>8, <1>9, <1>10 DEF Numbers

\* Nothing is removed when the head is the base with one rule more.
LEMMA NoneRemoved ==
  ASSUME IInv, pc = "done", NEW i \in DOMAIN head.rules, RemoveAt(head.rules, i) = base.rules
  PROVE  ToSet(removed) = {} /\ Len(head.rules) = Len(base.rules) + 1
<1>1. Len(head.rules) = Len(base.rules) + 1
  BY Counted, InsertedCounts
<1>2. ASSUME NEW b \in ToSet(removed) PROVE FALSE
  <2> DEFINE c == base.rules[b]
             B == Saying(base.rules, c)
             H == Saying(head.rules, c)
  <2>1. IsFiniteSet(B) /\ IsFiniteSet(H) /\ Cardinality(B) <= Cardinality(H)
    BY Counted, InsertedCounts
  <2>2. b \in B /\ b \notin BasePaired
    BY Counted DEF Saying
  <2>3. H \subseteq HeadPaired
    BY Counted DEF Saying, Pairs
  <2>4. \A k \in DOMAIN paired : head.rules[paired[k].head] = c => paired[k].base \in B \ {b}
    <3> SUFFICES ASSUME NEW k \in DOMAIN paired, head.rules[paired[k].head] = c
                 PROVE  paired[k].base \in B \ {b}
      OBVIOUS
    <3>1. base.rules[paired[k].base] = c /\ paired[k].base \in BasePaired
          /\ paired[k].base \in DOMAIN base.rules
      BY Counted, PairSides, PairShape
    <3> QED
      BY <2>2, <3>1 DEF Saying
  <2> HIDE DEF B, H, c
  <2>5. /\ IsFiniteSet(B \ {b}) /\ Cardinality(B \ {b}) = Cardinality(B) - 1
        /\ Cardinality(B) \in Nat /\ Cardinality(H) \in Nat
    BY <2>1, <2>2, FS_RemoveElement, FS_CardinalityType
  <2>6. Cardinality(H) <= Cardinality(B \ {b})
    BY <2>3, <2>4, <2>5, Counted, PairedHeadsFit DEF H
  <2> QED
    BY <2>1, <2>5, <2>6
<1> QED
  BY <1>1, <1>2

\* No head rule is left when the base is the head with one rule more.
LEMMA NoneLeft ==
  ASSUME IInv, pc = "done", NEW i \in DOMAIN base.rules, RemoveAt(base.rules, i) = head.rules
  PROVE  Left = {} /\ Len(base.rules) = Len(head.rules) + 1
<1>1. Len(base.rules) = Len(head.rules) + 1
  BY Counted, InsertedCounts
<1>2. ASSUME NEW h \in Left PROVE FALSE
  <2> DEFINE c == head.rules[h]
             B == Saying(base.rules, c)
             H == Saying(head.rules, c)
  <2>1. IsFiniteSet(B) /\ IsFiniteSet(H) /\ Cardinality(H) <= Cardinality(B)
    BY Counted, InsertedCounts
  <2>2. h \in H /\ h \notin HeadPaired
    BY Counted DEF Saying
  <2>3. B \subseteq BasePaired
    BY Counted DEF Saying, Pairs
  <2>4. \A k \in DOMAIN paired : base.rules[paired[k].base] = c => paired[k].head \in H \ {h}
    <3> SUFFICES ASSUME NEW k \in DOMAIN paired, base.rules[paired[k].base] = c
                 PROVE  paired[k].head \in H \ {h}
      OBVIOUS
    <3>1. head.rules[paired[k].head] = c /\ paired[k].head \in HeadPaired
          /\ paired[k].head \in DOMAIN head.rules
      BY Counted, PairSides, PairShape
    <3> QED
      BY <2>2, <3>1 DEF Saying
  <2> HIDE DEF B, H, c
  <2>5. /\ IsFiniteSet(H \ {h}) /\ Cardinality(H \ {h}) = Cardinality(H) - 1
        /\ Cardinality(B) \in Nat /\ Cardinality(H) \in Nat
    BY <2>1, <2>2, FS_RemoveElement, FS_CardinalityType
  <2>6. Cardinality(B) <= Cardinality(H \ {h})
    BY <2>3, <2>4, <2>5, Counted, PairedBasesFit DEF B
  <2> QED
    BY <2>1, <2>5, <2>6
<1> QED
  BY <1>1, <1>2

\* One rule inserted shows as one addition, one deleted as one removal, wherever
\* it is and however often the others say the same.
THEOREM InsertionShown == Spec => []InsertionIsOneAddition
<1>1. IInv => InsertionIsOneAddition
  <2> SUFFICES ASSUME IInv, pc = "done" PROVE InsertionIsOneAddition
    BY DEF InsertionIsOneAddition
  <2>1. /\ Reported("Modified") = ToSet(removed) \cap Left
        /\ Reported("Removed") = ToSet(removed) \ Left
        /\ Reported("Added") = Left \ ToSet(removed)
    BY Reports
  <2>2. Cardinality({}) = 0
    BY FS_EmptySet
  <2>3. ASSUME NEW i \in DOMAIN head.rules, RemoveAt(head.rules, i) = base.rules
        PROVE  /\ Cardinality(Reported("Added")) = 1
               /\ Cardinality(Reported("Removed")) + Cardinality(Reported("Modified")) = 0
    <3>1. ToSet(removed) = {} /\ Len(head.rules) = Len(base.rules) + 1
      BY <2>3, NoneRemoved
    <3>2. /\ 0 = Len(base.rules) - Len(paired) /\ Cardinality(Left) = Len(head.rules) - Len(paired)
          /\ Len(paired) \in Nat /\ Len(base.rules) \in Nat
      BY <2>2, <3>1, Counted
    <3>3. Cardinality(Left) = 1
      BY <3>1, <3>2
    <3>4. Reported("Added") = Left /\ Reported("Removed") = {} /\ Reported("Modified") = {}
      BY <2>1, <3>1
    <3> QED
      BY <2>2, <3>3, <3>4
  <2>4. ASSUME NEW i \in DOMAIN base.rules, RemoveAt(base.rules, i) = head.rules
        PROVE  /\ Reported("Added") = {}
               /\ Cardinality(Reported("Removed")) + Cardinality(Reported("Modified")) = 1
    <3>1. Left = {} /\ Len(base.rules) = Len(head.rules) + 1
      BY <2>4, NoneLeft
    <3>2. /\ 0 = Len(head.rules) - Len(paired)
          /\ Cardinality(ToSet(removed)) = Len(base.rules) - Len(paired)
          /\ Len(paired) \in Nat /\ Len(head.rules) \in Nat
      BY <2>2, <3>1, Counted
    <3>3. Cardinality(ToSet(removed)) = 1
      BY <3>1, <3>2
    <3>4. Reported("Added") = {} /\ Reported("Removed") = ToSet(removed) /\ Reported("Modified") = {}
      BY <2>1, <3>1
    <3> QED
      BY <2>2, <3>3, <3>4
  <2> QED
    BY <2>3, <2>4 DEF InsertionIsOneAddition
<1> QED
  BY <1>1, Inductive, PTL

(***************************************************************************)
(* Rules that start or stop deciding packets.                              *)
(***************************************************************************)
StatusKinds == {"NowUnreachable", "NowReachable", "NowRedundant", "NoLongerRedundant"}

\* The statuses listed under a pair's head number are that pair's.
LEMMA StatusListed ==
  ASSUME IInv, pc = "done", NEW n \in DOMAIN paired, NEW kind \in StatusKinds
  PROVE  {out[k] : k \in {j \in DOMAIN out : out[j].kind = kind /\ out[j].number = paired[n].head}}
           = {x \in StatusOf(n) : x.kind = kind}
<1> DEFINE listed == {out[k] : k \in {j \in DOMAIN out : out[j].kind = kind}}
           h == paired[n].head
<1>1. Shape /\ Pairs /\ Seen = DOMAIN paired
  BY DEF IInv, Seen
<1>2. listed = {x \in Statuses : x.kind = kind}
  BY Reports DEF StatusKinds
<1>3. ASSUME NEW x \in Statuses, x.number = h PROVE x \in StatusOf(n)
  <2>1. PICK m \in DOMAIN paired : x \in StatusOf(m)
    BY <1>1 DEF Statuses
  <2>2. paired[m].head = h
    BY <1>1, <1>3, <2>1, StatusOfOne
  <2>3. m = n
    BY <1>1, <2>2, HeadsDistinct
  <2> QED
    BY <2>1, <2>3
<1>4. \A x \in StatusOf(n) : x \in Statuses /\ x.number = h
  BY <1>1, StatusOfOne DEF Statuses
<1>5. {out[k] : k \in {j \in DOMAIN out : out[j].kind = kind /\ out[j].number = h}}
        = {x \in listed : x.number = h}
  OBVIOUS
<1> HIDE DEF listed, h
<1>6. {x \in listed : x.number = h} = {x \in StatusOf(n) : x.kind = kind}
  BY <1>2, <1>3, <1>4
<1> QED
  BY <1>5, <1>6 DEF h

\* Rules that only each other equals are a pair.
LEMMA OnlyEquals ==
  ASSUME IInv, pc = "done", NEW b \in Numbers(base), NEW h \in Numbers(head),
         {n \in Numbers(base) : base.rules[n] = head.rules[h]} = {b},
         {n \in Numbers(head) : head.rules[n] = head.rules[h]} = {h}
  PROVE  \E n \in DOMAIN paired : paired[n].base = b /\ paired[n].head = h
<1>1. Shape /\ Pairs
  BY DEF IInv
<1>2. base.rules[b] = head.rules[h]
  OBVIOUS
<1>3. ASSUME NEW n \in DOMAIN paired, base.rules[paired[n].base] = head.rules[h]
      PROVE  paired[n].base = b /\ paired[n].head = h
  <2>1. /\ paired[n].base \in Numbers(base) /\ paired[n].head \in Numbers(head)
        /\ head.rules[paired[n].head] = head.rules[h]
    BY <1>1, <1>3, PairShape, PairSides
  <2> QED
    BY <1>3, <2>1
<1>4. h \in HeadPaired
  <2> SUFFICES ASSUME h \in Left PROVE FALSE
    BY Counted
  <2>1. b \notin ToSet(removed)
    BY <1>1, <1>2 DEF Pairs
  <2>2. PICK n \in DOMAIN paired : paired[n].base = b
    BY <2>1, Counted DEF BasePaired
  <2>3. h \in HeadPaired
    BY <1>1, <1>2, <1>3, <2>2, PairSides
  <2> QED
    BY <2>3, Counted
<1>5. PICK n \in DOMAIN paired : paired[n].head = h
  BY <1>4 DEF HeadPaired
<1>6. base.rules[paired[n].base] = head.rules[h]
  BY <1>1, <1>5, PairSides
<1> QED
  BY <1>3, <1>5, <1>6

\* A rule said once on each side: its changes of status are listed when, and
\* only when, they happened, with rules that do cover it where it is dead.
LEMMA StatusOfEquals ==
  ASSUME IInv, pc = "done", NEW n \in DOMAIN paired
  PROVE  LET b == paired[n].base
             h == paired[n].head
             bm == ModelOf(base)
             hm == ModelOf(head)
             dead(model, i) == \A p \in Packets : p \notin model.rules[i].effective
             needed(written, i) ==
               AcceptSet(Deleting(Resolved(written), i)) # AcceptSet(Resolved(written))
             explains(model, i, why) ==
               why # <<>> /\ CoveredBy(model, model.rules[i].matched, ToSet(why))
             says(kind, x) == x \in StatusOf(n) /\ x.kind = kind
         IN  /\ dead(hm, h) /\ ~dead(bm, b) <=>
                  \E x : says("NowUnreachable", x) /\ explains(hm, h, x.why)
             /\ dead(bm, b) /\ ~dead(hm, h) <=>
                  \E x : says("NowReachable", x) /\ explains(bm, b, x.why)
             /\ ~dead(bm, b) /\ ~dead(hm, h) =>
                  /\ (\E x : says("NowRedundant", x)) <=> needed(base, b) /\ ~needed(head, h)
                  /\ (\E x : says("NoLongerRedundant", x)) <=> ~needed(base, b) /\ needed(head, h)
<1> DEFINE b == paired[n].base
           h == paired[n].head
           bm == ModelOf(base)
           hm == ModelOf(head)
           dead(model, i) == \A p \in Packets : p \notin model.rules[i].effective
           needed(written, i) ==
             AcceptSet(Deleting(Resolved(written), i)) # AcceptSet(Resolved(written))
           explains(model, i, why) ==
             why # <<>> /\ CoveredBy(model, model.rules[i].matched, ToSet(why))
           bs == bm.rules[b].shadowed
           hs == hm.rules[h].shadowed
           br == bm.rules[b].redundant
           hr == hm.rules[h].redundant
           dies == Change("NowUnreachable", h, ExplainShadow(hm, h))
           wakes == Change("NowReachable", h, ExplainShadow(bm, b))
           idles == Change("NowRedundant", h, <<>>)
           works == Change("NoLongerRedundant", h, <<>>)
<1>1. /\ base \in Written /\ head \in Written /\ b \in Numbers(base) /\ h \in Numbers(head)
      /\ base.rules[b] = head.rules[h]
  BY PairShape, PairSides DEF IInv, Shape
<1>2. bs = dead(bm, b) /\ hs = dead(hm, h)
  BY <1>1, ShadowedModel
<1>3. (br <=> ~needed(base, b)) /\ (hr <=> ~needed(head, h))
  <2>1. /\ Resolved(base) \in Chain /\ b \in 1 .. Len(Resolved(base).rules)
        /\ Resolved(head) \in Chain /\ h \in 1 .. Len(Resolved(head).rules)
    BY <1>1, ResolvedChain
  <2>2. br = AgreesWithRest(Resolved(base), b) /\ hr = AgreesWithRest(Resolved(head), h)
    BY <1>1, ShadowedModel
  <2>3. (AgreesWithRest(Resolved(base), b) <=> ~needed(base, b))
        /\ (AgreesWithRest(Resolved(head), h) <=> ~needed(head, h))
    BY <2>1, RedundantExactly
  <2> HIDE DEF br, hr, needed
  <2> QED
    BY <2>2, <2>3, Zenon
<1>4. bm.rules[b].matched = hm.rules[h].matched
  <2>1. /\ Resolved(base).rules[b].match = Denotes[base.rules[b].says]
        /\ Resolved(head).rules[h].match = Denotes[head.rules[h].says]
    <3>1. ASSUME NEW w \in Written, NEW i \in Numbers(w)
          PROVE  Resolved(w).rules[i].match = Denotes[w.rules[i].says]
      <4> DEFINE r == [match |-> Denotes[w.rules[i].says], action |-> w.rules[i].action]
      <4>1. Resolved(w).rules[i] = r
        BY ResolvedChain
      <4>2. r.match = Denotes[w.rules[i].says]
        OBVIOUS
      <4> HIDE DEF r
      <4> QED
        BY <4>1, <4>2
    <3> QED
      BY <1>1, <3>1
  <2> QED
    BY <1>1, <2>1, ShadowedModel
<1>5. /\ ~dead(bm, b) => bm.rules[b].matched # {}
      /\ ~dead(hm, h) => hm.rules[h].matched # {}
  <2>1. \A w \in Written : \A i \in Numbers(w) : \A p \in ModelOf(w).rules[i].effective :
          p \in ModelOf(w).rules[i].matched
    <3> SUFFICES ASSUME NEW w \in Written, NEW i \in Numbers(w),
                        NEW p \in ModelOf(w).rules[i].effective
                 PROVE  p \in ModelOf(w).rules[i].matched
      OBVIOUS
    <3>1. Decides(Resolved(w).rules, i, p)
      BY ShadowedModel
    <3> QED
      BY <3>1, ShadowedModel DEF Decides
  <2> QED
    BY <1>1, <2>1
<1>6. /\ hs /\ ~bs => explains(hm, h, ExplainShadow(hm, h))
      /\ bs /\ ~hs => explains(bm, b, ExplainShadow(bm, b))
  BY <1>1, <1>2, <1>4, <1>5, ExplanationOfDead
<1>7. \A x : x \in StatusOf(n) <=>
        \/ x = dies /\ ~bs /\ hs
        \/ x = wakes /\ bs /\ ~hs
        \/ x = idles /\ ~bs /\ ~hs /\ ~br /\ hr
        \/ x = works /\ ~bs /\ ~hs /\ br /\ ~hr
  BY DEF StatusOf, Status, Reachability, Redundancy
<1>8. /\ dies.kind = "NowUnreachable" /\ dies.why = ExplainShadow(hm, h)
      /\ wakes.kind = "NowReachable" /\ wakes.why = ExplainShadow(bm, b)
      /\ idles.kind = "NowRedundant" /\ works.kind = "NoLongerRedundant"
  BY DEF Change
<1> HIDE DEF bs, hs, br, hr, dies, wakes, idles, works, b, h, bm, hm, explains, dead, needed
<1>9. hs /\ ~bs <=>
        \E x : x \in StatusOf(n) /\ x.kind = "NowUnreachable" /\ explains(hm, h, x.why)
  BY <1>6, <1>7, <1>8
<1>10. bs /\ ~hs <=>
         \E x : x \in StatusOf(n) /\ x.kind = "NowReachable" /\ explains(bm, b, x.why)
  BY <1>6, <1>7, <1>8
<1>11. ~bs /\ ~hs =>
         /\ (\E x : x \in StatusOf(n) /\ x.kind = "NowRedundant") <=> (~br /\ hr)
         /\ (\E x : x \in StatusOf(n) /\ x.kind = "NoLongerRedundant") <=> (br /\ ~hr)
  BY <1>7, <1>8
<1>12. (hs <=> dead(hm, h)) /\ (bs <=> dead(bm, b))
  BY <1>2, Zenon
<1> QED
  BY <1>3, <1>9, <1>10, <1>11, <1>12
     DEF b, h, bm, hm, explains, dead, needed

\* A rule said once in each revision: structural_changes reports that it starts
\* or stops deciding packets, with what covers it, and that it becomes or stops
\* being deletable, when and only when it does.
THEOREM StatusExplained == Spec => []StatusChangesExplained
<1> DEFINE bm == ModelOf(base)
           hm == ModelOf(head)
           dead(model, i) == \A p \in Packets : p \notin model.rules[i].effective
           needed(written, i) ==
             AcceptSet(Deleting(Resolved(written), i)) # AcceptSet(Resolved(written))
           explains(model, i, why) ==
             why # <<>> /\ CoveredBy(model, model.rules[i].matched, ToSet(why))
<1>1. ASSUME IInv, pc = "done", NEW b \in Numbers(base), NEW h \in Numbers(head),
             {i \in Numbers(base) : base.rules[i] = head.rules[h]} = {b},
             {i \in Numbers(head) : head.rules[i] = head.rules[h]} = {h}
      PROVE  /\ dead(hm, h) /\ ~dead(bm, b) <=>
                  \E k \in DOMAIN out : out[k].kind = "NowUnreachable" /\ out[k].number = h
                                          /\ explains(hm, h, out[k].why)
             /\ dead(bm, b) /\ ~dead(hm, h) <=>
                  \E k \in DOMAIN out : out[k].kind = "NowReachable" /\ out[k].number = h
                                          /\ explains(bm, b, out[k].why)
             /\ ~dead(bm, b) /\ ~dead(hm, h) =>
                  /\ h \in Reported("NowRedundant") <=> needed(base, b) /\ ~needed(head, h)
                  /\ h \in Reported("NoLongerRedundant") <=> ~needed(base, b) /\ needed(head, h)
  <2>1. PICK n \in DOMAIN paired : paired[n].base = b /\ paired[n].head = h
    BY <1>1, OnlyEquals
  <2>2. /\ dead(hm, h) /\ ~dead(bm, b) <=>
             \E x : (x \in StatusOf(n) /\ x.kind = "NowUnreachable") /\ explains(hm, h, x.why)
        /\ dead(bm, b) /\ ~dead(hm, h) <=>
             \E x : (x \in StatusOf(n) /\ x.kind = "NowReachable") /\ explains(bm, b, x.why)
        /\ ~dead(bm, b) /\ ~dead(hm, h) =>
             /\ (\E x : x \in StatusOf(n) /\ x.kind = "NowRedundant")
                  <=> needed(base, b) /\ ~needed(head, h)
             /\ (\E x : x \in StatusOf(n) /\ x.kind = "NoLongerRedundant")
                  <=> ~needed(base, b) /\ needed(head, h)
    BY <1>1, <2>1, StatusOfEquals
  <2> HIDE DEF dead, needed, explains, bm, hm
  <2>3. ASSUME NEW kind \in StatusKinds
        PROVE  /\ \A x : x \in StatusOf(n) /\ x.kind = kind =>
                    \E k \in DOMAIN out : out[k] = x /\ out[k].kind = kind /\ out[k].number = h
               /\ \A k \in DOMAIN out : out[k].kind = kind /\ out[k].number = h =>
                    out[k] \in StatusOf(n)
    <3>1. {out[k] : k \in {j \in DOMAIN out : out[j].kind = kind /\ out[j].number = h}}
            = {x \in StatusOf(n) : x.kind = kind}
      BY <1>1, <2>1, StatusListed
    <3> QED
      BY <3>1
  <2>4. \A kind \in StatusKinds :
          h \in Reported(kind) <=> \E x : x \in StatusOf(n) /\ x.kind = kind
    <3> SUFFICES ASSUME NEW kind \in StatusKinds
                 PROVE  h \in Reported(kind) <=> \E x : x \in StatusOf(n) /\ x.kind = kind
      OBVIOUS
    <3>1. h \in Reported(kind) <=> \E k \in DOMAIN out : out[k].kind = kind /\ out[k].number = h
      BY DEF Reported
    <3> QED
      BY <2>3, <3>1
  <2>5. /\ (\E x : (x \in StatusOf(n) /\ x.kind = "NowUnreachable") /\ explains(hm, h, x.why)) <=>
             \E k \in DOMAIN out : out[k].kind = "NowUnreachable" /\ out[k].number = h
                                     /\ explains(hm, h, out[k].why)
        /\ (\E x : (x \in StatusOf(n) /\ x.kind = "NowReachable") /\ explains(bm, b, x.why)) <=>
             \E k \in DOMAIN out : out[k].kind = "NowReachable" /\ out[k].number = h
                                     /\ explains(bm, b, out[k].why)
    BY <2>3 DEF StatusKinds
  <2>6. "NowRedundant" \in StatusKinds /\ "NoLongerRedundant" \in StatusKinds
    BY DEF StatusKinds
  <2> QED
    BY <2>2, <2>4, <2>5, <2>6
<1>2. IInv => StatusChangesExplained
  BY <1>1 DEF StatusChangesExplained
<1> QED
  BY <1>2, Inductive, PTL

(***************************************************************************)
(* The attribution of the two deltas.                                      *)
(***************************************************************************)
\* Between any two chains, in either direction and under every cap.
LEMMA DeltaExplained ==
  ASSUME NEW b \in Chain, NEW h \in Chain, NEW blocked \in BOOLEAN, NEW cap \in Nat
  PROVE  Explained(Compile(b), Compile(h), blocked, cap)
<1> DEFINE bm == Compile(b)
           hm == Compile(h)
           permits(model, d) == Permits(IF d = ByPolicy THEN model.policy ELSE model.rules[d].action)
           delta == IF blocked THEN NewlyBlocked(bm, hm) ELSE NewlyAllowed(bm, hm)
           split == Attribute(bm, hm, delta, cap)
           c == split.cells
           n == Len(c)
           parts == [k \in DOMAIN c |-> c[k].set]
           decided(model, d, p) ==
             IF d = ByPolicy THEN p \in model.fallthrough ELSE p \in model.rules[d].effective
<1>1. delta \in SUBSET Packets
      /\ \A p \in delta : (p \in bm.accept) = blocked /\ (p \in hm.accept) = ~blocked
  <2>1. bm.accept \in SUBSET Packets /\ hm.accept \in SUBSET Packets
    BY Compiled DEF AcceptSet
  <2> HIDE DEF bm, hm
  <2> QED
    BY <2>1 DEF NewlyBlocked, NewlyAllowed
<1> HIDE DEF delta
<1>2. /\ n \in Nat /\ n <= cap /\ DOMAIN c = 1 .. n
      /\ \A k \in 1 .. n : c[k] \in CellSet(bm, hm, delta)
      /\ \A j, k \in 1 .. n : j # k => c[j].set \cap c[k].set = {}
      /\ split.truncated <=> UNION {c[k].set : k \in 1 .. n} # delta
  BY <1>1, Attributed, SMTT(60)
<1>3. \A x \in CellSet(bm, hm, delta) :
        /\ x.was \in 0 .. Len(b.rules) /\ x.now \in 0 .. Len(h.rules)
        /\ x = Cell(bm, hm, delta, x.was, x.now)
        /\ x.set # {} /\ x.set \subseteq delta
  BY <1>1, CellsExact
<1>4. /\ \A d \in 0 .. Len(b.rules) : \A q \in PartOf(bm, d) : q \in bm.accept <=> permits(bm, d)
      /\ \A d \in 0 .. Len(h.rules) : \A q \in PartOf(hm, d) : q \in hm.accept <=> permits(hm, d)
  BY Parts
<1>5. \A model, d : permits(model, d) \in BOOLEAN
  BY DEF Permits
<1> HIDE DEF bm, hm, split, permits
<1>6. ToSet(parts) = {c[k].set : k \in 1 .. n}
  BY <1>2 DEF ToSet
<1>7. ASSUME NEW k \in 1 .. n
      PROVE  /\ c[k].set # {}
             /\ permits(bm, c[k].was) = blocked
             /\ permits(hm, c[k].now) = ~blocked
             /\ \A p \in c[k].set :
                  p \in delta /\ p \in PartOf(bm, c[k].was) /\ p \in PartOf(hm, c[k].now)
  <2>1. /\ c[k].was \in 0 .. Len(b.rules) /\ c[k].now \in 0 .. Len(h.rules)
        /\ c[k] = Cell(bm, hm, delta, c[k].was, c[k].now)
        /\ c[k].set # {} /\ c[k].set \subseteq delta
    BY <1>2, <1>3
  <2>2. \A p \in c[k].set : p \in PartOf(bm, c[k].was) /\ p \in PartOf(hm, c[k].now)
    <3>1. Cell(bm, hm, delta, c[k].was, c[k].now).set
            = delta \cap PartOf(bm, c[k].was) \cap PartOf(hm, c[k].now)
      BY DEF Cell
    <3> QED
      BY <2>1, <3>1
  <2>3. PICK p \in c[k].set : p \in delta
    BY <2>1
  <2>4. (p \in bm.accept <=> permits(bm, c[k].was)) /\ (p \in hm.accept <=> permits(hm, c[k].now))
    BY <1>4, <2>1, <2>2
  <2>5. (permits(bm, c[k].was) <=> blocked) /\ (permits(hm, c[k].now) <=> ~blocked)
    BY <1>1, <2>3, <2>4
  <2> QED
    BY <1>5, <2>1, <2>2, <2>5
<1>8. \A model, d, p : p \in PartOf(model, d) => decided(model, d, p)
  BY DEF PartOf
<1> HIDE DEF decided
<1>9. /\ n <= cap
      /\ split.truncated <=> (UNION ToSet(parts)) # delta
      /\ \A k \in DOMAIN c :
           /\ parts[k] # {}
           /\ permits(bm, c[k].was) = blocked
           /\ permits(hm, c[k].now) = ~blocked
           /\ \A p \in parts[k] :
                /\ p \in delta
                /\ decided(bm, c[k].was, p)
                /\ decided(hm, c[k].now, p)
      /\ \A j, k \in DOMAIN parts : j # k => parts[j] \cap parts[k] = {}
  BY <1>2, <1>6, <1>7, <1>8
<1> QED
  BY <1>9 DEF Explained, bm, hm, split, permits, decided, delta

\* engine/diff.rs, attribute: on every revision pair, in both directions and under
\* whatever cap a caller sets (4096 for the JSON report), the parts explain the
\* delta and the flag tells whether they are all.
THEOREM EveryCap ==
  Spec => [](pc = "done" =>
               \A cap \in Nat, blocked \in BOOLEAN :
                 Explained(ModelOf(base), ModelOf(head), blocked, cap))
<1>1. IInv => \A cap \in Nat, blocked \in BOOLEAN :
                Explained(ModelOf(base), ModelOf(head), blocked, cap)
  <2> SUFFICES ASSUME IInv
               PROVE  \A cap \in Nat, blocked \in BOOLEAN :
                        Explained(ModelOf(base), ModelOf(head), blocked, cap)
    OBVIOUS
  <2>1. Resolved(base) \in Chain /\ Resolved(head) \in Chain
    BY ResolvedChain DEF IInv, Shape
  <2> QED
    BY <2>1, DeltaExplained DEF ModelOf
<1> QED
  BY <1>1, Inductive, PTL

\* engine/diff.rs, attribute: the same under the caps the run checks.
THEOREM DeltaAttributed == Spec => []AttributionExplainsDelta
<1>1. (pc = "done" => \A cap \in Nat, blocked \in BOOLEAN :
                        Explained(ModelOf(base), ModelOf(head), blocked, cap))
        => AttributionExplainsDelta
  BY DEF AttributionExplainsDelta
<1> QED
  BY <1>1, EveryCap, PTL
=============================================================================
