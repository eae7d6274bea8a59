---------------------------- MODULE ListingProofs ----------------------------
(***************************************************************************)
(* Lemmas about Listing and about the terms Rendering makes of a set, and  *)
(* the induction the other proofs use: a set of naturals has a least       *)
(* member.                                                                 *)
(***************************************************************************)
EXTENDS Rendering, FiniteSetTheorems, FunctionTheorems, WellFoundedInduction, TLAPS

\* What a proof by minimal counterexample rests on.
LEMMA LeastNat ==
  ASSUME NEW T \in SUBSET Nat, T # {}
  PROVE  \E x \in T : \A y \in T : x <= y
<1>1. PICK x \in T : \A y \in T : <<y, x>> \notin OpToRel(<, Nat)
  BY NatLessThanWellFounded, WFMin
<1>2. ASSUME NEW y \in T PROVE x <= y
  <2>1. <<y, x>> \notin OpToRel(<, Nat)
    BY <1>1
  <2>2. ~(y < x)
    BY <2>1 DEF OpToRel
  <2> QED
    BY <2>2
<1> QED
  BY <1>2

LEMMA GreatestNat ==
  ASSUME NEW T \in SUBSET Nat, T # {}, NEW b \in Nat, \A x \in T : x <= b
  PROVE  \E x \in T : \A y \in T : y <= x
<1> DEFINE below == {b - x : x \in T}
<1>1. below \in SUBSET Nat /\ below # {}
  <2>1. \A x \in T : b - x \in Nat
    OBVIOUS
  <2> QED
    BY <2>1
<1>2. PICK m \in below : \A l \in below : m <= l
  BY <1>1, LeastNat
<1>3. PICK x \in T : m = b - x
  BY <1>2
<1>4. \A y \in T : b - x <= b - y
  BY <1>2, <1>3
<1> QED
  BY <1>3, <1>4

\* A finite set in a strict total order: each element once, in that order.
LEMMA RankedList ==
  ASSUME NEW S, IsFiniteSet(S), NEW R, NEW list,
         \A x \in S : <<x, x>> \notin R,
         \A x, y \in S : x # y => <<x, y>> \in R \/ <<y, x>> \in R,
         \A x, y, z \in S : <<x, y>> \in R /\ <<y, z>> \in R => <<x, z>> \in R,
         list = [k \in 1 .. Cardinality(S) |-> list[k]],
         \A k \in 1 .. Cardinality(S) :
           (\E x \in S : Cardinality({y \in S : <<y, x>> \in R}) = k - 1) =>
             list[k] \in S /\ Cardinality({y \in S : <<y, list[k]>> \in R}) = k - 1
  PROVE  /\ Cardinality(S) \in Nat
         /\ list \in [1 .. Cardinality(S) -> S]
         /\ \A x \in S : \E k \in 1 .. Cardinality(S) : list[k] = x
         /\ \A j, k \in 1 .. Cardinality(S) : j < k <=> <<list[j], list[k]>> \in R
<1> DEFINE before(x) == {y \in S : <<y, x>> \in R}
           rank(x) == Cardinality(before(x))
           n == Cardinality(S)
<1>1. n \in Nat
  BY FS_CardinalityType
<1>2. ASSUME NEW x \in S PROVE IsFiniteSet(before(x)) /\ rank(x) \in Nat
  BY FS_Subset, FS_CardinalityType
<1>3. ASSUME NEW x \in S PROVE rank(x) < n
  <2>1. before(x) \subseteq S /\ before(x) # S
    OBVIOUS
  <2> HIDE DEF before
  <2>2. Cardinality(before(x)) <= Cardinality(S) /\ Cardinality(before(x)) # Cardinality(S)
    BY <2>1, FS_Subset
  <2> QED
    BY <1>1, <1>2, <2>2
<1>4. ASSUME NEW x \in S, NEW y \in S, <<x, y>> \in R PROVE rank(x) < rank(y)
  <2>1. before(x) \subseteq before(y) /\ x \in before(y) /\ x \notin before(x)
    BY <1>4
  <2>2. IsFiniteSet(before(y)) /\ rank(x) \in Nat /\ rank(y) \in Nat
    BY <1>2
  <2> HIDE DEF before
  <2>3. Cardinality(before(x)) <= Cardinality(before(y))
        /\ Cardinality(before(x)) # Cardinality(before(y))
    BY <2>1, <2>2, FS_Subset
  <2> QED
    BY <2>2, <2>3
<1> HIDE DEF rank, n
<1>5. ASSUME NEW x \in S, NEW y \in S, rank(x) = rank(y) PROVE x = y
  <2>1. rank(x) \in Nat /\ rank(y) \in Nat
    BY <1>2 DEF rank
  <2>2. <<x, y>> \notin R /\ <<y, x>> \notin R
    BY <1>4, <1>5, <2>1
  <2> QED
    BY <2>2
<1>6. \A k \in 1 .. n : \E x \in S : rank(x) = k - 1
  <2> DEFINE f == [x \in S |-> rank(x) + 1]
  <2>1. f \in [S -> 1 .. n]
    <3>1. \A x \in S : rank(x) \in Nat /\ rank(x) < n
      BY <1>2, <1>3 DEF rank
    <3>2. \A x \in S : rank(x) + 1 \in 1 .. n
      BY <1>1, <3>1
    <3> QED
      BY <3>2
  <2>2. \A x, y \in S : f[x] = f[y] => x = y
    <3>1. \A x \in S : rank(x) \in Nat
      BY <1>2 DEF rank
    <3>2. \A x, y \in S : rank(x) + 1 = rank(y) + 1 => rank(x) = rank(y)
      BY <3>1
    <3> QED
      BY <1>5, <3>2
  <2> HIDE DEF f
  <2>3. f \in Injection(S, 1 .. n)
    BY <2>1, <2>2 DEF Injection, IsInjective
  <2>4. IsFiniteSet(1 .. n) /\ Cardinality(1 .. n) = n
    BY <1>1, FS_Interval
  <2>5. f \in Surjection(S, 1 .. n)
    BY <2>3, <2>4, FS_Injection DEF n
  <2>6. ASSUME NEW k \in 1 .. n PROVE \E x \in S : rank(x) = k - 1
    <3>1. PICK x \in S : f[x] = k
      BY <2>5 DEF Surjection
    <3>2. rank(x) + 1 = k /\ rank(x) \in Nat
      BY <3>1, <1>2 DEF f, rank
    <3> QED
      BY <3>2
  <2> QED
    BY <2>6
<1>7. \A k \in 1 .. n : (\E x \in S : rank(x) = k - 1) => list[k] \in S /\ rank(list[k]) = k - 1
  BY DEF rank, n
<1>8. \A k \in 1 .. n : list[k] \in S /\ rank(list[k]) = k - 1
  BY <1>6, <1>7
<1>9. list \in [1 .. n -> S]
  BY <1>8 DEF n
<1>10. ASSUME NEW x \in S PROVE \E k \in 1 .. n : list[k] = x
  <2>1. rank(x) \in Nat /\ rank(x) < n
    BY <1>2, <1>3 DEF rank
  <2>2. PICK k \in 1 .. n : rank(x) = k - 1
    <3>1. rank(x) + 1 \in 1 .. n /\ rank(x) = (rank(x) + 1) - 1
      BY <1>1, <2>1
    <3> QED
      BY <3>1
  <2>3. list[k] \in S /\ rank(list[k]) = rank(x)
    BY <1>8, <2>2
  <2> QED
    BY <1>5, <2>3
<1>11. ASSUME NEW j \in 1 .. n, NEW k \in 1 .. n
       PROVE  j < k <=> <<list[j], list[k]>> \in R
  <2>1. /\ list[j] \in S /\ rank(list[j]) = j - 1
        /\ list[k] \in S /\ rank(list[k]) = k - 1
    BY <1>8
  <2>2. <<list[j], list[k]>> \in R => j < k
    <3>1. <<list[j], list[k]>> \in R => rank(list[j]) < rank(list[k])
      BY <1>4, <2>1
    <3> QED
      BY <1>1, <2>1, <3>1
  <2>3. <<list[k], list[j]>> \in R => k < j
    <3>1. <<list[k], list[j]>> \in R => rank(list[k]) < rank(list[j])
      BY <1>4, <2>1
    <3> QED
      BY <1>1, <2>1, <3>1
  <2>4. j < k => list[j] # list[k]
    BY <1>1, <2>1
  <2>5. list[j] # list[k] => <<list[j], list[k]>> \in R \/ <<list[k], list[j]>> \in R
    BY <2>1
  <2> QED
    BY <1>1, <2>2, <2>3, <2>4, <2>5
<1> QED
  BY <1>1, <1>9, <1>10, <1>11 DEF n

\* Numbers in ascending order.
LEMMA AscendingList ==
  ASSUME NEW S \in SUBSET Int, IsFiniteSet(S)
  PROVE  /\ Ascending(S) \in Seq(S) /\ Len(Ascending(S)) = Cardinality(S)
         /\ Cardinality(S) \in Nat
         /\ \A x \in S : \E k \in 1 .. Cardinality(S) : Ascending(S)[k] = x
         /\ \A j, k \in 1 .. Cardinality(S) : j < k <=> Ascending(S)[j] < Ascending(S)[k]
<1> DEFINE R == {p \in S \X S : p[1] < p[2]}
<1>1. \A x, y \in S : <<x, y>> \in R <=> x < y
  OBVIOUS
<1>2. \A x \in S : {y \in S : y < x} = {y \in S : <<y, x>> \in R}
  BY <1>1
<1> DEFINE n == Cardinality(S)
<1>3. Ascending(S) = [k \in 1 .. n |-> Ascending(S)[k]]
  <2> DEFINE E(k) == CHOOSE x \in S : Cardinality({y \in S : y < x}) = k - 1
  <2>1. Ascending(S) = [k \in 1 .. n |-> E(k)]
    BY DEF Ascending, Ranked
  <2> HIDE DEF E
  <2> QED
    BY <2>1
<1>4. ASSUME NEW k \in 1 .. n, NEW w \in S, Cardinality({y \in S : <<y, w>> \in R}) = k - 1
      PROVE  /\ Ascending(S)[k] \in S
             /\ Cardinality({y \in S : <<y, Ascending(S)[k]>> \in R}) = k - 1
  <2>1. Ascending(S)[k] = CHOOSE x \in S : Cardinality({y \in S : y < x}) = k - 1
    BY DEF Ascending, Ranked
  <2>2. Cardinality({y \in S : y < w}) = k - 1
    BY <1>2, <1>4
  <2>3. Ascending(S)[k] \in S /\ Cardinality({y \in S : y < Ascending(S)[k]}) = k - 1
    BY <2>1, <2>2
  <2> QED
    BY <1>2, <2>3
<1> HIDE DEF R
<1>5. /\ \A x \in S : <<x, x>> \notin R
      /\ \A x, y \in S : x # y => <<x, y>> \in R \/ <<y, x>> \in R
      /\ \A x, y, z \in S : <<x, y>> \in R /\ <<y, z>> \in R => <<x, z>> \in R
  BY <1>1
<1>6. /\ n \in Nat
      /\ Ascending(S) \in [1 .. n -> S]
      /\ \A x \in S : \E k \in 1 .. n : Ascending(S)[k] = x
      /\ \A j, k \in 1 .. n : j < k <=> <<Ascending(S)[j], Ascending(S)[k]>> \in R
  <2>1. \A k \in 1 .. n :
          (\E x \in S : Cardinality({y \in S : <<y, x>> \in R}) = k - 1) =>
             Ascending(S)[k] \in S /\ Cardinality({y \in S : <<y, Ascending(S)[k]>> \in R}) = k - 1
    BY <1>4
  <2> QED
    BY <1>3, <1>5, <2>1, RankedList
<1> HIDE DEF n
<1>7. Ascending(S) \in Seq(S) /\ Len(Ascending(S)) = n
  BY <1>6
<1>8. \A j, k \in 1 .. n : j < k <=> Ascending(S)[j] < Ascending(S)[k]
  BY <1>1, <1>6
<1> QED
  BY <1>6, <1>7, <1>8 DEF n

(***************************************************************************)
(* Multiples of powers of two.                                             *)
(***************************************************************************)
\* Powers of two up to an exponent are positive and double.
PowersDouble(bits) == \A n \in 0 .. bits : 2^n \in Nat \ {0} /\ 2^(n + 1) = 2 * 2^n

\* A multiple is some number of times the number.
LEMMA Multiple ==
  ASSUME NEW a \in Nat, NEW P \in Nat \ {0}
  PROVE  a % P = 0 <=> \E q \in Nat : a = P * q
<1>1. ASSUME a % P = 0 PROVE \E q \in Nat : a = P * q
  <2>1. a = P * (a \div P) + (a % P)
    OBVIOUS
  <2>2. a \div P \in Nat
    OBVIOUS
  <2>3. P * (a \div P) \in Nat
    BY <2>2
  <2>4. a = P * (a \div P)
    BY <1>1, <2>1, <2>3
  <2> QED
    BY <2>2, <2>4
<1>2. ASSUME NEW q \in Nat, a = P * q PROVE a % P = 0
  BY <1>2
<1> QED
  BY <1>1, <1>2

\* Two multiples of a number are at least that number apart.
LEMMA NextMultiple ==
  ASSUME NEW a \in Nat, NEW b \in Nat, NEW P \in Nat \ {0}, a % P = 0, b % P = 0, a < b
  PROVE  a + P <= b
<1>1. PICK q \in Nat : a = P * q
  BY Multiple
<1>2. PICK r \in Nat : b = P * r
  BY Multiple
<1>3. q < r
  BY <1>1, <1>2
<1>4. P * q + P <= P * r
  BY <1>3
<1> QED
  BY <1>1, <1>2, <1>4

\* The sum of multiples is one.
LEMMA SumOfMultiples ==
  ASSUME NEW a \in Nat, NEW b \in Nat, NEW P \in Nat \ {0}, a % P = 0, b % P = 0
  PROVE  (a + b) % P = 0
<1>1. PICK q \in Nat : a = P * q
  BY Multiple
<1>2. PICK r \in Nat : b = P * r
  BY Multiple
<1>3. a + b = P * (q + r) /\ q + r \in Nat /\ a + b \in Nat
  BY <1>1, <1>2
<1> QED
  BY <1>3, Multiple

\* A multiple of a power of two is one of the power before it.
LEMMA HalfPower ==
  ASSUME NEW bits \in Nat, PowersDouble(bits), NEW a \in Nat, NEW n \in 0 .. bits,
         a % 2^(n + 1) = 0, n + 1 \in 0 .. bits
  PROVE  a % 2^n = 0
<1>1. 2^n \in Nat \ {0} /\ 2^(n + 1) \in Nat \ {0} /\ 2^(n + 1) = 2 * 2^n
  BY DEF PowersDouble
<1>2. PICK q \in Nat : a = 2^(n + 1) * q
  BY <1>1, Multiple
<1> DEFINE P == 2^n
<1>3. P \in Nat \ {0} /\ a = (2 * P) * q
  BY <1>1, <1>2
<1> HIDE DEF P
<1>4. a = P * (2 * q) /\ 2 * q \in Nat
  BY <1>3
<1>5. a % P = 0
  BY <1>3, <1>4, Multiple
<1> QED
  BY <1>5 DEF P

\* A multiple of a power is one of every lower power.
LEMMA LowerPower ==
  ASSUME NEW bits \in Nat, PowersDouble(bits), NEW a \in Nat,
         NEW m \in 0 .. bits, NEW n \in 0 .. bits, m <= n, a % 2^n = 0
  PROVE  a % 2^m = 0
<1> DEFINE T == {k \in 0 .. n : a % 2^(n - k) # 0}
<1>1. n \in Nat /\ m \in Nat /\ bits \in Nat /\ n <= bits
  OBVIOUS
<1>2. ASSUME T # {} PROVE FALSE
  <2>1. T \in SUBSET Nat
    BY <1>1
  <2>2. PICK k \in T : \A l \in T : k <= l
    BY <1>2, <2>1, LeastNat
  <2>3. k \in 0 .. n /\ a % 2^(n - k) # 0
    BY <2>2
  <2>4. k # 0
    <3>1. n - 0 = n
      BY <1>1
    <3> QED
      BY <2>3, <3>1
  <2>5. k - 1 \in 0 .. n /\ ~(k <= k - 1)
    BY <1>1, <2>3, <2>4
  <2>6. a % 2^(n - (k - 1)) = 0
    <3>1. k - 1 \notin T
      BY <2>2, <2>5
    <3> QED
      BY <2>5, <3>1
  <2>7. /\ n - (k - 1) = (n - k) + 1 /\ n - k \in 0 .. bits
        /\ (n - k) + 1 \in 0 .. bits
    BY <1>1, <2>3, <2>4
  <2>8. a % 2^((n - k) + 1) = 0
    BY <2>6, <2>7
  <2> QED
    BY <2>3, <2>7, <2>8, HalfPower
<1>3. n - m \in 0 .. n /\ n - (n - m) = m
  BY <1>1
<1>4. n - m \notin T
  BY <1>2
<1>5. a % 2^(n - (n - m)) = 0
  BY <1>3, <1>4
<1> QED
  BY <1>3, <1>5

\* A power of two is a multiple of every smaller one.
LEMMA PowerMultiple ==
  ASSUME NEW bits \in Nat, PowersDouble(bits), NEW m \in 0 .. bits, NEW n \in 0 .. bits, m <= n
  PROVE  2^n % 2^m = 0
<1>1. 2^n \in Nat \ {0}
  BY DEF PowersDouble
<1>2. 2^n = 2^n * 1
  BY <1>1
<1>3. 2^n % 2^n = 0
  BY <1>1, <1>2, Multiple
<1> QED
  BY <1>1, <1>3, LowerPower

(***************************************************************************)
(* The terms a set is listed as: blocks, runs and single values.           *)
(***************************************************************************)
\* The least of some numbers.
LEMMA LeastNumber ==
  ASSUME NEW S \in SUBSET Nat, S # {}
  PROVE  Min(S) \in S /\ \A x \in S : Min(S) <= x
<1>1. \E x \in S : \A y \in S : x <= y
  BY LeastNat
<1> QED
  BY <1>1 DEF Min

\* The greatest of some numbers that have a bound.
LEMMA GreatestNumber ==
  ASSUME NEW b \in Nat, NEW S \in SUBSET (0 .. b), S # {}
  PROVE  Max(S) \in S /\ \A x \in S : x <= Max(S)
<1>1. S \in SUBSET Nat /\ \A v \in S : v <= b
  OBVIOUS
<1>2. \E x \in S : \A y \in S : y <= x
  BY <1>1, GreatestNat
<1>3. \E x \in S : \A y \in S : x >= y
  BY <1>1, <1>2
<1>4. Max(S) \in S /\ \A y \in S : Max(S) >= y
  BY <1>3 DEF Max
<1> QED
  BY <1>1, <1>4

\* A finite family of sets of numbers that have nothing in common and of which
\* none is empty.
Family(F) ==
  /\ F \subseteq SUBSET Nat /\ IsFiniteSet(UNION F)
  /\ \A A \in F : A # {}
  /\ \A A, B \in F : A = B \/ A \cap B = {}

\* A list of such sets, which together are U.
Terms(terms, U) ==
  /\ Len(terms) \in Nat /\ DOMAIN terms = 1 .. Len(terms)
  /\ terms \in Seq(SUBSET Nat)
  /\ \A k \in 1 .. Len(terms) : terms[k] # {}
  /\ \A h, k \in 1 .. Len(terms) : h # k => terms[h] \cap terms[k] = {}
  /\ \A v : v \in U <=> \E k \in 1 .. Len(terms) : v \in terms[k]

\* ByLeast lists such a family, each set once.
LEMMA FamilyListed ==
  ASSUME NEW F, Family(F)
  PROVE  Terms(ByLeast(F), UNION F)
<1> DEFINE R == {p \in F \X F : Min(p[1]) < Min(p[2])}
           n == Cardinality(F)
           list == ByLeast(F)
<1>1. ASSUME NEW A \in F PROVE Min(A) \in A /\ Min(A) \in UNION F /\ Min(A) \in Nat
  <2>1. A \in SUBSET Nat /\ A # {}
    BY DEF Family
  <2> QED
    BY <2>1, LeastNumber
<1>2. ASSUME NEW A \in F, NEW B \in F, A # B PROVE Min(A) # Min(B)
  <2>1. A \cap B = {}
    BY <1>2 DEF Family
  <2> QED
    BY <1>1, <2>1
<1>3. IsFiniteSet(F)
  <2> DEFINE f == [A \in F |-> Min(A)]
  <2>1. f \in [F -> UNION F]
    BY <1>1
  <2>2. \A A, B \in F : f[A] = f[B] => A = B
    BY <1>2
  <2>3. f \in Injection(F, UNION F)
    BY <2>1, <2>2 DEF Injection, IsInjective
  <2> QED
    BY <2>3, FS_Injection DEF Family
<1>4. \A A, B \in F : <<A, B>> \in R <=> Min(A) < Min(B)
  OBVIOUS
<1>5. /\ \A A \in F : <<A, A>> \notin R
      /\ \A A, B \in F : A # B => <<A, B>> \in R \/ <<B, A>> \in R
      /\ \A A, B, C \in F : <<A, B>> \in R /\ <<B, C>> \in R => <<A, C>> \in R
  <2> HIDE DEF R
  <2>1. \A A \in F : <<A, A>> \notin R
    BY <1>1, <1>4
  <2>2. \A A, B \in F : A # B => <<A, B>> \in R \/ <<B, A>> \in R
    BY <1>1, <1>2, <1>4
  <2>3. \A A, B, C \in F : <<A, B>> \in R /\ <<B, C>> \in R => <<A, C>> \in R
    BY <1>1, <1>4
  <2> QED
    BY <2>1, <2>2, <2>3
<1>6. list = [k \in 1 .. n |-> list[k]]
  <2> DEFINE E(k) == CHOOSE A \in F : Cardinality({B \in F : Min(B) < Min(A)}) = k - 1
  <2>1. list = [k \in 1 .. n |-> E(k)]
    BY DEF ByLeast, Ranked
  <2> HIDE DEF E
  <2> QED
    BY <2>1
<1>7. \A A \in F : {B \in F : Min(B) < Min(A)} = {B \in F : <<B, A>> \in R}
  BY <1>4
<1>8. ASSUME NEW k \in 1 .. n, NEW W \in F, Cardinality({B \in F : <<B, W>> \in R}) = k - 1
      PROVE  list[k] \in F /\ Cardinality({B \in F : <<B, list[k]>> \in R}) = k - 1
  <2>1. list[k] = CHOOSE A \in F : Cardinality({B \in F : Min(B) < Min(A)}) = k - 1
    BY DEF ByLeast, Ranked
  <2>2. Cardinality({B \in F : Min(B) < Min(W)}) = k - 1
    BY <1>7, <1>8
  <2>3. list[k] \in F /\ Cardinality({B \in F : Min(B) < Min(list[k])}) = k - 1
    BY <2>1, <2>2
  <2> QED
    BY <1>7, <2>3
<1> HIDE DEF R, list
<1>9. /\ n \in Nat /\ list \in [1 .. n -> F]
      /\ \A A \in F : \E k \in 1 .. n : list[k] = A
      /\ \A h, k \in 1 .. n : h < k <=> <<list[h], list[k]>> \in R
  <2>1. \A k \in 1 .. n :
          (\E W \in F : Cardinality({B \in F : <<B, W>> \in R}) = k - 1) =>
            list[k] \in F /\ Cardinality({B \in F : <<B, list[k]>> \in R}) = k - 1
    BY <1>8
  <2>2. list = [k \in 1 .. Cardinality(F) |-> list[k]]
    BY <1>6
  <2> HIDE DEF n
  <2>3. /\ Cardinality(F) \in Nat
        /\ list \in [1 .. Cardinality(F) -> F]
        /\ \A x \in F : \E k \in 1 .. Cardinality(F) : list[k] = x
        /\ \A h, k \in 1 .. Cardinality(F) : h < k <=> <<list[h], list[k]>> \in R
    BY <1>3, <1>5, <2>1, <2>2, RankedList DEF n
  <2> QED
    BY <2>3 DEF n
<1> HIDE DEF n
<1>10. list \in Seq(F) /\ Len(list) = n /\ DOMAIN list = 1 .. n
  BY <1>9
<1>11. list \in Seq(SUBSET Nat)
  <2> DEFINE T == SUBSET Nat
  <2>1. F \subseteq T
    BY DEF Family
  <2> HIDE DEF T
  <2>2. list \in Seq(T)
    BY <1>10, <2>1
  <2> QED
    BY <2>2 DEF T
<1>12. \A h, k \in 1 .. n : h # k => list[h] # list[k]
  <2>1. ASSUME NEW h \in 1 .. n, NEW k \in 1 .. n, h # k, list[h] = list[k] PROVE FALSE
    <3>1. h < k \/ k < h
      BY <1>9, <2>1
    <3> QED
      BY <1>5, <1>9, <2>1, <3>1
  <2> QED
    BY <2>1
<1>13. \A k \in 1 .. n : list[k] \in F
  BY <1>9
<1>14. \A h, k \in 1 .. n : h # k => list[h] \cap list[k] = {}
  BY <1>12, <1>13 DEF Family
<1>15. \A v : v \in UNION F <=> \E k \in 1 .. n : v \in list[k]
  BY <1>9, <1>13
<1>16. \A k \in 1 .. n : list[k] # {}
  BY <1>13 DEF Family
<1>17. Terms(list, UNION F)
  BY <1>9, <1>10, <1>11, <1>14, <1>15, <1>16 DEF Terms
<1> QED
  BY <1>17 DEF list

\* Numbers with a bound are finitely many.
LEMMA LimitedFinite ==
  ASSUME NEW b, NEW S \in SUBSET (0 .. b), b \in Int
  PROVE  IsFiniteSet(S)
<1>1. IsFiniteSet(0 .. b)
  BY FS_Interval
<1> QED
  BY <1>1, FS_Subset

\* The aligned block around a value.
LEMMA BlockAt ==
  ASSUME NEW bits \in Nat, PowersDouble(bits), NEW v \in Nat, NEW n \in 0 .. bits
  PROVE  \E low \in Nat :
           /\ low % 2^n = 0 /\ low <= v /\ v < low + 2^n
           /\ \A x : x \in Block(v, n) <=> x \in Nat /\ low <= x /\ x < low + 2^n
<1> DEFINE P == 2^n
           low == v - (v % P)
<1>1. P \in Nat \ {0}
  BY DEF PowersDouble
<1>2. Block(v, n) = low .. (low + P - 1)
  BY DEF Block
<1> HIDE DEF P
<1>3. v % P \in 0 .. (P - 1) /\ v \div P \in Nat /\ v = P * (v \div P) + (v % P)
  BY <1>1
<1>4. low = P * (v \div P) /\ low \in Nat /\ low <= v /\ v < low + P
  <2>1. P * (v \div P) \in Nat
    BY <1>1, <1>3
  <2> QED
    BY <1>1, <1>3, <2>1
<1>5. low % P = 0
  BY <1>1, <1>3, <1>4, Multiple
<1> HIDE DEF low
<1>6. \A x : x \in Block(v, n) <=> x \in Nat /\ low <= x /\ x < low + P
  BY <1>1, <1>2, <1>4
<1> QED
  BY <1>4, <1>5, <1>6 DEF P

\* Every value of a block has that block around it.
LEMMA SameBlock ==
  ASSUME NEW bits \in Nat, PowersDouble(bits), NEW v \in Nat, NEW n \in 0 .. bits,
         NEW x \in Block(v, n)
  PROVE  x \in Nat /\ Block(x, n) = Block(v, n)
<1> DEFINE P == 2^n
<1>1. P \in Nat \ {0}
  BY DEF PowersDouble
<1>2. PICK low \in Nat : /\ low % P = 0 /\ low <= v /\ v < low + P
                         /\ \A y : y \in Block(v, n) <=> y \in Nat /\ low <= y /\ y < low + P
  BY BlockAt
<1>3. x \in Nat /\ low <= x /\ x < low + P
  BY <1>2
<1>4. PICK least \in Nat : /\ least % P = 0 /\ least <= x /\ x < least + P
                           /\ \A y : y \in Block(x, n) <=> y \in Nat /\ least <= y /\ y < least + P
  BY <1>3, BlockAt
<1> HIDE DEF P
<1>5. ~(low < least)
  <2>1. ASSUME low < least PROVE low + P <= least
    BY <1>1, <1>2, <1>4, <2>1, NextMultiple
  <2> QED
    BY <1>1, <1>2, <1>3, <1>4, <2>1
<1>6. ~(least < low)
  <2>1. ASSUME least < low PROVE least + P <= low
    BY <1>1, <1>2, <1>4, <2>1, NextMultiple
  <2> QED
    BY <1>1, <1>2, <1>3, <1>4, <2>1
<1>7. low = least
  BY <1>2, <1>4, <1>5, <1>6
<1>8. \A y : y \in Block(x, n) <=> y \in Block(v, n)
  BY <1>2, <1>4, <1>7
<1>9. Block(x, n) = Block(v, n)
  <2>1. Block(x, n) \subseteq Block(v, n) /\ Block(v, n) \subseteq Block(x, n)
    BY <1>8
  <2> QED
    BY <2>1
<1> QED
  BY <1>3, <1>9

\* Blocks around one value nest.
LEMMA BlocksNest ==
  ASSUME NEW bits \in Nat, PowersDouble(bits), NEW v \in Nat,
         NEW m \in 0 .. bits, NEW n \in 0 .. bits, m <= n
  PROVE  Block(v, m) \subseteq Block(v, n)
<1>1. 2^m \in Nat \ {0} /\ 2^n \in Nat \ {0}
  BY DEF PowersDouble
<1>2. PICK low \in Nat : /\ low % 2^m = 0 /\ low <= v /\ v < low + 2^m
                         /\ \A y : y \in Block(v, m) <=> y \in Nat /\ low <= y /\ y < low + 2^m
  BY BlockAt
<1>3. PICK least \in Nat : /\ least % 2^n = 0 /\ least <= v /\ v < least + 2^n
                           /\ \A y : y \in Block(v, n) <=> y \in Nat /\ least <= y /\ y < least + 2^n
  BY BlockAt
<1>4. least % 2^m = 0 /\ 2^n % 2^m = 0
  BY <1>3, LowerPower, PowerMultiple
<1>5. (least + 2^n) % 2^m = 0 /\ least + 2^n \in Nat
  <2> DEFINE P == 2^m
             Q == 2^n
  <2>1. P \in Nat \ {0} /\ Q \in Nat /\ least \in Nat /\ least % P = 0 /\ Q % P = 0
    BY <1>1, <1>3, <1>4
  <2> HIDE DEF P, Q
  <2>2. (least + Q) % P = 0
    BY <2>1, SumOfMultiples
  <2>3. least + Q \in Nat
    BY <2>1
  <2> QED
    BY <2>2, <2>3 DEF P, Q
<1>6. least <= low
  <2>1. ASSUME low < least PROVE low + 2^m <= least
    BY <1>1, <1>2, <1>4, <2>1, NextMultiple
  <2> QED
    BY <1>1, <1>2, <1>3, <2>1
<1>7. low + 2^m <= least + 2^n
  <2>1. low < least + 2^n
    BY <1>1, <1>2, <1>3
  <2> QED
    BY <1>1, <1>2, <1>5, <2>1, NextMultiple
<1>8. ASSUME NEW y \in Block(v, m) PROVE y \in Block(v, n)
  BY <1>1, <1>2, <1>3, <1>6, <1>7
<1> QED
  BY <1>8

\* The shortest block is the value, the longest the field.
LEMMA BlockEnds ==
  ASSUME NEW bits \in Nat, PowersDouble(bits), NEW v \in 0 .. (2^bits - 1)
  PROVE  Block(v, 0) = {v} /\ Block(v, bits) = 0 .. (2^bits - 1)
<1>1. v \in Nat /\ v < 2^bits /\ 2^bits \in Nat \ {0} /\ bits \in 0 .. bits /\ 0 \in 0 .. bits
  <2>1. bits \in 0 .. bits /\ 0 \in 0 .. bits
    OBVIOUS
  <2>2. 2^bits \in Nat \ {0}
    BY <2>1 DEF PowersDouble
  <2> DEFINE M == 2^bits
  <2>3. M \in Nat \ {0} /\ v \in 0 .. (M - 1)
    BY <2>2
  <2> HIDE DEF M
  <2>4. v \in Nat /\ v < M
    BY <2>3
  <2> QED
    BY <2>1, <2>2, <2>4 DEF M
<1>2. Block(v, bits) = 0 .. (2^bits - 1)
  <2> DEFINE M == 2^bits
  <2>1. M \in Nat \ {0} /\ v < M
    BY <1>1
  <2>2. Block(v, bits) = (v - (v % M)) .. ((v - (v % M)) + M - 1)
    BY DEF Block
  <2> HIDE DEF M
  <2>3. v % M = v
    BY <1>1, <2>1
  <2> QED
    BY <1>1, <2>1, <2>2, <2>3 DEF M
<1>3. Block(v, 0) = {v}
  <2>1. 2^0 = 1
    OBVIOUS
  <2>2. v % 1 = 0
    BY <1>1
  <2>3. Block(v, 0) = v .. v
    BY <1>1, <2>1, <2>2 DEF Block
  <2> QED
    BY <1>1, <2>3
<1> QED
  BY <1>2, <1>3

\* set_to_prefixes: the maximal blocks in a set are a cover of it without overlap.
LEMMA PrefixTerms ==
  ASSUME NEW bits \in Nat, PowersDouble(bits), NEW S \in SUBSET (0 .. (2^bits - 1))
  PROVE  Terms(PrefixesOf(S, bits), S)
<1> DEFINE inside == {Block(v, n) : v \in S, n \in 0 .. bits} \cap SUBSET S
           F == {A \in inside : \A B \in inside : A \subseteq B => A = B}
<1>1. S \subseteq Nat /\ 0 \in 0 .. bits
  OBVIOUS
<1>2. ASSUME NEW A \in inside, NEW x \in A
      PROVE  \E n \in 0 .. bits : A = Block(x, n)
  <2>1. PICK v \in S, n \in 0 .. bits : A = Block(v, n)
    OBVIOUS
  <2>2. Block(x, n) = Block(v, n)
    BY <1>1, <1>2, <2>1, SameBlock
  <2> QED
    BY <2>1, <2>2
<1>3. ASSUME NEW A \in inside PROVE A # {} /\ A \subseteq S
  <2>1. PICK v \in S, n \in 0 .. bits : A = Block(v, n)
    OBVIOUS
  <2>2. v \in Nat
    BY <1>1
  <2>3. v \in Block(v, n)
    <3>1. PICK low \in Nat : /\ low <= v /\ v < low + 2^n
                            /\ \A x : x \in Block(v, n) <=> x \in Nat /\ low <= x /\ x < low + 2^n
      BY <2>2, BlockAt
    <3> QED
      BY <2>2, <3>1
  <2> QED
    BY <2>1, <2>3
<1>4. ASSUME NEW A \in F, NEW B \in F, A \cap B # {} PROVE A = B
  <2>1. PICK x : x \in A /\ x \in B
    BY <1>4
  <2>2. A \in inside /\ B \in inside
    OBVIOUS
  <2>3. PICK m \in 0 .. bits : A = Block(x, m)
    BY <1>2, <2>1, <2>2
  <2>4. PICK n \in 0 .. bits : B = Block(x, n)
    BY <1>2, <2>1, <2>2
  <2>5. x \in Nat /\ (m <= n \/ n <= m)
    <3>1. x \in S
      BY <1>3, <2>1, <2>2
    <3> QED
      BY <1>1, <3>1
  <2>6. A \subseteq B \/ B \subseteq A
    BY <2>3, <2>4, <2>5, BlocksNest
  <2> QED
    BY <2>2, <2>6
<1>5. ASSUME NEW x \in S PROVE \E A \in F : x \in A
  <2> DEFINE T == {n \in 0 .. bits : Block(x, n) \subseteq S}
             k == Max(T)
             A == Block(x, k)
  <2>1. x \in Nat /\ x \in 0 .. (2^bits - 1)
    BY <1>1
  <2>2. 0 \in T
    BY <1>1, <2>1, BlockEnds
  <2>3. k \in T /\ \A n \in T : n <= k
    <3>1. T \in SUBSET (0 .. bits) /\ T # {}
      BY <2>2
    <3> HIDE DEF T
    <3> QED
      BY <3>1, GreatestNumber
  <2>4. k \in 0 .. bits /\ A \subseteq S /\ \A n \in 0 .. bits : Block(x, n) \subseteq S => n <= k
    BY <2>3
  <2> HIDE DEF T, k
  <2>5. A \in inside /\ x \in A
    <3>1. x \in A
      BY <2>1, <2>4, BlockAt
    <3> QED
      BY <2>4, <3>1
  <2> HIDE DEF A, inside
  <2>6. ASSUME NEW B \in inside, A \subseteq B PROVE A = B
    <3>1. PICK n \in 0 .. bits : B = Block(x, n)
      BY <1>2, <2>5, <2>6
    <3>2. n <= k
      BY <1>3, <2>4, <3>1
    <3>3. B \subseteq A
      BY <2>1, <2>4, <3>1, <3>2, BlocksNest DEF A
    <3> QED
      BY <2>6, <3>3
  <2>7. A \in F
    BY <2>5, <2>6
  <2> QED
    BY <2>5, <2>7
<1>6. F \subseteq inside
  OBVIOUS
<1> HIDE DEF F, inside
<1>7. UNION F = S
  BY <1>3, <1>5, <1>6
<1>8. Family(F)
  <2>1. IsFiniteSet(S)
    BY LimitedFinite
  <2>2. F \subseteq SUBSET Nat
    BY <1>1, <1>3, <1>6
  <2> QED
    BY <1>3, <1>4, <1>6, <1>7, <2>1, <2>2 DEF Family
<1>9. PrefixesOf(S, bits) = ByLeast(F)
  BY DEF PrefixesOf, F, inside
<1> QED
  BY <1>7, <1>8, <1>9, FamilyListed

\* IntervalSet::ranges: the runs of a set are a cover of it without overlap.
LEMMA RangeTerms ==
  ASSUME NEW b \in Nat, NEW S \in SUBSET (0 .. b)
  PROVE  Terms(RangesOf(S), S)
<1> DEFINE starts == {v \in S : v - 1 \notin S}
           ends(v) == {w \in S : w >= v /\ w + 1 \notin S}
           run(v) == v .. Min(ends(v))
           F == {run(v) : v \in starts}
<1>1. S \subseteq Nat
  OBVIOUS
<1>2. ASSUME NEW v \in S
      PROVE  /\ Min(ends(v)) \in ends(v) /\ Min(ends(v)) \in Nat
             /\ \A w \in ends(v) : Min(ends(v)) <= w
  <2>1. Max(S) \in S /\ \A x \in S : x <= Max(S)
    BY <1>2, GreatestNumber
  <2>2. \E g \in S : g + 1 \notin S /\ g >= v
    <3> DEFINE g == Max(S)
    <3>1. g \in S /\ \A x \in S : x <= g
      BY <2>1
    <3> HIDE DEF g
    <3>2. g + 1 \notin S /\ g >= v
      BY <1>1, <1>2, <3>1
    <3> QED
      BY <3>1, <3>2
  <2>3. ends(v) \in SUBSET Nat /\ ends(v) # {}
    BY <1>1, <2>2
  <2> HIDE DEF ends
  <2> QED
    BY <2>3, LeastNumber
<1>3. ASSUME NEW v \in S PROVE run(v) \subseteq S /\ v \in run(v)
  <2> DEFINE e == Min(ends(v))
             T == {x \in v .. e : x \notin S}
  <2>1. v \in Nat /\ e \in S /\ e >= v /\ e \in Nat /\ \A w \in S : w >= v /\ w + 1 \notin S => e <= w
    BY <1>1, <1>2
  <2> HIDE DEF e
  <2>2. ASSUME T # {} PROVE FALSE
    <3>1. T \in SUBSET Nat
      BY <2>1
    <3>2. PICK x \in T : \A y \in T : x <= y
      BY <2>2, <3>1, LeastNat
    <3>3. x \in v .. e /\ x \notin S /\ x # v
      BY <3>2
    <3>4. x - 1 \in v .. e /\ x - 1 >= v /\ (x - 1) + 1 = x /\ ~(x <= x - 1)
      BY <2>1, <3>3
    <3>5. x - 1 \in S
      BY <3>2, <3>4
    <3>6. e <= x - 1
      BY <2>1, <3>3, <3>4, <3>5
    <3> QED
      BY <2>1, <3>3, <3>6
  <2>3. v .. e \subseteq S /\ v \in v .. e
    BY <2>1, <2>2
  <2> QED
    BY <2>3 DEF e
<1>4. ASSUME NEW v \in starts, NEW w \in starts, v < w PROVE run(v) \cap run(w) = {}
  <2> DEFINE e == Min(ends(v))
             f == Min(ends(w))
  <2>1. v \in Nat /\ w \in Nat /\ e \in Nat /\ f \in Nat
    BY <1>1, <1>2
  <2>2. v .. e \subseteq S /\ w - 1 \notin S
    BY <1>3
  <2> HIDE DEF e, f
  <2>3. ~(w <= e)
    <3>1. ASSUME w <= e PROVE w - 1 \in v .. e
      BY <1>4, <2>1, <3>1
    <3> QED
      BY <2>2, <3>1
  <2>4. (v .. e) \cap (w .. f) = {}
    BY <2>1, <2>3
  <2> QED
    BY <2>4 DEF e, f
<1>5. ASSUME NEW x \in S PROVE \E v \in starts : x \in run(v)
  <2> DEFINE T == {v \in 0 .. x : v .. x \subseteq S}
  <2>1. x \in Nat /\ x .. x \subseteq S
    BY <1>1
  <2>2. x \in T /\ T \in SUBSET Nat
    BY <2>1
  <2>3. PICK v \in T : \A w \in T : v <= w
    BY <2>2, LeastNat
  <2>4. v \in Nat /\ v <= x /\ v .. x \subseteq S /\ v \in S
    BY <2>1, <2>3
  <2>5. v - 1 \notin S
    <3>1. ASSUME v - 1 \in S PROVE FALSE
      <4>1. v - 1 \in Nat
        BY <1>1, <3>1
      <4>2. (v - 1) .. x \subseteq S
        <5>1. ASSUME NEW y \in (v - 1) .. x PROVE y \in S
          <6>1. y = v - 1 \/ y \in v .. x
            BY <2>1, <2>4, <4>1
          <6> QED
            BY <2>4, <3>1, <6>1
        <5> QED
          BY <5>1
      <4>3. v - 1 \in T
        BY <2>1, <2>4, <4>1, <4>2
      <4> QED
        BY <2>3, <2>4, <4>3
    <3> QED
      BY <3>1
  <2> DEFINE e == Min(ends(v))
  <2>6. e \in S /\ e >= v /\ e + 1 \notin S /\ e \in Nat
    BY <1>2, <2>4
  <2> HIDE DEF e, T
  <2>7. x <= e
    <3>1. ASSUME e < x PROVE e + 1 \in v .. x
      BY <2>1, <2>4, <2>6, <3>1
    <3> QED
      BY <2>1, <2>4, <2>6, <3>1
  <2>8. x \in v .. e
    BY <2>1, <2>4, <2>6, <2>7
  <2> QED
    BY <2>4, <2>5, <2>8 DEF e
<1> HIDE DEF run
<1>6. \A A \in F : A # {} /\ A \subseteq S
  BY <1>3
<1>7. \A A, B \in F : A = B \/ A \cap B = {}
  <2>1. ASSUME NEW v \in starts, NEW w \in starts PROVE run(v) = run(w) \/ run(v) \cap run(w) = {}
    <3>1. v = w \/ v < w \/ w < v
      BY <1>1
    <3> QED
      BY <1>4, <3>1
  <2> QED
    BY <2>1
<1>8. UNION F = S
  <2>1. \A x \in S : \E A \in F : x \in A
    BY <1>5
  <2> QED
    BY <1>6, <2>1
<1>9. Family(F)
  <2>1. IsFiniteSet(S)
    BY LimitedFinite
  <2> QED
    BY <1>1, <1>6, <1>7, <1>8, <2>1 DEF Family
<1>10. RangesOf(S) = ByLeast(F)
  BY DEF RangesOf, run
<1> HIDE DEF F
<1> QED
  BY <1>8, <1>9, <1>10, FamilyListed

\* One value a term.
LEMMA SingleTerms ==
  ASSUME NEW S \in SUBSET Nat, IsFiniteSet(S)
  PROVE  Terms(Singles(S), S)
<1> DEFINE F == {{v} : v \in S}
<1>1. Family(F) /\ UNION F = S
  BY DEF Family
<1>2. Singles(S) = ByLeast(F)
  BY DEF Singles
<1> QED
  BY <1>1, <1>2, FamilyListed

\* The enclosing block holds the set and lies in the field.
LEMMA Encloses ==
  ASSUME NEW bits \in Nat, PowersDouble(bits), NEW S \in SUBSET (0 .. (2^bits - 1)), S # {}
  PROVE  S \subseteq Enclosing(S, bits) /\ Enclosing(S, bits) \subseteq 0 .. (2^bits - 1)
<1> DEFINE N == {n \in 0 .. bits : Block(Min(S), n) = Block(Max(S), n)}
           k == Min(N)
<1>1. S \in SUBSET Nat /\ bits \in 0 .. bits /\ 2^bits - 1 \in Nat
  BY DEF PowersDouble
<1>2. /\ Min(S) \in S /\ \A x \in S : Min(S) <= x
      /\ Max(S) \in S /\ \A x \in S : x <= Max(S)
  BY <1>1, LeastNumber, GreatestNumber
<1>3. Min(S) \in 0 .. (2^bits - 1) /\ Max(S) \in 0 .. (2^bits - 1) /\ Min(S) \in Nat /\ Max(S) \in Nat
  BY <1>1, <1>2
<1>4. bits \in N
  BY <1>1, <1>3, BlockEnds
<1>5. k \in N
  <2>1. N \in SUBSET Nat /\ N # {}
    BY <1>4
  <2> HIDE DEF N
  <2> QED
    BY <2>1, LeastNumber
<1>6. k \in 0 .. bits /\ Block(Min(S), k) = Block(Max(S), k)
  BY <1>5
<1>7. Enclosing(S, bits) = Block(Min(S), k)
  BY DEF Enclosing
<1> HIDE DEF k
<1>8. PICK low \in Nat : /\ low <= Min(S)
                         /\ \A y : y \in Block(Min(S), k) <=> y \in Nat /\ low <= y /\ y < low + 2^k
  BY <1>3, <1>6, BlockAt
<1>9. Max(S) \in Block(Max(S), k)
  BY <1>3, <1>6, BlockAt
<1>10. 2^k \in Nat /\ Max(S) < low + 2^k
  BY <1>6, <1>8, <1>9 DEF PowersDouble
<1>11. \A x \in S : x \in Block(Min(S), k)
  BY <1>1, <1>2, <1>3, <1>8, <1>10
<1>12. Block(Min(S), k) \subseteq Block(Min(S), bits)
  BY <1>1, <1>3, <1>6, BlocksNest
<1> QED
  BY <1>3, <1>7, <1>11, <1>12, BlockEnds
=============================================================================
