-------------------------- MODULE ChainModelProofs --------------------------
(***************************************************************************)
(* Lemmas about compiled chains and the queries answered from them, for    *)
(* every header space.                                                     *)
(***************************************************************************)
EXTENDS Delta, ListingProofs, SequenceTheorems

(***************************************************************************)
(* Sequences.                                                              *)
(***************************************************************************)
Increasing(s) == \A j, k \in DOMAIN s : j < k => s[j] < s[k]

LEMMA SeqDomain ==
  ASSUME NEW S, NEW s \in Seq(S)
  PROVE  /\ DOMAIN s = 1 .. Len(s) /\ Len(s) \in Nat
         /\ \A k \in 1 .. Len(s) : s[k] \in S
         /\ ToSet(s) \subseteq S
BY DEF ToSet

LEMMA NumbersFinite ==
  ASSUME NEW n \in Nat, NEW S \in SUBSET (1 .. n)
  PROVE  IsFiniteSet(S) /\ S \in SUBSET Int
<1>1. IsFiniteSet(1 .. n)
  BY FS_Interval
<1>2. IsFiniteSet(S)
  BY <1>1, FS_Subset
<1> QED
  BY <1>2

LEMMA AscendingNumbers ==
  ASSUME NEW n \in Nat, NEW S \in SUBSET (1 .. n)
  PROVE  Ascending(S) \in Seq(S) /\ ToSet(Ascending(S)) = S /\ Increasing(Ascending(S))
<1>1. /\ Ascending(S) \in Seq(S) /\ Len(Ascending(S)) = Cardinality(S) /\ Cardinality(S) \in Nat
      /\ \A x \in S : \E k \in 1 .. Cardinality(S) : Ascending(S)[k] = x
      /\ \A j, k \in 1 .. Cardinality(S) : j < k <=> Ascending(S)[j] < Ascending(S)[k]
  BY NumbersFinite, AscendingList
<1>2. /\ DOMAIN Ascending(S) = 1 .. Cardinality(S)
      /\ \A k \in 1 .. Cardinality(S) : Ascending(S)[k] \in S
  BY <1>1
<1> QED
  BY <1>1, <1>2 DEF ToSet, Increasing

LEMMA ConcatSet ==
  ASSUME NEW S, NEW s \in Seq(S), NEW t \in Seq(S)
  PROVE  s \o t \in Seq(S) /\ ToSet(s \o t) = ToSet(s) \cup ToSet(t)
<1> DEFINE r == s \o t
           m == Len(s)
           n == Len(t)
<1>1. /\ r \in Seq(S) /\ Len(r) = m + n
      /\ \A i \in 1 .. (m + n) : r[i] = IF i <= m THEN s[i] ELSE t[i - m]
  BY ConcatProperties
<1>2. m \in Nat /\ n \in Nat /\ DOMAIN s = 1 .. m /\ DOMAIN t = 1 .. n
  OBVIOUS
<1>3. DOMAIN r = 1 .. (m + n)
  BY <1>1, <1>2
<1> HIDE DEF r, m, n
<1>4. /\ ToSet(r) = {r[i] : i \in 1 .. (m + n)}
      /\ ToSet(s) = {s[i] : i \in 1 .. m} /\ ToSet(t) = {t[i] : i \in 1 .. n}
  BY <1>2, <1>3 DEF ToSet
<1>5. ASSUME NEW i \in 1 .. (m + n) PROVE r[i] \in ToSet(s) \cup ToSet(t)
  <2>1. CASE i <= m
    BY <1>1, <1>2, <1>4, <2>1
  <2>2. CASE ~(i <= m)
    <3>1. i - m \in 1 .. n
      BY <1>2, <2>2
    <3> QED
      BY <1>1, <1>4, <2>2, <3>1
  <2> QED
    BY <2>1, <2>2
<1>6. ASSUME NEW i \in 1 .. m PROVE s[i] \in ToSet(r)
  <2>1. i \in 1 .. (m + n) /\ i <= m
    BY <1>2
  <2> QED
    BY <1>1, <1>4, <2>1
<1>7. ASSUME NEW i \in 1 .. n PROVE t[i] \in ToSet(r)
  <2>1. i + m \in 1 .. (m + n) /\ ~(i + m <= m) /\ (i + m) - m = i
    BY <1>2
  <2> QED
    BY <1>1, <1>4, <2>1
<1>8. ToSet(r) = ToSet(s) \cup ToSet(t)
  BY <1>4, <1>5, <1>6, <1>7
<1> QED
  BY <1>1, <1>8 DEF r

LEMMA AppendSet ==
  ASSUME NEW S, NEW s \in Seq(S), NEW x \in S
  PROVE  Append(s, x) \in Seq(S) /\ ToSet(Append(s, x)) = ToSet(s) \cup {x}
<1> DEFINE r == Append(s, x)
           n == Len(s)
<1>1. r \in Seq(S) /\ Len(r) = n + 1 /\ r[n + 1] = x /\ \A i \in 1 .. n : r[i] = s[i]
  BY AppendProperties
<1>2. n \in Nat /\ DOMAIN s = 1 .. n /\ DOMAIN r = 1 .. (n + 1)
  BY <1>1
<1> HIDE DEF r, n
<1>3. \A i \in 1 .. (n + 1) : i \in 1 .. n \/ i = n + 1
  BY <1>2
<1>4. \A i \in 1 .. n : i \in 1 .. (n + 1)
  BY <1>2
<1>5. n + 1 \in 1 .. (n + 1)
  BY <1>2
<1>6. ToSet(r) = ToSet(s) \cup {x}
  BY <1>1, <1>2, <1>3, <1>4, <1>5 DEF ToSet
<1> QED
  BY <1>1, <1>6 DEF r

\* A sequence that holds only members of a set is one over that set.
LEMMA SeqOver ==
  ASSUME NEW T, NEW s, s \in Seq(ToSet(s)), \A k \in DOMAIN s : s[k] \in T
  PROVE  s \in Seq(T)
<1>1. DOMAIN s = 1 .. Len(s) /\ Len(s) \in Nat /\ s = [k \in 1 .. Len(s) |-> s[k]]
  OBVIOUS
<1> QED
  BY <1>1

LEMMA SeqItself ==
  ASSUME NEW T, NEW s \in Seq(T)
  PROVE  s \in Seq(ToSet(s))
<1>1. DOMAIN s = 1 .. Len(s) /\ Len(s) \in Nat /\ s = [k \in 1 .. Len(s) |-> s[k]]
  OBVIOUS
<1>2. \A k \in 1 .. Len(s) : s[k] \in ToSet(s)
  BY <1>1 DEF ToSet
<1> QED
  BY <1>1, <1>2

\* A sequence without its head.
LEMMA TailSet ==
  ASSUME NEW T, NEW s \in Seq(T), s # <<>>
  PROVE  /\ Head(s) \in T /\ Tail(s) \in Seq(T)
         /\ ToSet(s) = {Head(s)} \cup ToSet(Tail(s))
<1> DEFINE n == Len(s)
           t == Tail(s)
<1>1. n \in Nat /\ n # 0 /\ DOMAIN s = 1 .. n /\ \A k \in 1 .. n : s[k] \in T
  BY EmptySeq
<1>2. Head(s) = s[1] /\ t \in Seq(T) /\ Len(t) = n - 1 /\ DOMAIN t = 1 .. (n - 1)
      /\ \A k \in 1 .. (n - 1) : t[k] = s[k + 1]
  BY HeadTailProperties
<1> HIDE DEF n, t
<1>3. \A k \in 1 .. n : k = 1 \/ (k - 1 \in 1 .. (n - 1) /\ s[k] = t[k - 1])
  <2> TAKE k \in 1 .. n
  <2>1. k # 1 => k - 1 \in 1 .. (n - 1) /\ (k - 1) + 1 = k
    BY <1>1
  <2> QED
    BY <1>2, <2>1
<1>4. \A k \in 1 .. (n - 1) : k + 1 \in 1 .. n
  BY <1>1
<1>5. 1 \in 1 .. n
  BY <1>1
<1>6. ToSet(s) = {s[k] : k \in 1 .. n} /\ ToSet(t) = {t[k] : k \in 1 .. (n - 1)}
  BY <1>1, <1>2 DEF ToSet
<1>7. \A x \in ToSet(s) : x = Head(s) \/ x \in ToSet(t)
  BY <1>2, <1>3, <1>6
<1>8. \A x \in ToSet(t) : x \in ToSet(s)
  BY <1>2, <1>4, <1>6
<1>9. Head(s) \in ToSet(s)
  BY <1>2, <1>5, <1>6
<1> QED
  BY <1>1, <1>2, <1>5, <1>7, <1>8, <1>9 DEF t

\* What is picked from a sequence: its members at the positions, one for each.
LEMMA PickedSet ==
  ASSUME NEW T, NEW s \in Seq(T), NEW P \in SUBSET (DOMAIN s)
  PROVE  /\ Picked(s, P) \in Seq(T)
         /\ ToSet(Picked(s, P)) = {s[i] : i \in P}
<1>1. DOMAIN s = 1 .. Len(s) /\ Len(s) \in Nat /\ \A k \in 1 .. Len(s) : s[k] \in T
  OBVIOUS
<1> DEFINE at == Ascending(P)
           n == Len(at)
<1>2. at \in Seq(P) /\ ToSet(at) = P
  BY <1>1, AscendingNumbers
<1>3. n \in Nat /\ DOMAIN at = 1 .. n /\ \A k \in 1 .. n : at[k] \in P
  BY <1>2
<1>4. Picked(s, P) = [k \in 1 .. n |-> s[at[k]]]
  BY <1>3 DEF Picked
<1> HIDE DEF at, n
<1>5. \A k \in 1 .. n : s[at[k]] \in T
  BY <1>1, <1>3
<1>6. Picked(s, P) \in Seq(T) /\ DOMAIN Picked(s, P) = 1 .. n
  BY <1>3, <1>4, <1>5
<1>7. \A i \in P : \E k \in 1 .. n : at[k] = i
  BY <1>2, <1>3 DEF ToSet
<1>8. ToSet(Picked(s, P)) = {s[i] : i \in P}
  <2> DEFINE r == Picked(s, P)
  <2>1. \A k \in 1 .. n : r[k] = s[at[k]]
    BY <1>4
  <2>2. ToSet(r) = {r[k] : k \in 1 .. n}
    BY <1>6 DEF ToSet
  <2> HIDE DEF r
  <2> QED
    BY <1>3, <1>7, <2>1, <2>2 DEF r
<1> QED
  BY <1>6, <1>8

\* One more, or several, at the end: which is at which place.
LEMMA AppendPlaces ==
  ASSUME NEW s, s \in Seq(ToSet(s)), NEW x
  PROVE  LET r == Append(s, x)
         IN  /\ r \in Seq(ToSet(r)) /\ ToSet(r) = ToSet(s) \cup {x}
             /\ \A k \in DOMAIN r : (k \in DOMAIN s /\ r[k] = s[k]) \/ r[k] = x
             /\ \A k \in DOMAIN s : k \in DOMAIN r /\ r[k] = s[k]
             /\ \E k \in DOMAIN r : r[k] = x
<1> DEFINE T == ToSet(s) \cup {x}
           r == Append(s, x)
           n == Len(s)
<1>1. s \in Seq(T)
  <2>1. \A k \in DOMAIN s : s[k] \in T
    BY DEF ToSet
  <2> QED
    BY <2>1, SeqOver
<1>2. r \in Seq(T) /\ ToSet(r) = ToSet(s) \cup {x}
  BY <1>1, AppendSet
<1>3. r \in Seq(ToSet(r))
  BY <1>2, SeqItself
<1>4. Len(r) = n + 1 /\ r[n + 1] = x /\ \A i \in 1 .. n : r[i] = s[i]
  BY <1>1, AppendProperties
<1>5. n \in Nat /\ DOMAIN s = 1 .. n /\ DOMAIN r = 1 .. (n + 1)
  BY <1>1, <1>2, <1>4
<1> HIDE DEF r, n, T
<1>6. \A k \in 1 .. (n + 1) : k \in 1 .. n \/ k = n + 1
  BY <1>5
<1>7. n + 1 \in 1 .. (n + 1) /\ \A k \in 1 .. n : k \in 1 .. (n + 1)
  BY <1>5
<1>8. /\ \A k \in DOMAIN r : (k \in DOMAIN s /\ r[k] = s[k]) \/ r[k] = x
      /\ \A k \in DOMAIN s : k \in DOMAIN r /\ r[k] = s[k]
      /\ \E k \in DOMAIN r : r[k] = x
  BY <1>4, <1>5, <1>6, <1>7
<1> QED
  BY <1>2, <1>3, <1>8 DEF r

LEMMA ConcatPlaces ==
  ASSUME NEW s, s \in Seq(ToSet(s)), NEW t, t \in Seq(ToSet(t))
  PROVE  LET r == s \o t
         IN  /\ r \in Seq(ToSet(r)) /\ ToSet(r) = ToSet(s) \cup ToSet(t)
             /\ Len(s) \in Nat /\ Len(t) \in Nat
             /\ DOMAIN s = 1 .. Len(s) /\ DOMAIN t = 1 .. Len(t)
             /\ DOMAIN r = 1 .. (Len(s) + Len(t))
             /\ \A k \in DOMAIN r :
                  \/ k \in DOMAIN s /\ r[k] = s[k]
                  \/ k - Len(s) \in DOMAIN t /\ r[k] = t[k - Len(s)]
             /\ \A k \in DOMAIN s : k \in DOMAIN r /\ r[k] = s[k]
             /\ \A k \in DOMAIN t : k + Len(s) \in DOMAIN r /\ r[k + Len(s)] = t[k]
<1> DEFINE T == ToSet(s) \cup ToSet(t)
           r == s \o t
           m == Len(s)
           n == Len(t)
<1>1. s \in Seq(T) /\ t \in Seq(T)
  <2>1. (\A k \in DOMAIN s : s[k] \in T) /\ \A k \in DOMAIN t : t[k] \in T
    BY DEF ToSet
  <2> QED
    BY <2>1, SeqOver
<1>2. r \in Seq(T) /\ ToSet(r) = T
  BY <1>1, ConcatSet
<1>3. r \in Seq(ToSet(r))
  BY <1>2, SeqItself
<1>4. Len(r) = m + n /\ \A i \in 1 .. (m + n) : r[i] = IF i <= m THEN s[i] ELSE t[i - m]
  BY <1>1, ConcatProperties
<1>5. /\ m \in Nat /\ n \in Nat /\ DOMAIN s = 1 .. m /\ DOMAIN t = 1 .. n
      /\ DOMAIN r = 1 .. (m + n)
  BY <1>1, <1>2, <1>4
<1> HIDE DEF r, m, n, T
<1>6. \A k \in 1 .. (m + n) : (k <= m => k \in 1 .. m) /\ (~(k <= m) => k - m \in 1 .. n)
  BY <1>5
<1>7. \A k \in 1 .. m : k \in 1 .. (m + n) /\ k <= m
  BY <1>5
<1>8. \A k \in 1 .. n : k + m \in 1 .. (m + n) /\ ~(k + m <= m) /\ (k + m) - m = k
  BY <1>5
<1>9. \A k \in DOMAIN r :
        (k \in DOMAIN s /\ r[k] = s[k]) \/ (k - m \in DOMAIN t /\ r[k] = t[k - m])
  BY <1>4, <1>5, <1>6
<1>10. \A k \in DOMAIN s : k \in DOMAIN r /\ r[k] = s[k]
  BY <1>4, <1>5, <1>7
<1>11. \A k \in DOMAIN t : k + m \in DOMAIN r /\ r[k + m] = t[k]
  BY <1>4, <1>5, <1>8
<1> QED
  BY <1>2, <1>3, <1>5, <1>9, <1>10, <1>11 DEF r, m, n, T

(***************************************************************************)
(* Chains, first match and who decides.                                    *)
(***************************************************************************)
LEMMA LeastOf ==
  ASSUME NEW T \in SUBSET Nat, T # {}
  PROVE  Least(T) \in T /\ \A l \in T : Least(T) <= l
BY LeastNat DEF Least

LEMMA LeastOfOne ==
  ASSUME NEW n \in Nat
  PROVE  Least({n}) = n
BY DEF Least

LEMMA ChainShape ==
  ASSUME NEW c \in Chain
  PROVE  /\ c.policy \in Actions /\ Len(c.rules) \in Nat
         /\ DOMAIN c.rules = 1 .. Len(c.rules)
         /\ \A i \in 1 .. Len(c.rules) :
              c.rules[i].match \in SUBSET Packets /\ c.rules[i].action \in Actions
<1>1. c.policy \in Actions /\ c.rules \in Seq(Rule)
  BY DEF Chain
<1>2. \A i \in 1 .. Len(c.rules) : c.rules[i] \in Rule
  BY <1>1
<1> QED
  BY <1>1, <1>2 DEF Rule

\* Every packet is decided by a rule or falls through.
LEMMA Decided ==
  ASSUME NEW c \in Chain, NEW q \in Packets
  PROVE  \/ FallsThrough(c.rules, q)
         \/ \E i \in 1 .. Len(c.rules) : Decides(c.rules, i, q)
<1> DEFINE T == {i \in 1 .. Len(c.rules) : q \in c.rules[i].match}
<1>1. T \in SUBSET Nat
  BY ChainShape
<1>2. CASE T = {}
  BY <1>2, ChainShape DEF FallsThrough
<1>3. CASE T # {}
  <2>1. PICK i \in T : \A j \in T : i <= j
    BY <1>1, <1>3, LeastNat
  <2>2. \A j \in 1 .. (i - 1) : q \notin c.rules[j].match
    BY <2>1, ChainShape
  <2> QED
    BY <2>1, <2>2 DEF Decides
<1> QED
  BY <1>2, <1>3

LEMMA Compiled ==
  ASSUME NEW c \in Chain
  PROVE  /\ Compile(c).accept = AcceptSet(c)
         /\ Compile(c).fallthrough = {q \in Packets : FallsThrough(c.rules, q)}
         /\ DOMAIN Compile(c).rules = 1 .. Len(c.rules)
         /\ \A i \in 1 .. Len(c.rules) :
              Compile(c).rules[i].effective = {q \in Packets : Decides(c.rules, i, q)}
BY DEF Compile, CompiledRule, EffectiveSet

\* Who is named for a set of packets: whoever decides one of them.
LEMMA NamedDeciders ==
  ASSUME NEW c \in Chain, NEW S \in SUBSET Packets
  PROVE  DecidersOf(Compile(c), S)
           = {i \in 1 .. Len(c.rules) : \E q \in S : Decides(c.rules, i, q)}
               \cup {i \in {ByPolicy} : \E q \in S : FallsThrough(c.rules, q)}
<1> DEFINE model == Compile(c)
<1>1. \A i \in 1 .. Len(c.rules) :
        S \cap model.rules[i].effective # {} <=> \E q \in S : Decides(c.rules, i, q)
  BY Compiled
<1>2. S \cap model.fallthrough # {} <=> \E q \in S : FallsThrough(c.rules, q)
  BY Compiled
<1>3. DOMAIN model.rules = 1 .. Len(c.rules)
  BY Compiled
<1> HIDE DEF model
<1>4. DecidersOf(model, S)
        = {i \in 1 .. Len(c.rules) : \E q \in S : Decides(c.rules, i, q)}
            \cup {i \in {ByPolicy} : \E q \in S : FallsThrough(c.rules, q)}
  BY <1>1, <1>2, <1>3 DEF DecidersOf
<1> QED
  BY <1>4 DEF model

\* Somebody is named, and it is the policy or a rule.
LEMMA SomeDecider ==
  ASSUME NEW c \in Chain, NEW S \in SUBSET Packets, S # {}
  PROVE  /\ DecidersOf(Compile(c), S) # {}
         /\ DecidersOf(Compile(c), S) \subseteq 0 .. Len(c.rules)
         /\ Least(DecidersOf(Compile(c), S)) \in 0 .. Len(c.rules)
<1> DEFINE named == DecidersOf(Compile(c), S)
<1>1. named = {i \in 1 .. Len(c.rules) : \E q \in S : Decides(c.rules, i, q)}
                \cup {i \in {ByPolicy} : \E q \in S : FallsThrough(c.rules, q)}
  BY NamedDeciders
<1>2. PICK q \in S : TRUE
  OBVIOUS
<1>3. Len(c.rules) \in Nat
  BY ChainShape
<1>4. named # {}
  BY <1>1, <1>2, Decided DEF ByPolicy
<1>5. named \subseteq 0 .. Len(c.rules)
  BY <1>1, <1>3 DEF ByPolicy
<1> HIDE DEF named
<1>6. named \in SUBSET Nat
  BY <1>3, <1>5
<1>7. Least(named) \in named
  BY <1>4, <1>6, LeastOf
<1> QED
  BY <1>4, <1>5, <1>7 DEF named

(***************************************************************************)
(* Verdicts: how AcceptedFrom relates neighbouring suffixes and what       *)
(* deleting a rule does to it.                                             *)
(***************************************************************************)
\* One rule further back, the verdict is that rule's for the packets it
\* matches and the old suffix's for the others: the backward recurrence.
LEMMA SuffixStep ==
  ASSUME NEW c \in Chain, NEW k \in 1 .. Len(c.rules), NEW p
  PROVE  AcceptedFrom(c, k, p) <=>
           IF p \in c.rules[k].match THEN Permits(c.rules[k].action)
           ELSE AcceptedFrom(c, k + 1, p)
<1> DEFINE n == Len(c.rules)
<1>1. n \in Nat
  BY DEF Chain
<1>2. CASE p \in c.rules[k].match
  <2>1. ASSUME NEW i \in k .. n, p \in c.rules[i].match,
               \A j \in k .. (i - 1) : p \notin c.rules[j].match
        PROVE  i = k
    BY <1>1, <1>2, <2>1
  <2>2. \A j \in k .. (k - 1) : p \notin c.rules[j].match
    BY <1>1
  <2> QED
    BY <1>1, <1>2, <2>1, <2>2 DEF AcceptedFrom
<1>3. CASE p \notin c.rules[k].match
  <2>1. AcceptedFrom(c, k, p) => AcceptedFrom(c, k + 1, p)
    <3>1. ASSUME NEW i \in k .. n, p \in c.rules[i].match
          PROVE  i \in (k + 1) .. n
      BY <1>1, <1>3, <3>1
    <3> QED
      BY <1>1, <3>1 DEF AcceptedFrom
  <2>2. AcceptedFrom(c, k + 1, p) => AcceptedFrom(c, k, p)
    <3>1. ASSUME NEW i \in (k + 1) .. n, \A j \in (k + 1) .. (i - 1) : p \notin c.rules[j].match
          PROVE  \A j \in k .. (i - 1) : p \notin c.rules[j].match
      BY <1>1, <1>3, <3>1
    <3>2. (\A j \in (k + 1) .. n : p \notin c.rules[j].match)
             => (\A j \in k .. n : p \notin c.rules[j].match)
      BY <1>1, <1>3
    <3>3. \A i \in (k + 1) .. n : i \in k .. n
      BY <1>1
    <3> QED
      BY <3>1, <3>2, <3>3 DEF AcceptedFrom
  <2> QED
    BY <1>3, <2>1, <2>2
<1> QED
  BY <1>2, <1>3

\* With no rule left, the verdict is the policy's.
LEMMA SuffixEnd ==
  ASSUME NEW c \in Chain, NEW p
  PROVE  AcceptedFrom(c, Len(c.rules) + 1, p) <=> Permits(c.policy)
<1>1. Len(c.rules) \in Nat
  BY DEF Chain
<1> QED
  BY <1>1 DEF AcceptedFrom

\* A packet no rule before k matches gets its verdict from rule k on.
LEMMA SkipUnmatched ==
  ASSUME NEW c \in Chain, NEW k \in 1 .. (Len(c.rules) + 1), NEW p,
         \A j \in 1 .. (k - 1) : p \notin c.rules[j].match
  PROVE  AcceptedFrom(c, 1, p) <=> AcceptedFrom(c, k, p)
<1> DEFINE n == Len(c.rules)
<1>1. n \in Nat
  BY DEF Chain
<1>2. \A i \in 1 .. n : p \in c.rules[i].match => i \in k .. n
  BY <1>1
<1>3. \A i \in k .. n :
        (\A j \in k .. (i - 1) : p \notin c.rules[j].match)
          <=> (\A j \in 1 .. (i - 1) : p \notin c.rules[j].match)
  BY <1>1
<1>4. (\A j \in k .. n : p \notin c.rules[j].match)
        <=> (\A j \in 1 .. n : p \notin c.rules[j].match)
  BY <1>1
<1>5. \A i \in k .. n : i \in 1 .. n
  BY <1>1
<1> QED
  BY <1>2, <1>3, <1>4, <1>5 DEF AcceptedFrom

\* Deleting a rule leaves a chain whose rules after the gap moved down by one.
LEMMA DeletingType ==
  ASSUME NEW c \in Chain, NEW i \in 1 .. Len(c.rules)
  PROVE  /\ Deleting(c, i) \in Chain
         /\ Deleting(c, i).policy = c.policy
         /\ Len(Deleting(c, i).rules) = Len(c.rules) - 1
         /\ \A j \in 1 .. (Len(c.rules) - 1) :
              Deleting(c, i).rules[j] = IF j < i THEN c.rules[j] ELSE c.rules[j + 1]
<1> DEFINE n == Len(c.rules)
           w == Without(c.rules, i)
<1>1. /\ n \in Nat /\ n >= 1 /\ i \in Nat /\ c.rules \in Seq(Rule)
      /\ c.policy \in Actions
  BY DEF Chain
<1>2. \A j \in 1 .. (n - 1) : (IF j < i THEN c.rules[j] ELSE c.rules[j + 1]) \in Rule
  <2>1. ASSUME NEW j \in 1 .. (n - 1) PROVE j \in 1 .. n /\ j + 1 \in 1 .. n
    BY <1>1
  <2> QED
    BY <1>1, <2>1
<1>3. /\ w \in [1 .. (n - 1) -> Rule]
      /\ \A j \in 1 .. (n - 1) : w[j] = IF j < i THEN c.rules[j] ELSE c.rules[j + 1]
  BY <1>2 DEF Without
<1>4. n - 1 \in Nat
  BY <1>1
<1>5. w \in Seq(Rule) /\ Len(w) = n - 1
  <2> HIDE DEF w
  <2>1. w \in Seq(Rule)
    BY <1>3, <1>4, SeqDef
  <2>2. DOMAIN w = 1 .. (n - 1)
    BY <1>3
  <2> QED
    BY <1>4, <2>1, <2>2, LenProperties
<1>6. Deleting(c, i) = [policy |-> c.policy, rules |-> w]
  BY DEF Deleting, Chain
<1> QED
  BY <1>1, <1>3, <1>5, <1>6 DEF Chain

\* Behind the gap, evaluation of the shorter chain is that of the longer one
\* a rule later.
LEMMA DeletingShift ==
  ASSUME NEW c \in Chain, NEW i \in 1 .. Len(c.rules), NEW p
  PROVE  AcceptedFrom(Deleting(c, i), i, p) <=> AcceptedFrom(c, i + 1, p)
<1> DEFINE n == Len(c.rules)
           d == Deleting(c, i)
<1>1. n \in Nat /\ i \in Nat /\ i <= n /\ 1 <= i
  BY DEF Chain
<1>2. /\ Len(d.rules) = n - 1 /\ d.policy = c.policy
      /\ \A j \in i .. (n - 1) : d.rules[j] = c.rules[j + 1]
  <2>1. \A j \in i .. (n - 1) : j \in 1 .. (n - 1) /\ ~(j < i)
    BY <1>1
  <2> QED
    BY <2>1, DeletingType
<1> HIDE DEF d
<1>3. ASSUME NEW x \in i .. (n - 1)
      PROVE  (\A j \in i .. (x - 1) : p \notin d.rules[j].match)
               <=> (\A j \in (i + 1) .. x : p \notin c.rules[j].match)
  <2>1. ASSUME NEW j \in i .. (x - 1) PROVE j + 1 \in (i + 1) .. x /\ j \in i .. (n - 1)
    BY <1>1, <1>3
  <2>2. ASSUME NEW j \in (i + 1) .. x
        PROVE  j - 1 \in i .. (x - 1) /\ j - 1 \in i .. (n - 1) /\ (j - 1) + 1 = j
    BY <1>1, <1>3
  <2> QED
    BY <1>2, <2>1, <2>2
<1>4. (\A j \in i .. (n - 1) : p \notin d.rules[j].match)
        <=> (\A j \in (i + 1) .. n : p \notin c.rules[j].match)
  <2>1. ASSUME NEW j \in i .. (n - 1) PROVE j + 1 \in (i + 1) .. n
    BY <1>1
  <2>2. ASSUME NEW j \in (i + 1) .. n
        PROVE  j - 1 \in i .. (n - 1) /\ (j - 1) + 1 = j
    BY <1>1
  <2> QED
    BY <1>2, <2>1, <2>2
<1>5. (\E x \in i .. (n - 1) : /\ p \in d.rules[x].match
                               /\ \A j \in i .. (x - 1) : p \notin d.rules[j].match
                               /\ Permits(d.rules[x].action))
        <=> (\E y \in (i + 1) .. n : /\ p \in c.rules[y].match
                                     /\ \A j \in (i + 1) .. (y - 1) : p \notin c.rules[j].match
                                     /\ Permits(c.rules[y].action))
  <2>1. ASSUME NEW x \in i .. (n - 1) PROVE x + 1 \in (i + 1) .. n /\ (x + 1) - 1 = x
    BY <1>1
  <2>2. ASSUME NEW y \in (i + 1) .. n
        PROVE  y - 1 \in i .. (n - 1) /\ (y - 1) + 1 = y
    BY <1>1
  <2>3. ASSUME NEW x \in i .. (n - 1), p \in d.rules[x].match,
               \A j \in i .. (x - 1) : p \notin d.rules[j].match,
               Permits(d.rules[x].action)
        PROVE  /\ x + 1 \in (i + 1) .. n
               /\ p \in c.rules[x + 1].match
               /\ \A j \in (i + 1) .. ((x + 1) - 1) : p \notin c.rules[j].match
               /\ Permits(c.rules[x + 1].action)
    BY <1>2, <1>3, <2>1, <2>3
  <2>4. ASSUME NEW y \in (i + 1) .. n, p \in c.rules[y].match,
               \A j \in (i + 1) .. (y - 1) : p \notin c.rules[j].match,
               Permits(c.rules[y].action)
        PROVE  /\ y - 1 \in i .. (n - 1)
               /\ p \in d.rules[y - 1].match
               /\ \A j \in i .. ((y - 1) - 1) : p \notin d.rules[j].match
               /\ Permits(d.rules[y - 1].action)
    BY <1>2, <1>3, <2>2, <2>4
  <2> QED
    BY <2>3, <2>4
<1>6. AcceptedFrom(d, i, p) <=> AcceptedFrom(c, i + 1, p)
  BY <1>2, <1>4, <1>5 DEF AcceptedFrom
<1> QED
  BY <1>6 DEF d

\* Deleting a rule changes a verdict only for the packets it decides, which
\* then get the verdict of the rules after it.
LEMMA DeletingVerdict ==
  ASSUME NEW c \in Chain, NEW i \in 1 .. Len(c.rules), NEW p
  PROVE  AcceptedFrom(Deleting(c, i), 1, p) <=>
           IF Decides(c.rules, i, p) THEN AcceptedFrom(c, i + 1, p)
           ELSE AcceptedFrom(c, 1, p)
<1> DEFINE n == Len(c.rules)
           d == Deleting(c, i)
<1>1. n \in Nat /\ i \in Nat /\ i <= n /\ 1 <= i
  BY DEF Chain
<1>2. /\ d \in Chain /\ Len(d.rules) = n - 1 /\ d.policy = c.policy
      /\ \A j \in 1 .. (n - 1) : d.rules[j] = IF j < i THEN c.rules[j] ELSE c.rules[j + 1]
  BY DeletingType
<1>3. \A j \in 1 .. (i - 1) : d.rules[j] = c.rules[j]
  BY <1>1, <1>2
<1>4. AcceptedFrom(d, i, p) <=> AcceptedFrom(c, i + 1, p)
  BY DeletingShift
<1> HIDE DEF d
<1>5. CASE \A j \in 1 .. (i - 1) : p \notin c.rules[j].match
  <2>1. AcceptedFrom(d, 1, p) <=> AcceptedFrom(d, i, p)
    <3>1. i \in 1 .. (Len(d.rules) + 1)
      BY <1>1, <1>2
    <3> QED
      BY <1>2, <1>3, <1>5, <3>1, SkipUnmatched
  <2>2. CASE p \in c.rules[i].match
    BY <1>4, <1>5, <2>1, <2>2 DEF Decides, d
  <2>3. CASE p \notin c.rules[i].match
    <3>1. /\ i + 1 \in 1 .. (n + 1)
          /\ \A j \in 1 .. ((i + 1) - 1) : p \notin c.rules[j].match
      BY <1>1, <1>5, <2>3
    <3>2. AcceptedFrom(c, 1, p) <=> AcceptedFrom(c, i + 1, p)
      BY <3>1, SkipUnmatched
    <3> QED
      BY <1>4, <2>1, <2>3, <3>2 DEF Decides, d
  <2> QED
    BY <2>2, <2>3
<1>6. CASE \E j \in 1 .. (i - 1) : p \in c.rules[j].match
  <2>1. PICK e \in 1 .. (i - 1) : p \in c.rules[e].match
    BY <1>6
  <2>2. /\ e \in 1 .. n /\ e \in 1 .. (n - 1) /\ p \in d.rules[e].match
    BY <1>1, <1>3, <2>1
  <2>3. ~Decides(c.rules, i, p)
    BY <2>1 DEF Decides
  <2>4. ASSUME NEW x \in 1 .. n, \A j \in 1 .. (x - 1) : p \notin c.rules[j].match
        PROVE  /\ x \in 1 .. (i - 1) /\ x \in 1 .. (n - 1)
               /\ d.rules[x] = c.rules[x]
               /\ \A j \in 1 .. (x - 1) : d.rules[j] = c.rules[j]
    BY <1>1, <1>3, <2>1, <2>4
  <2>5. ASSUME NEW x \in 1 .. (n - 1), \A j \in 1 .. (x - 1) : p \notin d.rules[j].match
        PROVE  /\ x \in 1 .. (i - 1) /\ x \in 1 .. n
               /\ d.rules[x] = c.rules[x]
               /\ \A j \in 1 .. (x - 1) : d.rules[j] = c.rules[j]
    BY <1>1, <1>3, <2>1, <2>2, <2>5
  <2>6. AcceptedFrom(d, 1, p) <=> AcceptedFrom(c, 1, p)
    BY <1>2, <2>1, <2>2, <2>4, <2>5 DEF AcceptedFrom
  <2> QED
    BY <2>3, <2>6 DEF d
<1> QED
  BY <1>5, <1>6

\* The verdict on a packet is that of the rule that decides it.
LEMMA DecidedVerdict ==
  ASSUME NEW c \in Chain, NEW i \in 1 .. Len(c.rules), NEW p, Decides(c.rules, i, p)
  PROVE  AcceptedFrom(c, 1, p) <=> Permits(c.rules[i].action)
<1>1. i \in 1 .. (Len(c.rules) + 1) /\ Len(c.rules) \in Nat
  BY DEF Chain
<1>2. AcceptedFrom(c, 1, p) <=> AcceptedFrom(c, i, p)
  BY <1>1, SkipUnmatched DEF Decides
<1> QED
  BY <1>2, SuffixStep DEF Decides

\* At most one rule decides a packet.
LEMMA OneDecider ==
  ASSUME NEW rules, NEW i \in Nat \ {0}, NEW j \in Nat \ {0}, NEW p,
         Decides(rules, i, p), Decides(rules, j, p)
  PROVE  i = j
<1>1. i < j => i \in 1 .. (j - 1)
  OBVIOUS
<1>2. j < i => j \in 1 .. (i - 1)
  OBVIOUS
<1> QED
  BY <1>1, <1>2 DEF Decides

\* A rule agrees with the rest of the chain on what it decides exactly when
\* deleting it leaves the accept set as it was.
LEMMA RedundantExactly ==
  ASSUME NEW c \in Chain, NEW i \in 1 .. Len(c.rules)
  PROVE  AgreesWithRest(c, i) <=> AcceptSet(Deleting(c, i)) = AcceptSet(c)
<1>1. ASSUME NEW p \in Packets
      PROVE  (AcceptedFrom(Deleting(c, i), 1, p) <=> AcceptedFrom(c, 1, p))
               <=> (Decides(c.rules, i, p) =>
                      (AcceptedFrom(c, i + 1, p) <=> Permits(c.rules[i].action)))
  BY DeletingVerdict, DecidedVerdict
<1>2. AcceptSet(Deleting(c, i)) = AcceptSet(c)
        <=> \A p \in Packets : AcceptedFrom(Deleting(c, i), 1, p) <=> AcceptedFrom(c, 1, p)
  BY DEF AcceptSet
<1> QED
  BY <1>1, <1>2 DEF AgreesWithRest

(***************************************************************************)
(* Shadow explanations.                                                    *)
(***************************************************************************)
NamedBy(list) == {list[k] : k \in DOMAIN list}

\* What explain_shadow names for a rule that the earlier ones cover: earlier
\* rules that cover it, each overlapping it, the last one needed, and several
\* only if none covers alone.
LEMMA ExplanationExact ==
  ASSUME NEW model, NEW n \in Nat, DOMAIN model.rules = 1 .. n, NEW number \in 1 .. n,
         model.rules[number].matched # {},
         CoveredBy(model, model.rules[number].matched, 1 .. (number - 1))
  PROVE  LET target == model.rules[number].matched
             named == ExplainShadow(model, number)
         IN  /\ named \in Seq(1 .. (number - 1)) /\ Len(named) > 0
             /\ NamedBy(named) \subseteq 1 .. (number - 1)
             /\ CoveredBy(model, target, NamedBy(named))
             /\ \A j \in NamedBy(named) : target \cap model.rules[j].matched # {}
             /\ ~CoveredBy(model, target, NamedBy(named) \ {named[Len(named)]})
             /\ Len(named) > 1 => \A j \in 1 .. (number - 1) : ~CoveredBy(model, target, {j})
<1> DEFINE target == model.rules[number].matched
           earlier == 1 .. (number - 1)
           alone == {j \in earlier : CoveredBy(model, target, {j})}
           overlapping == {j \in earlier : target \cap model.rules[j].matched # {}}
           upto(k) == {j \in overlapping : j <= k}
           enough == {k \in overlapping : CoveredBy(model, target, upto(k))}
           prefix == IF enough = {} THEN overlapping ELSE upto(Least(enough))
           named == ExplainShadow(model, number)
<1>1. named = IF alone # {} THEN <<Least(alone)>> ELSE Ascending(prefix)
  BY DEF ExplainShadow
<1>2. target # {} /\ CoveredBy(model, target, earlier)
  OBVIOUS
<1>3. ~CoveredBy(model, target, {})
  BY <1>2 DEF CoveredBy
<1>4. \A j \in earlier : j \in alone => j \in overlapping
  BY <1>2 DEF CoveredBy
<1>5. CoveredBy(model, target, overlapping)
  BY <1>2 DEF CoveredBy
<1>6. overlapping \in SUBSET Nat /\ alone \in SUBSET Nat /\ \A j \in overlapping : j <= number
      /\ earlier \in SUBSET Nat /\ overlapping \subseteq earlier /\ number \in Nat
  OBVIOUS
<1>7. \A j \in overlapping : target \cap model.rules[j].matched # {}
  OBVIOUS
<1>8. CASE alone # {}
  <2> DEFINE first == Least(alone)
  <2>1. first \in alone /\ first \in earlier /\ first \in overlapping
    BY <1>4, <1>6, <1>8, LeastOf
  <2>2. named = <<first>>
    BY <1>1, <1>8
  <2>3. CoveredBy(model, target, {first})
    BY <2>1
  <2> HIDE DEF first, named, alone, overlapping, target, earlier
  <2>4. /\ named \in Seq(earlier) /\ Len(named) = 1 /\ named[Len(named)] = first
        /\ NamedBy(named) = {first}
    BY <2>1, <2>2 DEF NamedBy
  <2>5. NamedBy(named) \ {named[Len(named)]} = {}
    BY <2>4
  <2>6. ~(Len(named) > 1) /\ Len(named) > 0
    BY <2>4
  <2>7. NamedBy(named) \subseteq earlier /\ CoveredBy(model, target, NamedBy(named))
        /\ \A j \in NamedBy(named) : target \cap model.rules[j].matched # {}
    BY <1>7, <2>1, <2>3, <2>4
  <2>8. ~CoveredBy(model, target, NamedBy(named) \ {named[Len(named)]})
    BY <1>3, <2>5
  <2> QED
    BY <2>4, <2>6, <2>7, <2>8 DEF named, target, earlier
<1>9. CASE alone = {}
  <2>1. overlapping # {}
    BY <1>3, <1>5
  <2>2. PICK top \in overlapping : \A j \in overlapping : j <= top
    BY <1>6, <2>1, GreatestNat
  <2>3. upto(top) = overlapping
    BY <2>2
  <2>4. enough # {} /\ enough \in SUBSET Nat
    BY <1>5, <1>6, <2>2, <2>3
  <2> DEFINE last == Least(enough)
  <2>5. last \in enough /\ \A k \in enough : last <= k
    BY <2>4, LeastOf
  <2>6. last \in overlapping /\ CoveredBy(model, target, upto(last))
    BY <2>5
  <2>7. named = Ascending(upto(last))
    BY <1>1, <1>9, <2>4
  <2>8. \A k \in overlapping : CoveredBy(model, target, upto(k)) => last <= k
    BY <2>5
  <2> HIDE DEF last, named, enough, alone, target, earlier, overlapping, prefix
  <2>9. /\ upto(last) \in SUBSET Int /\ IsFiniteSet(upto(last)) /\ last \in upto(last)
        /\ upto(last) \subseteq overlapping /\ \A j \in upto(last) : j <= last
    <3>1. upto(last) \in SUBSET Nat /\ \A j \in upto(last) : j <= number
      BY <1>6
    <3>2. IsFiniteSet(upto(last))
      BY <1>6, <3>1, FS_BoundedSetOfNaturals
    <3> QED
      BY <1>6, <2>6, <3>1, <3>2
  <2>10. \A j \in upto(last) \ {last} : j \in overlapping /\ j < last
    BY <1>6, <2>9
  <2> HIDE DEF upto
  <2>11. /\ named \in Seq(upto(last)) /\ Len(named) \in Nat
         /\ \A x \in upto(last) : \E k \in 1 .. Len(named) : named[k] = x
         /\ \A j, k \in 1 .. Len(named) : j < k <=> named[j] < named[k]
    BY <2>7, <2>9, AscendingList
  <2>12. NamedBy(named) = upto(last)
    <3>1. DOMAIN named = 1 .. Len(named) /\ \A k \in 1 .. Len(named) : named[k] \in upto(last)
      BY <2>11
    <3> QED
      BY <2>11, <3>1 DEF NamedBy
  <2>13. named[Len(named)] = last /\ Len(named) > 0
    <3>1. PICK k \in 1 .. Len(named) : named[k] = last
      BY <2>9, <2>11
    <3>2. Len(named) \in 1 .. Len(named) /\ named[Len(named)] \in upto(last)
      BY <2>11, <3>1
    <3>3. ~(last < named[Len(named)])
      BY <1>6, <2>9, <3>2
    <3>4. ~(k < Len(named))
      BY <2>11, <3>1, <3>2, <3>3
    <3>5. k = Len(named)
      BY <2>11, <3>1, <3>4
    <3> QED
      BY <2>11, <3>1, <3>5
  <2>14. ~CoveredBy(model, target, upto(last) \ {last})
    <3> DEFINE before == upto(last) \ {last}
    <3> SUFFICES ASSUME CoveredBy(model, target, before) PROVE FALSE
      OBVIOUS
    <3>1. before # {} /\ before \in SUBSET Nat /\ \A j \in before : j <= number
      <4>1. before # {}
        BY <1>3
      <4> QED
        BY <1>6, <2>10, <4>1
    <3>2. PICK top2 \in before : \A j \in before : j <= top2
      BY <1>6, <3>1, GreatestNat
    <3>3. top2 \in overlapping /\ top2 < last
      BY <2>10, <3>2
    <3>4. before \subseteq upto(top2)
      BY <2>10, <3>2 DEF upto
    <3>5. CoveredBy(model, target, upto(top2))
      BY <3>4 DEF CoveredBy
    <3>6. last <= top2
      BY <2>8, <3>3, <3>5
    <3> QED
      BY <1>6, <2>6, <3>3, <3>6
  <2>15. named \in Seq(earlier)
    BY <1>6, <2>9, <2>11
  <2>16. \A j \in earlier : ~CoveredBy(model, target, {j})
    BY <1>9 DEF alone
  <2> QED
    BY <1>6, <1>7, <2>6, <2>9, <2>12, <2>13, <2>14, <2>15, <2>16 DEF named, target, earlier
<1> QED
  BY <1>8, <1>9

(***************************************************************************)
(* Attribution: a delta by who decides its packets on both sides.          *)
(***************************************************************************)
\* The parts of the header space: everybody's packets, no packet in two of them,
\* and in each the verdict of whoever decides it.
LEMMA Parts ==
  ASSUME NEW c \in Chain
  PROVE  LET m == Compile(c)
             deciders == 0 .. Len(c.rules)
         IN  /\ \A d \in deciders : PartOf(m, d) \in SUBSET Packets
             /\ \A q \in Packets : \E d \in deciders : q \in PartOf(m, d)
             /\ \A d, e \in deciders : \A q \in Packets :
                  q \in PartOf(m, d) /\ q \in PartOf(m, e) => d = e
             /\ \A d \in deciders : \A q \in PartOf(m, d) :
                  q \in m.accept
                    <=> Permits(IF d = ByPolicy THEN m.policy ELSE m.rules[d].action)
             /\ \A S \in SUBSET Packets :
                  DecidersOf(m, S) = {d \in deciders : S \cap PartOf(m, d) # {}}
<1> DEFINE m == Compile(c)
           n == Len(c.rules)
<1>1. n \in Nat /\ DOMAIN c.rules = 1 .. n
  BY ChainShape
<1>2. /\ m.accept = AcceptSet(c) /\ m.policy = c.policy
      /\ m.fallthrough = {q \in Packets : FallsThrough(c.rules, q)}
      /\ DOMAIN m.rules = 1 .. n
      /\ \A i \in 1 .. n :
           /\ m.rules[i].effective = {q \in Packets : Decides(c.rules, i, q)}
           /\ m.rules[i].action = c.rules[i].action
  <2>1. m.policy = c.policy /\ \A i \in 1 .. n : m.rules[i].action = c.rules[i].action
    BY DEF Compile, CompiledRule
  <2> QED
    BY <2>1, Compiled
<1> HIDE DEF m
<1>3. ASSUME NEW d \in 0 .. n
      PROVE  PartOf(m, d)
               = {q \in Packets : IF d = 0 THEN FallsThrough(c.rules, q) ELSE Decides(c.rules, d, q)}
  <2>1. CASE d = 0
    BY <1>2, <2>1 DEF PartOf, ByPolicy
  <2>2. CASE d # 0
    <3>1. d \in 1 .. n
      BY <1>1, <2>2
    <3> QED
      BY <1>2, <2>2, <3>1 DEF PartOf, ByPolicy
  <2> QED
    BY <2>1, <2>2
<1>4. ASSUME NEW q \in Packets PROVE \E d \in 0 .. n : q \in PartOf(m, d)
  <2>1. CASE FallsThrough(c.rules, q)
    <3>1. 0 \in 0 .. n
      BY <1>1
    <3> QED
      BY <1>3, <2>1, <3>1
  <2>2. ASSUME NEW i \in 1 .. n, Decides(c.rules, i, q) PROVE i \in 0 .. n /\ i # 0
    BY <1>1
  <2> QED
    BY <1>3, <2>1, <2>2, Decided
<1>5. ASSUME NEW d \in 0 .. n, NEW e \in 0 .. n, NEW q \in Packets,
             q \in PartOf(m, d), q \in PartOf(m, e)
      PROVE  d = e
  <2>1. d # 0 => d \in 1 .. n /\ d \in Nat \ {0} /\ Decides(c.rules, d, q)
    BY <1>1, <1>3, <1>5
  <2>2. e # 0 => e \in 1 .. n /\ e \in Nat \ {0} /\ Decides(c.rules, e, q)
    BY <1>1, <1>3, <1>5
  <2>3. (d = 0 \/ e = 0) => FallsThrough(c.rules, q)
    BY <1>3, <1>5
  <2>4. FallsThrough(c.rules, q) => d = 0 /\ e = 0
    BY <1>1, <2>1, <2>2 DEF FallsThrough, Decides
  <2>5. d # 0 /\ e # 0 => d = e
    BY <2>1, <2>2, OneDecider
  <2> QED
    BY <2>3, <2>4, <2>5
<1>6. ASSUME NEW d \in 0 .. n, NEW q \in PartOf(m, d)
      PROVE  q \in m.accept <=> Permits(IF d = ByPolicy THEN m.policy ELSE m.rules[d].action)
  <2>1. q \in Packets
    BY <1>3
  <2>2. CASE d = 0
    <3>1. \A i \in 1 .. n : q \notin c.rules[i].match
      BY <1>1, <1>3, <2>2 DEF FallsThrough
    <3>2. AcceptedFrom(c, 1, q) <=> Permits(c.policy)
      BY <3>1 DEF AcceptedFrom
    <3> QED
      BY <1>2, <2>1, <2>2, <3>2 DEF AcceptSet, ByPolicy
  <2>3. CASE d # 0
    <3>1. d \in 1 .. n /\ Decides(c.rules, d, q)
      BY <1>1, <1>3, <2>3
    <3>2. AcceptedFrom(c, 1, q) <=> Permits(c.rules[d].action)
      BY <3>1, DecidedVerdict
    <3> QED
      BY <1>2, <2>1, <2>3, <3>1, <3>2 DEF AcceptSet, ByPolicy
  <2> QED
    BY <2>2, <2>3
<1>7. ASSUME NEW S \in SUBSET Packets
      PROVE  DecidersOf(m, S) = {d \in 0 .. n : S \cap PartOf(m, d) # {}}
  <2>1. \A i \in 1 .. n : PartOf(m, i) = m.rules[i].effective
    BY <1>1 DEF PartOf, ByPolicy
  <2>2. PartOf(m, 0) = m.fallthrough
    BY DEF PartOf, ByPolicy
  <2>3. 0 .. n = (1 .. n) \cup {0}
    BY <1>1
  <2> QED
    BY <1>2, <2>1, <2>2, <2>3 DEF DecidersOf, ByPolicy
<1>8. \A d \in 0 .. n : PartOf(m, d) \in SUBSET Packets
  BY <1>3
<1> QED
  BY <1>4, <1>5, <1>6, <1>7, <1>8 DEF m

\* The parts a delta is split into: disjoint, none empty, together the delta.
LEMMA CellsExact ==
  ASSUME NEW b \in Chain, NEW h \in Chain, NEW delta \in SUBSET Packets
  PROVE  LET bm == Compile(b)
             hm == Compile(h)
             S == CellSet(bm, hm, delta)
         IN  /\ \A x \in S :
                  /\ x.was \in 0 .. Len(b.rules) /\ x.now \in 0 .. Len(h.rules)
                  /\ x = Cell(bm, hm, delta, x.was, x.now)
                  /\ x.set # {} /\ x.set \subseteq delta
             /\ UNION {x.set : x \in S} = delta
             /\ \A x, y \in S : x # y => x.set \cap y.set = {}
             /\ IsFiniteSet(S)
<1> DEFINE bm == Compile(b)
           hm == Compile(h)
           S == CellSet(bm, hm, delta)
           bs == 0 .. Len(b.rules)
           hs == 0 .. Len(h.rules)
<1>1. /\ \A d \in bs : PartOf(bm, d) \in SUBSET Packets
      /\ \A q \in Packets : \E d \in bs : q \in PartOf(bm, d)
      /\ \A d, e \in bs : \A q \in Packets : q \in PartOf(bm, d) /\ q \in PartOf(bm, e) => d = e
      /\ \A T \in SUBSET Packets : DecidersOf(bm, T) = {d \in bs : T \cap PartOf(bm, d) # {}}
  BY Parts
<1>2. /\ \A d \in hs : PartOf(hm, d) \in SUBSET Packets
      /\ \A q \in Packets : \E d \in hs : q \in PartOf(hm, d)
      /\ \A d, e \in hs : \A q \in Packets : q \in PartOf(hm, d) /\ q \in PartOf(hm, e) => d = e
      /\ \A T \in SUBSET Packets : DecidersOf(hm, T) = {d \in hs : T \cap PartOf(hm, d) # {}}
  BY Parts
<1>3. Len(b.rules) \in Nat /\ Len(h.rules) \in Nat
  BY ChainShape
<1> HIDE DEF bm, hm, bs, hs
<1>4. \A d \in bs, e \in hs : Cell(bm, hm, delta, d, e).set = delta \cap PartOf(bm, d) \cap PartOf(hm, e)
  BY DEF Cell
<1>5. ASSUME NEW d \in bs, NEW e \in hs
      PROVE  Cell(bm, hm, delta, d, e) \in S <=> Cell(bm, hm, delta, d, e).set # {}
  <2>1. delta \cap PartOf(bm, d) \in SUBSET Packets
    OBVIOUS
  <2>2. d \in DecidersOf(bm, delta) <=> delta \cap PartOf(bm, d) # {}
    BY <1>1
  <2>3. e \in DecidersOf(hm, delta \cap PartOf(bm, d))
          <=> (delta \cap PartOf(bm, d)) \cap PartOf(hm, e) # {}
    BY <1>2, <2>1
  <2>4. \A d2, e2 : Cell(bm, hm, delta, d2, e2) = Cell(bm, hm, delta, d, e) => d2 = d /\ e2 = e
    BY DEF Cell
  <2>5. Cell(bm, hm, delta, d, e) \in S
          <=> d \in DecidersOf(bm, delta) /\ e \in DecidersOf(hm, delta \cap PartOf(bm, d))
    <3> DEFINE split(w) == {Cell(bm, hm, delta, w, k) : k \in DecidersOf(hm, delta \cap PartOf(bm, w))}
    <3>1. \A x : x \in S <=> \E w \in DecidersOf(bm, delta) : x \in split(w)
      BY DEF CellSet
    <3>2. \A w : Cell(bm, hm, delta, d, e) \in split(w)
                <=> w = d /\ e \in DecidersOf(hm, delta \cap PartOf(bm, d))
      BY <2>4
    <3> HIDE DEF split, S
    <3> DEFINE x == Cell(bm, hm, delta, d, e)
    <3>3. x \in S <=> \E w \in DecidersOf(bm, delta) : x \in split(w)
      BY <3>1
    <3> QED
      BY <3>2, <3>3
  <2> QED
    BY <1>4, <2>2, <2>3, <2>5
<1>6. ASSUME NEW x \in S
      PROVE  /\ x.was \in bs /\ x.now \in hs
             /\ x = Cell(bm, hm, delta, x.was, x.now)
             /\ x.set # {} /\ x.set \subseteq delta
             /\ x.set = delta \cap PartOf(bm, x.was) \cap PartOf(hm, x.now)
  <2>1. PICK d \in DecidersOf(bm, delta) : \E e \in DecidersOf(hm, delta \cap PartOf(bm, d)) :
          x = Cell(bm, hm, delta, d, e)
    BY DEF CellSet
  <2>2. PICK e \in DecidersOf(hm, delta \cap PartOf(bm, d)) : x = Cell(bm, hm, delta, d, e)
    BY <2>1
  <2>3. d \in bs
    BY <1>1, <2>1
  <2>4. delta \cap PartOf(bm, d) \in SUBSET Packets
    OBVIOUS
  <2>5. e \in hs
    BY <1>2, <2>2, <2>4
  <2>6. x.was = d /\ x.now = e
    BY <2>2 DEF Cell
  <2>7. x.set # {}
    BY <1>5, <2>2, <2>3, <2>5
  <2> QED
    BY <1>4, <2>2, <2>3, <2>5, <2>6, <2>7
<1>7. UNION {x.set : x \in S} = delta
  <2>1. ASSUME NEW q \in delta PROVE \E x \in S : q \in x.set
    <3>1. PICK d \in bs : q \in PartOf(bm, d)
      BY <1>1
    <3>2. PICK e \in hs : q \in PartOf(hm, e)
      BY <1>2
    <3>3. q \in Cell(bm, hm, delta, d, e).set
      BY <1>4, <3>1, <3>2
    <3> QED
      BY <1>5, <3>3
  <2> QED
    BY <1>6, <2>1
<1>8. ASSUME NEW x \in S, NEW y \in S, NEW q \in x.set \cap y.set PROVE x = y
  <2>1. /\ q \in Packets
        /\ q \in PartOf(bm, x.was) /\ q \in PartOf(bm, y.was)
        /\ q \in PartOf(hm, x.now) /\ q \in PartOf(hm, y.now)
    BY <1>6
  <2>2. x.was = y.was /\ x.now = y.now
    BY <1>1, <1>2, <1>6, <2>1
  <2> QED
    BY <1>6, <2>2
<1>9. IsFiniteSet(S)
  <2> DEFINE f == [x \in S |-> <<x.was, x.now>>]
  <2>1. IsFiniteSet(bs) /\ IsFiniteSet(hs)
    <3>1. 0 \in Int /\ Len(b.rules) \in Int /\ Len(h.rules) \in Int
      BY <1>3
    <3> QED
      BY <3>1, FS_Interval DEF bs, hs
  <2>2. IsFiniteSet(bs \X hs)
    BY <2>1, FS_Product
  <2>3. \A x \in S : <<x.was, x.now>> \in bs \X hs
    BY <1>6
  <2>4. \A x, y \in S : <<x.was, x.now>> = <<y.was, y.now>> => x = y
    BY <1>6
  <2>5. f \in Injection(S, bs \X hs)
    <3> HIDE DEF S
    <3>1. f \in [S -> bs \X hs]
      BY <2>3
    <3>2. \A x, y \in S : f[x] = f[y] => x = y
      BY <2>4
    <3> HIDE DEF f
    <3> QED
      BY <3>1, <3>2 DEF Injection, IsInjective
  <2> QED
    BY <2>2, <2>5, FS_Injection
<1> QED
  BY <1>6, <1>7, <1>8, <1>9 DEF bm, hm, bs, hs

\* They are listed, each once.
LEMMA CellsListed ==
  ASSUME NEW b \in Chain, NEW h \in Chain, NEW delta \in SUBSET Packets
  PROVE  LET S == CellSet(Compile(b), Compile(h), delta)
             list == AllCells(Compile(b), Compile(h), delta)
             n == Cardinality(S)
         IN  /\ n \in Nat /\ list \in Seq(S) /\ Len(list) = n
             /\ \A x \in S : \E k \in 1 .. n : list[k] = x
             /\ \A j, k \in 1 .. n : j # k => list[j] # list[k]
<1> DEFINE S == CellSet(Compile(b), Compile(h), delta)
           list == AllCells(Compile(b), Compile(h), delta)
           n == Cardinality(S)
           R == {z \in S \X S : CellOrder(z[1], z[2])}
<1>1. \A x, y \in S : <<x, y>> \in R <=> CellOrder(x, y)
  OBVIOUS
<1>2. \A x \in S : {y \in S : CellOrder(y, x)} = {y \in S : <<y, x>> \in R}
  BY <1>1
<1>3. list = [k \in 1 .. n |-> list[k]]
  <2> DEFINE E(k) == CHOOSE x \in S : Cardinality({y \in S : CellOrder(y, x)}) = k - 1
  <2>1. list = [k \in 1 .. n |-> E(k)]
    BY DEF AllCells, Ranked
  <2> HIDE DEF E, list
  <2> QED
    BY <2>1
<1>4. ASSUME NEW k \in 1 .. n, NEW w \in S, Cardinality({y \in S : <<y, w>> \in R}) = k - 1
      PROVE  list[k] \in S /\ Cardinality({y \in S : <<y, list[k]>> \in R}) = k - 1
  <2>1. list[k] = CHOOSE x \in S : Cardinality({y \in S : CellOrder(y, x)}) = k - 1
    BY DEF AllCells, Ranked
  <2>2. Cardinality({y \in S : CellOrder(y, w)}) = k - 1
    BY <1>2, <1>4
  <2> HIDE DEF list, S
  <2>3. list[k] \in S /\ Cardinality({y \in S : CellOrder(y, list[k])}) = k - 1
    BY <2>1, <2>2
  <2> QED
    BY <1>2, <2>3
<1>5. /\ \A x \in S :
           /\ x.was \in 0 .. Len(b.rules) /\ x.now \in 0 .. Len(h.rules)
           /\ x = Cell(Compile(b), Compile(h), delta, x.was, x.now)
      /\ IsFiniteSet(S)
  BY CellsExact
<1>6. Len(b.rules) \in Nat /\ Len(h.rules) \in Nat
  BY ChainShape
<1> HIDE DEF R, list, S
<1>7. \A x \in S : x.was \in Int /\ x.now \in Int
  BY <1>5, <1>6
<1>8. \A x \in S : ~CellOrder(x, x)
  BY <1>7 DEF CellOrder, RuleOrder, ByPolicy
<1>9. \A x, y \in S : x # y => CellOrder(x, y) \/ CellOrder(y, x)
  <2> SUFFICES ASSUME NEW x \in S, NEW y \in S, x # y PROVE CellOrder(x, y) \/ CellOrder(y, x)
    OBVIOUS
  <2>1. x.was # y.was \/ x.now # y.now
    BY <1>5
  <2> QED
    BY <1>7, <2>1 DEF CellOrder, RuleOrder, ByPolicy
<1>10. \A x, y, z \in S : CellOrder(x, y) /\ CellOrder(y, z) => CellOrder(x, z)
  BY <1>7 DEF CellOrder, RuleOrder, ByPolicy
<1>11. /\ \A x \in S : <<x, x>> \notin R
       /\ \A x, y \in S : x # y => <<x, y>> \in R \/ <<y, x>> \in R
       /\ \A x, y, z \in S : <<x, y>> \in R /\ <<y, z>> \in R => <<x, z>> \in R
  BY <1>1, <1>8, <1>9, <1>10
<1>12. /\ n \in Nat /\ list \in [1 .. n -> S]
       /\ \A x \in S : \E k \in 1 .. n : list[k] = x
       /\ \A j, k \in 1 .. n : j < k => <<list[j], list[k]>> \in R
  <2>1. \A k \in 1 .. n :
          (\E x \in S : Cardinality({y \in S : <<y, x>> \in R}) = k - 1) =>
             list[k] \in S /\ Cardinality({y \in S : <<y, list[k]>> \in R}) = k - 1
    BY <1>4
  <2>2. /\ Cardinality(S) \in Nat
        /\ list \in [1 .. Cardinality(S) -> S]
        /\ \A x \in S : \E k \in 1 .. Cardinality(S) : list[k] = x
        /\ \A j, k \in 1 .. Cardinality(S) : j < k <=> <<list[j], list[k]>> \in R
    BY <1>3, <1>5, <1>11, <2>1, RankedList
  <2> QED
    BY <2>2
<1> HIDE DEF n
<1>13. \A j, k \in 1 .. n : j # k => list[j] # list[k]
  <2>1. \A k \in 1 .. n : list[k] \in S
    BY <1>12
  <2>2. \A j, k \in 1 .. n : j # k => j < k \/ k < j
    BY <1>12
  <2> QED
    BY <1>11, <1>12, <2>1, <2>2
<1>14. list \in Seq(S) /\ Len(list) = n
  BY <1>12
<1> QED
  BY <1>12, <1>13, <1>14 DEF list, n, S

\* attribute: parts of the delta, none empty and no two overlapping, at most as
\* many as the cap; all of the delta exactly when the cap did not cut any off.
LEMMA Attributed ==
  ASSUME NEW b \in Chain, NEW h \in Chain, NEW delta \in SUBSET Packets, NEW cap \in Nat
  PROVE  LET S == CellSet(Compile(b), Compile(h), delta)
             split == Attribute(Compile(b), Compile(h), delta, cap)
             n == Len(split.cells)
         IN  /\ split.cells \in Seq(S) /\ n \in Nat /\ n <= cap /\ DOMAIN split.cells = 1 .. n
             /\ \A k \in 1 .. n : split.cells[k] \in S
             /\ \A j, k \in 1 .. n : j # k => split.cells[j].set \cap split.cells[k].set = {}
             /\ split.truncated \in BOOLEAN
             /\ split.truncated <=> UNION {split.cells[k].set : k \in 1 .. n} # delta
<1> DEFINE S == CellSet(Compile(b), Compile(h), delta)
           all == AllCells(Compile(b), Compile(h), delta)
           split == Attribute(Compile(b), Compile(h), delta, cap)
           N == Cardinality(S)
           n == IF N > cap THEN cap ELSE N
           c == SubSeq(all, 1, n)
<1>1. /\ N \in Nat /\ all \in Seq(S) /\ Len(all) = N
      /\ \A x \in S : \E k \in 1 .. N : all[k] = x
      /\ \A j, k \in 1 .. N : j # k => all[j] # all[k]
  BY CellsListed
<1>2. /\ \A x \in S : x.set # {} /\ x.set \subseteq delta
      /\ UNION {x.set : x \in S} = delta
      /\ \A x, y \in S : x # y => x.set \cap y.set = {}
  BY CellsExact
<1>3. split = [cells |-> SubSeq(all, 1, IF Len(all) > cap THEN cap ELSE Len(all)),
               truncated |-> Len(all) > cap]
  BY DEF Attribute
<1>4. split.cells = c /\ split.truncated = (N > cap)
  BY <1>1, <1>3
<1> HIDE DEF S, all, split, N
<1>5. n \in Nat /\ n <= cap /\ n <= N
  BY <1>1
<1>6. c \in Seq(S) /\ Len(c) = n /\ DOMAIN c = 1 .. n /\ \A k \in 1 .. n : c[k] = all[k] /\ all[k] \in S
  <2>1. \A k \in 1 .. n : all[k] \in S
    BY <1>1, <1>5
  <2>2. c = [k \in 1 .. n |-> all[k]]
    BY <1>1, <1>5
  <2> QED
    BY <1>5, <2>1, <2>2
<1>7. \A j, k \in 1 .. n : j # k => c[j].set \cap c[k].set = {}
  <2>1. \A j, k \in 1 .. n : j # k => all[j] # all[k]
    BY <1>1, <1>5
  <2> QED
    BY <1>2, <1>6, <2>1
<1>8. N > cap <=> UNION {c[k].set : k \in 1 .. n} # delta
  <2>1. CASE N > cap
    <3>1. n + 1 \in 1 .. N /\ all[n + 1] \in S
      BY <1>1, <1>5, <2>1
    <3>2. \A k \in 1 .. n : all[k] # all[n + 1]
      <4>1. \A k \in 1 .. n : k \in 1 .. N /\ k # n + 1
        BY <1>1, <1>5
      <4> QED
        BY <1>1, <3>1, <4>1
    <3>3. PICK q \in all[n + 1].set : q \in delta
      BY <1>2, <3>1
    <3>4. \A k \in 1 .. n : q \notin c[k].set
      BY <1>2, <1>6, <3>1, <3>2, <3>3
    <3> QED
      BY <2>1, <3>3, <3>4
  <2>2. CASE ~(N > cap)
    <3>1. n = N
      BY <2>2
    <3>2. {c[k].set : k \in 1 .. n} = {x.set : x \in S}
      <4>1. \A x \in S : \E k \in 1 .. n : c[k] = x
        BY <1>1, <1>6, <3>1
      <4> HIDE DEF n, c
      <4> QED
        BY <1>6, <4>1
    <3> QED
      BY <1>2, <2>2, <3>2
  <2> QED
    BY <2>1, <2>2
<1>9. (N > cap) \in BOOLEAN
  BY <1>1
<1> DEFINE T == N > cap
<1>10. /\ split.cells = c /\ split.truncated = T /\ T \in BOOLEAN
       /\ T <=> UNION {c[k].set : k \in 1 .. n} # delta
  BY <1>4, <1>8, <1>9
<1> HIDE DEF c, n, T
<1>11. /\ split.truncated \in BOOLEAN
       /\ split.truncated <=> UNION {c[k].set : k \in 1 .. n} # delta
  BY <1>10
<1> QED
  BY <1>5, <1>6, <1>7, <1>10, <1>11 DEF S, split
=============================================================================
