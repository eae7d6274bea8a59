-------------------------- MODULE KernelDiffProofs --------------------------
(***************************************************************************)
(* Proofs about the differential harness, for every set of chains and      *)
(* invocations, every number of rounds, and any number of datagrams that   *)
(* helpers and the network send, repeat, delay, lose or answer.            *)
(***************************************************************************)
EXTENDS KernelDiff, ChainModelProofs

(***************************************************************************)
(* First match on the points of one datagram.                              *)
(***************************************************************************)
LEMMA PointsOfProbe ==
  ASSUME NEW d \in Probes
  PROVE  PointsOf(d) # {} /\ PointsOf(d) \subseteq Packets
<1>1. PICK n \in Ports : d.port \in {0, n}
  BY PortsAssumption DEF Probes
<1> DEFINE q == [way |-> d.way, iif |-> d.iif, proto |-> d.proto, port |-> n]
<1>2. q \in Packets
  BY SpaceAssumption DEF HeaderSpace, Probes
<1> QED
  BY <1>1, <1>2 DEF PointsOf

LEMMA KernelDeciderType ==
  ASSUME NEW c \in Chain, NEW d
  PROVE  KernelDecider(c, d) \in 0 .. Len(c.rules)
<1> DEFINE firing == {i \in DOMAIN c.rules : PointsOf(d) \subseteq c.rules[i].match}
<1>1. firing \in SUBSET Nat /\ firing \subseteq 1 .. Len(c.rules) /\ Len(c.rules) \in Nat
  BY ChainShape
<1>2. KernelDecider(c, d) = IF firing = {} THEN 0 ELSE Least(firing)
  BY DEF KernelDecider
<1> HIDE DEF firing
<1>3. CASE firing = {}
  BY <1>1, <1>2, <1>3
<1>4. CASE firing # {}
  <2>1. Least(firing) \in firing
    BY <1>1, <1>4, LeastOf
  <2>2. Least(firing) \in 1 .. Len(c.rules)
    BY <1>1, <2>1
  <2>3. KernelDecider(c, d) = Least(firing)
    BY <1>2, <1>4
  <2> QED
    BY <1>1, <2>2, <2>3
<1> QED
  BY <1>3, <1>4

(***************************************************************************)
(* The genuine model and the kernel's first match.                         *)
(***************************************************************************)
\* Where every rule takes all points of a datagram or none, the analysis names
\* the rule the kernel fires and gives its verdict at every point.
LEMMA GenuineAgrees ==
  ASSUME NEW c \in Chains, NEW d \in Probes
  PROVE  ~Differs(NoFault, c, d)
<1> DEFINE S == PointsOf(d)
           k == KernelDecider(c, d)
           firing == {i \in DOMAIN c.rules : S \subseteq c.rules[i].match}
<1>1. c \in Chain /\ Len(c.rules) \in Nat /\ DOMAIN c.rules = 1 .. Len(c.rules)
  BY ChainsAssumption, ChainShape
<1>2. S # {} /\ S \subseteq Packets
  BY PointsOfProbe
<1>3. \A i \in 1 .. Len(c.rules), q \in S : q \in c.rules[i].match <=> i \in firing
  BY <1>1, ChainsAssumption
<1>4. k \in 0 .. Len(c.rules)
  BY <1>1, KernelDeciderType
<1>5. /\ firing = {} => k = 0
      /\ firing # {} => k \in firing /\ \A i \in firing : k <= i
  <2>1. k = IF firing = {} THEN 0 ELSE Least(firing)
    BY DEF KernelDecider
  <2>2. firing \in SUBSET Nat
    BY <1>1
  <2> HIDE DEF firing, k
  <2> QED
    BY <2>1, <2>2, LeastOf
<1>6. firing \subseteq 1 .. Len(c.rules)
  BY <1>1
<1> HIDE DEF S, k, firing
<1>7. k = 0 => firing = {}
  BY <1>5, <1>6
<1>8. ASSUME NEW q \in S
      PROVE  /\ FallsThrough(c.rules, q) <=> k = 0
             /\ \A i \in 1 .. Len(c.rules) : Decides(c.rules, i, q) <=> i = k
  <2>1. FallsThrough(c.rules, q) <=> firing = {}
    BY <1>1, <1>3, <1>6 DEF FallsThrough
  <2>2. ASSUME NEW i \in 1 .. Len(c.rules)
        PROVE  Decides(c.rules, i, q) <=> i \in firing /\ \A j \in 1 .. (i - 1) : j \notin firing
    <3>1. \A j \in 1 .. (i - 1) : j \in 1 .. Len(c.rules)
      BY <1>1
    <3> QED
      BY <1>3, <3>1 DEF Decides
  <2>3. ASSUME NEW i \in 1 .. Len(c.rules)
        PROVE  (i \in firing /\ \A j \in 1 .. (i - 1) : j \notin firing) <=> i = k
    BY <1>1, <1>4, <1>5, <1>6, <1>7
  <2> QED
    BY <1>5, <1>7, <2>1, <2>2, <2>3
<1>9. DecidersOf(Compile(c), S) = {k}
  <2>1. DecidersOf(Compile(c), S)
          = {i \in 1 .. Len(c.rules) : \E q \in S : Decides(c.rules, i, q)}
              \cup {i \in {ByPolicy} : \E q \in S : FallsThrough(c.rules, q)}
    BY <1>1, <1>2, NamedDeciders
  <2>2. {i \in 1 .. Len(c.rules) : \E q \in S : Decides(c.rules, i, q)}
          = {i \in 1 .. Len(c.rules) : i = k}
    BY <1>2, <1>8
  <2>3. (\E q \in S : FallsThrough(c.rules, q)) <=> k = 0
    BY <1>2, <1>8
  <2> QED
    BY <1>1, <1>4, <2>1, <2>2, <2>3 DEF ByPolicy
<1>10. ASSUME NEW q \in S PROVE AcceptedFrom(c, 1, q) <=> KernelPermits(c, d)
  <2>1. KernelPermits(c, d) <=> Permits(IF k = 0 THEN c.policy ELSE c.rules[k].action)
    BY DEF KernelPermits, k
  <2>2. (\A i \in 1 .. Len(c.rules) : q \notin c.rules[i].match) <=> k = 0
    BY <1>1, <1>8 DEF FallsThrough
  <2>3. \A i \in 1 .. Len(c.rules) :
          (q \in c.rules[i].match /\ \A j \in 1 .. (i - 1) : q \notin c.rules[j].match) <=> i = k
    BY <1>8 DEF Decides
  <2> QED
    BY <1>1, <1>4, <2>1, <2>2, <2>3 DEF AcceptedFrom
<1>11. /\ S \subseteq Compile(c).accept <=> KernelPermits(c, d)
       /\ S \cap Compile(c).accept = {} <=> ~KernelPermits(c, d)
  <2>1. Compile(c).accept = {q \in Packets : AcceptedFrom(c, 1, q)}
    BY <1>1, Compiled DEF AcceptSet
  <2> QED
    BY <1>2, <1>10, <2>1
<1>12. Cardinality({k}) = 1 /\ Least({k}) = k
  <2>1. k \in Nat
    BY <1>1, <1>4
  <2>2. Cardinality({k}) = 1
    BY FS_Singleton
  <2> QED
    BY <2>1, <2>2, LeastOfOne
<1>13. Corrupt(NoFault, c) = c
  BY <1>1 DEF Corrupt, Chain, NoFault
<1>14. Numbered(NoFault, c, k) = k
  BY DEF Numbered, NoFault
<1> DEFINE ours == ModelVerdict(NoFault, c, d)
<1>15. ours.decider = k
  BY <1>9, <1>12, <1>13, <1>14 DEF ModelVerdict, S
<1>16. ours.ok
  <2>1. S \subseteq Compile(c).accept \/ S \cap Compile(c).accept = {}
    BY <1>11
  <2>2. Cardinality(DecidersOf(Compile(c), S)) <= 1
    BY <1>9, <1>12
  <2> QED
    BY <1>13, <2>1, <2>2 DEF ModelVerdict, S
<1>17. ours.permitted = KernelPermits(c, d)
  <2>1. ours.permitted = (S \subseteq Compile(c).accept)
    BY <1>13 DEF ModelVerdict, S
  <2> QED
    BY <1>11, <2>1, Zenon DEF KernelPermits, Permits
<1> HIDE DEF ours
<1> QED
  BY <1>15, <1>16, <1>17 DEF Differs, k, ours

\* A corrupted chain is a chain of as many rules.
LEMMA CorruptType ==
  ASSUME NEW which \in Faults \cup {NoFault}, NEW c \in Chain
  PROVE  Corrupt(which, c) \in Chain /\ Len(Corrupt(which, c).rules) = Len(c.rules)
<1> DEFINE rules == c.rules
           n == Len(rules)
           changed == Corrupt(which, c).rules
<1>1. rules \in Seq(Rule) /\ n \in Nat /\ DOMAIN rules = 1 .. n /\ c \in Chain
  BY DEF Chain
<1>2. ASSUME NEW i \in 1 .. n PROVE rules[i] \in Rule
  BY <1>1
<1>3. ASSUME NEW dim
      PROVE  [i \in DOMAIN rules |-> [rules[i] EXCEPT !.match = Relax(rules[i].match, dim)]]
               \in [1 .. n -> Rule]
  <2>1. ASSUME NEW i \in 1 .. n
        PROVE  [rules[i] EXCEPT !.match = Relax(rules[i].match, dim)] \in Rule
    <3>1. Relax(rules[i].match, dim) \in SUBSET Packets
      BY DEF Relax
    <3> QED
      BY <1>2, <3>1 DEF Rule
  <2> QED
    BY <1>1, <2>1
<1>4. [i \in DOMAIN rules |->
         [rules[i] EXCEPT !.action = IF rules[i].action = "drop" THEN "accept" ELSE rules[i].action]]
        \in [1 .. n -> Rule]
  <2>1. ASSUME NEW i \in 1 .. n
        PROVE  [rules[i] EXCEPT !.action =
                  IF rules[i].action = "drop" THEN "accept" ELSE rules[i].action] \in Rule
    BY <1>2 DEF Rule, Actions
  <2> QED
    BY <1>1, <2>1
<1>5. Reverse(rules) \in [1 .. n -> Rule]
  <2>1. \A i \in 1 .. n : (n - i) + 1 \in 1 .. n
    BY <1>1
  <2> QED
    BY <1>2, <2>1 DEF Reverse
<1>6. Corrupt(which, c) = [c EXCEPT !.rules = changed] /\ changed \in [1 .. n -> Rule]
  <2>1. rules \in [1 .. n -> Rule]
    BY <1>1, <1>2
  <2>2. CASE which = NoFault
    BY <1>1, <2>1, <2>2 DEF Corrupt, Chain, NoFault
  <2>3. CASE which = "LastMatch"
    BY <1>1, <1>5, <2>3 DEF Corrupt, Chain, NoFault
  <2>4. CASE which = "IgnoreInterface"
    BY <1>1, <1>3, <2>4 DEF Corrupt, Chain, NoFault
  <2>5. CASE which = "IgnoreProtocol"
    BY <1>1, <1>3, <2>5 DEF Corrupt, Chain, NoFault
  <2>6. CASE which = "IgnorePorts"
    BY <1>1, <1>3, <2>6 DEF Corrupt, Chain, NoFault
  <2>7. CASE which = "RejectPermits"
    BY <1>1, <1>4, <2>7 DEF Corrupt, Chain, NoFault
  <2> QED
    BY <2>2, <2>3, <2>4, <2>5, <2>6, <2>7 DEF Faults
<1> HIDE DEF changed
<1>7. changed \in Seq(Rule) /\ Len(changed) = n
  BY <1>1, <1>6
<1> QED
  BY <1>1, <1>6, <1>7 DEF Chain, changed

\* Whatever is injected, the model names the policy or a rule of the chain.
LEMMA VerdictType ==
  ASSUME NEW which \in Faults \cup {NoFault}, NEW c \in Chain, NEW d \in Probes
  PROVE  ModelVerdict(which, c, d).decider \in 0 .. Len(c.rules)
<1> DEFINE least == Least(DecidersOf(Compile(Corrupt(which, c)), PointsOf(d)))
<1>1. Corrupt(which, c) \in Chain /\ Len(Corrupt(which, c).rules) = Len(c.rules)
  BY CorruptType
<1>2. least \in 0 .. Len(c.rules)
  BY <1>1, PointsOfProbe, SomeDecider
<1>3. ModelVerdict(which, c, d).decider = Numbered(which, c, least)
  BY DEF ModelVerdict
<1>4. Len(c.rules) \in Nat
  BY ChainShape
<1> HIDE DEF least
<1> QED
  BY <1>2, <1>3, <1>4 DEF Numbered, ByPolicy

(***************************************************************************)
(* The copies in the network.                                              *)
(***************************************************************************)
\* No more than the bound are on their way.
Bounded(flight) ==
  /\ flight \in [Datagrams -> Nat]
  /\ IsFiniteSet(Copies(flight))
  /\ Cardinality(Copies(flight)) <= MaxInFlight

LEMMA CopiesOf ==
  ASSUME NEW flight \in [Datagrams -> Nat], NEW e, NEW n
  PROVE  <<e, n>> \in Copies(flight) <=> e \in Datagrams /\ n \in 1 .. flight[e]
<1>1. ASSUME <<e, n>> \in Copies(flight) PROVE e \in Datagrams /\ n \in 1 .. flight[e]
  <2>1. PICK d \in Datagrams : <<e, n>> \in {d} \X (1 .. flight[d])
    BY <1>1 DEF Copies
  <2> QED
    BY <2>1
<1>2. ASSUME e \in Datagrams, n \in 1 .. flight[e] PROVE <<e, n>> \in Copies(flight)
  <2>1. <<e, n>> \in {e} \X (1 .. flight[e])
    BY <1>2
  <2> QED
    BY <1>2, <2>1 DEF Copies
<1> QED
  BY <1>1, <1>2

LEMMA CopiesArePairs ==
  ASSUME NEW flight, NEW x \in Copies(flight)
  PROVE  \E e, n : x = <<e, n>>
<1>1. PICK d \in Datagrams : x \in {d} \X (1 .. flight[d])
  BY DEF Copies
<1> QED
  BY <1>1

LEMMA OneMore ==
  ASSUME NEW flight \in [Datagrams -> Nat], NEW d \in Datagrams
  PROVE  LET more == [flight EXCEPT ![d] = @ + 1]
             copy == <<d, flight[d] + 1>>
         IN  /\ more \in [Datagrams -> Nat]
             /\ copy \notin Copies(flight)
             /\ Copies(more) = Copies(flight) \cup {copy}
<1> DEFINE more == [flight EXCEPT ![d] = @ + 1]
           copy == <<d, flight[d] + 1>>
<1>1. more \in [Datagrams -> Nat] /\ more[d] = flight[d] + 1
      /\ \A e \in Datagrams : e # d => more[e] = flight[e]
  OBVIOUS
<1>2. copy \notin Copies(flight)
  BY CopiesOf
<1>3. ASSUME NEW e, NEW n
      PROVE  <<e, n>> \in Copies(more) <=> <<e, n>> \in Copies(flight) \cup {copy}
  <2> HIDE DEF more
  <2>1. <<e, n>> \in Copies(more) <=> e \in Datagrams /\ n \in 1 .. more[e]
    BY <1>1, CopiesOf
  <2>2. <<e, n>> \in Copies(flight) <=> e \in Datagrams /\ n \in 1 .. flight[e]
    BY CopiesOf
  <2>3. <<e, n>> = copy <=> e = d /\ n = flight[d] + 1
    OBVIOUS
  <2>4. flight[d] \in Nat
    OBVIOUS
  <2> QED
    BY <1>1, <2>1, <2>2, <2>3, <2>4
<1> HIDE DEF more
<1>4. Copies(more) = Copies(flight) \cup {copy}
  BY <1>3, CopiesArePairs
<1> QED
  BY <1>1, <1>2, <1>4 DEF more

LEMMA OneLess ==
  ASSUME NEW flight \in [Datagrams -> Nat], NEW d \in Datagrams, flight[d] > 0
  PROVE  LET less == [flight EXCEPT ![d] = @ - 1]
             copy == <<d, flight[d]>>
         IN  /\ less \in [Datagrams -> Nat]
             /\ copy \in Copies(flight)
             /\ Copies(less) = Copies(flight) \ {copy}
<1> DEFINE less == [flight EXCEPT ![d] = @ - 1]
           copy == <<d, flight[d]>>
<1>1. less \in [Datagrams -> Nat] /\ less[d] = flight[d] - 1
      /\ \A e \in Datagrams : e # d => less[e] = flight[e]
  OBVIOUS
<1>2. copy \in Copies(flight)
  BY CopiesOf
<1>3. ASSUME NEW e, NEW n
      PROVE  <<e, n>> \in Copies(less) <=> <<e, n>> \in Copies(flight) \ {copy}
  <2> HIDE DEF less
  <2>1. <<e, n>> \in Copies(less) <=> e \in Datagrams /\ n \in 1 .. less[e]
    BY <1>1, CopiesOf
  <2>2. <<e, n>> \in Copies(flight) <=> e \in Datagrams /\ n \in 1 .. flight[e]
    BY CopiesOf
  <2>3. <<e, n>> = copy <=> e = d /\ n = flight[d]
    OBVIOUS
  <2>4. flight[d] \in Nat
    OBVIOUS
  <2> QED
    BY <1>1, <2>1, <2>2, <2>3, <2>4
<1> HIDE DEF less
<1>4. Copies(less) = Copies(flight) \ {copy}
  BY <1>3, CopiesArePairs
<1> QED
  BY <1>1, <1>2, <1>4 DEF less

\* A copy is sent only where there is room.
LEMMA SendBounded ==
  ASSUME NEW flight, Bounded(flight), Cardinality(Copies(flight)) < MaxInFlight,
         NEW d \in Datagrams
  PROVE  Bounded([flight EXCEPT ![d] = @ + 1])
<1>1. flight \in [Datagrams -> Nat] /\ IsFiniteSet(Copies(flight))
  BY DEF Bounded
<1> DEFINE more == [flight EXCEPT ![d] = @ + 1]
           copy == <<d, flight[d] + 1>>
<1>2. more \in [Datagrams -> Nat] /\ copy \notin Copies(flight)
      /\ Copies(more) = Copies(flight) \cup {copy}
  BY <1>1, OneMore
<1> HIDE DEF more, copy
<1>3. IsFiniteSet(Copies(more)) /\ Cardinality(Copies(more)) = Cardinality(Copies(flight)) + 1
  BY <1>1, <1>2, FS_AddElement
<1>4. Cardinality(Copies(flight)) \in Nat
  BY <1>1, FS_CardinalityType
<1>5. Bounded(more)
  BY <1>2, <1>3, <1>4, InFlightAssumption DEF Bounded
<1> QED
  BY <1>5 DEF more

\* Taking a copy leaves room for one.
LEMMA TakeBounded ==
  ASSUME NEW flight, Bounded(flight), NEW d \in Datagrams, flight[d] > 0
  PROVE  /\ Bounded([flight EXCEPT ![d] = @ - 1])
         /\ Cardinality(Copies([flight EXCEPT ![d] = @ - 1])) < MaxInFlight
<1>1. flight \in [Datagrams -> Nat] /\ IsFiniteSet(Copies(flight))
      /\ Cardinality(Copies(flight)) <= MaxInFlight
  BY DEF Bounded
<1> DEFINE less == [flight EXCEPT ![d] = @ - 1]
           copy == <<d, flight[d]>>
<1>2. less \in [Datagrams -> Nat] /\ copy \in Copies(flight)
      /\ Copies(less) = Copies(flight) \ {copy}
  BY <1>1, OneLess
<1> HIDE DEF less, copy
<1>3. IsFiniteSet(Copies(less)) /\ Cardinality(Copies(less)) = Cardinality(Copies(flight)) - 1
  BY <1>1, <1>2, FS_RemoveElement
<1>4. Cardinality(Copies(flight)) \in Nat
  BY <1>1, FS_CardinalityType
<1>5. Bounded(less) /\ Cardinality(Copies(less)) < MaxInFlight
  BY <1>1, <1>2, <1>3, <1>4, InFlightAssumption DEF Bounded
<1> QED
  BY <1>5 DEF less

\* No datagram has more copies than there are altogether.
LEMMA EachBounded ==
  ASSUME NEW flight, Bounded(flight)
  PROVE  flight \in [Datagrams -> 0 .. MaxInFlight]
<1>1. flight \in [Datagrams -> Nat] /\ IsFiniteSet(Copies(flight))
      /\ Cardinality(Copies(flight)) <= MaxInFlight
  BY DEF Bounded
<1>2. ASSUME NEW d \in Datagrams PROVE flight[d] <= MaxInFlight
  <2> DEFINE number == [k \in 1 .. flight[d] |-> <<d, k>>]
  <2>1. number \in Injection(1 .. flight[d], Copies(flight))
    <3>1. \A k \in 1 .. flight[d] : number[k] \in Copies(flight)
      BY <1>1, CopiesOf
    <3>2. \A j, k \in 1 .. flight[d] : number[j] = number[k] => j = k
      OBVIOUS
    <3>3. number \in [1 .. flight[d] -> Copies(flight)]
      BY <3>1
    <3> HIDE DEF number
    <3> QED
      BY <3>2, <3>3 DEF Injection, IsInjective
  <2> HIDE DEF number
  <2>2. Cardinality(1 .. flight[d]) <= Cardinality(Copies(flight))
    BY <1>1, <2>1, FS_Injection
  <2>3. flight[d] \in Nat
    BY <1>1
  <2>4. Cardinality(1 .. flight[d]) = flight[d]
    BY <2>3, FS_Interval
  <2>5. Cardinality(Copies(flight)) \in Nat
    BY <1>1, FS_CardinalityType
  <2> QED
    BY <1>1, <2>2, <2>3, <2>4, <2>5, InFlightAssumption
<1> QED
  BY <1>1, <1>2, InFlightAssumption

(***************************************************************************)
(* The inductive invariant.                                                *)
(***************************************************************************)
AtMostOne(S, T) == S = {} \/ \E x \in T : S = {x}

Shape ==
  /\ mode \in Modes
  /\ faults_left \in Seq(Faults \cup {NoFault}) /\ faults_left # <<>>
  /\ mode.self_test => faults_left \in Seq(Faults)
  /\ pc \in {"round", "flush", "load", "draw", "narrow", "reset", "send", "poll", "judge",
             "failed", "agreed", "exit"}
  /\ AtMostOne(chain, Chains) /\ AtMostOne(loaded, Chains) /\ AtMostOne(p, Probes)
  /\ round \in 1 .. (Rounds + 1) /\ packets_left \in 0 .. mode.packets
  /\ cov \subseteq Probes /\ checked \subseteq cov
  /\ prefilter \subseteq Datagrams
  /\ helper \in 0 .. MaxSends /\ leaked \in [Probes -> Nat]
  /\ late \in BOOLEAN /\ exit_code \in {-1, 0, 1}
  /\ Bounded(in_flight)

\* What the set-up has put into the kernel by the time the harness is at pc, so
\* that from the reset on the only counter that moves is the packet's own.
SetUp ==
  /\ pc = "load" => loaded = {}
  /\ pc \in {"draw", "narrow", "reset", "send", "poll", "judge"} => loaded = chain
  /\ pc \in {"narrow", "reset", "send", "poll", "judge"} => p \subseteq cov /\ packets_left > 0
  /\ pc \in {"narrow", "reset"} => moved = {}
  /\ pc \in {"reset", "send", "poll", "judge"} => prefilter = p
  /\ OneCounterPerProbe
  /\ loaded = {} => counted = {}
  /\ \A c \in loaded : counted \subseteq 0 .. Len(c.rules)

\* What the verdicts of the round were worth.
Verdicts ==
  /\ \A c \in chain, d \in checked : ~Differs(fault, c, d)
  /\ error \in {"disagreement", "two verdicts"} => \A c \in chain, d \in p : Differs(fault, c, d)
  /\ error # "many counters"
  /\ fault = NoFault => error \in {"", "never arrived", "command"}

\* How far the rounds have got.
Progress ==
  /\ pc \notin {"agreed", "failed", "exit"} => round <= Rounds
  /\ pc \notin {"failed", "exit"} => error = ""
  /\ pc = "agreed" => round = Rounds + 1 /\ packets_left = 0
  /\ pc # "exit" => exit_code = -1
  /\ exit_code = 0 /\ fault = NoFault =>
       error = "" /\ round = Rounds + 1 /\ packets_left = 0 /\ complete

IInv == Shape /\ SetUp /\ Verdicts /\ Progress

LEMMA FaultType == Shape => fault \in Faults \cup {NoFault} /\ (mode.self_test => fault # NoFault)
<1> SUFFICES ASSUME Shape
             PROVE  fault \in Faults \cup {NoFault} /\ (mode.self_test => fault # NoFault)
  OBVIOUS
<1>1. faults_left \in Seq(Faults \cup {NoFault}) /\ faults_left # <<>>
  BY DEF Shape
<1>2. fault \in Faults \cup {NoFault}
  BY <1>1 DEF fault
<1>3. ASSUME mode.self_test PROVE fault \in Faults
  <2>1. faults_left \in Seq(Faults)
    BY <1>3 DEF Shape
  <2> QED
    BY <1>1, <2>1 DEF fault
<1>4. NoFault \notin Faults
  BY DEF NoFault, Faults
<1> QED
  BY <1>2, <1>3, <1>4

LEMMA Initially == Init => IInv
<1> SUFFICES ASSUME Init PROVE IInv
  OBVIOUS
<1>1. mode \in Modes /\ faults_left = mode.faults
  BY DEF Init
<1>2. mode \in [self_test : BOOLEAN, faults : Seq(Faults \cup {NoFault}), packets : Nat]
      /\ mode.faults # <<>> /\ (mode.self_test => mode.faults \in Seq(Faults))
  BY <1>1, ModesAssumption
<1> DEFINE none == [d \in Datagrams |-> 0]
<1>3. Bounded(none)
  <2>1. none \in [Datagrams -> Nat] /\ \A d \in Datagrams : none[d] = 0
    OBVIOUS
  <2> HIDE DEF none
  <2>2. Copies(none) = {}
    <3>1. ASSUME NEW e, NEW n PROVE <<e, n>> \notin Copies(none)
      BY <2>1, CopiesOf
    <3> QED
      BY <3>1, CopiesArePairs
  <2> QED
    BY <2>1, <2>2, FS_EmptySet, InFlightAssumption DEF Bounded
<1>4. Shape
  <2>1. in_flight = none /\ prefilter = Datagrams /\ loaded = {}
    BY DEF Init, KernelInit
  <2>2. /\ pc = "round" /\ chain = {} /\ round = 1 /\ packets_left = 0 /\ cov = {} /\ checked = {}
        /\ p = {} /\ helper = 0 /\ leaked = [d \in Probes |-> 0] /\ late = FALSE /\ exit_code = -1
    BY DEF Init
  <2>3. leaked \in [Probes -> Nat]
    BY <2>2
  <2> HIDE DEF none
  <2>4. round \in 1 .. (Rounds + 1) /\ packets_left \in 0 .. mode.packets /\ helper \in 0 .. MaxSends
    BY <1>1, <1>2, <2>2, BoundsAssumption
  <2> QED
    BY <1>1, <1>2, <1>3, <2>1, <2>2, <2>3, <2>4 DEF Shape, AtMostOne
<1>5. SetUp
  BY DEF Init, KernelInit, SetUp, OneCounterPerProbe
<1>6. Verdicts
  BY DEF Init, Verdicts
<1>7. Progress
  <2>1. pc = "round" /\ round = 1 /\ error = "" /\ exit_code = -1
    BY DEF Init
  <2>2. 1 <= Rounds /\ -1 # 0
    BY BoundsAssumption
  <2> QED
    BY <2>1, <2>2 DEF Progress
<1> QED
  BY <1>4, <1>5, <1>6, <1>7 DEF IInv

(***************************************************************************)
(* The harness, one lemma per step.                                        *)
(***************************************************************************)
LEMMA StillRunning ==
  ASSUME IInv, pc \notin {"failed", "exit"}
  PROVE  error = "" /\ exit_code # 0
<1>1. error = "" /\ exit_code = -1
  BY DEF IInv, Progress
<1>2. -1 # 0
  OBVIOUS
<1> QED
  BY <1>1, <1>2, Zenon

LEMMA StartRoundKeeps == IInv /\ StartRound => IInv'
<1> SUFFICES ASSUME IInv, StartRound PROVE IInv'
  OBVIOUS
<1>1. PICK c \in Chains : chain' = {c}
  BY DEF StartRound, Generated
<1>2. /\ pc = "round" /\ pc' = "flush" /\ packets_left' = mode.packets /\ checked' = {}
      /\ UNCHANGED <<mode, faults_left, undetected, round, cov, p, helper, leaked, late, moved,
                     error, exit_code, prefilter, loaded, counted, in_flight>>
  BY DEF StartRound, kernel_vars
<1>3. mode.packets \in Nat
  BY ModesAssumption DEF IInv, Shape
<1>4. Shape'
  BY <1>1, <1>2, <1>3 DEF IInv, Shape, AtMostOne
<1>5. SetUp'
  BY <1>2 DEF IInv, SetUp, OneCounterPerProbe
<1>6. fault' = fault /\ (complete' <=> complete)
  BY <1>2 DEF fault, complete
<1>7. error = "" /\ exit_code # 0
  BY <1>2, StillRunning
<1>8. Verdicts'
  BY <1>2, <1>6, <1>7 DEF IInv, Verdicts
<1>9. Progress'
  BY <1>2, <1>6, <1>7 DEF IInv, Progress
<1> QED
  BY <1>4, <1>5, <1>8, <1>9 DEF IInv

\* Nothing that the verdicts or the outcome depend on.
LEMMA OutcomeKept ==
  ASSUME IInv, UNCHANGED <<mode, faults_left, chain, round, packets_left, cov, checked, p, error,
                           exit_code>>
  PROVE  /\ Verdicts' /\ fault' = fault
         /\ (\/ pc \notin {"agreed", "failed", "exit"} /\ pc' \notin {"agreed", "failed", "exit"}
             \/ pc' = pc) => Progress'
<1>1. fault' = fault /\ (complete' <=> complete)
  BY DEF fault, complete
<1>2. Verdicts'
  BY <1>1 DEF IInv, Verdicts
<1> QED
  BY <1>1, <1>2 DEF IInv, Progress

LEMMA FlushRulesetKeeps == IInv /\ FlushRuleset => IInv'
<1> SUFFICES ASSUME IInv, FlushRuleset PROVE IInv'
  OBVIOUS
<1>1. /\ pc = "flush" /\ pc' = "load" /\ loaded' = {} /\ counted' = {} /\ prefilter' = Datagrams
      /\ UNCHANGED <<mode, faults_left, undetected, chain, round, packets_left, cov, checked, p,
                     helper, leaked, late, moved, error, exit_code, in_flight>>
  BY DEF FlushRuleset
<1>2. Shape' /\ SetUp'
  BY <1>1 DEF IInv, Shape, AtMostOne, SetUp, OneCounterPerProbe
<1> QED
  BY <1>1, <1>2, OutcomeKept DEF IInv

LEMMA LoadChainKeeps == IInv /\ LoadChain => IInv'
<1> SUFFICES ASSUME IInv, LoadChain PROVE IInv'
  OBVIOUS
<1>1. /\ pc = "load" /\ pc' = "draw" /\ loaded' = chain
      /\ UNCHANGED <<mode, faults_left, undetected, chain, round, packets_left, cov, checked, p,
                     helper, leaked, late, moved, error, exit_code, prefilter, counted, in_flight>>
  BY DEF LoadChain
<1>2. Shape'
  BY <1>1 DEF IInv, Shape, AtMostOne
<1>3. counted = {}
  BY <1>1 DEF IInv, SetUp
<1>4. SetUp'
  BY <1>1, <1>3 DEF IInv, SetUp, OneCounterPerProbe
<1> QED
  BY <1>1, <1>2, <1>4, OutcomeKept DEF IInv

LEMMA DrawPacketKeeps == IInv /\ DrawPacket => IInv'
<1> SUFFICES ASSUME IInv, DrawPacket PROVE IInv'
  OBVIOUS
<1>1. PICK d \in Probes : p' = {d} /\ cov' = cov \cup {d}
  BY DEF DrawPacket
<1>2. /\ pc = "draw" /\ pc' = "narrow" /\ late' = FALSE /\ moved' = {}
      /\ UNCHANGED <<mode, faults_left, undetected, chain, round, packets_left, checked, helper,
                     leaked, error, exit_code, prefilter, loaded, counted, in_flight>>
  BY DEF DrawPacket, Following, kernel_vars
<1>3. Shape'
  BY <1>1, <1>2 DEF IInv, Shape, AtMostOne
<1>4. SetUp'
  <2>1. packets_left > 0
    BY DEF DrawPacket
  <2> QED
    BY <1>1, <1>2, <2>1 DEF IInv, SetUp, OneCounterPerProbe
<1>5. fault' = fault /\ error = "" /\ exit_code # 0
  BY <1>2, StillRunning DEF fault
<1>6. Verdicts'
  BY <1>2, <1>5 DEF IInv, Verdicts
<1>7. Progress'
  BY <1>2, <1>5 DEF IInv, Progress
<1> QED
  BY <1>3, <1>4, <1>6, <1>7 DEF IInv

LEMMA NarrowPrefilterKeeps == IInv /\ NarrowPrefilter => IInv'
<1> SUFFICES ASSUME IInv, NarrowPrefilter PROVE IInv'
  OBVIOUS
<1>1. /\ pc = "narrow" /\ pc' = "reset" /\ prefilter' = p
      /\ UNCHANGED <<mode, faults_left, undetected, chain, round, packets_left, cov, checked, p,
                     helper, leaked, late, moved, error, exit_code, loaded, counted, in_flight>>
  BY DEF NarrowPrefilter, Following
<1>2. p \subseteq Datagrams
  BY DEF IInv, Shape, AtMostOne, Datagrams
<1>3. Shape' /\ SetUp'
  BY <1>1, <1>2 DEF IInv, Shape, AtMostOne, SetUp, OneCounterPerProbe
<1> QED
  BY <1>1, <1>3, OutcomeKept DEF IInv

LEMMA ResetCountersKeeps == IInv /\ ResetCounters => IInv'
<1> SUFFICES ASSUME IInv, ResetCounters PROVE IInv'
  OBVIOUS
<1>1. /\ pc = "reset" /\ pc' = "send" /\ counted' = {}
      /\ UNCHANGED <<mode, faults_left, undetected, chain, round, packets_left, cov, checked, p,
                     helper, leaked, late, moved, error, exit_code, prefilter, loaded, in_flight>>
  BY DEF ResetCounters, Following
<1>2. Shape'
  BY <1>1 DEF IInv, Shape
<1>3. SetUp'
  BY <1>1 DEF IInv, SetUp, OneCounterPerProbe
<1> QED
  BY <1>1, <1>2, <1>3, OutcomeKept DEF IInv

LEMMA SendPacketKeeps == IInv /\ SendPacket => IInv'
<1> SUFFICES ASSUME IInv, SendPacket PROVE IInv'
  OBVIOUS
<1>1. /\ pc = "send" /\ pc' = "poll"
      /\ UNCHANGED <<mode, faults_left, undetected, chain, round, packets_left, cov, checked, p,
                     leaked, late, moved, error, exit_code, prefilter, loaded, counted>>
  BY DEF SendPacket
<1>2. PICK d \in p : \/ in_flight' = [in_flight EXCEPT ![d] = @ + 1] /\ helper' = helper
                     \/ helper' = MaxSends /\ in_flight' = in_flight
  BY DEF SendPacket
<1>3. d \in Datagrams
  BY DEF IInv, Shape, AtMostOne, Datagrams
<1>4. Bounded(in_flight')
  <2>1. Bounded(in_flight) /\ Cardinality(Copies(in_flight)) < MaxInFlight
    BY DEF IInv, Shape, SendPacket, Room
  <2> QED
    BY <1>2, <1>3, <2>1, SendBounded
<1>5. helper' \in 0 .. MaxSends
  BY <1>2, BoundsAssumption DEF IInv, Shape
<1>6. Shape'
  BY <1>1, <1>4, <1>5 DEF IInv, Shape
<1>7. SetUp'
  BY <1>1 DEF IInv, SetUp, OneCounterPerProbe
<1> QED
  BY <1>1, <1>6, <1>7, OutcomeKept DEF IInv

LEMMA PollKeeps == IInv /\ Poll => IInv'
<1> SUFFICES ASSUME IInv, Poll PROVE IInv'
  OBVIOUS
<1>1. /\ pc = "poll" /\ pc' \in {"poll", "judge"} /\ (moved' = moved \/ moved' = counted)
      /\ UNCHANGED <<mode, faults_left, undetected, chain, round, packets_left, cov, checked, p,
                     helper, leaked, late, error, exit_code, prefilter, loaded, counted, in_flight>>
  BY DEF Poll, kernel_vars
<1>2. Shape'
  BY <1>1 DEF IInv, Shape
<1>3. SetUp'
  BY <1>1 DEF IInv, SetUp, OneCounterPerProbe
<1> QED
  BY <1>1, <1>2, <1>3, OutcomeKept DEF IInv

LEMMA DeadlinePassesKeeps == IInv /\ DeadlinePasses => IInv'
<1> SUFFICES ASSUME IInv, DeadlinePasses PROVE IInv'
  OBVIOUS
<1>1. /\ late' = TRUE
      /\ UNCHANGED <<mode, faults_left, undetected, pc, chain, round, packets_left, cov, checked,
                     p, helper, leaked, moved, error, exit_code, prefilter, loaded, counted,
                     in_flight>>
  BY DEF DeadlinePasses, kernel_vars
<1>2. Shape'
  BY <1>1 DEF IInv, Shape
<1>3. SetUp'
  BY <1>1 DEF IInv, SetUp, OneCounterPerProbe
<1> QED
  BY <1>1, <1>2, <1>3, OutcomeKept DEF IInv

\* What a probe is found to be, when only its own counter can have moved.
LEMMA Judged ==
  ASSUME NEW c \in Chains, NEW d \in Probes, moved \subseteq {KernelDecider(c, d)}
  PROVE  /\ Judgement(c, d) \in {"", "never arrived", "two verdicts", "disagreement"}
         /\ Judgement(c, d) = "" => ~Differs(fault, c, d)
         /\ Judgement(c, d) \in {"two verdicts", "disagreement"} => Differs(fault, c, d)
<1> DEFINE k == KernelDecider(c, d)
           ours == ModelVerdict(fault, c, d)
<1>1. k \in Nat
  <2>1. k \in 0 .. Len(c.rules) /\ Len(c.rules) \in Nat
    BY ChainsAssumption, ChainShape, KernelDeciderType
  <2> QED
    BY <2>1
<1>2. CASE moved = {}
  BY <1>2 DEF Judgement
<1>3. CASE moved = {k}
  <2>1. Least(moved) = k
    BY <1>1, <1>3, LeastOfOne
  <2>2. ~(Cardinality(moved) > 1)
    <3>1. Cardinality({k}) = 1
      BY FS_Singleton
    <3> QED
      BY <1>3, <3>1
  <2>3. KernelPermits(c, d) = Permits(IF k = 0 THEN c.policy ELSE c.rules[k].action)
    BY DEF KernelPermits
  <2>4. moved # {}
    BY <1>3
  <2> HIDE DEF k, ours
  <2>5. Judgement(c, d) =
          IF ~ours.ok THEN "two verdicts"
          ELSE IF k # ours.decider \/ KernelPermits(c, d) # ours.permitted THEN "disagreement"
          ELSE ""
    BY <2>1, <2>2, <2>3, <2>4 DEF Judgement, ours
  <2>6. Differs(fault, c, d) <=>
          ~ours.ok \/ ours.decider # k \/ ours.permitted # KernelPermits(c, d)
    BY DEF Differs, ours, k
  <2> QED
    BY <2>5, <2>6
<1> QED
  BY <1>2, <1>3

LEMMA JudgeProbeKeeps == IInv /\ JudgeProbe => IInv'
<1> SUFFICES ASSUME IInv, JudgeProbe PROVE IInv'
  OBVIOUS
<1>1. PICK c \in chain, d \in p :
        \/ /\ Judgement(c, d) = "" /\ checked' = checked \cup {d}
           /\ packets_left' = packets_left - 1 /\ pc' = "draw" /\ error' = error
        \/ /\ Judgement(c, d) # "" /\ error' = Judgement(c, d) /\ pc' = "failed"
           /\ checked' = checked /\ packets_left' = packets_left
  BY DEF JudgeProbe
<1>2. /\ pc = "judge" /\ helper' = 0
      /\ UNCHANGED <<mode, faults_left, undetected, chain, round, cov, p, leaked, late, moved,
                     exit_code, prefilter, loaded, counted, in_flight>>
  BY DEF JudgeProbe, kernel_vars
<1>3. /\ c \in Chains /\ d \in Probes /\ chain = {c} /\ p = {d} /\ d \in cov
      /\ moved \subseteq {KernelDecider(c, d)}
  BY <1>2 DEF IInv, Shape, SetUp, AtMostOne, OneCounterPerProbe
<1>4. fault' = fault /\ error = "" /\ exit_code # 0
  BY <1>2, StillRunning DEF fault
<1>5. /\ Judgement(c, d) \in {"", "never arrived", "two verdicts", "disagreement"}
      /\ Judgement(c, d) = "" => ~Differs(fault, c, d)
      /\ Judgement(c, d) \in {"two verdicts", "disagreement"} => Differs(fault, c, d)
  BY <1>3, Judged
<1>6. fault = NoFault => ~Differs(fault, c, d)
  BY <1>3, GenuineAgrees
<1>7. SetUp'
  BY <1>1, <1>2 DEF IInv, SetUp, OneCounterPerProbe
<1>8. Verdicts'
  BY <1>1, <1>2, <1>3, <1>4, <1>5, <1>6 DEF IInv, Verdicts
<1>9. Progress'
  BY <1>1, <1>2, <1>4 DEF IInv, Progress
<1>10. Shape'
  <2>1. mode.packets \in Nat
    BY ModesAssumption DEF IInv, Shape
  <2>2. packets_left > 0 /\ packets_left \in 0 .. mode.packets
    BY <1>2 DEF IInv, Shape, SetUp
  <2>3. packets_left' \in 0 .. mode.packets
    <3>1. packets_left' = packets_left \/ packets_left' = packets_left - 1
      BY <1>1
    <3> QED
      BY <2>1, <2>2, <3>1
  <2>4. helper' \in 0 .. MaxSends
    BY <1>2, BoundsAssumption
  <2> QED
    BY <1>1, <1>2, <1>3, <2>3, <2>4 DEF IInv, Shape
<1> QED
  BY <1>7, <1>8, <1>9, <1>10 DEF IInv

LEMMA EndRoundKeeps == IInv /\ EndRound => IInv'
<1> SUFFICES ASSUME IInv, EndRound PROVE IInv'
  OBVIOUS
<1>1. /\ pc = "draw" /\ packets_left = 0 /\ round' = round + 1
      /\ pc' = IF round < Rounds THEN "round" ELSE "agreed"
      /\ UNCHANGED <<mode, faults_left, undetected, chain, packets_left, cov, checked, p, helper,
                     leaked, late, moved, error, exit_code, prefilter, loaded, counted, in_flight>>
  BY DEF EndRound, kernel_vars
<1>2. round \in 1 .. Rounds
  <2>1. round \in 1 .. (Rounds + 1) /\ round <= Rounds
    BY <1>1 DEF IInv, Shape, Progress
  <2> QED
    BY <2>1, BoundsAssumption
<1>3. /\ round' \in 1 .. (Rounds + 1)
      /\ pc' = "round" => round' <= Rounds
      /\ pc' = "agreed" => round' = Rounds + 1
      /\ pc' \in {"round", "agreed"}
  BY <1>1, <1>2, BoundsAssumption
<1>4. fault' = fault /\ error = "" /\ exit_code # 0
  BY <1>1, StillRunning DEF fault
<1>5. Shape'
  BY <1>1, <1>3 DEF IInv, Shape
<1>6. SetUp'
  BY <1>1, <1>3 DEF IInv, SetUp, OneCounterPerProbe
<1>7. Verdicts'
  BY <1>1, <1>4 DEF IInv, Verdicts
<1>8. Progress'
  BY <1>1, <1>3, <1>4 DEF IInv, Progress
<1> QED
  BY <1>5, <1>6, <1>7, <1>8 DEF IInv

LEMMA ExitKeeps == IInv /\ Exit => IInv'
<1> SUFFICES ASSUME IInv, Exit PROVE IInv'
  OBVIOUS
<1>1. /\ pc \in {"agreed", "failed"} /\ pc' = "exit" /\ exit_code' \in {0, 1}
      /\ fault = NoFault /\ exit_code' = 0 => pc = "agreed" /\ complete
      /\ UNCHANGED <<mode, faults_left, undetected, chain, round, packets_left, cov, checked, p,
                     helper, leaked, late, moved, error, prefilter, loaded, counted, in_flight>>
  <2>1. 0 # 1
    OBVIOUS
  <2> QED
    BY <2>1, Zenon DEF Exit, kernel_vars
<1>2. fault' = fault /\ (complete' <=> complete)
  BY <1>1 DEF fault, complete
<1>3. Shape'
  BY <1>1 DEF IInv, Shape
<1>4. SetUp'
  BY <1>1 DEF IInv, SetUp, OneCounterPerProbe
<1>5. Verdicts'
  BY <1>1, <1>2 DEF IInv, Verdicts
<1>6. Progress'
  BY <1>1, <1>2 DEF IInv, Progress
<1> QED
  BY <1>3, <1>4, <1>5, <1>6 DEF IInv

LEMMA NextFaultKeeps == IInv /\ NextFault => IInv'
<1> SUFFICES ASSUME IInv, NextFault PROVE IInv'
  OBVIOUS
<1>1. /\ pc \in {"agreed", "failed"} /\ mode.self_test
      /\ UNCHANGED <<mode, chain, packets_left, p, helper, leaked, late, moved, prefilter, loaded,
                     counted, in_flight>>
  BY DEF NextFault, kernel_vars
<1>2. /\ faults_left \in Seq(Faults \cup {NoFault}) /\ faults_left \in Seq(Faults)
      /\ exit_code = -1
  BY <1>1 DEF IInv, Shape, Progress
<1>3. CASE Len(faults_left) > 1
  <2>1. /\ faults_left' = Tail(faults_left) /\ round' = 1 /\ cov' = {} /\ checked' = {}
        /\ pc' = "round" /\ error' = "" /\ exit_code' = exit_code
    BY <1>3 DEF NextFault
  <2>2. /\ faults_left' \in Seq(Faults \cup {NoFault}) /\ faults_left' \in Seq(Faults)
        /\ faults_left' # <<>>
    <3>1. Len(Tail(faults_left)) = Len(faults_left) - 1 /\ Len(faults_left) \in Nat
          /\ Tail(faults_left) \in Seq(Faults) /\ Tail(faults_left) \in Seq(Faults \cup {NoFault})
      BY <1>2, <1>3
    <3>2. Len(Tail(faults_left)) # 0 /\ Len(<<>>) = 0
      BY <1>3, <3>1, EmptySeq
    <3>3. Tail(faults_left) # <<>>
      BY <3>2
    <3> QED
      BY <2>1, <3>1, <3>3
  <2>3. 1 \in 1 .. (Rounds + 1) /\ 1 <= Rounds
    BY BoundsAssumption
  <2>4. Shape'
    BY <1>1, <2>1, <2>2, <2>3 DEF IInv, Shape
  <2>5. SetUp'
    BY <1>1, <2>1 DEF IInv, SetUp, OneCounterPerProbe
  <2>6. Verdicts'
    BY <2>1 DEF Verdicts
  <2>7. exit_code' # 0
    <3>1. -1 # 0
      OBVIOUS
    <3> QED
      BY <1>2, <2>1, <3>1, Zenon
  <2>8. Progress'
    BY <1>2, <2>1, <2>3, <2>7 DEF Progress
  <2> QED
    BY <2>4, <2>5, <2>6, <2>8 DEF IInv
<1>4. CASE ~(Len(faults_left) > 1)
  <2>1. /\ exit_code' \in {0, 1} /\ pc' = "exit"
        /\ UNCHANGED <<faults_left, round, cov, checked, error>>
    BY <1>4 DEF NextFault
  <2>2. fault' = fault /\ fault # NoFault
    BY <1>1, <2>1, FaultType DEF IInv, fault
  <2>3. Shape'
    BY <1>1, <2>1 DEF IInv, Shape
  <2>4. SetUp'
    BY <1>1, <2>1 DEF IInv, SetUp, OneCounterPerProbe
  <2>5. Verdicts'
    BY <1>1, <2>1, <2>2 DEF IInv, Verdicts
  <2>6. Progress'
    BY <1>1, <2>1, <2>2 DEF IInv, Progress
  <2> QED
    BY <2>3, <2>4, <2>5, <2>6 DEF IInv
<1> QED
  BY <1>3, <1>4

LEMMA CommandFailsKeeps == IInv /\ CommandFails => IInv'
<1> SUFFICES ASSUME IInv, CommandFails PROVE IInv'
  OBVIOUS
<1>1. /\ pc \in {"flush", "load", "narrow", "reset", "send", "poll"}
      /\ error' = "command" /\ pc' = "failed" /\ helper' = 0
      /\ leaked' = [d \in Probes |-> IF d \in p THEN leaked[d] + helper ELSE leaked[d]]
      /\ UNCHANGED <<mode, faults_left, undetected, chain, round, packets_left, cov, checked, p,
                     late, moved, exit_code, prefilter, loaded, counted, in_flight>>
  BY DEF CommandFails, kernel_vars
<1>2. fault' = fault /\ error = "" /\ exit_code # 0
  BY <1>1, StillRunning DEF fault
<1>3. leaked' \in [Probes -> Nat] /\ helper' \in 0 .. MaxSends
  <2>1. leaked \in [Probes -> Nat] /\ helper \in 0 .. MaxSends
    BY DEF IInv, Shape
  <2>2. \A d \in Probes : leaked[d] \in Nat /\ leaked[d] + helper \in Nat
    BY <2>1, BoundsAssumption
  <2> QED
    BY <1>1, <2>2, BoundsAssumption
<1>4. Shape'
  BY <1>1, <1>3 DEF IInv, Shape
<1>5. SetUp'
  BY <1>1 DEF IInv, SetUp, OneCounterPerProbe
<1>6. Verdicts'
  BY <1>1, <1>2 DEF IInv, Verdicts
<1>7. Progress'
  BY <1>1, <1>2 DEF IInv, Progress
<1> QED
  BY <1>4, <1>5, <1>6, <1>7 DEF IInv

(***************************************************************************)
(* Helpers and the network.                                                *)
(***************************************************************************)
LEMMA HelperSendsKeeps == IInv /\ HelperSends => IInv'
<1> SUFFICES ASSUME IInv, HelperSends PROVE IInv'
  OBVIOUS
<1>1. /\ helper > 0 /\ helper' = helper - 1
      /\ UNCHANGED <<mode, faults_left, undetected, pc, chain, round, packets_left, cov, checked, p,
                     leaked, late, moved, error, exit_code, prefilter, loaded, counted>>
  BY DEF HelperSends
<1>2. PICK d \in p : in_flight' = [in_flight EXCEPT ![d] = @ + 1]
  BY DEF HelperSends
<1>3. d \in Datagrams
  BY DEF IInv, Shape, AtMostOne, Datagrams
<1>4. Bounded(in_flight')
  <2>1. Bounded(in_flight) /\ Cardinality(Copies(in_flight)) < MaxInFlight
    BY DEF IInv, Shape, HelperSends, Room
  <2> QED
    BY <1>2, <1>3, <2>1, SendBounded
<1>5. helper' \in 0 .. MaxSends
  BY <1>1, BoundsAssumption DEF IInv, Shape
<1>6. Shape'
  BY <1>1, <1>4, <1>5 DEF IInv, Shape
<1>7. SetUp'
  BY <1>1 DEF IInv, SetUp, OneCounterPerProbe
<1> QED
  BY <1>1, <1>6, <1>7, OutcomeKept DEF IInv

LEMMA LeakedHelperSendsKeeps == IInv /\ LeakedHelperSends => IInv'
<1> SUFFICES ASSUME IInv, LeakedHelperSends PROVE IInv'
  OBVIOUS
<1>1. UNCHANGED <<mode, faults_left, undetected, pc, chain, round, packets_left, cov, checked, p,
                  helper, late, moved, error, exit_code, prefilter, loaded, counted>>
  BY DEF LeakedHelperSends
<1>2. PICK d \in Probes : /\ leaked[d] > 0 /\ leaked' = [leaked EXCEPT ![d] = @ - 1]
                          /\ in_flight' = [in_flight EXCEPT ![d] = @ + 1]
  BY DEF LeakedHelperSends
<1>3. Bounded(in_flight')
  <2>1. Bounded(in_flight) /\ Cardinality(Copies(in_flight)) < MaxInFlight
    BY DEF IInv, Shape, LeakedHelperSends, Room
  <2>2. d \in Datagrams
    BY DEF Datagrams
  <2> QED
    BY <1>2, <2>1, <2>2, SendBounded
<1>4. leaked' \in [Probes -> Nat]
  <2>1. leaked \in [Probes -> Nat]
    BY DEF IInv, Shape
  <2>2. leaked[d] - 1 \in Nat
    BY <1>2, <2>1
  <2> QED
    BY <1>2, <2>1, <2>2
<1>5. Shape'
  BY <1>1, <1>3, <1>4 DEF IInv, Shape
<1>6. SetUp'
  BY <1>1 DEF IInv, SetUp, OneCounterPerProbe
<1> QED
  BY <1>1, <1>5, <1>6, OutcomeKept DEF IInv

LEMMA DatagramArrivesKeeps == IInv /\ DatagramArrives => IInv'
<1> SUFFICES ASSUME IInv, DatagramArrives PROVE IInv'
  OBVIOUS
<1>1. UNCHANGED <<mode, faults_left, undetected, pc, chain, round, packets_left, cov, checked, p,
                  helper, leaked, late, moved, error, exit_code>>
  BY DEF DatagramArrives, harness_vars
<1>2. PICK d \in Datagrams : Deliver(d)
  BY DEF DatagramArrives
<1>3. in_flight[d] > 0 /\ UNCHANGED <<prefilter, loaded>>
  BY <1>2 DEF Deliver
<1> DEFINE taken == [in_flight EXCEPT ![d] = @ - 1]
<1>4. PICK c \in loaded :
        \/ /\ d \in prefilter
           /\ counted' = counted \cup {KernelDecider(c, d)}
           /\ in_flight' = taken \/ in_flight' = [taken EXCEPT ![Reply] = @ + 1]
        \/ in_flight' = taken /\ counted' = counted
  BY <1>2 DEF Deliver, Admitted
<1>5. c \in Chains /\ loaded = {c} /\ c \in Chain
  BY ChainsAssumption DEF IInv, Shape, AtMostOne
<1>6. Bounded(in_flight')
  <2>1. Bounded(in_flight)
    BY DEF IInv, Shape
  <2>2. Bounded(taken) /\ Cardinality(Copies(taken)) < MaxInFlight
    BY <1>3, <2>1, TakeBounded
  <2>3. Reply \in Datagrams
    BY DEF Datagrams
  <2> HIDE DEF taken
  <2>4. Bounded([taken EXCEPT ![Reply] = @ + 1])
    BY <2>2, <2>3, SendBounded
  <2> QED
    BY <1>4, <2>2, <2>4
<1>7. Shape'
  BY <1>1, <1>3, <1>6 DEF IInv, Shape
<1>8. counted' \subseteq 0 .. Len(c.rules)
  BY <1>4, <1>5, KernelDeciderType DEF IInv, SetUp
<1>9. OneCounterPerProbe'
  <2> SUFFICES ASSUME pc \in {"send", "poll", "judge"}, NEW e \in p
               PROVE  counted' \cup moved \subseteq {KernelDecider(c, e)}
    <3>1. pc \in {"send", "poll", "judge"} => chain = {c}
      BY <1>5 DEF IInv, SetUp
    <3> QED
      BY <1>1, <3>1 DEF OneCounterPerProbe
  <2>1. counted \cup moved \subseteq {KernelDecider(c, e)} /\ prefilter = {e}
    BY <1>5 DEF IInv, SetUp, OneCounterPerProbe, Shape, AtMostOne
  <2> QED
    BY <1>4, <2>1
<1>10. SetUp'
  BY <1>1, <1>3, <1>5, <1>8, <1>9 DEF IInv, SetUp
<1> QED
  BY <1>1, <1>7, <1>10, OutcomeKept DEF IInv

LEMMA DatagramLostKeeps == IInv /\ DatagramLost => IInv'
<1> SUFFICES ASSUME IInv, DatagramLost PROVE IInv'
  OBVIOUS
<1>1. UNCHANGED <<mode, faults_left, undetected, pc, chain, round, packets_left, cov, checked, p,
                  helper, leaked, late, moved, error, exit_code>>
  BY DEF DatagramLost, harness_vars
<1>2. PICK d \in Datagrams : Lose(d)
  BY DEF DatagramLost
<1>3. /\ in_flight[d] > 0 /\ in_flight' = [in_flight EXCEPT ![d] = @ - 1]
      /\ UNCHANGED <<prefilter, loaded, counted>>
  BY <1>2 DEF Lose
<1>4. Bounded(in_flight')
  BY <1>3, TakeBounded DEF IInv, Shape
<1>5. Shape'
  BY <1>1, <1>3, <1>4 DEF IInv, Shape
<1>6. SetUp'
  BY <1>1, <1>3 DEF IInv, SetUp, OneCounterPerProbe
<1> QED
  BY <1>1, <1>5, <1>6, OutcomeKept DEF IInv

(***************************************************************************)
(* The theorems.                                                           *)
(***************************************************************************)
LEMMA Step == IInv /\ [Next]_vars => IInv'
<1> SUFFICES ASSUME IInv, [Next]_vars PROVE IInv'
  OBVIOUS
<1>1. CASE Harness
  BY <1>1, StartRoundKeeps, FlushRulesetKeeps, LoadChainKeeps, DrawPacketKeeps,
     NarrowPrefilterKeeps, ResetCountersKeeps, SendPacketKeeps, PollKeeps, JudgeProbeKeeps,
     EndRoundKeeps, ExitKeeps, NextFaultKeeps DEF Harness
<1>2. CASE UNCHANGED vars
  <2>1. UNCHANGED <<mode, faults_left, undetected, pc, chain, round, packets_left, cov, checked, p,
                    helper, leaked, late, moved, error, exit_code, prefilter, loaded, counted,
                    in_flight>>
    BY <1>2 DEF vars, harness_vars, kernel_vars
  <2>2. Shape'
    BY <2>1 DEF IInv, Shape
  <2>3. SetUp'
    BY <2>1 DEF IInv, SetUp, OneCounterPerProbe
  <2> QED
    BY <2>1, <2>2, <2>3, OutcomeKept DEF IInv
<1> QED
  BY <1>1, <1>2, CommandFailsKeeps, DeadlinePassesKeeps, HelperSendsKeeps, LeakedHelperSendsKeeps,
     DatagramArrivesKeeps, DatagramLostKeeps DEF Next

\* The invariant holds of every state of the harness and of what it runs against.
THEOREM Inductive == Spec => []IInv
  BY Initially, Step, PTL DEF Spec

LEMMA TypesFromInvariant == IInv => TypeOK
<1> SUFFICES ASSUME IInv PROVE TypeOK
  OBVIOUS
<1>1. ASSUME NEW S, NEW T, AtMostOne(S, T) PROVE S \in SUBSET T /\ Cardinality(S) <= 1
  <2>1. Cardinality({}) = 0
    BY FS_EmptySet
  <2>2. \A x \in T : Cardinality({x}) = 1
    BY FS_Singleton
  <2> QED
    BY <1>1, <2>1, <2>2 DEF AtMostOne
<1>2. AtMostOne(chain, Chains) /\ AtMostOne(loaded, Chains) /\ AtMostOne(p, Probes)
  BY DEF IInv, Shape
<1>3. /\ chain \in SUBSET Chains /\ Cardinality(chain) <= 1 /\ loaded \subseteq Chains
      /\ p \subseteq Probes /\ Cardinality(p) <= 1
  BY <1>1, <1>2
<1>4. in_flight \in [Datagrams -> 0 .. MaxInFlight]
  BY EachBounded DEF IInv, Shape
<1>5. \A c \in chain, d \in p : ModelVerdict(fault, c, d).decider \in 0 .. Len(c.rules)
  BY <1>3, FaultType, VerdictType, ChainsAssumption DEF IInv
<1> QED
  BY <1>3, <1>4, <1>5 DEF IInv, Shape, SetUp, TypeOK

\* A dimension that took two values took a second one beside each.
LEMMA VariedTwice ==
  ASSUME NEW S, Varied(S)
  PROVE  (\A x \in S : \E y \in S : y # x) /\ S # {}
<1>1. S # {}
  <2>1. Cardinality({}) = 0
    BY FS_EmptySet
  <2> QED
    BY <2>1 DEF Varied
<1>2. ASSUME NEW x \in S, \A y \in S : y = x PROVE FALSE
  <2>1. S = {x}
    BY <1>2
  <2>2. Cardinality({x}) = 1
    BY FS_Singleton
  <2> QED
    BY <2>1, <2>2 DEF Varied
<1> QED
  BY <1>1, <1>2

LEMMA EarnedFromInvariant == IInv => SuccessIsEarned
<1> SUFFICES ASSUME IInv, exit_code = 0, fault = NoFault
             PROVE  /\ error = "" /\ round = Rounds + 1 /\ packets_left = 0
                    /\ \A d \in cov : \E e \in cov : e.iif # d.iif
                    /\ \A d \in cov : \E e \in cov : e.proto # d.proto
                    /\ \E d, e \in cov : d.proto = "udp" /\ e.proto = "udp" /\ d.port # e.port
  BY DEF SuccessIsEarned
<1>1. error = "" /\ round = Rounds + 1 /\ packets_left = 0 /\ complete /\ cov \subseteq Probes
  BY DEF IInv, Progress, Shape
<1> DEFINE iifs == {d.iif : d \in cov}
           protos == {d.proto : d \in cov}
           ports == {d.port : d \in {e \in cov : e.port # 0}}
<1>2. Varied(iifs) /\ Varied(protos) /\ Varied(ports)
  BY <1>1 DEF complete
<1>3. \A d \in cov : \E e \in cov : e.iif # d.iif
  <2>1. \A x \in iifs : \E y \in iifs : y # x
    BY <1>2, VariedTwice
  <2> QED
    BY <2>1
<1>4. \A d \in cov : \E e \in cov : e.proto # d.proto
  <2>1. \A x \in protos : \E y \in protos : y # x
    BY <1>2, VariedTwice
  <2> QED
    BY <2>1
<1>5. \E d, e \in cov : d.proto = "udp" /\ e.proto = "udp" /\ d.port # e.port
  <2>1. (\A x \in ports : \E y \in ports : y # x) /\ ports # {}
    BY <1>2, VariedTwice
  <2>2. PICK d \in cov, e \in cov : d.port # 0 /\ e.port # 0 /\ d.port # e.port
    BY <2>1
  <2>3. \A q \in Probes : q.port # 0 => q.proto = "udp"
    BY DEF Probes
  <2> QED
    BY <1>1, <2>2, <2>3
<1> QED
  BY <1>1, <1>3, <1>4, <1>5

\* Whatever the network holds, the harness's variables have their types, each
\* counter is one of a rule or the sentinel, and even a corrupted model names a
\* rule of the chain.
THEOREM TypeCorrect == Spec => []TypeOK
<1>1. IInv => TypeOK
  BY TypesFromInvariant
<1> QED
  BY <1>1, Inductive, PTL

\* From the moment a packet is sent only the counter of the rule that decides it
\* can have moved: narrowing before resetting shuts out whatever is in flight.
THEOREM OneCounter == Spec => []OneCounterPerProbe
<1>1. IInv => OneCounterPerProbe
  BY DEF IInv, SetUp
<1> QED
  BY <1>1, Inductive, PTL

\* Agreement is reported only where model and first match agree, disagreement
\* only where they differ, and an uncorrupted model is never found to disagree.
THEOREM RealVerdicts == Spec => []VerdictsAreReal
<1>1. IInv => VerdictsAreReal
  BY DEF IInv, Verdicts, VerdictsAreReal
<1> QED
  BY <1>1, Inductive, PTL

\* A plain run exits with success only after all its packets agreed and every
\* dimension was varied.
THEOREM EarnedSuccess == Spec => []SuccessIsEarned
<1>1. IInv => SuccessIsEarned
  BY EarnedFromInvariant
<1> QED
  BY <1>1, Inductive, PTL
=============================================================================
