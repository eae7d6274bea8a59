----------------------------- MODULE ChainModel -----------------------------
(***************************************************************************)
(* The compiled chain of engine/accept.rs: what analyse() returns, written *)
(* without its loops, and the queries answered from it.  Analyse shows the *)
(* two passes arrive at Compile; the modules that consume a ChainModel     *)
(* start from Compile.  Decider 0 is the policy, others are rule numbers.  *)
(***************************************************************************)
EXTENDS FirstMatch, Listing

RuleModel == [number : Nat, action : Actions, matched : SUBSET Packets,
              effective : SUBSET Packets, shadowed : BOOLEAN, redundant : BOOLEAN]

ByPolicy == 0

\* The packets rule i decides, and whether the rules after it agree with it on
\* every one of them.
EffectiveSet(chain, i) == {p \in Packets : Decides(chain.rules, i, p)}

AgreesWithRest(chain, i) ==
  \A p \in Packets :
    Decides(chain.rules, i, p) =>
      (AcceptedFrom(chain, i + 1, p) <=> Permits(chain.rules[i].action))

CompiledRule(chain, i) ==
  [number |-> i, action |-> chain.rules[i].action, matched |-> chain.rules[i].match,
   effective |-> EffectiveSet(chain, i), shadowed |-> EffectiveSet(chain, i) = {},
   redundant |-> AgreesWithRest(chain, i)]

Compile(chain) ==
  [policy |-> chain.policy,
   accept |-> AcceptSet(chain),
   matched_any |-> MatchedBefore(chain.rules, Len(chain.rules) + 1),
   fallthrough |-> {p \in Packets : FallsThrough(chain.rules, p)},
   rules |-> [i \in 1 .. Len(chain.rules) |-> CompiledRule(chain, i)]]

(***************************************************************************)
(* Queries.                                                                *)
(***************************************************************************)
\* attribute: a set splits by who decides, rules by number and the policy last;
\* parts that would be empty are left out.
PartOf(model, decider) ==
  IF decider = ByPolicy THEN model.fallthrough ELSE model.rules[decider].effective

RuleOrder(d, e) == d # ByPolicy /\ (e = ByPolicy \/ d < e)

\* Whose part is not empty: with one packet in hand, who decides it.
DecidersOf(model, S) ==
  {i \in DOMAIN model.rules : S \cap model.rules[i].effective # {}}
    \cup {d \in {ByPolicy} : S \cap model.fallthrough # {}}

\* Do the match sets of the numbered rules together cover the target?
CoveredBy(model, target, numbers) ==
  \A p \in target : \E j \in numbers : p \in model.rules[j].matched

Least(numbers) == CHOOSE j \in numbers : \A l \in numbers : j <= l

\* Mutant: every overlapping rule is named, however many were enough.
ExplainShadow_AllOverlapping(model, number) ==
  Ascending({j \in 1 .. (number - 1) :
               model.rules[number].matched \cap model.rules[j].matched # {}})

\* explain_shadow: the first rule that covers alone, else the overlapping
\* rules of the shortest prefix that covers, in order.
ExplainShadow(model, number) ==
  LET target == model.rules[number].matched
      earlier == 1 .. (number - 1)
      alone == {j \in earlier : CoveredBy(model, target, {j})}
      overlapping == {j \in earlier : target \cap model.rules[j].matched # {}}
      upto(k) == {j \in overlapping : j <= k}
      enough == {k \in overlapping : CoveredBy(model, target, upto(k))}
      prefix == IF enough = {} THEN overlapping ELSE upto(Least(enough))
  IN IF number \notin DOMAIN model.rules \/ target = {} THEN <<>>
     ELSE IF alone # {} THEN <<Least(alone)>>
     ELSE Ascending(prefix)

\* forward_accept: the accept set derived again, from the effective sets.
ForwardAccept(model) ==
  {p \in Packets :
     \/ \E i \in DOMAIN model.rules :
          Permits(model.rules[i].action) /\ p \in model.rules[i].effective
     \/ Permits(model.policy) /\ p \in model.fallthrough}

\* partition_holds: no cell meets one before it, and the cells and the
\* fall-through cell together are the header space.
PartitionHolds(model) ==
  LET cell(i) == model.rules[i].effective
  IN /\ \A i \in DOMAIN model.rules :
          /\ \A j \in 1 .. (i - 1) : cell(j) \cap cell(i) = {}
          /\ cell(i) \cap model.fallthrough = {}
     /\ \A p \in Packets :
          p \in model.fallthrough \/ \E i \in DOMAIN model.rules : p \in cell(i)

\* verify: the two self-checks behind --verify.
Verify(model) == PartitionHolds(model) /\ ForwardAccept(model) = model.accept
=============================================================================
