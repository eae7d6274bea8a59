---------------------------- MODULE AnalyseProofs ----------------------------
(***************************************************************************)
(* Proofs about Analyse, for every header space and every chain.           *)
(***************************************************************************)
EXTENDS Analyse, ChainModelProofs

(***************************************************************************)
(* The inductive invariant.                                                *)
(***************************************************************************)
\* What the forward pass has recorded of the rules it has walked.  That every
\* matched packet already has a deciding rule is what makes the partition total.
ForwardInv ==
  /\ \A i \in DOMAIN models :
       /\ models[i].number = i
       /\ models[i].action = chain.rules[i].action
       /\ models[i].matched = chain.rules[i].match
       /\ models[i].effective = {p \in Packets : Decides(chain.rules, i, p)}
       /\ models[i].shadowed <=> models[i].effective = {}
  /\ matched_any = MatchedBefore(chain.rules, Len(models) + 1)
  /\ \A p \in matched_any : \E i \in DOMAIN models : p \in models[i].effective
  /\ saturated => matched_any = Packets

\* What the backward pass knows: the suffix is the accept set of the rules
\* after the cursor, and a visited rule is flagged redundant when that suffix
\* agrees with it on every packet it decides.
BackwardInv ==
  /\ pc = "forward" => fallthrough = {}
  /\ pc # "forward" =>
    /\ Len(models) = Len(chain.rules)
    /\ fallthrough = Packets \ matched_any
    /\ suffix = {p \in Packets : AcceptedFrom(chain, cursor + 1, p)}
    /\ \A i \in DOMAIN models :
         i > cursor =>
           (models[i].redundant <=>
              \A p \in Packets :
                Decides(chain.rules, i, p) =>
                  (AcceptedFrom(chain, i + 1, p) <=> Permits(chain.rules[i].action)))
    /\ pc = "done" => cursor = 0

IInv == TypeOK /\ ForwardInv /\ BackwardInv

LEMMA InitInv == Init => IInv
<1> SUFFICES ASSUME Init PROVE IInv
  OBVIOUS
<1>1. chain \in Chain
  BY ChainsAssumption DEF Init
<1>2. TypeOK
  <2>1. Len(chain.rules) \in Nat
    BY <1>1 DEF Chain
  <2>2. models \in Seq(RuleModel) /\ Len(models) = 0
    BY DEF Init
  <2>3. Len(models) <= Len(chain.rules) /\ cursor \in 0 .. Len(models)
    BY <2>1, <2>2 DEF Init
  <2>4. /\ matched_any \in SUBSET Packets /\ fallthrough \in SUBSET Packets
        /\ suffix \in SUBSET Packets /\ saturated \in BOOLEAN
    BY DEF Init
  <2>5. pc \in {"forward", "backward", "done"}
    BY DEF Init
  <2> QED
    BY <1>1, <2>2, <2>3, <2>4, <2>5 DEF TypeOK
<1>3. ForwardInv
  BY <1>1 DEF Init, ForwardInv, MatchedBefore
<1>4. BackwardInv
  BY DEF Init, BackwardInv
<1> QED
  BY <1>2, <1>3, <1>4 DEF IInv

\* One iteration of the forward loop. The case split is on saturation: once the
\* space is covered the skipped union would have added nothing.
LEMMA ForwardRuleInv == IInv /\ ForwardRule => IInv'
<1> SUFFICES ASSUME IInv, ForwardRule PROVE IInv'
  OBVIOUS
<1> DEFINE k == Len(models) + 1
           rule == chain.rules[k]
           new == ModelOf(rule, k)
<1> USE DEF IInv
<1>0. /\ chain \in Chain /\ chain' = chain
      /\ Len(models) \in Nat /\ Len(chain.rules) \in Nat
      /\ k \in 1 .. Len(chain.rules)
      /\ models \in Seq(RuleModel) /\ pc = "forward"
  BY DEF TypeOK, ForwardRule, Chain
<1>1. rule \in Rule
  BY <1>0 DEF Chain
<1>2. Effective(rule.match) = {p \in Packets : Decides(chain.rules, k, p)}
  <2>1. rule.match \subseteq Packets
    BY <1>1 DEF Rule
  <2>2. \A p \in Packets : p \in matched_any <=> \E j \in 1 .. (k - 1) : p \in chain.rules[j].match
    BY <1>0 DEF ForwardInv, MatchedBefore
  <2>3. Effective(rule.match) = rule.match \ matched_any
    BY <2>1 DEF Effective, ForwardInv
  <2> QED
    BY <2>1, <2>2, <2>3 DEF Decides
<1>3. new \in RuleModel
  BY <1>0, <1>1, <1>2 DEF ModelOf, RuleModel, Rule
<1>4. /\ models' = Append(models, new)
      /\ models' \in Seq(RuleModel)
      /\ Len(models') = k
      /\ \A i \in 1 .. Len(models) : models'[i] = models[i]
      /\ models'[k] = new
  BY <1>0, <1>3 DEF ForwardRule
<1>5. matched_any' = matched_any \cup rule.match
  <2>1. rule.match \subseteq Packets
    BY <1>1 DEF Rule
  <2> QED
    BY <2>1 DEF ForwardRule, ForwardInv
<1>6. TypeOK'
  <2>1. matched_any' \in SUBSET Packets
    BY <1>1, <1>5 DEF TypeOK, Rule
  <2>2. saturated' \in BOOLEAN
    BY DEF ForwardRule
  <2>3. cursor' \in 0 .. Len(models')
    BY <1>0, <1>4 DEF TypeOK, ForwardRule
  <2> QED
    BY <1>0, <1>4, <2>1, <2>2, <2>3 DEF TypeOK, ForwardRule
<1>7. ForwardInv'
  <2>1. ASSUME NEW i \in DOMAIN models'
        PROVE  /\ models'[i].number = i
               /\ models'[i].action = chain.rules[i].action
               /\ models'[i].matched = chain.rules[i].match
               /\ models'[i].effective = {p \in Packets : Decides(chain.rules, i, p)}
               /\ models'[i].shadowed <=> models'[i].effective = {}
    <3>1. CASE i = k
      <4>1. /\ new.number = k /\ new.action = rule.action /\ new.matched = rule.match
            /\ new.effective = Effective(rule.match)
            /\ new.shadowed = (Effective(rule.match) = {})
        BY DEF ModelOf
      <4> HIDE DEF new
      <4> QED
        BY <1>2, <1>4, <3>1, <4>1
    <3>2. CASE i # k
      <4>1. i \in DOMAIN models
        BY <1>0, <1>4, <3>2
      <4> QED
        BY <1>0, <1>4, <4>1 DEF ForwardInv
    <3> QED
      BY <3>1, <3>2
  <2>2. matched_any' = MatchedBefore(chain.rules, k + 1)
    <3>1. \A p : (\E j \in 1 .. k : p \in chain.rules[j].match)
                   <=> (\E j \in 1 .. (k - 1) : p \in chain.rules[j].match) \/ p \in rule.match
      BY <1>0
    <3>2. matched_any = {p \in Packets : \E j \in 1 .. (k - 1) : p \in chain.rules[j].match}
      BY <1>0 DEF ForwardInv, MatchedBefore
    <3>3. rule.match \subseteq Packets
      BY <1>1 DEF Rule
    <3>4. k + 1 - 1 = k
      BY <1>0
    <3> QED
      BY <1>5, <3>1, <3>2, <3>3, <3>4 DEF MatchedBefore
  <2>3. saturated' => matched_any' = Packets
    BY <1>5, <1>1 DEF ForwardRule, ForwardInv, Rule, Covered
  <2>4. ASSUME NEW p \in matched_any'
        PROVE  \E i \in DOMAIN models' : p \in models'[i].effective
    <3>1. CASE p \in matched_any
      <4>1. PICK i \in DOMAIN models : p \in models[i].effective
        BY <3>1 DEF ForwardInv
      <4>2. i \in DOMAIN models' /\ models'[i] = models[i]
        BY <1>0, <1>4
      <4> QED
        BY <4>1, <4>2
    <3>2. CASE p \notin matched_any
      <4>1. p \in Effective(rule.match)
        BY <1>5, <2>4, <3>2, <1>1 DEF Effective, ForwardInv, Rule
      <4>2. models'[k].effective = Effective(rule.match) /\ k \in DOMAIN models'
        BY <1>0, <1>4 DEF ModelOf
      <4> QED
        BY <4>1, <4>2
    <3> QED
      BY <3>1, <3>2
  <2> QED
    BY <1>0, <1>4, <2>1, <2>2, <2>3, <2>4 DEF ForwardInv
<1>8. BackwardInv'
  BY <1>0 DEF BackwardInv, ForwardRule
<1> QED
  BY <1>6, <1>7, <1>8

\* The forward pass over, the policy's accept set is the empty suffix's.
LEMMA StartBackwardInv == IInv /\ StartBackward => IInv'
<1> SUFFICES ASSUME IInv, StartBackward PROVE IInv'
  OBVIOUS
<1> USE DEF IInv
<1>0. /\ chain \in Chain /\ chain' = chain
      /\ models' = models /\ models \in Seq(RuleModel)
      /\ Len(models) = Len(chain.rules) /\ Len(models) \in Nat
      /\ cursor' = Len(models) /\ pc' = "backward"
      /\ matched_any' = matched_any /\ matched_any \in SUBSET Packets
      /\ fallthrough' = Packets \ matched_any
  BY DEF TypeOK, StartBackward, LastRule, Chain
<1>1. suffix' = {p \in Packets : Permits(chain.policy)}
  BY DEF StartBackward, PolicyAccepts
<1>2. TypeOK'
  BY <1>0, <1>1 DEF TypeOK, StartBackward
<1>3. ForwardInv'
  BY <1>0 DEF ForwardInv, StartBackward, MatchedBefore, Decides
<1>4. BackwardInv'
  <2>1. suffix' = {p \in Packets : AcceptedFrom(chain, cursor' + 1, p)}
    BY <1>0, <1>1, SuffixEnd
  <2>2. \A i \in DOMAIN models' : ~(i > cursor')
    BY <1>0
  <2> QED
    BY <1>0, <2>1, <2>2 DEF BackwardInv
<1> QED
  BY <1>2, <1>3, <1>4

\* One iteration of the backward loop: the flag compares the rule with the
\* suffix after it, and the suffix then absorbs the rule.
LEMMA BackwardRuleInv == IInv /\ BackwardRule => IInv'
<1> SUFFICES ASSUME IInv, BackwardRule PROVE IInv'
  OBVIOUS
<1> USE DEF IInv
<1> DEFINE r == models[cursor]
<1>0. /\ chain \in Chain /\ chain' = chain /\ pc = "backward" /\ pc' = "backward"
      /\ models \in Seq(RuleModel) /\ Len(models) \in Nat
      /\ Len(models) = Len(chain.rules)
      /\ cursor \in 1 .. Len(models) /\ cursor \in DOMAIN models
      /\ cursor' = cursor - 1
      /\ matched_any' = matched_any /\ saturated' = saturated
      /\ fallthrough' = fallthrough
      /\ models' = [models EXCEPT ![cursor].redundant = Redundant(r)]
      /\ suffix' = SuffixWith(r)
      /\ suffix = {p \in Packets : AcceptedFrom(chain, cursor + 1, p)}
  BY DEF TypeOK, BackwardRule, BackwardInv
<1>1. /\ r.action = chain.rules[cursor].action
      /\ r.matched = chain.rules[cursor].match
      /\ r.effective = {p \in Packets : Decides(chain.rules, cursor, p)}
      /\ r \in RuleModel
      /\ r.matched \subseteq Packets
  <2>1. cursor \in DOMAIN models /\ models \in Seq(RuleModel) /\ Len(models) \in Nat
    BY <1>0
  <2>2. r \in RuleModel
    BY <2>1
  <2>3. r.matched \subseteq Packets
    BY <2>2 DEF RuleModel
  <2> QED
    BY <2>1, <2>2, <2>3 DEF ForwardInv
<1>2. Redundant(r) \in BOOLEAN
  BY DEF Redundant
<1>3. models' \in Seq(RuleModel) /\ Len(models') = Len(models)
  <2>1. [r EXCEPT !.redundant = Redundant(r)] \in RuleModel
    BY <1>1, <1>2 DEF RuleModel
  <2>2. models' = [models EXCEPT ![cursor] = [r EXCEPT !.redundant = Redundant(r)]]
    BY <1>0
  <2> QED
    BY <1>0, <2>1, <2>2
<1>4. \A i \in DOMAIN models :
        /\ models'[i].number = models[i].number
        /\ models'[i].action = models[i].action
        /\ models'[i].matched = models[i].matched
        /\ models'[i].effective = models[i].effective
        /\ models'[i].shadowed = models[i].shadowed
        /\ models'[i].redundant = IF i = cursor THEN Redundant(r) ELSE models[i].redundant
  <2>1. ASSUME NEW i \in DOMAIN models
        PROVE  /\ models[i] \in RuleModel
               /\ models'[i] = IF i = cursor THEN [r EXCEPT !.redundant = Redundant(r)]
                               ELSE models[i]
    BY <1>0
  <2> QED
    BY <1>1, <2>1 DEF RuleModel
<1>5. suffix' = {p \in Packets : AcceptedFrom(chain, cursor, p)}
  <2>1. \A p \in Packets :
          AcceptedFrom(chain, cursor, p)
            <=> IF p \in r.matched THEN Permits(r.action) ELSE AcceptedFrom(chain, cursor + 1, p)
    BY <1>0, <1>1, SuffixStep
  <2> QED
    BY <1>0, <1>1, <2>1 DEF SuffixWith
<1>6. TypeOK'
  BY <1>0, <1>3, <1>5 DEF TypeOK
<1>7. ForwardInv'
  <2>1. DOMAIN models' = DOMAIN models
    BY <1>0, <1>3
  <2>2. Len(models') = Len(models) /\ chain' = chain
        /\ matched_any' = matched_any /\ saturated' = saturated
    BY <1>0, <1>3
  <2>3. ASSUME NEW i \in DOMAIN models'
        PROVE  /\ models'[i].number = i
               /\ models'[i].action = chain.rules[i].action
               /\ models'[i].matched = chain.rules[i].match
               /\ models'[i].effective = {p \in Packets : Decides(chain.rules, i, p)}
               /\ models'[i].shadowed <=> models'[i].effective = {}
    BY <1>4, <2>1, <2>3 DEF ForwardInv
  <2>4. /\ matched_any' = MatchedBefore(chain'.rules, Len(models') + 1)
        /\ saturated' => matched_any' = Packets
    BY <2>2 DEF ForwardInv
  <2>5. \A p \in matched_any' : \E i \in DOMAIN models' : p \in models'[i].effective
    BY <1>4, <2>1, <2>2 DEF ForwardInv
  <2> QED
    BY <2>2, <2>3, <2>4, <2>5 DEF ForwardInv
<1>8. BackwardInv'
  <2>1. Redundant(r) <=> \A p \in Packets :
                           Decides(chain.rules, cursor, p) =>
                             (AcceptedFrom(chain, cursor + 1, p) <=> Permits(r.action))
    BY <1>0, <1>1 DEF Redundant
  <2>2. ASSUME NEW i \in DOMAIN models', i > cursor'
        PROVE  models'[i].redundant <=>
                 \A p \in Packets :
                   Decides(chain.rules, i, p) =>
                     (AcceptedFrom(chain, i + 1, p) <=> Permits(chain.rules[i].action))
    <3>1. i \in DOMAIN models /\ i \in Nat
      BY <1>0, <1>3
    <3>2. CASE i = cursor
      BY <1>1, <1>4, <2>1, <3>1, <3>2
    <3>3. CASE i # cursor
      <4>1. i > cursor
        BY <1>0, <2>2, <3>1, <3>3
      <4> QED
        BY <1>0, <1>4, <3>1, <3>3, <4>1 DEF BackwardInv
    <3> QED
      BY <3>2, <3>3
  <2>3. cursor' + 1 = cursor
    BY <1>0
  <2>4. fallthrough' = Packets \ matched_any'
    BY <1>0 DEF BackwardInv
  <2> QED
    BY <1>0, <1>3, <1>5, <2>2, <2>3, <2>4 DEF BackwardInv
<1> QED
  BY <1>6, <1>7, <1>8

LEMMA ReturnInv == IInv /\ Return => IInv'
<1> SUFFICES ASSUME IInv, Return PROVE IInv'
  OBVIOUS
<1>0. /\ UNCHANGED <<chain, models, matched_any, saturated, fallthrough, cursor, suffix>>
      /\ pc = "backward" /\ pc' = "done" /\ cursor = 0
  BY DEF Return
<1>1. TypeOK'
  BY <1>0 DEF IInv, TypeOK
<1>2. ForwardInv'
  BY <1>0 DEF IInv, ForwardInv
<1>3. BackwardInv'
  BY <1>0 DEF IInv, BackwardInv
<1> QED
  BY <1>1, <1>2, <1>3 DEF IInv

LEMMA StutterInv == IInv /\ UNCHANGED vars => IInv'
  BY DEF IInv, TypeOK, ForwardInv, BackwardInv, vars

\* The invariant holds of every behaviour, for any header space and chain.
THEOREM Invariance == Spec => []IInv
<1>1. IInv /\ [Next]_vars => IInv'
  BY ForwardRuleInv, StartBackwardInv, BackwardRuleInv, ReturnInv, StutterInv DEF Next
<1> QED
  BY <1>1, InitInv, PTL DEF Spec

\* Every variable keeps its type: the cursor stays inside the rule list and
\* the rolling sets inside the header space.
THEOREM TypeCorrect == Spec => []TypeOK
<1>1. IInv => TypeOK
  BY DEF IInv
<1> QED
  BY <1>1, Invariance, PTL

\* Saturation included, each effective set is the set of packets its rule
\* decides by first match, and the fall-through cell is the policy's.
THEOREM EffectiveCorrect == Spec => []EffectiveIsFirstMatch
<1>1. ASSUME IInv PROVE EffectiveIsFirstMatch
  <2>1. \A i \in DOMAIN models :
          models[i].effective = {p \in Packets : Decides(chain.rules, i, p)}
    BY <1>1 DEF IInv, ForwardInv
  <2>2. ASSUME pc # "forward"
        PROVE  fallthrough = {p \in Packets : FallsThrough(chain.rules, p)}
    <3>0. Len(chain.rules) \in Nat /\ DOMAIN chain.rules = 1 .. Len(chain.rules)
      BY <1>1 DEF IInv, TypeOK, Chain
    <3>1. fallthrough = Packets \ MatchedBefore(chain.rules, Len(chain.rules) + 1)
      BY <1>1, <2>2 DEF IInv, ForwardInv, BackwardInv
    <3>2. Len(chain.rules) + 1 - 1 = Len(chain.rules)
      BY <3>0
    <3> QED
      BY <3>0, <3>1, <3>2 DEF MatchedBefore, FallsThrough
  <2> QED
    BY <2>1, <2>2 DEF EffectiveIsFirstMatch
<1> QED
  BY <1>1, Invariance, PTL

\* The backward recurrence's A_0 is the set of packets first match lets through.
THEOREM AcceptCorrect == Spec => []AcceptIsFirstMatch
<1>1. IInv => AcceptIsFirstMatch
  BY DEF IInv, BackwardInv, AcceptIsFirstMatch, result, AcceptSet
<1> QED
  BY <1>1, Invariance, PTL

(***************************************************************************)
(* Redundancy and shadowing.                                               *)
(***************************************************************************)
\* The linear-time redundancy flag is exact: it is set exactly when deleting
\* the rule leaves the accept set as it was.
THEOREM RedundancyCorrect == Spec => []RedundantMeansDeletable
<1>1. ASSUME IInv PROVE RedundantMeansDeletable
  <2> SUFFICES ASSUME pc = "done", NEW i \in DOMAIN models
               PROVE  models[i].redundant <=> AcceptSet(Deleting(chain, i)) = AcceptSet(chain)
    BY DEF RedundantMeansDeletable
  <2>1. /\ chain \in Chain /\ Len(models) = Len(chain.rules)
        /\ i \in 1 .. Len(chain.rules) /\ i > cursor
    BY <1>1 DEF IInv, TypeOK, BackwardInv
  <2>2. models[i].redundant <=>
          \A p \in Packets :
            Decides(chain.rules, i, p) =>
              (AcceptedFrom(chain, i + 1, p) <=> Permits(chain.rules[i].action))
    BY <1>1, <2>1 DEF IInv, BackwardInv
  <2> QED
    BY <2>1, <2>2, RedundantExactly DEF AgreesWithRest
<1> QED
  BY <1>1, Invariance, PTL

\* A rule is flagged shadowed exactly when earlier rules cover its match set,
\* and then the redundancy flag is set as well.
THEOREM ShadowingCorrect == Spec => []ShadowedMeansCovered
<1>1. ASSUME IInv PROVE ShadowedMeansCovered
  <2>1. ASSUME NEW i \in DOMAIN models
        PROVE  models[i].shadowed <=> models[i].matched \subseteq MatchedBefore(chain.rules, i)
    <3>0. models[i] \in RuleModel
      BY <1>1 DEF IInv, TypeOK
    <3>1. models[i].matched \subseteq Packets
      BY <3>0 DEF RuleModel
    <3>2. /\ models[i].matched = chain.rules[i].match
          /\ models[i].effective = {p \in Packets : Decides(chain.rules, i, p)}
          /\ models[i].shadowed <=> models[i].effective = {}
      BY <1>1 DEF IInv, ForwardInv
    <3> QED
      BY <3>1, <3>2 DEF MatchedBefore, Decides
  <2>2. ASSUME pc = "done", NEW i \in DOMAIN models, models[i].shadowed
        PROVE  models[i].redundant
    <3>1. i > cursor
      BY <1>1, <2>2 DEF IInv, TypeOK, BackwardInv
    <3>2. \A p \in Packets : ~Decides(chain.rules, i, p)
      BY <1>1, <2>2 DEF IInv, ForwardInv
    <3> QED
      BY <1>1, <2>2, <3>1, <3>2 DEF IInv, BackwardInv
  <2> QED
    BY <2>1, <2>2 DEF ShadowedMeansCovered
<1> QED
  BY <1>1, Invariance, PTL

\* The rules explain_shadow names for a dead rule are earlier ones that cover
\* it, each overlapping it, the last of them needed, and several are named only
\* when none covers alone.
THEOREM ExplanationCorrect == Spec => []ExplanationCovers
<1>1. ASSUME IInv PROVE ExplanationCovers
  <2> SUFFICES ASSUME pc = "done", NEW i \in DOMAIN models, models[i].shadowed,
                      models[i].matched # {}
               PROVE  LET named == ExplainShadow(result, i)
                          rules == {named[k] : k \in DOMAIN named}
                      IN /\ rules \subseteq 1 .. (i - 1)
                         /\ CoveredBy(result, models[i].matched, rules)
                         /\ \A j \in rules : models[i].matched \cap models[j].matched # {}
                         /\ ~CoveredBy(result, models[i].matched, rules \ {named[Len(named)]})
                         /\ Len(named) > 1 =>
                              \A j \in 1 .. (i - 1) : ~CoveredBy(result, models[i].matched, {j})
    BY DEF ExplanationCovers
  <2>1. result.rules = models
    BY DEF result
  <2>2. Len(models) \in Nat /\ DOMAIN models = 1 .. Len(models) /\ i \in 1 .. Len(models)
    BY <1>1 DEF IInv, TypeOK
  <2>3. CoveredBy(result, models[i].matched, 1 .. (i - 1))
    <3>1. /\ models[i].matched = chain.rules[i].match
          /\ \A p \in Packets : ~Decides(chain.rules, i, p)
      BY <1>1 DEF IInv, ForwardInv
    <3>2. models[i].matched \subseteq Packets
      <4>1. models[i] \in RuleModel
        BY <1>1, <2>2 DEF IInv, TypeOK
      <4> QED
        BY <4>1 DEF RuleModel
    <3>3. \A j \in 1 .. (i - 1) : models[j].matched = chain.rules[j].match
      BY <1>1, <2>2 DEF IInv, ForwardInv
    <3> QED
      BY <2>1, <3>1, <3>2, <3>3 DEF CoveredBy, Decides
  <2>4. models[i].matched = result.rules[i].matched /\ DOMAIN result.rules = 1 .. Len(models)
    BY <2>1, <2>2
  <2> DEFINE named == ExplainShadow(result, i)
             target == result.rules[i].matched
  <2>5. target # {} /\ CoveredBy(result, target, 1 .. (i - 1))
    BY <2>1, <2>3
  <2> HIDE DEF result
  <2>6. /\ NamedBy(named) \subseteq 1 .. (i - 1)
        /\ CoveredBy(result, target, NamedBy(named))
        /\ \A j \in NamedBy(named) : target \cap result.rules[j].matched # {}
        /\ ~CoveredBy(result, target, NamedBy(named) \ {named[Len(named)]})
        /\ Len(named) > 1 => \A j \in 1 .. (i - 1) : ~CoveredBy(result, target, {j})
    BY <2>2, <2>4, <2>5, ExplanationExact
  <2> QED
    BY <2>1, <2>6 DEF NamedBy
<1> QED
  BY <1>1, Invariance, PTL

(***************************************************************************)
(* The engine's self-check, and the refinement.                            *)
(***************************************************************************)
\* What the self-check relies on: in a finished model every packet is in the
\* cell of one rule or of the policy, and its verdict is that cell's.
LEMMA CellVerdict ==
  ASSUME IInv, pc = "done", NEW p \in Packets
  PROVE  /\ p \in fallthrough => (AcceptedFrom(chain, 1, p) <=> Permits(chain.policy))
         /\ \A i \in DOMAIN models :
              p \in models[i].effective =>
                /\ p \notin fallthrough
                /\ AcceptedFrom(chain, 1, p) <=> Permits(models[i].action)
         /\ p \in fallthrough \/ \E i \in DOMAIN models : p \in models[i].effective
<1>1. /\ chain \in Chain /\ Len(models) = Len(chain.rules) /\ Len(models) \in Nat
      /\ fallthrough = Packets \ matched_any
      /\ DOMAIN models = 1 .. Len(models)
  BY DEF IInv, TypeOK, BackwardInv, Chain
<1>2. matched_any = {q \in Packets : \E j \in 1 .. Len(models) : q \in chain.rules[j].match}
  <2>1. Len(models) + 1 - 1 = Len(models)
    BY <1>1
  <2> QED
    BY <2>1 DEF IInv, ForwardInv, MatchedBefore
<1>3. ASSUME p \in fallthrough
      PROVE  AcceptedFrom(chain, 1, p) <=> Permits(chain.policy)
  <2>1. \A j \in 1 .. Len(chain.rules) : p \notin chain.rules[j].match
    BY <1>1, <1>2, <1>3
  <2> QED
    BY <2>1 DEF AcceptedFrom
<1>4. ASSUME NEW i \in DOMAIN models, p \in models[i].effective
      PROVE  /\ p \notin fallthrough
             /\ AcceptedFrom(chain, 1, p) <=> Permits(models[i].action)
  <2>1. Decides(chain.rules, i, p) /\ models[i].action = chain.rules[i].action
    BY <1>4 DEF IInv, ForwardInv
  <2>2. i \in 1 .. Len(chain.rules)
    BY <1>1
  <2> QED
    BY <1>1, <1>2, <2>1, <2>2, DecidedVerdict DEF Decides
<1>5. p \in fallthrough \/ \E i \in DOMAIN models : p \in models[i].effective
  BY <1>1 DEF IInv, ForwardInv
<1> QED
  BY <1>3, <1>4, <1>5

\* The self-check behind --verify accepts every model analyse() returns: the
\* cells partition the header space and both derivations of the accept set agree.
THEOREM VerifyCorrect == Spec => []VerifyNeverFails
<1>1. ASSUME IInv PROVE VerifyNeverFails
  <2> SUFFICES ASSUME pc = "done" PROVE Verify(result)
    BY DEF VerifyNeverFails
  <2>0. /\ Len(models) \in Nat /\ DOMAIN models = 1 .. Len(models)
        /\ result.rules = models /\ result.fallthrough = fallthrough
        /\ result.policy = chain.policy
    BY <1>1 DEF IInv, TypeOK, result
  <2>1. \A j \in DOMAIN models :
          models[j].effective = {p \in Packets : Decides(chain.rules, j, p)}
    BY <1>1 DEF IInv, ForwardInv
  <2>2. result.accept = {p \in Packets : AcceptedFrom(chain, 1, p)}
    BY <1>1 DEF IInv, BackwardInv, result
  <2>3. PartitionHolds(result)
    <3>1. ASSUME NEW i \in DOMAIN models, NEW j \in 1 .. (i - 1)
          PROVE  models[j].effective \cap models[i].effective = {}
      <4>1. j \in DOMAIN models
        BY <2>0
      <4> QED
        BY <2>1, <4>1 DEF Decides
    <3>2. ASSUME NEW i \in DOMAIN models PROVE models[i].effective \cap fallthrough = {}
      BY <1>1, <2>1, CellVerdict
    <3> QED
      BY <1>1, <2>0, <3>1, <3>2, CellVerdict DEF PartitionHolds
  <2>4. ForwardAccept(result) = result.accept
    BY <1>1, <2>0, <2>2, CellVerdict DEF ForwardAccept
  <2> QED
    BY <2>3, <2>4 DEF Verify
<1> QED
  BY <1>1, Invariance, PTL

\* What analyse() returns is the compiled chain, record for record, so what the
\* other modules conclude from Compile holds of the code's model.
THEOREM CompileCorrect == Spec => []ReturnsCompiled
<1>1. ASSUME IInv PROVE ReturnsCompiled
  <2> SUFFICES ASSUME pc = "done" PROVE result = Compile(chain)
    BY DEF ReturnsCompiled
  <2>1. /\ chain \in Chain /\ Len(models) = Len(chain.rules) /\ Len(models) \in Nat
        /\ models \in Seq(RuleModel) /\ DOMAIN models = 1 .. Len(chain.rules)
    BY <1>1 DEF IInv, TypeOK, BackwardInv
  <2>2. ASSUME NEW i \in 1 .. Len(chain.rules) PROVE models[i] = CompiledRule(chain, i)
    <3>1. models[i] \in RuleModel /\ i \in DOMAIN models
      BY <2>1
    <3>2. /\ models[i].number = i
          /\ models[i].action = chain.rules[i].action
          /\ models[i].matched = chain.rules[i].match
          /\ models[i].effective = EffectiveSet(chain, i)
          /\ models[i].shadowed <=> EffectiveSet(chain, i) = {}
      BY <1>1, <3>1 DEF IInv, ForwardInv, EffectiveSet
    <3>3. models[i].redundant <=> AgreesWithRest(chain, i)
      <4>1. i > cursor
        BY <1>1, <2>1 DEF IInv, BackwardInv
      <4> QED
        BY <1>1, <3>1, <4>1 DEF IInv, BackwardInv, AgreesWithRest
    <3>4. models[i].shadowed \in BOOLEAN /\ models[i].redundant \in BOOLEAN
      BY <3>1 DEF RuleModel
    <3>5. AgreesWithRest(chain, i) \in BOOLEAN
      BY DEF AgreesWithRest
    <3>6. models[i] = [number |-> models[i].number, action |-> models[i].action,
                       matched |-> models[i].matched, effective |-> models[i].effective,
                       shadowed |-> models[i].shadowed, redundant |-> models[i].redundant]
      BY <3>1 DEF RuleModel
    <3> QED
      BY <3>2, <3>3, <3>4, <3>5, <3>6 DEF CompiledRule
  <2>3. models = [i \in 1 .. Len(chain.rules) |-> CompiledRule(chain, i)]
    BY <2>1, <2>2
  <2>4. suffix = AcceptSet(chain)
    BY <1>1 DEF IInv, BackwardInv, AcceptSet
  <2>5. matched_any = MatchedBefore(chain.rules, Len(chain.rules) + 1)
    BY <1>1, <2>1 DEF IInv, ForwardInv
  <2>6. fallthrough = {p \in Packets : FallsThrough(chain.rules, p)}
    <3>1. Len(chain.rules) + 1 - 1 = Len(chain.rules) /\ DOMAIN chain.rules = 1 .. Len(chain.rules)
      BY <2>1 DEF Chain
    <3>2. fallthrough = Packets \ matched_any
      BY <1>1 DEF IInv, BackwardInv
    <3> QED
      BY <2>5, <3>1, <3>2 DEF MatchedBefore, FallsThrough
  <2> QED
    BY <2>3, <2>4, <2>5, <2>6 DEF result, Compile
<1> QED
  BY <1>1, Invariance, PTL

\* The walk's decider, read off the effective sets.
LEMMA DeciderOfCell ==
  ASSUME NEW ms, NEW rules, NEW p \in Packets,
         DOMAIN ms \subseteq Nat \ {0},
         \A j \in DOMAIN ms : ms[j].effective = {q \in Packets : Decides(rules, j, q)},
         NEW i \in DOMAIN ms, p \in ms[i].effective
  PROVE  (CHOOSE j \in DOMAIN ms : p \in ms[j].effective) = i
<1>1. \A j \in DOMAIN ms : p \in ms[j].effective => j = i
  BY OneDecider
<1> QED
  BY <1>1

LEMMA WalkInit == Init => Walk!Init
<1> SUFFICES ASSUME Init PROVE Walk!Init
  OBVIOUS
<1>1. chain \in Chain
  BY ChainsAssumption DEF Init
<1>2. Len(models) = 0 /\ DOMAIN models = {}
  BY DEF Init
<1>3. walk_decider = [p \in Packets |-> -1]
  BY <1>2 DEF Init, walk_decider, OnlyHolder
<1>4. chain \in Walk!Chain
  BY <1>1 DEF Chain, Rule, Actions, Walk!Chain, Walk!Rule, Walk!Actions
<1>5. Len(models) + (IF pc = "forward" THEN 1 ELSE 2) = 1
  BY <1>2 DEF Init
<1> QED
  BY <1>3, <1>4, <1>5 DEF Walk!Init, Walk!Undecided

\* The rule some effective set gives a packet to, if any.
holder ==
  [p \in Packets |->
     IF \E i \in DOMAIN models : p \in models[i].effective
     THEN CHOOSE i \in DOMAIN models : p \in models[i].effective
     ELSE IF p \in fallthrough THEN 0 ELSE -1]

\* Under the invariant no packet is in two effective sets.
LEMMA WalkReadsHolder == IInv => walk_decider = holder
<1> SUFFICES ASSUME IInv PROVE walk_decider = holder
  OBVIOUS
<1>1. /\ DOMAIN models \subseteq Nat \ {0}
      /\ \A i \in DOMAIN models :
           models[i].effective = {q \in Packets : Decides(chain.rules, i, q)}
  BY DEF IInv, TypeOK, ForwardInv
<1>2. ASSUME NEW p \in Packets PROVE walk_decider[p] = holder[p]
  <2>1. CASE \E i \in DOMAIN models : p \in models[i].effective
    <3>1. PICK i \in DOMAIN models : p \in models[i].effective
      BY <2>1
    <3>2. OnlyHolder(i, p)
      BY <1>1, <3>1, OneDecider DEF OnlyHolder
    <3>3. (CHOOSE j \in DOMAIN models : OnlyHolder(j, p)) = i
      <4>1. \A j \in DOMAIN models : OnlyHolder(j, p) => j = i
        BY <3>1 DEF OnlyHolder
      <4> QED
        BY <3>2, <4>1
    <3>4. walk_decider[p] = i
      BY <3>2, <3>3 DEF walk_decider
    <3>5. holder[p] = i
      BY <1>1, <3>1, DeciderOfCell DEF holder
    <3> QED
      BY <3>4, <3>5
  <2>2. CASE ~\E i \in DOMAIN models : p \in models[i].effective
    <3>1. ~\E i \in DOMAIN models : OnlyHolder(i, p)
      BY <2>2 DEF OnlyHolder
    <3> QED
      BY <2>2, <3>1 DEF walk_decider, holder
  <2> QED
    BY <2>1, <2>2
<1> QED
  BY <1>2 DEF walk_decider, holder

LEMMA WalkReadsHolderNext == IInv' => walk_decider' = holder'
<1>1. IInv' => (walk_decider = holder)'
  BY WalkReadsHolder, PTL
<1> QED
  BY <1>1

\* A forward step offers the next rule to the packets no rule has matched.
LEMMA ForwardOffers == IInv /\ IInv' /\ ForwardRule => Walk!Offer
<1> SUFFICES ASSUME IInv, IInv', ForwardRule PROVE Walk!Offer
  OBVIOUS
<1> DEFINE k == Len(models) + 1
           rule == chain.rules[k]
<1>1. /\ chain' = chain /\ pc = "forward" /\ pc' = "forward"
      /\ Len(models) \in Nat /\ DOMAIN models = 1 .. Len(models)
      /\ Len(models) < Len(chain.rules)
      /\ models \in Seq(RuleModel) /\ models' \in Seq(RuleModel)
      /\ models' = Append(models, ModelOf(rule, k))
  BY DEF IInv, TypeOK, ForwardRule
<1>2. /\ Len(models') = k /\ DOMAIN models' = 1 .. k
      /\ \A i \in 1 .. Len(models) : models'[i] = models[i]
  BY <1>1
<1>3. fallthrough = {} /\ fallthrough' = {}
  BY <1>1 DEF IInv, BackwardInv
<1>4. /\ \A i \in DOMAIN models :
           models[i].effective = {q \in Packets : Decides(chain.rules, i, q)}
      /\ \A i \in DOMAIN models' :
           models'[i].effective = {q \in Packets : Decides(chain.rules, i, q)}
  BY <1>1 DEF IInv, ForwardInv
<1>5. ASSUME NEW p \in Packets
      PROVE  holder'[p] = IF holder[p] = -1 /\ p \in rule.match
                                THEN k ELSE holder[p]
  <2>1. CASE \E i \in DOMAIN models : p \in models[i].effective
    <3>1. PICK i \in DOMAIN models : p \in models[i].effective
      BY <2>1
    <3>2. holder[p] = i
      BY <1>1, <1>4, <3>1, DeciderOfCell DEF holder
    <3>3. i \in DOMAIN models' /\ p \in models'[i].effective
      BY <1>1, <1>2, <3>1
    <3>4. holder'[p] = i
      BY <1>2, <1>4, <3>3, DeciderOfCell DEF holder
    <3> QED
      BY <1>1, <3>2, <3>4
  <2>2. CASE ~\E i \in DOMAIN models : p \in models[i].effective
    <3>1. holder[p] = -1
      BY <1>3, <2>2 DEF holder
    <3>2. p \notin matched_any
      BY <2>2 DEF IInv, ForwardInv
    <3>3. \A j \in 1 .. (k - 1) : p \notin chain.rules[j].match
      BY <1>1, <3>2 DEF IInv, ForwardInv, MatchedBefore
    <3>4. p \in models'[k].effective <=> p \in rule.match
      BY <1>1, <1>2, <1>4, <3>3 DEF Decides
    <3>5. CASE p \in rule.match
      <4>1. k \in DOMAIN models' /\ p \in models'[k].effective
        BY <1>1, <1>2, <3>4, <3>5
      <4>2. (CHOOSE j \in DOMAIN models' : p \in models'[j].effective) = k
        BY <1>1, <1>2, <1>4, <4>1, DeciderOfCell
      <4>3. holder'[p] = k
        BY <4>1, <4>2 DEF holder
      <4> QED
        BY <3>1, <3>5, <4>3
    <3>6. CASE p \notin rule.match
      <4>1. \A i \in DOMAIN models' : i = k \/ i \in DOMAIN models
        BY <1>1, <1>2
      <4>2. ~\E i \in DOMAIN models' : p \in models'[i].effective
        BY <1>1, <1>2, <2>2, <3>4, <3>6, <4>1
      <4>3. holder'[p] = -1
        BY <1>3, <4>2 DEF holder
      <4> QED
        BY <3>1, <3>6, <4>3
    <3> QED
      BY <3>5, <3>6
  <2> QED
    BY <2>1, <2>2
<1>6. holder' = [p \in Packets |->
                         IF holder[p] = -1 /\ p \in rule.match
                         THEN k ELSE holder[p]]
  BY <1>5 DEF holder
<1>7. k <= Len(chain.rules) /\ Len(models') + 1 = k + 1
  BY <1>1, <1>2 DEF IInv, TypeOK, Chain
<1> QED
  BY <1>1, <1>6, <1>7, WalkReadsHolder, WalkReadsHolderNext DEF Walk!Offer, Walk!Undecided

\* Closing the forward pass hands the packets still undecided to the policy.
LEMMA StartBackwardFalls == IInv /\ IInv' /\ StartBackward => Walk!FallToPolicy
<1> SUFFICES ASSUME IInv, IInv', StartBackward PROVE Walk!FallToPolicy
  OBVIOUS
<1>1. /\ chain' = chain /\ pc = "forward" /\ pc' = "backward" /\ models' = models
      /\ Len(models) = Len(chain.rules) /\ Len(models) \in Nat
      /\ fallthrough' = Packets \ matched_any /\ DOMAIN models = 1 .. Len(models)
  BY DEF IInv, TypeOK, StartBackward
<1>2. fallthrough = {}
  BY <1>1 DEF IInv, BackwardInv
<1>3. ASSUME NEW p \in Packets
      PROVE  holder'[p] = IF holder[p] = -1 THEN 0 ELSE holder[p]
  <2>1. CASE \E i \in DOMAIN models : p \in models[i].effective
    <3>1. PICK i \in DOMAIN models : p \in models[i].effective
      BY <2>1
    <3>2. (CHOOSE j \in DOMAIN models : p \in models[j].effective) = i
      BY <1>1, <3>1, DeciderOfCell DEF IInv, ForwardInv
    <3>3. holder[p] = i /\ holder'[p] = i
      BY <1>1, <3>1, <3>2 DEF holder
    <3> QED
      BY <1>1, <3>3
  <2>2. CASE ~\E i \in DOMAIN models : p \in models[i].effective
    <3>1. p \notin matched_any
      BY <2>2 DEF IInv, ForwardInv
    <3>2. holder[p] = -1 /\ holder'[p] = 0
      BY <1>1, <1>2, <2>2, <3>1 DEF holder
    <3> QED
      BY <3>2
  <2> QED
    BY <2>1, <2>2
<1>4. holder' = [p \in Packets |-> IF holder[p] = -1 THEN 0 ELSE holder[p]]
  BY <1>3 DEF holder
<1> QED
  BY <1>1, <1>4, WalkReadsHolder, WalkReadsHolderNext DEF Walk!FallToPolicy, Walk!Undecided, Walk!ByPolicy

\* The backward pass leaves every effective set, and so the walk, alone.
LEMMA BackwardStutters == IInv /\ IInv' /\ BackwardRule => UNCHANGED Walk!vars
<1> SUFFICES ASSUME IInv, IInv', BackwardRule PROVE UNCHANGED Walk!vars
  OBVIOUS
<1>1. /\ chain' = chain /\ pc = "backward" /\ pc' = "backward"
      /\ Len(models') = Len(models) /\ fallthrough' = fallthrough
  BY DEF IInv, BackwardInv, BackwardRule
<1>2. DOMAIN models' = DOMAIN models
  BY <1>1 DEF IInv, TypeOK
<1>3. /\ \A i \in DOMAIN models :
           models[i].effective = {q \in Packets : Decides(chain.rules, i, q)}
      /\ \A i \in DOMAIN models' :
           models'[i].effective = {q \in Packets : Decides(chain.rules, i, q)}
      /\ DOMAIN models \subseteq Nat \ {0}
  BY <1>1 DEF IInv, TypeOK, ForwardInv
<1>4. ASSUME NEW p \in Packets PROVE holder'[p] = holder[p]
  <2>1. CASE \E i \in DOMAIN models : p \in models[i].effective
    <3>1. PICK i \in DOMAIN models : p \in models[i].effective
      BY <2>1
    <3>2. i \in DOMAIN models' /\ p \in models'[i].effective
      BY <1>2, <1>3, <3>1
    <3>3. (CHOOSE j \in DOMAIN models : p \in models[j].effective) = i
      BY <1>3, <3>1, DeciderOfCell
    <3>4. (CHOOSE j \in DOMAIN models' : p \in models'[j].effective) = i
      BY <1>2, <1>3, <3>2, DeciderOfCell
    <3> QED
      BY <3>1, <3>2, <3>3, <3>4 DEF holder
  <2>2. CASE ~\E i \in DOMAIN models : p \in models[i].effective
    <3>1. ~\E i \in DOMAIN models' : p \in models'[i].effective
      BY <1>2, <1>3, <2>2
    <3> QED
      BY <1>1, <2>2, <3>1 DEF holder
  <2> QED
    BY <2>1, <2>2
<1>5. holder' = holder
  BY <1>4 DEF holder
<1> QED
  BY <1>1, <1>5, WalkReadsHolder, WalkReadsHolderNext DEF Walk!vars

\* The set algebra implements the packet walk: reading each packet's decider
\* off the effective sets, every step of the analysis is a step of the walk
\* or leaves it unchanged.
THEOREM Implementation == Spec => ImplementsWalk
<1>1. IInv /\ IInv' /\ [Next]_vars => [Walk!Next]_(Walk!vars)
  <2> SUFFICES ASSUME IInv, IInv', [Next]_vars PROVE [Walk!Next]_(Walk!vars)
    OBVIOUS
  <2>1. CASE ForwardRule
    BY <2>1, ForwardOffers DEF Walk!Next
  <2>2. CASE StartBackward
    BY <2>2, StartBackwardFalls DEF Walk!Next
  <2>3. CASE BackwardRule
    BY <2>3, BackwardStutters
  <2>4. CASE Return
    <3>1. UNCHANGED <<chain, models, fallthrough>> /\ pc = "backward" /\ pc' = "done"
      BY <2>4 DEF Return
    <3>2. walk_decider' = walk_decider
      BY <3>1 DEF walk_decider, OnlyHolder
    <3> QED
      BY <3>1, <3>2 DEF Walk!vars
  <2>5. CASE UNCHANGED vars
    <3>1. UNCHANGED <<chain, models, fallthrough, pc>>
      BY <2>5 DEF vars
    <3>2. walk_decider' = walk_decider
      BY <3>1 DEF walk_decider, OnlyHolder
    <3> QED
      BY <3>1, <3>2 DEF Walk!vars
  <2> QED
    BY <2>1, <2>2, <2>3, <2>4, <2>5 DEF Next
<1>2. Spec => [][Walk!Next]_(Walk!vars)
  BY <1>1, Invariance, PTL DEF Spec
<1>3. Spec => Walk!Init
  BY WalkInit, PTL DEF Spec
<1> QED
  BY <1>2, <1>3, PTL DEF ImplementsWalk, Walk!Spec
=============================================================================
