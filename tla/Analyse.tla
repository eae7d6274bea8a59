------------------------------ MODULE Analyse ------------------------------
(***************************************************************************)
(* engine/accept.rs: the two linear passes that compile a chain into its   *)
(* accept set, the partition of the header space by deciding rule, and the *)
(* per-rule shadowed and redundant flags.  One action per loop iteration.  *)
(* A BDD is the set of packets it denotes.                                 *)
(***************************************************************************)
EXTENDS ChainModel

CONSTANT Chains             \* the chains analyse() may be given

ASSUME ChainsAssumption == Chains \subseteq Chain

VARIABLES
  chain,                    \* the argument, never written
  pc,                       \* which pass is running
  models,                   \* Vec<RuleModel>, grown by the forward pass
  matched_any,              \* union of the match sets, until it saturates
  saturated,                \* matched_any is the whole space
  fallthrough,              \* the policy's cell
  cursor,                   \* rules the backward pass has still to visit
  suffix                    \* accept set of the rules after cursor

vars == <<chain, pc, models, matched_any, saturated, fallthrough, cursor, suffix>>

Init ==
  /\ chain \in Chains
  /\ pc = "forward"
  /\ models = <<>>
  /\ matched_any = {}
  /\ saturated = FALSE
  /\ fallthrough = {}
  /\ cursor = 0
  /\ suffix = {}

(***************************************************************************)
(* Forward pass.                                                           *)
(***************************************************************************)
\* Mutant: earlier rules are not taken out of a rule's match set.
Effective_WholeMatch(m) == m

\* The packets a rule decides: nothing once the space is covered.
Effective(m) == IF saturated THEN {} ELSE m \ matched_any

ModelOf(rule, number) ==
  [number |-> number, action |-> rule.action, matched |-> rule.match,
   effective |-> Effective(rule.match), shadowed |-> Effective(rule.match) = {},
   redundant |-> FALSE]

\* Mutant: the pass stops subtracting before the space is really covered.
Covered_TooEarly(S) == S # {}

Covered(S) == S = Packets

ForwardRule ==
  /\ pc = "forward"
  /\ Len(models) < Len(chain.rules)
  /\ LET number == Len(models) + 1
         rule == chain.rules[number]
     IN /\ models' = Append(models, ModelOf(rule, number))
        /\ matched_any' = IF saturated THEN matched_any ELSE matched_any \cup rule.match
        /\ saturated' = (saturated \/ Covered(matched_any'))
  /\ UNCHANGED <<chain, pc, fallthrough, cursor, suffix>>

\* Mutant: the backward pass starts one past the last rule.
LastRule_OffByOne == Len(models) + 1

LastRule == Len(models)

\* Mutant: every chain is taken to deny by default.
PolicyAccepts_Never == {}

\* A_n: the accept set with no rules left.
PolicyAccepts == IF Permits(chain.policy) THEN Packets ELSE {}

\* The forward loop ends: the fall-through cell is what no rule matched, and
\* the backward pass starts from the policy's own accept set.
StartBackward ==
  /\ pc = "forward"
  /\ Len(models) = Len(chain.rules)
  /\ fallthrough' = Packets \ matched_any
  /\ suffix' = PolicyAccepts
  /\ cursor' = LastRule
  /\ pc' = "backward"
  /\ UNCHANGED <<chain, models, matched_any, saturated>>

(***************************************************************************)
(* Backward pass.                                                          *)
(***************************************************************************)
Redundant(r) ==
  IF Permits(r.action) THEN r.effective \ suffix = {} ELSE r.effective \cap suffix = {}

\* Mutant: the recurrence uses what a rule decides in place of what it matches.
SuffixWith_Effective(r) ==
  IF Permits(r.action) THEN r.effective \cup suffix ELSE suffix \ r.effective

SuffixWith(r) ==
  IF Permits(r.action) THEN r.matched \cup suffix ELSE suffix \ r.matched

BackwardRule ==
  /\ pc = "backward"
  /\ cursor > 0
  /\ models' = [models EXCEPT ![cursor].redundant = Redundant(models[cursor])]
  /\ suffix' = SuffixWith(models[cursor])
  /\ cursor' = cursor - 1
  /\ UNCHANGED <<chain, pc, matched_any, saturated, fallthrough>>

\* The model is returned with the rolling suffix as its accept set.
Return ==
  /\ pc = "backward"
  /\ cursor = 0
  /\ pc' = "done"
  /\ UNCHANGED <<chain, models, matched_any, saturated, fallthrough, cursor, suffix>>

Next == ForwardRule \/ StartBackward \/ BackwardRule \/ Return

\* One thread runs both loops to their end, so every enabled step is taken.
Fairness == WF_vars(Next)

Spec == Init /\ [][Next]_vars /\ Fairness

\* The ChainModel returned: its accept set is the rolling suffix.
result ==
  [policy |-> chain.policy, accept |-> suffix, matched_any |-> matched_any,
   fallthrough |-> fallthrough, rules |-> models]

(***************************************************************************)
(* Correctness.                                                            *)
(***************************************************************************)
TypeOK ==
  /\ chain \in Chain
  /\ pc \in {"forward", "backward", "done"}
  /\ models \in Seq(RuleModel)
  /\ Len(models) <= Len(chain.rules)
  /\ matched_any \in SUBSET Packets
  /\ saturated \in BOOLEAN
  /\ fallthrough \in SUBSET Packets
  /\ cursor \in 0 .. Len(models)
  /\ suffix \in SUBSET Packets

\* The saturation short-circuit is exact: with matched_any frozen and later
\* rules skipped, each effective set is still the set of packets the rule
\* decides by first match, and the policy's cell is what falls through.
EffectiveIsFirstMatch ==
  /\ \A i \in DOMAIN models :
       models[i].effective = {p \in Packets : Decides(chain.rules, i, p)}
  /\ pc # "forward" =>
       fallthrough = {p \in Packets : FallsThrough(chain.rules, p)}

\* A_0 of the backward recurrence is the chain's first-match accept set.
AcceptIsFirstMatch == pc = "done" => result.accept = AcceptSet(chain)

\* The two passes arrive at the compiled chain the other modules start from.
ReturnsCompiled == pc = "done" => result = Compile(chain)

\* The linear-time redundancy test agrees with deleting the rule and
\* evaluating the shorter chain again.
RedundantMeansDeletable ==
  pc = "done" =>
    \A i \in DOMAIN models :
      models[i].redundant <=> AcceptSet(Deleting(chain, i)) = AcceptSet(chain)

\* A rule is flagged shadowed exactly when the earlier rules cover its match
\* set, and the flag implies the redundancy the report leaves out.
ShadowedMeansCovered ==
  /\ \A i \in DOMAIN models :
       models[i].shadowed <=> models[i].matched \subseteq MatchedBefore(chain.rules, i)
  /\ pc = "done" => \A i \in DOMAIN models : models[i].shadowed => models[i].redundant

\* The two derivations of the accept set agree, so --verify never refuses a
\* model that analyse() returned.
VerifyNeverFails == pc = "done" => Verify(result)

\* explain_shadow names earlier rules that really cover the shadowed rule, each
\* of them overlapping it; the last named is needed, and several are named only
\* when none covers alone.
ExplanationCovers ==
  pc = "done" =>
    \A i \in {j \in DOMAIN models : models[j].shadowed /\ models[j].matched # {}} :
      LET named == ExplainShadow(result, i)
          rules == {named[k] : k \in DOMAIN named}
      IN /\ rules \subseteq 1 .. (i - 1)
         /\ CoveredBy(result, models[i].matched, rules)
         /\ \A j \in rules : models[i].matched \cap models[j].matched # {}
         /\ ~CoveredBy(result, models[i].matched, rules \ {named[Len(named)]})
         /\ Len(named) > 1 => \A j \in 1 .. (i - 1) : ~CoveredBy(result, models[i].matched, {j})

\* Rule i alone has packet p in its effective set.
OnlyHolder(i, p) == \A j \in DOMAIN models : p \in models[j].effective <=> j = i

\* The forward pass implements the packet walk: a packet in one effective set
\* has that rule as its decider, one in several or none has not been decided;
\* and the backward pass leaves the walk be.
walk_decider ==
  [p \in Packets |->
     IF \E i \in DOMAIN models : OnlyHolder(i, p)
     THEN CHOOSE i \in DOMAIN models : OnlyHolder(i, p)
     ELSE IF p \in fallthrough THEN 0 ELSE -1]

Walk == INSTANCE PacketWalk WITH
  at <- Len(models) + (IF pc = "forward" THEN 1 ELSE 2),
  decider <- walk_decider

ImplementsWalk == Walk!Spec
=============================================================================
