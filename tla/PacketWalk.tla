----------------------------- MODULE PacketWalk -----------------------------
(***************************************************************************)
(* The promise of first-match evaluation, one rule at a time: every packet *)
(* still undecided when rule `at` is reached is decided by that rule if it *)
(* matches, and whatever survives every rule is decided by the policy.     *)
(* This is how the kernel walks a base chain, for all packets at once; the *)
(* set algebra of Analyse is shown to implement it.                        *)
(***************************************************************************)
EXTENDS FirstMatch, Integers

VARIABLES
  chain,                    \* the chain walked, fixed
  at,                       \* the next rule to offer the packets to
  decider                   \* packet -> its deciding rule, 0 the policy, -1 none yet

vars == <<chain, at, decider>>

Undecided == -1
ByPolicy == 0

Init ==
  /\ chain \in Chain
  /\ at = 1
  /\ decider = [p \in Packets |-> Undecided]

\* Offer the undecided packets to the next rule.
Offer ==
  /\ at <= Len(chain.rules)
  /\ decider' = [p \in Packets |->
                   IF decider[p] = Undecided /\ p \in chain.rules[at].match
                   THEN at ELSE decider[p]]
  /\ at' = at + 1
  /\ UNCHANGED chain

\* Past the last rule, the policy decides the rest.
FallToPolicy ==
  /\ at = Len(chain.rules) + 1
  /\ decider' = [p \in Packets |->
                   IF decider[p] = Undecided THEN ByPolicy ELSE decider[p]]
  /\ at' = at + 1
  /\ UNCHANGED chain

Next == Offer \/ FallToPolicy

Spec == Init /\ [][Next]_vars
=============================================================================
