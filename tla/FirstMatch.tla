----------------------------- MODULE FirstMatch -----------------------------
(***************************************************************************)
(* What a filter chain means: the vocabulary every other module shares.    *)
(*                                                                         *)
(* A packet is an opaque point of the seven-dimensional header space and a *)
(* rule's predicate is the set of packets it admits, which is what         *)
(* Layout::match_bdd hands to the analysis.  Rules are numbered from 1 as  *)
(* Chain::push numbers them, so a rule's number is its index.              *)
(***************************************************************************)
EXTENDS Naturals, Sequences

CONSTANT Packets            \* the header space

Actions == {"accept", "drop", "reject"}

\* Action::permits: only accept lets a packet through.
Permits(action) == action = "accept"

Rule == [match : SUBSET Packets, action : Actions]

Chain == [policy : Actions, rules : Seq(Rule)]

\* Rule i decides packet p: it matches, and no earlier rule does.
Decides(rules, i, p) ==
  /\ p \in rules[i].match
  /\ \A j \in 1 .. (i - 1) : p \notin rules[j].match

FallsThrough(rules, p) == \A i \in DOMAIN rules : p \notin rules[i].match

\* The verdict on p when evaluation starts at rule `from`.
AcceptedFrom(chain, from, p) ==
  \/ \E i \in from .. Len(chain.rules) :
        /\ p \in chain.rules[i].match
        /\ \A j \in from .. (i - 1) : p \notin chain.rules[j].match
        /\ Permits(chain.rules[i].action)
  \/ /\ \A i \in from .. Len(chain.rules) : p \notin chain.rules[i].match
     /\ Permits(chain.policy)

\* The packets a chain lets through.
AcceptSet(chain) == {p \in Packets : AcceptedFrom(chain, 1, p)}

\* The packets some rule before i matches.
MatchedBefore(rules, i) ==
  {p \in Packets : \E j \in 1 .. (i - 1) : p \in rules[j].match}

\* The rule list with rule i taken out and the later ones renumbered.
Without(rules, i) ==
  [j \in 1 .. (Len(rules) - 1) |-> IF j < i THEN rules[j] ELSE rules[j + 1]]

Deleting(chain, i) == [chain EXCEPT !.rules = Without(chain.rules, i)]
=============================================================================
