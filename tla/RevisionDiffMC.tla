--------------------------- MODULE RevisionDiffMC ---------------------------
(***************************************************************************)
(* RevisionDiff on every pair of short revisions over three predicates.    *)
(***************************************************************************)
EXTENDS RevisionDiff

CONSTANTS
  p1, p2, p3,               \* three packets
  one, two, both,           \* predicates: two single packets and their union
  MaxRules                  \* bound on the length of a chain

ThreePredicates == {one, two, both}

ThreeDenotations ==
  [says \in ThreePredicates |->
     CASE says = one -> {p1} [] says = two -> {p2} [] says = both -> {p1, p2}]

\* One rule per way a rule can relate to another: covered, covering, disjoint,
\* agreeing and disagreeing.
SmallContents ==
  {[says |-> one, action |-> "accept"], [says |-> two, action |-> "drop"],
   [says |-> two, action |-> "accept"], [says |-> both, action |-> "drop"]}

SmallRevisions ==
  [policy : {"accept", "drop"}, rules : BoundedSeq(SmallContents, MaxRules)]
=============================================================================
