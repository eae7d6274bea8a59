----------------------------- MODULE AnalyseMC -----------------------------
(***************************************************************************)
(* Analyse on every chain of up to MaxRules rules over a few packets.      *)
(***************************************************************************)
EXTENDS Analyse

CONSTANT MaxRules          \* bound on the length of a chain

LOCAL INSTANCE SequencesExt

\* The nft frontend writes only accept and drop policies.
SmallChains ==
  [policy : {"accept", "drop"}, rules : BoundedSeq(Rule, MaxRules)]
=============================================================================
