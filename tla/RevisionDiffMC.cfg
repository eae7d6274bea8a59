CONSTANTS
  p1 = p1
  p2 = p2
  p3 = p3
  Packets = {p1, p2, p3}
  one = one
  two = two
  both = both
  MaxRules = 3
  Predicates <- ThreePredicates
  Denotes <- ThreeDenotations
  Revisions <- SmallRevisions
SPECIFICATION Spec
CHECK_DEADLOCK FALSE
INVARIANTS
  TypeOK
  PairingIsMaximal
  EveryRuleAccountedOnce
  StatusChangesExplained
  InsertionIsOneAddition
  AttributionExplainsDelta
