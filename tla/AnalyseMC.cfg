CONSTANTS
  Packets = {p1, p2, p3}
  MaxRules = 3
  Chains <- SmallChains
SPECIFICATION Spec
CHECK_DEADLOCK FALSE
INVARIANTS
  TypeOK
  EffectiveIsFirstMatch
  ReturnsCompiled
  RedundantMeansDeletable
  ExplanationCovers
PROPERTIES
  ImplementsWalk
