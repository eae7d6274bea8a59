CONSTANTS
  Ports = {1, 2}
  Packets <- HeaderSpace
  MaxInFlight = 2
  MaxSends = 2
  Chains <- TwoChains
  Modes <- Invocations
  Rounds = 1
SPECIFICATION Spec
CHECK_DEADLOCK FALSE
INVARIANT DetectionIsDisagreement
