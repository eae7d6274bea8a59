CONSTANTS
  Fields <- TwoFields
  Width <- TwoWidths
  Sequence <- AddressLast
  Quantified = {"iif"}
  Packets <- HeaderSpace
  Inputs <- EveryDelta
  Options <- Budgets
SPECIFICATION Spec
CHECK_DEADLOCK FALSE
INVARIANTS
  TypeOK
  MergingIsExact
  NothingLeftOutSilently
  WidestAreShown
  FlowCountsAreExact
