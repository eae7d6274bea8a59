CONSTANTS
  Bits = 3
  MaxRanges = 2
  MaxSet = 3
  RangeLists <- SmallRangeLists
  Styles <- SomeStyles
SPECIFICATION Spec
CHECK_DEADLOCK FALSE
INVARIANTS
  TypeOK
  ResultIsExact
  ResultIsCanonical
  PrefixesAreMaximalBlocks
  LoweringIsExact
  ColumnsReadBack
