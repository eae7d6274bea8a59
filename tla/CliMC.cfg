CONSTANTS
  p1 = p1
  p2 = p2
  p3 = p3
  Packets = {p1, p2, p3}
  Rejected = Rejected
  Header <- SomeHeader
  AddressText <- SomeAddressText
  AddressShaped <- SomeAddressShaped
  RangeText <- SomeRangeText
  PortSpace = {1, 2}
  ProtocolNumber <- SomeProtocolNumber
  ProtocolSpace = {1, 6, 17}
  ChainNames <- TwoNames
  Texts <- SomeTexts
  Branches <- SomeBranches
  Policies <- SomePolicies
  Invocations <- SomeInvocations
  MaxCells = 2
  PageCells = 1
  Reached <- SomeReached
SPECIFICATION Spec
CHECK_DEADLOCK FALSE
INVARIANTS
  TypeOK
  ExitCodeIsTheGate
  EveryAssertionAnswered
  EveryNameAccounted
  OutputsComeFromOneRun
  ListingsAgree
  CheckFindsDeadRules
