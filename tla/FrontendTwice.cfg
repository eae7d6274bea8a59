CONSTANTS
  dmz = dmz
  eth = eth
  lan = lan
  wan = wan
  AllNames <- SortedNames
  MAX_INTERFACES = 3
  AddressBits = 2
  Addresses = {0, 1, 2, 3}
  PortNumbers = {1, 2}
  Protocols = {1, 6, 17}
  PortBearing = {6, 17}
  MaxStatements = 3
  Files <- SomeFiles
  Generated <- SomeGenerated
  OtherRevision = {{}, {dmz}, {dmz, lan, wan}}
SPECIFICATION Spec
CHECK_DEADLOCK FALSE
INVARIANT EveryMatchCounts
