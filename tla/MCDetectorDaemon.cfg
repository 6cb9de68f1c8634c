SPECIFICATION DetectorFairSpec
CONSTANT
  None = None
  NonGlobal = NonGlobal
  p1 = p1
  p2 = p2
  s1 = s1
  d1 = d1
  Prefix <- MCPrefix
  Suffix <- MCSuffix
  Domain <- MCDomain
  static_suffixes <- MCStatic
  Discoverable <- NoContainers
  Methods = {"dns", "netlink", "ra"}
  Answers <- EveryAnswer
  AddressMessage <- Addresses
  Infinite = 9
  Signals = {"KILL"}
  MaxLost = 0
  MaxRestarts = 1
  MaxChanges = 2
  MaxFaults = 1
INVARIANT DetectorTypeOK
INVARIANT SettledIsPublished
PROPERTY ImplementsDaemon
PROPERTY Converges
PROPERTY RaConverges
CHECK_DEADLOCK FALSE
