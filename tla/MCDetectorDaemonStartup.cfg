SPECIFICATION DetectorFairSpec
CONSTANT
  None = None
  NonGlobal = NonGlobal
  p1 = p1
  p2 = p2
  s1 = s1
  d1 = d1
  Prefix <- MCPrefix
  Suffix <- MCSuffix
  Domain <- MCDomain
  static_suffixes <- MCStatic
  Discoverable <- NoContainers
  Methods = {"netlink"}
  Answers <- EveryAnswer
  AddressMessage <- Addresses
  Infinite = 9
  Signals = {}
  MaxLost = 0
  MaxRestarts = 0
  MaxChanges = 1
  MaxFaults = 0
PROPERTY ConvergesFromStartup
CHECK_DEADLOCK FALSE
