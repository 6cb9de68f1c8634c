SPECIFICATION FairSpec
CONSTANT
  None = None
  p1 = p1
  p2 = p2
  s1 = s1
  s2 = s2
  d1 = d1
  d2 = d2
  Prefix <- MCPrefix
  Suffix <- MCSuffix
  Domain <- OneDomain
  static_suffixes <- MCStatic
  Discoverable <- NoContainers
  Signals = {"INT", "USR1", "TERM"}
  MaxLost = 0
  MaxRestarts = 1
INVARIANT TypeOK
INVARIANT NoLostWakeup
PROPERTY RefreshServed
PROPERTY ShutdownCompletes
