SPECIFICATION Spec
CONSTANT
  None = None
  p1 = p1
  p2 = p2
  s1 = s1
  s2 = s2
  d1 = d1
  d2 = d2
  Prefix <- MCPrefix
  Suffix <- MCSuffix
  Domain <- MCDomain
  static_suffixes <- MCStatic
  Discoverable <- WithCollision
  Signals = {}
  MaxLost = 0
  MaxRestarts = 0
PROPERTY LastEntryWins
