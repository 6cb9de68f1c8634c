SPECIFICATION DockerSpec
CONSTANT
  None = None
  NoDomain = NoDomain
  p1 = p1
  s1 = s1
  s2 = s2
  d1 = d1
  d2 = d2
  c1 = c1
  c2 = c2
  Prefix <- MCPrefix
  Suffix <- MCSuffix
  Domain <- MCDomain
  static_suffixes <- MCStatic
  Container <- MCContainer
  Networked <- MCNetworked
  label <- MCLabel
  Discoverable <- HostLists
  Signals = {"KILL"}
  MaxLost = 0
  MaxRestarts = 1
  MaxChanges = 1
  MaxFaults = 1
CONSTRAINT TwoTroubles
INVARIANT DockerTypeOK
INVARIANT DiscoveredHostsExisted
INVARIANT ContainersArePublished
INVARIANT ConfiguredArePublished
PROPERTY ImplementsDaemon
