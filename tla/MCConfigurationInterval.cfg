SPECIFICATION ConfigSpec
CONSTANT
  None = None
  NoTable = NoTable
  NoFile = NoFile
  Roots <- MCRoots
  Prefixes <- MCPrefixes
  Providers <- MCProviders
  HostLists <- MCHostLists
  Dockers <- MCDockers
  Environments = {"unset", "empty", "set"}
  MaxEdits = 0
  MaxFaults = 0
INVARIANT WrittenIntervalIsUsed
