SPECIFICATION ConfigFairSpec
CONSTANT
  None = None
  NoTable = NoTable
  NoFile = NoFile
  Roots <- MCRoots
  Prefixes <- MCPrefixes
  Providers <- MCProviders
  HostLists <- MCHostLists
  Dockers <- MCDockers
  Environments = {"unset", "empty", "set"}
  MaxEdits = 1
  MaxFaults = 1
INVARIANT RunsOnlyComplete
INVARIANT AlgorithmSettledByLoad
PROPERTY CorrectedFileRuns
 
