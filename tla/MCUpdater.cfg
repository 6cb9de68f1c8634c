SPECIFICATION FairSpec
CONSTANT
  None = None
  a1 = a1
  a2 = a2
  l1 = l1
  l2 = l2
  l3 = l3
  l4 = l4
  Addr <- MCAddr
  Existing <- MCExisting
  MaxRecords = 4
  MaxLost = 2
  Label <- MCLabel
  Domains <- MCDomains
  zone <- MCZone
INVARIANT UpdaterTypeOK
INVARIANT ExtraRecordsAreLatePosts
PROPERTY ImplementsSetRecordCall
PROPERTY CallReturns
