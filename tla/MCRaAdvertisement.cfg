SPECIFICATION ASpec
CONSTANT
  None = None
  Kinds <- MCKinds
  MessageTypes = {134, 135}
  MaxOptions = 3
INVARIANT RTypeOK
INVARIANT ReadsInBounds
INVARIANT ReturnsFirstUsablePrefix
PROPERTY ParserReturns
CHECK_DEADLOCK FALSE
