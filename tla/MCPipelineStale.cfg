SPECIFICATION Spec
CONSTANTS
  Addr <- MCAddr
  Words <- MCMemory
  FetchDepth = 2
  NoInst = NoInst
PROPERTY DecodingIsCombinational
