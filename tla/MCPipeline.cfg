SPECIFICATION FairSpec
CONSTANTS
  Addr <- MCAddr
  Words <- MCAll
  FetchDepth = 2
  NoInst = NoInst
INVARIANT TypeOK
INVARIANT WaitsForDispatch
INVARIANT HeldAccessIsOurs
PROPERTY HandoffRefined
PROPERTY HandoffLive
PROPERTY WordsConsumed
