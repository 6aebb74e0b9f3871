SPECIFICATION Spec
CONSTANTS
  Addr <- MCAddr
  Offered <- MCAll
INVARIANT ExecuteTypeOK
INVARIANT SequencerHasWord
INVARIANT OperandNotAwaited
PROPERTY InstructionRetires
