SPECIFICATION Spec
CONSTANTS
  Controls <- MCControls
  Operands <- MCOperands
  FlagBytes <- MCFlagBytes
INVARIANT TypeOK
INVARIANT OutputFits
INVARIANT SumExact
INVARIANT SignAndZero
INVARIANT OverflowExact
INVARIANT ParityOdd
INVARIANT ShiftExact
CHECK_DEADLOCK FALSE
