SPECIFICATION BusFairSpec
CONSTANT Addr <- MCAddr
INVARIANT BusTypeOK
PROPERTY AccessHeld
PROPERTY LatchChangesOnlyByAnswer
PROPERTY HramReadEnds
