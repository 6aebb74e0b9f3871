SPECIFICATION Spec
CONSTANT LastOpcode = 65535
INVARIANT TypeOK
INVARIANT SourceFetchedWhenInMemory
INVARIANT DestinationStoredWhenInMemory
INVARIANT WriteBackOnlyForImmediateForm
CHECK_DEADLOCK FALSE
