SPECIFICATION Spec
CONSTANT MaxWords = 4
INVARIANT OneAccessPerProgram
INVARIANT AutoIndexSameRegister
PROPERTY ProgramEnds
CHECK_DEADLOCK FALSE
