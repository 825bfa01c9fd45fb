SPECIFICATION Spec
CONSTANTS
    Programs <- FieldProgram
    Traffic = 1
    MaxAction = 1
    Buffer = 1
    MaxWait = 2
CHECK_DEADLOCK FALSE
PROPERTY EarlyFailIsFinal
