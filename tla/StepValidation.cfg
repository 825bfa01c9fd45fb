SPECIFICATION FairSpec
CONSTANTS
    Programs <- MCPrograms
    Traffic = 2
    MaxAction = 1
    Buffer = 1
    MaxWait = 2
INVARIANTS
    NoForeignLogs
    CountedByOneStep
    WaitInheritsLogs
    OwnLogFirst
CHECK_DEADLOCK FALSE
PROPERTIES
    EarlyFailIsFinal
    TestsEnd
