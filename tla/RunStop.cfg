SPECIFICATION Spec
CONSTANTS
    Instances = {i1}
    Callers = {c1}
    MaxConcurrent = 1
    MaxBooting = 1
    LastStage = 0
    Events = {"poll", "cancel"}
    MaxRestarts = 0
INVARIANT StoppedIsTornDown
SYMMETRY Symmetry
CHECK_DEADLOCK FALSE
