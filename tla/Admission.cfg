SPECIFICATION Spec
CONSTANTS
    Creators = {c1}
    Stoppers = {c2}
    Projects = {p1}
    NoProject = NoProject
    MaxRuns = 3
    MaxRunHistory = 2
    Events = {"stop", "delete", "restart", "rmfails"}
INVARIANT OneActiveRun
INVARIANT HistoryLimit
INVARIANT KeptRunHasFiles
CHECK_DEADLOCK FALSE
