SPECIFICATION Spec
CONSTANTS
    Creators = {c1, c2}
    Stoppers = {}
    Projects = {p1}
    NoProject = NoProject
    MaxRuns = 2
    MaxRunHistory = 2
    Events = {}
INVARIANT OneActiveRun
CHECK_DEADLOCK FALSE
