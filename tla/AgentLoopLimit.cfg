SPECIFICATION Spec
CONSTANTS
    t1 = t1
    t2 = t2
    Runs = {a}
    Roles = {admin}
    Registry <- OneTool
    Unknown = unknown
    MaxIterations = 20
    MaxCalls = 1
    RecursionLimit = 25
INVARIANT
    StopsAtMaxIterations
CHECK_DEADLOCK FALSE
