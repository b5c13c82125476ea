SPECIFICATION FairSpec
CONSTANTS
    t1 = t1
    t2 = t2
    Runs = {a}
    Roles = {admin}
    Registry <- TwoTools
    Unknown = unknown
    MaxIterations = 3
    MaxCalls = 2
    RecursionLimit = 4
INVARIANTS
    RunsOnlyPermitted
    EveryCallAnswered
    NeverSilent
PROPERTY
    RunEnds
CHECK_DEADLOCK FALSE
