SPECIFICATION Spec
CONSTANTS
    u1 = u1
    k1 = k1
    k2 = k2
    Users = {u1}
    Keys = {k1, k2}
    Owner <- MCOwner
    Requests = {r1, r2}
SYMMETRY Symmetry
INVARIANTS
    DeadKeysServeNothing
    DisabledUsersServeNothing
    UsageIsEarned
    AnswersAreAccounted
CHECK_DEADLOCK FALSE
