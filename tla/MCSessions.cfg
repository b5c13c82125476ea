SPECIFICATION Spec
CONSTANTS
    Users = {u1}
    Jtis = {j1, j2, j3}
    Requests = {r1, r2}
    None = None
SYMMETRY Symmetry
INVARIANTS
    OneSuccessor
    OnlyActiveUsers
PROPERTY
    LogoutEnds
