SPECIFICATION LimiterSpec
CONSTANTS
    own = own
    fallback = fallback
    Buckets = {own, fallback}
    Calls = {q1, q2, q3, q4}
    Window = 2
    MaxWindow = 1
    DefaultLimit = 2
    KeyLimit <- MCKeyLimit
    None = None
SYMMETRY Symmetry
INVARIANTS
    PlacesAreExact
    NoLeakedCounter
PROPERTY
    FixedWindowPromise
CHECK_DEADLOCK FALSE
