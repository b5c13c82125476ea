SPECIFICATION Spec
CONSTANTS
    Docs = {d1, d2}
    Deletes = {x1, x2}
    None = None
    Extents <- MCExtents
    Chunkings <- MCChunkings
    CutBound = 6
SYMMETRY Symmetry
INVARIANTS
    TypeOK
    OrphansNeedOverlap
    IndexedIsSearchable
    ChunksAreBounded
    MissingHoldsNothing
    StuckOnlyIfInterrupted
    StrayFilesExplained
PROPERTY
    LifecyclePromise
CHECK_DEADLOCK FALSE
