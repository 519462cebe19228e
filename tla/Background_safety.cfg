SPECIFICATION FairSpec
CONSTANTS
    p1 = p1
    p2 = p2
    Proc = {p1, p2}
    MaxMemory = 2
    Plans <- Various
    BufSize = 1
    ChunkSize = 1
    Timeouts = TRUE
    Faults = TRUE
    MaxMishaps = 2
    MaxHits = 1
    None = None
INVARIANT NeverOvercounts
PROPERTIES ShutdownEnds EveryMemoryVectorized HitsReachTheStore
CHECK_DEADLOCK FALSE
