SPECIFICATION SpecMutex
CONSTANTS
    Threads = {t1, t2, t3}
    Counts = {M, C}
    Endpoints = {}
    NullEp = NullEp
    None = None
    Word = 32
    MaxValue = 12
    Increments = {}
    CyclicNext = FALSE
    M = M
    C = C
    MaxLocks = 4
    MaxWaits = 3
INVARIANT
    MutualExclusion
CHECK_DEADLOCK FALSE
