SPECIFICATION SpecUntil
CONSTANTS
    Threads = {t1, t2}
    Counts = {e1}
    Endpoints = {p1}
    NullEp = NullEp
    None = None
    Word = 8
    MaxValue = 3
    Increments = {1}
    CyclicNext = FALSE
PROPERTY
    PendingListed
CHECK_DEADLOCK FALSE
