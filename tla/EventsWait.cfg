SPECIFICATION SpecAwait
CONSTANTS
    Threads = {t1, t2}
    Counts = {e1, e2}
    Endpoints = {p1, p2}
    NullEp = NullEp
    None = None
    Word = 8
    MaxValue = 2
    Increments = {1}
    CyclicNext = FALSE
INVARIANT
    WaitersEnqueued
CHECK_DEADLOCK FALSE
