SPECIFICATION Spec
CONSTANTS
    Exceptions = {x1, x2}
    NoName = NoName
    MaxDepth = 3
INVARIANTS
    HandlersExact
    WalksSafe
PROPERTY
    FinallyRuns
SYMMETRY Symmetry
CHECK_DEADLOCK FALSE
