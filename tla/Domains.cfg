SPECIFICATION Spec
CONSTANTS
    PDIDX_MAX = 2
    SidMax = 3
    Word = 4
    RightsArgs <- MCRights
    MaxCreates = 3
    MaxHolds = 2
INVARIANTS
    RetainedStays
    RightsExact
CHECK_DEADLOCK FALSE
