SPECIFICATION Spec
CONSTANTS
    Word = 64
    PAGE_SIZE = 4
    LOWER_BOUND = 12
    PageRoom = 12
    RecordSize <- MCRecordSize
    BaseMaps <- MCBaseMaps
    BootModules <- MCBootModules
    SpecialPages <- MCSpecialPages
    LoadPages = {1, 2}
    MmuBytes = {4, 8}
    MaxModules = 2
    MaxLoads = 7
INVARIANTS
    LoadsDisjoint
    MmuPlacedFree
CHECK_DEADLOCK FALSE
