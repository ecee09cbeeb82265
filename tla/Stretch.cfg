SPECIFICATION Spec
CONSTANTS
    Pages = 7
    SysPages = 2
    SidMax = 3
    TableSpan = 2
    TableMax = 3
    Entries <- MapReserved
    BootMapped = {1, 2}
    System = System
    Nailed = {n1}
    None = None
    AnyAddress = AnyAddress
    Sizes = {0, 1, 2}
    Starts <- Places
INVARIANTS
    AllocationsExclusive
    PagesAccounted
    ShadowLatest
    NailedBacked
PROPERTY
    ClaimedPagesKept
