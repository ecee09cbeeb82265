SPECIFICATION SpecAlloc
CONSTANTS
    Mmap <- MapMarked
    System = System
    Domains = {d1, d2}
    None = None
    BootMapped = {1}
    Word = 65536
    Space = 1024
    Sizes = {0, 1, 3}
    Granules = {1, 2}
    Quotas = {0, 3}
    Addresses = {}
    MaxRanges = 8
    Mappable = {2, 8}
    HeadStarts = {0, 2}
    SysLists = {"null", "wild"}
    MaxCount = 0
SYMMETRY Symmetry
INVARIANTS
    TypeOK
    CountersExact
    GrantsExclusive
    AccountsMatch
    ListsExactBelowHead
PROPERTY
    MappedFramesKept
