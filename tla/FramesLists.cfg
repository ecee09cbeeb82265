SPECIFICATION SpecAlloc
CONSTANTS
    Mmap <- MapMarked
    System = System
    Domains = {d1}
    None = None
    BootMapped = {1}
    Word = 65536
    Space = 1024
    Sizes = {1, 2}
    Granules = {1, 2}
    Quotas = {0, 5}
    Addresses = {}
    MaxRanges = 8
    Mappable = {2}
    HeadStarts = {0, 2}
    SysLists = {"null"}
    MaxCount = 0
INVARIANT
    RegionListExact
