SPECIFICATION SpecAlloc
CONSTANTS
    Mmap <- MapBoot
    System = System
    Domains = {d1}
    None = None
    BootMapped = {0, 1, 2, 3}
    Word = 65536
    Space = 1024
    Sizes = {1}
    Granules = {1}
    Quotas = {0, 2}
    Addresses = {}
    MaxRanges = 8
    Mappable = {2}
    HeadStarts = {0}
    SysLists = {"null"}
    MaxCount = 0
INVARIANT
    BootMemoryKept
