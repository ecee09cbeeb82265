SPECIFICATION Spec
CONSTANTS
    Mmap <- MapDevice
    System = System
    Domains = {d1}
    None = None
    BootMapped = {}
    Word = 65536
    Space = 1024
    Sizes = {0, 1, 2}
    Granules = {1}
    Quotas = {2}
    Addresses = {0, 1, 3, 5}
    MaxRanges = 2
    Mappable = {1}
    HeadStarts = {0}
    SysLists = {"null"}
    MaxCount = 4
INVARIANTS
    QuotaKept
PROPERTY
    ReleaseAccounted
