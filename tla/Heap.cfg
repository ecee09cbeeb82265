SPECIFICATION Spec
CONSTANTS
    Hdr = 2
    WordSize = 2
    End = 25
    AllSizes <- Classes
    Space = 64
    Magic = Magic
    Requests = {0, 1, 2, 5, 8, 63}
INVARIANTS
    Tiled
    TagsExact
    ListsExact
    SizesServed
    Unfragmented
PROPERTIES
    KeepsPromise
    CoalesceEnds
