SPECIFICATION Spec
CONSTANTS
    Devices = {d1, d2}
    NumBlocks = 2
    max_blocks = 3
    LargeRead = 4
    ReadSizes = {2, 4, 5}
    Data = {0, 1}
    Zero = 0
    Null = Null
INVARIANTS
    MapAndListAgree
    WritesKept
PROPERTIES
    FlushSaves
SYMMETRY Symmetry
CHECK_DEADLOCK FALSE
