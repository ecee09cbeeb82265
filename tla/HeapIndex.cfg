SPECIFICATION SearchSpec
CONSTANTS
    WordSize = 8
    SmallBlocks = 16
    AllSizes <- TableBytes
    MaxSize = 10400
INVARIANT
    FindsClass
PROPERTY
    SearchEnds
