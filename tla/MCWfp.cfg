CONSTANTS
    Devs <- MCDevs
    FlashSize = 4
    BlockSize = 2
    Images <- MCImages
    Contents <- MCContents
SPECIFICATION Spec
CHECK_DEADLOCK FALSE
INVARIANTS
    OnlyNamedCells
    DisjointFlashedComplete
PROPERTIES
    Terminates
