SPECIFICATION PbufSpec
CONSTANTS
    MemSize = 108
    Width = 256
    Sizes = {1, 24, 253}
    PoolElems = {b1, b2, b3}
    RomElems = {r1}
    BufSize = 4
    LenWidth = 96
    Lengths = {6, 93}
    Cuts = {1, 3, 4}
    SplitAt = 4
    Layer = 4
    HeaderSize = 4
    MaxPointers = 2
    MaxPbufs = 2
SYMMETRY PoolSymmetry
INVARIANTS
    HeapSound
    RefusesOnlyIfFull
    RefCount
    LengthsTrue
    ChainIsSequence
CHECK_DEADLOCK FALSE
