SPECIFICATION InfoSpec
CONSTANTS
    InfoFiles <- MCFiles
    UriSize = 3
    Digits = 4
    MaxLen = 7
INVARIANTS
    InBounds
    ParsesRight
CHECK_DEADLOCK FALSE
