CONSTANTS
    BufferSize = 6
    PollTimeout = 3
    Responses <- GoodResponses
    Aligns <- FrameAligns
SPECIFICATION HttpSpec
CHECK_DEADLOCK FALSE
INVARIANT
    HashOfData
