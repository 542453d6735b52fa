CONSTANTS
    BufferSize = 3
    PollTimeout = 3
    Responses <- GoodResponses
    Aligns <- FrameAligns
SPECIFICATION HttpSpec
CHECK_DEADLOCK FALSE
INVARIANT
    RefPositive
