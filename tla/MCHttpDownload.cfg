CONSTANTS
    BufferSize = 4
    PollTimeout = 3
    Responses <- MCResponses
    Aligns <- MCAligns
SPECIFICATION HttpSpec
CHECK_DEADLOCK FALSE
INVARIANTS
    SuccessIsComplete
    CallbacksFindFrame
    CompleteSucceeds
PROPERTIES
    IsTransfer
    Returns
