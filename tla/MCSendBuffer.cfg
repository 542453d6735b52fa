CONSTANTS
    Pcbs = {p1, p2}
    NoPcb = NoPcb
    Calls = 2
    MsgLen = 2
    SndBuf = 1
    ConnTicks = 1
    ChunkTicks = 1
SPECIFICATION Spec
CHECK_DEADLOCK FALSE
INVARIANT MessageLives
