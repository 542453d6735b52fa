SPECIFICATION Spec
CONSTANTS
    Width = 64
    Iss = 61
    StreamLen = 8
    Header = 3
    Wnd = 8
    Mss = 3
INVARIANTS
    PcbSound
    InOrder
    AnnouncedIsTaken
PROPERTIES
    EdgeNeverBack
    Delivered
CHECK_DEADLOCK FALSE
