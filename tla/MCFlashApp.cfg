SPECIFICATION Spec
CONSTANTS
    Files = {"a", "b"}
    Hash <- MCHash
    Labels <- MCLabels
    FdlSize = 3
INVARIANTS
    ReportsTrue
PROPERTIES
    IsStation
    Settles
CHECK_DEADLOCK FALSE
