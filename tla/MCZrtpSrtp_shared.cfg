CONSTANTS
    Streams = {x, y}
    Half = 4
    Width = 2
    RtcpLast = 3
    Reach = 4
    Starts = {6}
    MaxNumber = 16
    MaxKeys = 2
    SameByte = {x, y}
    NONE = none
SPECIFICATION Spec
CHECK_DEADLOCK FALSE
INVARIANTS AcceptedOnce
