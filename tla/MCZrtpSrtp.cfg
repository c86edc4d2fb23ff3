CONSTANTS
    Streams = {x, y}
    Half = 4
    Width = 2
    RtcpLast = 3
    Reach = 4
    Starts = {6}
    MaxNumber = 18
    MaxKeys = 2
    SameByte = {}
    NONE = none
SPECIFICATION Spec
SYMMETRY StreamSymmetry
CHECK_DEADLOCK FALSE
INVARIANTS TypeOK IndexAgrees AcceptedOnce NoneRefused IndexNeverReused
PROPERTIES FreedByItsStream
