CONSTANTS
    Streams = {s1}
    Tasks = {"dh", "commit"}
    Delays = {1}
    Started <- StartAll
    MaxQueue = 1
    LOOP = loop
    NONE = none
SPECIFICATION FairSpec
CHECK_DEADLOCK FALSE
PROPERTIES StopReturns
