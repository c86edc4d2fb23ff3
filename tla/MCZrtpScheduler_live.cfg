CONSTANTS
    Streams = {s1, s2}
    Tasks = {"dh", "commit"}
    Delays = {1}
    Started <- DhAndCommits
    MaxQueue = 1
    LOOP = loop
    NONE = none
SPECIFICATION FairSpec
CHECK_DEADLOCK FALSE
INVARIANTS NoLostWakeup
PROPERTIES CallServedOrJams StopReturnsOrJams DownReturns
