CONSTANTS
    Endpoints = {a, b}
    Streams = {x, y}
    Preshared = {a, b}
    MaxCommits = 6
    MaxTimeouts = 0
    NONE = none
SPECIFICATION FairSpec
CHECK_DEADLOCK FALSE
PROPERTIES WaitersServed
