CONSTANTS
    Endpoints = {a, b}
    Streams = {x, y}
    Preshared = {}
    MaxCommits = 6
    MaxTimeouts = 2
    NONE = none
SPECIFICATION Spec
CHECK_DEADLOCK FALSE
INVARIANTS OneExchange
