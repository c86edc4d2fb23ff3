CONSTANTS
    Endpoints = {a, b}
    Streams = {x, y}
    Preshared = {}
    MaxCommits = 6
    MaxTimeouts = 2
    NONE = none
SPECIFICATION FairSpec
CHECK_DEADLOCK FALSE
INVARIANTS TypeOK OneExchangeUnlessRaced SameSessionUnlessRaced NoneFailsUnlessRaced
PROPERTIES WaitersServed
