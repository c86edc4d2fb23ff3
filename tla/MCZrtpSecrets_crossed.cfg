CONSTANTS
    Endpoints = {a, b}
    MaxCalls = 3
    MaxLive = 2
    MaxLosses = 0
    Keeps = {TRUE}
    NONE = none
SPECIFICATION Spec
SYMMETRY EndpointSymmetry
CHECK_DEADLOCK FALSE
INVARIANTS SameSecret
