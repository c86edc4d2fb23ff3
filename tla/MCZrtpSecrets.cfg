CONSTANTS
    Endpoints = {a, b}
    MaxCalls = 3
    MaxLive = 1
    MaxLosses = 1
    Keeps = {TRUE, FALSE}
    NONE = none
SPECIFICATION Spec
SYMMETRY EndpointSymmetry
CHECK_DEADLOCK FALSE
INVARIANTS TypeOK SameSecret NoFalseAlarm VerifiedIsVouched
