CONSTANTS
    Endpoints = {a, b}
    Winner = a
    Autosecure = {a, b}
    AllowClear = {a, b}
    Optimized = {}
    HelloMax = 1
    HelloMaxExt = 2
    T2Max = 1
    ErrorMax = 1
    ErrorAckMax = 1
    MaxStarts = 2
    MaxNonces = 1
    NONE = none
SPECIFICATION Spec
CHECK_DEADLOCK FALSE
INVARIANTS DhCommitWins
