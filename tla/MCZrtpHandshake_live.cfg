CONSTANTS
    Endpoints = {a, b}
    Winner = a
    Autosecure = {a, b}
    AllowClear = {a, b}
    Optimized = {a}
    HelloMax = 1
    HelloMaxExt = 2
    T2Max = 1
    ErrorMax = 1
    ErrorAckMax = 1
    MaxStarts = 1
    MaxNonces = 0
    NONE = none
SPECIFICATION FairSpec
CHECK_DEADLOCK FALSE
INVARIANTS TypeOK TimersMatchState RoleMatchesState
PROPERTIES WaitsEnd
