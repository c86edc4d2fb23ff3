CONSTANTS
    Endpoints = {a, b}
    Winner = a
    Autosecure = {a, b}
    AllowClear = {a}
    Optimized = {}
    HelloMax = 1
    HelloMaxExt = 2
    T2Max = 1
    ErrorMax = 1
    ErrorAckMax = 1
    MaxStarts = 2
    MaxNonces = 2
    NONE = none
SPECIFICATION PromptSpec
CHECK_DEADLOCK FALSE
INVARIANTS TieBroken KeysAgree RoleMatchesState
PROPERTIES AgreementSpec
