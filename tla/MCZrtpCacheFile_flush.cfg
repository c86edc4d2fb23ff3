CONSTANTS
    Peers = {p}
    MaxPuts = 2
    Faults = {"flush"}
    NONE = none
SPECIFICATION Spec
INVARIANTS StoredWhenOk
