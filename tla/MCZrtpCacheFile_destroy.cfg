CONSTANTS
    Peers = {p}
    MaxPuts = 2
    Faults = {"write"}
    NONE = none
SPECIFICATION Spec
INVARIANTS DestroyInSync
