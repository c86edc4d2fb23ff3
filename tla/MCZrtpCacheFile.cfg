CONSTANTS
    Peers = {p, q}
    MaxPuts = 3
    Faults = {"crash", "write", "flush"}
    NONE = none
SPECIFICATION Spec
SYMMETRY PeerSymmetry
INVARIANTS TypeOK InSync NoStaleSecret
PROPERTIES StaysReadable
