CONSTANTS
    Sessions = {A, B}
    Streams <- SingleStreams
    A = A
    B = B
    Users = {u1}
    Media = {m1, m2}
    SCHED = sched
    NONE = none
SPECIFICATION Spec
SYMMETRY MediaSymmetry
CHECK_DEADLOCK FALSE
INVARIANTS TypeOK JamsOnlyInDown WalkMeetsLive
