CONSTANTS
    Sessions = {A, B}
    Streams <- SingleStreams
    A = A
    B = B
    Users = {u1, u2}
    Media = {m1}
    SCHED = sched
    NONE = none
SPECIFICATION Spec
CHECK_DEADLOCK FALSE
INVARIANTS SlotsDistinct
