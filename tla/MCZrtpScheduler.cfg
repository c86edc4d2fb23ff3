CONSTANTS
    Streams = {s1, s2}
    Tasks = {"hello", "confirm"}
    Delays = {1, 2}
    Started <- StartAll
    MaxQueue = 2
    LOOP = loop
    NONE = none
SPECIFICATION Spec
SYMMETRY StreamSymmetry
INVARIANTS TypeOK NoLostWakeup BoundedSurplus ListSorted NoEntryAfterTermination NoUseAfterDown
