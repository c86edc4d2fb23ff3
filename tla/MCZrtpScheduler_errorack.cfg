CONSTANTS
    Streams = {s1}
    Tasks = {"errorack"}
    Delays = {1}
    Started <- StartAll
    MaxQueue = 1
    LOOP = loop
    NONE = none
SPECIFICATION Spec
INVARIANTS NoEntryAfterTermination
