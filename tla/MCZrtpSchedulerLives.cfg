CONSTANTS
    Loops = {l1, l2}
    MaxUnits = 2
SPECIFICATION Spec
SYMMETRY LoopSymmetry
INVARIANTS NoUseAfterDown
