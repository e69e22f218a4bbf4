SPECIFICATION Spec
CONSTANTS
    Slots = 2
    Source = {1}
    Cap = 1
    MaxCalls = 1
    Tries = {t1, t2, t3}
    MaxCancel = 1
SYMMETRY TrySymmetry
INVARIANTS CapOvershootIsBounded EndedMeansBilled
CHECK_DEADLOCK FALSE
