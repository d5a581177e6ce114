SPECIFICATION Spec
CHECK_DEADLOCK FALSE
CONSTANTS
    Tasks = {t1, t2}
    Ids = {s1, s2}
    None = None
    Threshold = 2
    Keep = 1
    s1 = s1
    s2 = s2
    Bounds <- Overlapping
INVARIANTS
    SavedTogether
