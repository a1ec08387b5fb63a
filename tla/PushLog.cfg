SPECIFICATION Spec
CONSTANTS
    Tasks = {t1, t2}
    MaxAttempts = 1
    MaxRows = 2
    MaxFaults = 1
    t1 = t1
    t2 = t2
SYMMETRY MCSymmetry
INVARIANT RunningIsOwned
CHECK_DEADLOCK FALSE
