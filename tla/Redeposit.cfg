SPECIFICATION Spec
CONSTANTS
    N = 2
    MaxStarts = 2
    MaxEdits = 1
    EditedTo = {"moved"}
    MaxFaults = 1
    NoCopy = NoCopy
INVARIANTS ShapesKept StopIsHeeded SuccessIsReal
CHECK_DEADLOCK FALSE
