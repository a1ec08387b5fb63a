SPECIFICATION Spec
CONSTANTS
    Sessions = {s1, s2}
    MaxEdits = 3
    NoInfo = NoInfo
    s1 = s1
    s2 = s2
SYMMETRY MCSymmetry
INVARIANTS TypeOK CopiesAreCurrent TruePositionsHold
PROPERTY StoredKeyGrows
CHECK_DEADLOCK FALSE
