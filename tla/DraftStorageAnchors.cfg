SPECIFICATION Spec
CONSTANTS
    Pages = {c1}
    Posts = {p1}
    Requests = {r1}
    MaxEdits = 3
    MaxFreezes = 1
    MaxReleases = 2
    SaveEvery = 1
    MaxBusy = 2
    MaxHistory = 5
CONSTRAINTS FewBusy ShortHistory FirstViewed NoHarm
INVARIANT AnchorsHold
CHECK_DEADLOCK FALSE
