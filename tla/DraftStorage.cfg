SPECIFICATION Spec
CONSTANTS
    Pages = {c1, c2}
    Posts = {p1, p2}
    Requests = {r1}
    MaxEdits = 3
    MaxFreezes = 2
    MaxReleases = 2
    SaveEvery = 2
    MaxBusy = 3
    MaxHistory = 4
SYMMETRY Symmetry
CONSTRAINTS FewBusy ShortHistory FirstViewed NoHarm
INVARIANTS NothingLost DocumentsFaithful StepMapsContiguous ReachableVersionsFaithful UnfrozenAnchorsHold
CHECK_DEADLOCK FALSE
