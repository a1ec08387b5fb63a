SPECIFICATION Spec
CONSTANTS
    Tasks = {t1, t2}
    Consumers = {p1, p2}
    Prefetch = 1
    MaxAttempts = 2
    MaxRetries = 2
    MaxFaults = 3
    NoRun = NoRun
    t1 = t1
    t2 = t2
    p1 = p1
    p2 = p2
SYMMETRY Symmetry
INVARIANTS TypeOK AckedIsSettled ResultsAreReal RunsHoldMessages StartsNeedFaults
PROPERTY SettledForGood FirstReportWins
CHECK_DEADLOCK FALSE
