SPECIFICATION Spec
CONSTANTS
    Pubs = {"p1", "p2"}
    InitialRow <- OwnFiles
    Pushes = {1, 2}
    Concurrent = FALSE
    Targets = {"collection", "other"}
    CheckpointEvery = 1
    FaultKinds = {"crash", "call", "upload", "publish", "cleanup", "busy", "slow", "lost", "write"}
    MaxFaults = 2
    MaxEdits = 1
    MaxUnsigned = 0
INVARIANT ReportsAreTrue
PROPERTIES PushesRecover PushesEnd
CHECK_DEADLOCK FALSE
