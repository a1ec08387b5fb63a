SPECIFICATION Spec
CONSTANTS
    Pubs = {"p1", "p2"}
    InitialRow <- OneFile
    Pushes = {1, 2}
    Concurrent = TRUE
    Targets = {"collection", "other"}
    CheckpointEvery = 2
    FaultKinds = {"crash", "call", "upload", "publish", "slow"}
    MaxFaults = 1
    MaxEdits = 1
    MaxUnsigned = 1
INVARIANTS CachedFilesLanded HitsCanBeProduced
PROPERTY VersionIsManifest
CHECK_DEADLOCK FALSE
