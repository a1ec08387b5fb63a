SPECIFICATION Spec
CONSTANTS
    Clients = {c1, c2}
    Writers = {w1}
    Steps = {s1, s2, s3}
    Stale = {c2}
    Unreadable = {s1}
    SaveEvery = 2
    NoTx = NoTx
SYMMETRY Symmetry
INVARIANTS
    TypeOK
    BasedOnPredecessor
    SessionInSync
    CheckpointsFaithful
    EachStepOnce
PROPERTIES
    ImplementsDraftLog
CHECK_DEADLOCK FALSE
