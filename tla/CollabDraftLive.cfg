SPECIFICATION FairSpec
CONSTANTS
    Clients = {c1, c2}
    Writers = {}
    Steps = {s1, s2}
    Stale = {c2}
    Unreadable = {s1}
    SaveEvery = 2
    NoTx = NoTx
PROPERTIES
    EditsGetThrough
    SessionsCatchUp
CHECK_DEADLOCK FALSE
