SPECIFICATION Spec
CONSTANTS
    Keys = {k1}
    Changes = {c1, c2, c3}
    KeysOf <- MCKeysOf
    MaxFaults = 1
    None = None
    k1 = k1
    c1 = c1
    c2 = c2
    c3 = c3
INVARIANT PendingIsKept
PROPERTIES ChangesPurged DeferredTasksEnd
CHECK_DEADLOCK FALSE
