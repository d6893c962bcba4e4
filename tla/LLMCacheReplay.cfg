SPECIFICATION Spec
CONSTANTS
    c1 = c1
    k1 = k1
    k2 = k2
    None = None
    Callers = {c1}
    Keys = {k1, k2}
    MaxRows = 1
    Retention = 1
    LastTime = 1
    Zones <- SQLiteZone
INVARIANT RejectedNotReplayed
CHECK_DEADLOCK FALSE
