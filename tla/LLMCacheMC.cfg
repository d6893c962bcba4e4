SPECIFICATION Spec
CONSTANTS
    c1 = c1
    c2 = c2
    k1 = k1
    k2 = k2
    k3 = k3
    k4 = k4
    None = None
    Callers = {c1, c2}
    Keys = {k1, k2, k3, k4}
    MaxRows = 2
    Retention = 2
    LastTime = 3
    Zones <- SessionZones
SYMMETRY Symmetry
INVARIANTS
    SizeBounded
    AnswersExpire
PROPERTIES
    RecentRowsSurvive
    AnswerStored
CHECK_DEADLOCK FALSE
