SPECIFICATION Spec
CONSTANTS
    j1 = j1
    p1 = p1
    None = None
    Jobs = {j1}
    Processes = {p1}
    MaxConcurrent = 1
    MaxQueued = 1
    Dialect = "sqlite"
    MaxCrashes = 0
    MaxFaults = 1
INVARIANT EveryFailureIsTerminal
CHECK_DEADLOCK FALSE
