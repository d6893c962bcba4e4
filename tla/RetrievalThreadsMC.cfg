SPECIFICATION ThreadedFairSpec
CONSTANTS
    j1 = j1
    j2 = j2
    p1 = p1
    None = None
    Jobs = {j1, j2}
    Processes = {p1}
    MaxConcurrent = 1
    MaxQueued = 2
    Dialect = "sqlite"
    MaxCrashes = 2
    MaxFaults = 1
    Workers = 1
INVARIANTS
    SlotsConserved
    EndedIsTerminal
    UnfinishedHasWorker
    WaitsForAbandonedOnly
PROPERTY EventuallyTerminal
CHECK_DEADLOCK FALSE
