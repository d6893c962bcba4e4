SPECIFICATION Spec
CONSTANTS
    j1 = j1
    j2 = j2
    j3 = j3
    p1 = p1
    p2 = p2
    None = None
    Jobs = {j1, j2, j3}
    Processes = {p1, p2}
    MaxConcurrent = 1
    MaxQueued = 1
    Dialect = "postgresql"
    MaxCrashes = 1
    MaxFaults = 1
SYMMETRY Symmetry
INVARIANTS
    NoDeadlock
    QueueBound
    WorkerOwnsRow
PROPERTIES
    TerminalRowsImmutable
    ImplementsLifecycle
CHECK_DEADLOCK FALSE
