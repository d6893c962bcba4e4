SPECIFICATION FairSpec
CONSTANTS
    c1 = c1
    c2 = c2
    c3 = c3
    Callers = {c1, c2, c3}
    Concurrency = 2
    MaxRetries = 1
    MaxCalls = 1
INVARIANTS
    SlotsConserved
    UnavailableAfterAllAttempts
    ProviderWasAsked
PROPERTY CallsEnd
CHECK_DEADLOCK FALSE
