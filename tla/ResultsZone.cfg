SPECIFICATION ResultsSpec
CONSTANTS
    Steps <- GridSteps
    Inputs <- GridInputs
    Tables <- GridTables
    Corpora <- GridCorpora
    LowRunwayMonths = 6
    MaxTopK = 5
    Significand = 65536
    Spacings = {1, 2, 4, 8, 16, 32}
    Ids = {1, 2, 3, 4, 5}
    Zones <- SessionZones
    PageLimit = 2
    LastTime = 2
    MaxPages = 4
INVARIANT OrderRetained
CHECK_DEADLOCK FALSE
