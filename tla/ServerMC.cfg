SPECIFICATION ServerSpec
CONSTANTS
    Editions = {1, 2}
    Sampled = {"company_metadata", "company_embeddings", "failure_cases", "benchmarks"}
    Rejected <- EmptyCompany
    MaxBytes = 2
    MaxChunk = 3
    Models = {1, 2}
INVARIANTS
    StaleOnlyIfUnsampled
    RefusedForCause
    BufferBounded
    AppGetsWholeBody
    RefusedOnlyIfTooLarge
    AnsweredOnceWithItsId
    ReadinessPredicts
    AcceptsVerifiedModelOnly
CHECK_DEADLOCK FALSE
