CONSTANTS
    MaxAttempts = 3
    MaxElapsed = 6
    BaseBackoff = 1
    MaxBackoff = 3
    MaxBytes = 3
    RetryAfters = {0, 2, 5}
    NoRetryAfter = NoRetryAfter
    MaxAttemptTime = 2
    MaxChunk = 2
    MaxBody = 7
CHECK_DEADLOCK FALSE
SPECIFICATION FairSpec
INVARIANTS
    BudgetKept
    BufferBounded
    PayloadOfOneAttempt
PROPERTY
    FetchEnds
