SPECIFICATION Spec
CONSTANTS
    Sends = {"first", "second"}
    Sinks = {"mail", "pdf", "empty"}
    Plans <- Mixed
    Kind <- MCKind
    Batch <- MCBatch
    Items = {"one", "two"}
    Retries = 1
    Horizon = 3
    DayOf <- TwoDays
    Ttl = 2
    Weathers <- AllWeathers
CHECK_DEADLOCK FALSE
INVARIANTS
    TypeOK
    OncePerDay
    OneAttempt
    RetryRuns
    SkippedForDelivery
