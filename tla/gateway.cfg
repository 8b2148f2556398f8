SPECIFICATION FairSpec
CONSTANTS
    Submissions    = {"h1", "h2"}
    Workers        = {"w1", "w2"}
    Header        <- MCHeader
    Payload       <- MCPayload
    Oversized      = {}
    NoHeader       = NoHeader
    NoJob          = NoJob
    Providers      = {"a"}
    ProviderOf    <- MCProviderOf
    Registered     = {"a"}
    BadPayload     = {}
    MaxAttempts    = 2
    BatchSize      = 1
    MaxConcurrency = 1
    Threshold      = 1
    OpenDuration   = 1
    BackoffTable  <- MCBackoffTable
    RateLimitDelay = 1
    MaxOverdue     = 0
    MaxTroubles    = 1
CHECK_DEADLOCK FALSE
INVARIANTS
    TypeOK
    OneDeliveryPerKey
PROPERTIES
    AnsweredIsDelivered
