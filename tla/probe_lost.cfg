SPECIFICATION FairSpec
CONSTANTS
    Workers        = {"w1"}
    Notifications  = {"a1"}
    Providers      = {"a"}
    Registered     = {"a"}
    ProviderOf    <- MCProviderOf
    BadPayload    <- MCBadPayload
    MaxAttempts    = 3
    BatchSize      = 1
    MaxConcurrency = 1
    Threshold      = 1
    OpenDuration   = 1
    MaxOverdue     = 0
    MaxFaults      = 1
    MaxRestarts    = 0
    BackoffTable  <- MCShortTable
    RateLimitDelay = 1
CHECK_DEADLOCK FALSE
PROPERTY ProbeResolves
