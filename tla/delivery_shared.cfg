SPECIFICATION Spec
CONSTANTS
    Workers        = {"w1","w2"}
    Notifications  = {"a1","bad1","x1"}
    Providers      = {"a","x"}
    Registered     = {"a"}
    ProviderOf    <- MCProviderOf
    BadPayload    <- MCBadPayload
    MaxAttempts    = 2
    BatchSize      = 2
    MaxConcurrency = 1
    Threshold      = 2
    OpenDuration   = 1
    MaxOverdue     = 0
    MaxFaults      = 1
    MaxRestarts    = 1
    BackoffTable  <- MCBackoffTable
    RateLimitDelay = 2
CHECK_DEADLOCK FALSE
INVARIANTS
    TypeOK
    RetryBudget
    OneDispatcher
PROPERTIES
    TerminalStable
    ImplementsOutbox
