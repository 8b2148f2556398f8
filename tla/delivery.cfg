SPECIFICATION FairSpec
CONSTANTS
    Workers        = {"w1"}
    Notifications  = {"a1","a2","b1"}
    Providers      = {"a","b"}
    Registered     = {"a","b"}
    ProviderOf    <- MCProviderOf
    BadPayload    <- MCBadPayload
    MaxAttempts    = 2
    BatchSize      = 2
    MaxConcurrency = 2
    Threshold      = 2
    OpenDuration   = 2
    MaxOverdue     = 0
    MaxFaults      = 0
    MaxRestarts    = 1
    BackoffTable  <- MCShortTable
    RateLimitDelay = 1
CHECK_DEADLOCK FALSE
INVARIANTS
    ClaimGated
    ProbeAlive
    NoOrphan
    AcceptedIsFinal
PROPERTIES
    ClaimOnlyDue
    OneProbePerEpisode
    SettledOrOrphaned
    ProbeResolves
