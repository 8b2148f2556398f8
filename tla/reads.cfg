SPECIFICATION Spec
CONSTANTS
    Rows        = {1, 2, 3}
    HourOf     <- MCHourOf
    VendorOf   <- MCVendorOf
    Filters    <- MCFilters
    Limit       = 1
    TrendHours  = 2
    Latencies   = {1, 2, 5}
    Buckets    <- MCBuckets
    Percent     = 50
    LastHour    = 1
    MaxObserved = 3
CHECK_DEADLOCK FALSE
INVARIANTS
    TypeOK
    PageIsFull
    WalkMissesNothing
    NoRowVanishes
    TrendCoversRate
    PercentileInBucket
