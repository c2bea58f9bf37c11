\* Two instances, failures and crashes that leave the retries enough.
CONSTANTS
    Trips = {t1}
    Instances = {i1, i2}
    NoWorker = NoWorker
    Zones <- TwoZones
    Slowest = 4
    ClassifyEvery = 1
    MaxRetry = 2
    RetryDelay = 1
    LeaseTicks = 1
    FarAhead = 3
    Horizon = 32
    MaxFaults = 2
    MaxSwaps = 1
SPECIFICATION FairSpec
INVARIANT PollGapBounded
PROPERTIES
    RateLimited
    EveryTripPolled
