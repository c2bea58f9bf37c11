\* An outage that exhausts the retries of a task.
CONSTANTS
    Trips = {t1}
    Instances = {i1}
    NoWorker = NoWorker
    Zones <- OneZone
    Slowest = 2
    ClassifyEvery = 1
    MaxRetry = 2
    RetryDelay = 1
    LeaseTicks = 1
    FarAhead = 0
    Horizon = 0
    MaxFaults = 3
    MaxSwaps = 0
SPECIFICATION FairSpec
PROPERTY EveryTripPolled
