\* A resync that fails after it has moved the cursor.
CONSTANTS
    t1 = t1
    t2 = t2
    m1 = m1
    m2 = m2
    NoHash = NoHash
    NoTrip = NoTrip
    Trips <- TwoTrips
    SeatMaps <- TwoMaps
    StreamCap = 1
    OldEntries <- UsedStream
    MaxEntries = 3
    MGetChunk = 1
    StreamBatch = 2
    ColdStartAttempts = 2
    SnapshotMayFail = TRUE
    MaxFaults = 1
    MaxRestarts = 0
SPECIFICATION FairSpec
CHECK_DEADLOCK FALSE
PROPERTY LagIsRepaired
