\* Pollers, a seeder and a trimming stream against the syncer, through a
\* fault and a crash, then quiet.
CONSTANTS
    t1 = t1
    t2 = t2
    m1 = m1
    m2 = m2
    NoHash = NoHash
    NoTrip = NoTrip
    Trips <- TwoTrips
    SeatMaps <- TwoMaps
    StreamCap = 1
    OldEntries <- UsedStream
    MaxEntries = 3
    MGetChunk = 1
    StreamBatch = 2
    ColdStartAttempts = 2
    SnapshotMayFail = FALSE
    MaxFaults = 1
    MaxRestarts = 1
SPECIFICATION FairSpec
CHECK_DEADLOCK FALSE
INVARIANTS
    TypeOK
    NoDeltaLost
PROPERTIES
    ResyncIsThrottled
    CursorSkipsNothing
    BufferConverges
    LagIsRepaired
    ImplementsMirror
