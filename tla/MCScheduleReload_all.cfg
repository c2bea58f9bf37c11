\* Ingests, the seeder, lost notifications, a failed query and a crash, until everything is quiet.
CONSTANTS
    Ingesters = {i1, i2}
    Overlap = FALSE
    ReloadMayFail = TRUE
    WalksMayFail = TRUE
    SeederRuns = TRUE
    MaxWrites = 3
    MaxFaults = 1
    MaxRestarts = 1
SPECIFICATION FairSpec
CHECK_DEADLOCK FALSE
INVARIANTS
    TypeOK
    StaleIsPending
PROPERTY CatchesUpOrMissed
