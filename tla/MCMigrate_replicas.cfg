\* Two replicas boot on an empty database at once.
CONSTANTS
    Instances = {i1, i2}
    Versions <- Eight
    Probed = 4
    BuiltOn <- FileNeeds
    Databases <- EmptyDatabase
    MaxFaults = 0
SPECIFICATION MigrateSpec
CHECK_DEADLOCK FALSE
INVARIANT RecordedMeansApplied
