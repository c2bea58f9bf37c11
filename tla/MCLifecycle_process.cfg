\* A process that boots, serves and stops, through a fault or a crash.
CONSTANTS
    Instances = {self}
    Self = self
    Versions <- Three
    Probed = 2
    BuiltOn <- Chain
    Databases <- FirstDatabases
    MaxFaults = 1
    Buffers <- StaleAndEmpty
    Modes = {"serve", "migrate", "seed"}
    AutoMigrate = TRUE
    MaxConns = 2
    MaxSwaps = 2
SPECIFICATION LifecycleSpec
INVARIANTS
    LifecycleTypeOK
    RecordedMeansApplied
    RequestsFollowBoot
    DrainedForGood
PROPERTIES
    ProbeTellsTheTruth
    StopsWhenTold
    ReloadsGetConnection
