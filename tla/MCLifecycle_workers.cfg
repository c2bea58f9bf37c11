\* Tasks that are still running when asynq hears of a signal itself.
CONSTANTS
    Instances = {self}
    Self = self
    Versions <- Three
    Probed = 2
    BuiltOn <- Chain
    Databases <- FirstDatabases
    MaxFaults = 1
    Buffers <- StaleAndEmpty
    Modes = {"serve", "migrate", "seed"}
    AutoMigrate = TRUE
    MaxConns = 2
    MaxSwaps = 1
SPECIFICATION LifecycleSpec
INVARIANT WorkersStopFirst
