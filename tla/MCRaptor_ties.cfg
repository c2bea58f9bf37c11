\* Searches on routes where two trips leave a stop at one time.
CONSTANTS
    Stations <- Four
    MaxWalkSeconds = 4
    MaxFootpathsPerStation = 2
    Never = Never
    Timetables <- Loaded
    NewTimetables <- OneTrip
    SignalMaps <- Signals
    Queries <- FromOneToFour
    MaxRounds = 3
    TransferSeconds = 1
    WindowDays = 1
    TopK = 2
    MaxSwaps = 0
SPECIFICATION Spec
CHECK_DEADLOCK FALSE
INVARIANT FrontierIsOptimal
