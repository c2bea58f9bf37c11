\* One search while buffers are swapped.
CONSTANTS
    Stations <- Four
    MaxWalkSeconds = 4
    MaxFootpathsPerStation = 2
    Never = Never
    Timetables <- Loaded
    NewTimetables <- OneTrip
    SignalMaps <- Signals
    Queries <- FromOneToFour
    MaxRounds = 3
    TransferSeconds = 1
    WindowDays = 1
    TopK = 2
    MaxSwaps = 1
SPECIFICATION Spec
CHECK_DEADLOCK FALSE
INVARIANTS
    TypeOK
    LabelsJustified
    OptimalWithoutTies
    JourneysTravelable
    FIFOMeansNoOvertaking
    FootpathsClosed
