\* What a strict search may offer; its keys take one MGET or two.
CONSTANTS
    Callers = {c1}
    ThresholdSetting = 1
    CooldownSetting = 1
    CallTimeout = 1
    k1 = k1
    k2 = k2
    k3 = k3
    SeatKeys <- Keys
    CandidateLists <- MixedLists
    Configured = TRUE
    Strict = TRUE
    MGetChunk = 2
    MaxResults = 1
SPECIFICATION ValidationSpec
INVARIANTS
    StrictOffersConfirmed
PROPERTY ConfirmedTogether
