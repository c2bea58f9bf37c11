\* Two searches over the shared breaker, Redis failing and recovering.
CONSTANTS
    Callers = {c1, c2}
    ThresholdSetting = 2
    CooldownSetting = 2
    CallTimeout = 5
    k1 = k1
    k2 = k2
    k3 = k3
    SeatKeys <- OneKey
    CandidateLists <- DirectList
    Configured = TRUE
    Strict = FALSE
    MGetChunk = 1
    MaxResults = 0
SPECIFICATION FairValidationSpec
INVARIANTS
    ValidationTypeOK
    HalfOpenAwaitsProbe
    OpenCallsOlder
    ProbesSpaced
    FailuresBounded
    AdmissionHeldWhileFetching
PROPERTIES
    UsesBreaker
    SearchesAnswered
    BreakerRecovers
