CONSTANTS
    Clients = {c1}
    Capacity = 2
    MaxHistory = 2
    MaxClientLead = 2
    FirstInputDelta = 2
    MaxClientDelta = 2
    KickThreshold = 3
    InvalidChecksumScore = 2
    InvalidInputScore = 1
    RateLimitScore = 1
    InvalidHitScore = 1
    Window = 2
    MaxEvents = 2
    BaseBackoff = 1
    MaxBackoff = 2
    BackoffMultiplier = 2
    ClockModulus = 64
    SequenceModulus = 5
    MaxInputs = 3
    MaxSpawns = 2
    MaxClock = 6
    MaxSequence = 2
SPECIFICATION FairSpec
INVARIANTS
    PredictionExact
    PredictionAgrees
    PendingAccounted
    PromptNotSuspected
    AppliedInOrder
PROPERTIES
    PendingResolves
