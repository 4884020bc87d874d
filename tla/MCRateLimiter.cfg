CONSTANTS
    Window = 3
    MaxEvents = 2
    BaseBackoff = 1
    MaxBackoff = 3
    BackoffMultiplier = 2
    ClockModulus = 64
    Start = 57
    MaxElapsed = 14
    MaxStrikes = 6
SPECIFICATION Spec
INVARIANTS
    WindowLimit
CHECK_DEADLOCK FALSE
