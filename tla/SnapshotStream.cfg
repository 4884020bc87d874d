CONSTANTS
    Clients = {a, b}
    Listeners = {a}
    Entities = {e1}
    Components = {"Transform", "Health"}
    FullSyncRepeatCount = 2
    MaxValue = 2
    MaxSequence = 3
    Capacity = 2
    InterpolationDelay = 1
    MaxExtrapolation = 1
SPECIFICATION StreamSpec
INVARIANTS
    DeltasSuffice
    NoGhosts
    GuaranteedSync
    BufferSorted
    NewestKept
    SampleBracketed
CHECK_DEADLOCK FALSE
