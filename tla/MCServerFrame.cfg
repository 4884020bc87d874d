CONSTANTS
    c1 = c1
    c2 = c2
    Clients = {c1, c2}
    KickThreshold = 20
    LimitedScore = 4
    RegisteredScore = 5
    DigestScore = 20
    HitScores = {4, 5}
    Residents = {c2}
    Budgets <- MCBudgets
SPECIFICATION FairSpec
INVARIANTS
    HaltsExplained
    DepartureTold
    NoOrphanPackets
    KickEarned
PROPERTIES
    AttachedEventually
    KickedInFrame
    HeardInRound
CHECK_DEADLOCK FALSE
