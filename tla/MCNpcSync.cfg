CONSTANTS
    Observers = {a}
    Npcs = {n1}
    Components = {"Position", "Behavior", "Velocity"}
    Tiers = {"near", "far"}
    Dormant = "dormant"
    MaxInterval = 2
    Interval <- Intervals
    MaxValue = 2
    MaxFlight = 2
SPECIFICATION FairSpec
INVARIANTS
    CleanMeansSent
    ServedSynced
PROPERTY
    Repaired
