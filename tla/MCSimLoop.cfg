SPECIFICATION LoopSpec
CONSTANTS
    Stale = 1
    QueueCap = 1
    Budget = 2
    MaxLost = 1
    Impact = 3
    Slot = 3
    ErrorAt = 2
    MavCap = 1
INVARIANTS
    StallGuard
    ImpactFelt
    EmissionHonest
    SlotsKept
