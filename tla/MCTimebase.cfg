\* The threshold of the clock is no multiple of its step, the cap is the derived
\* one, and it reaches the end of its type.  The reports are of a coarse step.
SPECIFICATION MCSpec
CONSTANTS
    StepUs = 2
    GapThresholdUs = 7
    MaxCatchupSteps = 3
    Top = 32
    MaxCount = 2
    MaxWall = 32
    Publish = 1
    Window = 2
    MinFinal = 1
    WarnInterval = 4
    Heartbeat = 5
    MinInterval = 4
    Settled = 3
    Coarse = TRUE
    MaxStall = 2
    MaxGaps = 2
INVARIANTS
    LossLedger
    LogNeverUnderstates
    StaleBound
    SnapshotConsistent
PROPERTIES
    StampsAdvance
    AnnouncementSettles
    NeverCleared
CHECK_DEADLOCK FALSE
