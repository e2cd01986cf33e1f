SPECIFICATION FairSpec
CONSTANTS
    a1 = a1
    r1 = r1
    Applies = {a1}
    Restores = {r1}
    NParams = 1
    NFlags = 1
    NoSnapshot = NoSnapshot
    MaxAttempts = 2
INVARIANTS
    OneAtATime
    RestorePointExists
PROPERTIES
    SuccessIsDurable
    EveryRequestEnds
