SPECIFICATION FairOutboundSpec
CONSTANTS
    SimCap = 1
    BridgeCap = 1
    PortCap = 1
    MaxFrames = 2
    MaxLinks = 2
    MaxQgc = 1
INVARIANTS
    LossNamed
PROPERTIES
    TornDown
    ThreadsEnd
CHECK_DEADLOCK FALSE
