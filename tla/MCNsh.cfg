SPECIFICATION FairSpec
CONSTANTS
    QueueCap = 2
    ReplyTimeout = 2
    TaskTimeout = 3
    UserTimeout = 2
    Guard = 1
    Absent = 1
    Ready = 2
    Latency = 0
    MaxId = 3
INVARIANTS
    NoEchoConfirms
    ReadyUnlessCrossed
PROPERTIES
    EveryCommandAnswered
