SPECIFICATION FairGatewaySpec
CONSTANTS
    Window = 1
    MaxCommands = 1
    ResponseCap = 1
    CommandCap = 1
    BroadcastCap = 1
    Origins = {"a", "b"}
    HasBoard = TRUE
    MaxSent = 3
    MaxNews = 2
    MaxConnections = 2
INVARIANTS OriginConverges StatusUnlessCrossed RateBound
PROPERTY AnswersOwed
CHECK_DEADLOCK FALSE
