SPECIFICATION ConfigureSpec
CONSTANTS
    HeaderSizes = {1, 2, 3, 4}
    TileCounts = {0, 1, 2}
    TileSizes = {1, 2}
    MaxFrame = 36
    ConfigureBuilds <- MCConfigureBuilds
    FcAnswers <- MCFcAnswers
    HoverRequired = {5, 45, 90, 124}
INVARIANTS
    NothingInvented
    TilesPlacedOnce
    EstimatesDisclosed
CHECK_DEADLOCK FALSE
