SPECIFICATION FairTerrainSpec
CONSTANTS
    Size = 6
    Sites = {19, 20, 55}
    Grain = 10
    Tolerance = 1
    MaxResident = 4
    Reach = 4
    Radius = 1
    BackoffAfter = 1
    BrowserZoom = 2
    Strays <- MCStrays
    MaxBuilds = 2
    MaxEvents = 1
INVARIANTS
    AnchoredUnlessRaced
PROPERTIES
    RingFills
