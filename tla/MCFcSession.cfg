SPECIFICATION Spec
CONSTANTS
    c1 = c1
    c2 = c2
    r1 = r1
    p1 = p1
    p2 = p2
    b1 = b1
    b2 = b2
    Configures = {c1}
    Resets = {r1}
    Repushes = {p1}
    Builds = {b1, b2}
    NoBuild = NoBuild
    NoFlow = NoFlow
    ShellBound = 2
    NParams = 1
    Hovering = {b1, b2}
    SimOnly = FALSE
INVARIANTS
    ReadyCoherent
    FingerprintHonest
    OriginMatchesBuild
