\* b is a board of a known vendor, o one of another vendor with a pair of nodes, and
\* t a device that is excluded by its name.
\* Headers are two and four bytes long.
SPECIFICATION FairSpec
CONSTANTS
    Devices = {b, o, t}
    Usb = {b, o, t}
    Known = {b}
    Boots = {b, o}
    Excluded = {t}
    Paired = {o}
    V1Id = 1
    V2Id = 2
    V2End = 3
    ChunkMax = 2
    Above = 3
    Keep = 3
    MaxBytes = 5
INVARIANTS
    HeaderNeverMissed
PROPERTIES
    SearchEnds
