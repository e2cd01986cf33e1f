\* A board that never arms: what its motor commands say does not touch status,
\* backoff or reconnection, and `MCSimLoop` drives the simulation with both.
SPECIFICATION FairLinkSpec
CONSTANTS
    Stale = 0
    QueueCap = 1
    Boards = {b1}
    Timeout = 1
    BootBackoff = 2
    Delay = 1
    MaxRetry = 1
    RxCap = 1
    Preferred = FALSE
    Arms = FALSE
INVARIANTS
    StatusHonest
PROPERTIES
    BackoffKept
    LinkFollowsBoard
