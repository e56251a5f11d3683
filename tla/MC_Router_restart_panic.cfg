\* A node restarts and reconnects to its former parent: NoPanic is violated.
CONSTANTS
    Node <- Node2
    Edges <- Edges2
    InitUp <- Edges2
    Nonces = {1, 2}
    MaxSeq = 2
    MaxInfos = 3
    MaxQueue = 2
    MaxLinkChanges = 1
    MaxRestarts = 1
    MaxExpiries = 0
    MaxRefreshes = 1
SPECIFICATION SpecRestart
INVARIANTS NoPanic
CHECK_DEADLOCK FALSE
