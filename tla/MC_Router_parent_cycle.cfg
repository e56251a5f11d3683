\* The triangle loses its 1-3 link: nodes 2 and 3 adopt each other from stale views.
CONSTANTS
    Node <- Node3
    Edges <- Tri3
    InitUp <- Tri3
    Nonces = {1}
    MaxSeq = 4
    MaxInfos = 3
    MaxQueue = 2
    MaxLinkChanges = 2
    MaxRestarts = 0
    MaxExpiries = 0
    MaxRefreshes = 0
SPECIFICATION Spec
INVARIANTS ParentsAcyclic
CHECK_DEADLOCK FALSE
