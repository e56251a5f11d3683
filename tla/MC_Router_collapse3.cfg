\* 3 nodes on a line, all links up, one link change, fair scheduling:
\* the tree converges.
CONSTANTS
    Node <- Node3
    Edges <- Edges3
    InitUp <- Edges3
    Nonces = {1}
    MaxSeq = 4
    MaxInfos = 3
    MaxQueue = 2
    MaxLinkChanges = 1
    MaxRestarts = 0
    MaxExpiries = 0
    MaxRefreshes = 0
SPECIFICATION FairSpec
PROPERTIES TreeConverges
CHECK_DEADLOCK FALSE
