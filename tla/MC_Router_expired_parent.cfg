CONSTANTS
    Node <- Node3
    Edges <- Edges3
    InitUp <- Edges3
    Nonces = {1}
    MaxSeq = 2
    MaxInfos = 3
    MaxQueue = 2
    MaxLinkChanges = 0
    MaxRestarts = 0
    MaxExpiries = 1
    MaxRefreshes = 1
SPECIFICATION Spec
PROPERTIES ParentChoiceSound
CHECK_DEADLOCK FALSE
