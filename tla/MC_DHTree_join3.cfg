\* Three nodes on a line 1-2-3; link 2-3 comes up, and may go down again,
\* while 1 and 2 are already connected.  Two ticks of treeANNOUNCE, so
\* every root refreshes its seq once.
CONSTANTS
    Node <- Node3
    Edges <- Line3
    InitUp <- Edge12
    Flaky <- Edge23
    Timeout = 2
    MaxTime = 2
    MaxLinkChanges = 2
SPECIFICATION FairSpec
INVARIANTS TypeOK NoPanic FramesAccepted SelfFromParent
PROPERTIES TreeConverges
CHECK_DEADLOCK FALSE
