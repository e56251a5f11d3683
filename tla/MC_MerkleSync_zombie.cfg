\* Two routers on one link, both holding the info of departed router 3,
\* capacity 3 so that it is never evicted: does the info ever disappear?
CONSTANTS
    Node <- Node2
    Edges <- Edge12
    InitUp <- Edge12
    KeyBits = 2
    InitHeld = {3}
    MaxSeq = 1
    MaxInfos = 3
    Timeout = 1
    MaxLinkChanges = 0
    MaxRefreshes = 0
SPECIFICATION FairSpec
PROPERTIES DepartedForgotten
