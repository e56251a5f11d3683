\* Two routers on one link that closes and reopens, infos of departed
\* routers 0 and 3 held at the start, capacity 2 of 4 keys, one refresh.
CONSTANTS
    Node <- Node2
    Edges <- Edge12
    InitUp <- Edge12
    KeyBits = 2
    InitHeld = {0, 3}
    MaxSeq = 2
    MaxInfos = 2
    Timeout = 1
    MaxLinkChanges = 2
    MaxRefreshes = 1
SPECIFICATION Spec
INVARIANTS TypeOK NoPanic AgreeWhenQuiet ExpiryNotEarly
PROPERTIES RefinesStore
