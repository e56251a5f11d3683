\* 3 nodes on a line, link 2-3 initially down, one link change, one expiry
\* and one refresh: no panic, the store stays within capacity, and
\* _keyLookup picks the closest key of every store reached.
CONSTANTS
    Node <- Node3
    Edges <- Edges3
    InitUp <- Up12
    Nonces = {1}
    MaxSeq = 4
    MaxInfos = 2
    MaxQueue = 2
    MaxLinkChanges = 1
    MaxRestarts = 0
    MaxExpiries = 1
    MaxRefreshes = 1
SPECIFICATION Spec
INVARIANTS TypeOK NoPanic CapacityBound LookupIsClosest
CHECK_DEADLOCK FALSE
