\* After a round trip over link 1 - 2 that link closes, and the new link 1 - 3 gets its port before its handler runs.
CONSTANTS
    Node = {1, 2, 3}
    Conn = {1, 2}
    Ends <- Ends2
    InitOpen = {1}
    Origin = 1
    Target = 2
    Shutdowns = {}
    MaxHops = 2
    MaxQueue = 2
    MaxKeepAlives = 0
    MaxTraffic = 1
SPECIFICATION Spec
INVARIANTS NoNilKeepAlive
CHECK_DEADLOCK FALSE
