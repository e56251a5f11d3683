\* Triangle 1 - 2 - 3: links 1 (1 - 2) and 2 (2 - 3) are up, link 3 (1 - 3)
\* opens later and can reuse the port link 1 frees at node 1. One lookup from
\* 1 for 3, one traffic packet, one keepalive firing, and node 1 may close
\* its PacketConn.
CONSTANTS
    Node = {1, 2, 3}
    Conn = {1, 2, 3}
    Ends <- Ends3
    InitOpen <- Line3
    Origin = 1
    Target = 3
    Shutdowns = {1}
    MaxHops = 2
    MaxQueue = 1
    MaxKeepAlives = 1
    MaxTraffic = 1
SPECIFICATION Spec
INVARIANTS TypeOK RegistryConsistent RoundTrip
CHECK_DEADLOCK FALSE
