-------------------------------- MODULE Peers --------------------------------
(***************************************************************************)
(* The legacy peer layer of ironwood (src/network/peers.go): the peers     *)
(* registry, which hands every connection a port, and the per-connection  *)
(* peer (handler read loop, keepalive timer, writes) with the three        *)
(* source-routed packet kinds, path lookups, path responses and path      *)
(* traffic, that find their way by those ports.                            *)
(*                                                                         *)
(* A connection has two ends, one at each node; the end <<c, i>> is the   *)
(* peer struct that node Ends[c][i] holds for connection c.  One path     *)
(* lookup is followed from Origin towards Target, its response back, and  *)
(* the path traffic the origin then sends with the path it learned.  The  *)
(* pathfinder that starts lookups and answers them is not in src: it is   *)
(* modelled from the spec (section 1) and the port bookkeeping of         *)
(* peers.go that it relies on.                                             *)
(***************************************************************************)
EXTENDS Integers, FiniteSets, Sequences, SequencesExt, FiniteSetsExt

CONSTANTS
    Node,          \* the node keys
    Conn,          \* the connections that may be opened, each at most once
    Ends,          \* Ends[c]: the two nodes connection c joins
    InitOpen,      \* the connections open, with both handlers running, at start
    Origin,        \* the node whose pathfinder looks up Target
    Target,
    Shutdowns,     \* the nodes whose PacketConn may be closed
    MaxHops,       \* bound on the nodes a lookup visits
    MaxQueue,      \* bound on the frames in flight on one direction of a connection
    MaxKeepAlives, \* bound on keepalive timer firings
    MaxTraffic     \* bound on the path traffic packets the origin sends

ASSUME /\ Node \subseteq Nat \ {0}
       /\ \A c \in Conn : Ends[c] \in Node \X Node /\ Ends[c][1] # Ends[c][2]
       /\ InitOpen \subseteq Conn
       /\ {Origin, Target} \subseteq Node /\ Origin # Target

None == 0

VARIABLES
    connSt,     \* connSt[c]: "new", "open" or "closed" (the net.Conn)
    st,         \* st[e]: the life of peer e: "none", "added", "running", "exited",
                \*   "removed", or "refused" when addPeer failed
    port,       \* port[e]: p.port (0 before addPeer)
    reg,        \* reg[n]: ps.peers of node n, port -> end
    ka,         \* ka[e]: p.keepAlive has been set by the handler
    treeDue,    \* treeDue[e]: the handler's initial sendTree is still queued
    timer,      \* timer[e]: p.timer: "idle", or armed with "ka" or with a nil func
    wire,       \* wire[e]: the frames e wrote that the other end has not read
    closed,     \* the nodes whose PacketConn is closed
    crashed,    \* the nodes whose process panicked
    kaFired,    \* keepalive timer firings so far
    route,      \* history: the nodes the lookup visited, Origin first
    routeConns, \* history: the connections the lookup crossed
    respAt,     \* the node whose pathfinder received the response (None before)
    cachedPath, \* the origin pathfinder's path to Target, learned from the response
    trafAt,     \* the node where the last path traffic fell back to the DHT
    trafSent    \* path traffic packets sent so far

vars == <<connSt, st, port, reg, ka, treeDue, timer, wire, closed, crashed,
          kaFired, route, routeConns, respAt, cachedPath, trafAt, trafSent>>

End == Conn \X {1, 2}
NodeOf(e) == Ends[e[1]][e[2]]
Other(e) == <<e[1], 3 - e[2]>>
Port == 1..Cardinality(Conn)

\* The states in which an end is in ps.peers
Registered == {"added", "running", "exited"}

Frame == [kind : {"dummy", "tree", "lookup", "response", "traffic"},
          path : Seq(Port), rpath : Seq(Port)]

-----------------------------------------------------------------------------
(* The peers registry.                                                     *)

\* Fault: the free-port search starts at 0 instead of skipping it.
FreePortFromZero(n) == Min({p \in 0..Cardinality(Conn) + 1 : p \notin DOMAIN reg[n]})

\* peers.addPeer: the lowest port from 1 that is not in ps.peers
FreePort(n) == Min({p \in Port \cup {Cardinality(Conn) + 1} : p \notin DOMAIN reg[n]})

\* The peer ps.peers[p] of node n, as a set of at most one end
PeerAt(n, p) == {reg[n][q] : q \in DOMAIN reg[n] \cap {p}}

-----------------------------------------------------------------------------
(* Writes.                                                                 *)

\* p._sendProto and p._write: the frame goes out on e's connection (lost
\* if the connection is closed), and p.timer is re-armed with
\* p.keepAlive, which is still nil before the handler has set it.
Emit(w, e, f) ==
    /\ connSt[e[1]] = "open" => Len(w[e]) < MaxQueue
    /\ wire' = IF connSt[e[1]] = "open" THEN [w EXCEPT ![e] = Append(@, f)] ELSE w
    /\ timer' = [timer EXCEPT ![e] = IF ka[e] THEN "ka" ELSE "nil"]

NoEmit(w) == wire' = w /\ UNCHANGED timer

\* Fault: the route is read from its far end.
NextPortLast(path) == IF path # <<>> THEN path[Len(path)] ELSE 0

\* Pop the next port off a source route: nextPort is 0 when the path is
\* empty (handlePathResponse, handlePathTraffic).
NextPort(path) == IF path # <<>> THEN Head(path) ELSE 0
RestPath(path) == IF path # <<>> THEN Tail(path) ELSE <<>>

peerVars == <<connSt, st, port, reg, ka, treeDue, closed, crashed, kaFired>>
pathVars == <<route, routeConns, respAt, cachedPath, trafAt, trafSent>>

-----------------------------------------------------------------------------
(* Source routing.                                                         *)

\* The origin pathfinder takes the response's reverse path as its path to
\* the target (pathfinder, not in src).
LearnPath(n, f) ==
    /\ respAt' = n
    /\ cachedPath' = IF n = Origin THEN Reverse(f.rpath) ELSE cachedPath

\* ps.handlePathResponse at node n: forward to the peer at the next port,
\* or hand the response to the local pathfinder.
PathResponse(n, f, w) ==
    LET next == PeerAt(n, NextPort(f.path))
    IN IF next # {}
       THEN /\ \E g \in next : Emit(w, g, [f EXCEPT !.path = RestPath(@)])
            /\ UNCHANGED <<respAt, cachedPath>>
       ELSE NoEmit(w) /\ LearnPath(n, f)

\* ps.handlePathTraffic at node n: forward to the peer at the next port,
\* or fall back to the DHT (dhtree.handleDHTTraffic).
PathTraffic(n, f, w) ==
    LET next == PeerAt(n, NextPort(f.path))
    IN IF next # {}
       THEN /\ \E g \in next : Emit(w, g, [f EXCEPT !.path = RestPath(@)])
            /\ UNCHANGED trafAt
       ELSE NoEmit(w) /\ trafAt' = n

\* Fault: the port appended is the sender's port of the link.
AddSenderPort(e, f) == [f EXCEPT !.rpath = Append(@, port[Other(e)])]

\* handlePathLookup and handlePathResponse append p.port, the port under
\* which the receiving node knows the link the frame came in on.
AddReturnPort(e, f) == [f EXCEPT !.rpath = Append(@, port[e])]

-----------------------------------------------------------------------------
(* The handler's read loop: one frame read and dispatched by handlePacket. *)

\* e's handler reads the next frame its peer wrote
Arrived(e) == st[e] = "running" /\ wire[Other(e)] # <<>>
Frm(e) == Head(wire[Other(e)])
Popped(e) == [wire EXCEPT ![Other(e)] = Tail(@)]

\* wireDummy and wireProtoTree frames: nothing the source routes depend on
ReadDummy(e) ==
    /\ Arrived(e)
    /\ Frm(e).kind \in {"dummy", "tree"}
    /\ wire' = Popped(e)
    /\ UNCHANGED <<peerVars, pathVars, timer>>

\* handlePathLookup appends p.port to the lookup's reverse path; the
\* pathfinder then answers it at the target (the response starts back on
\* the reverse path) or passes it on to one of its peers.
ReadLookup(e) ==
    /\ Arrived(e)
    /\ Frm(e).kind = "lookup"
    /\ LET n == NodeOf(e)
           f == AddReturnPort(e, Frm(e))
       IN /\ route' = Append(route, n)
          /\ IF n = Target
             THEN /\ PathResponse(n, [kind |-> "response", path |-> Reverse(f.rpath),
                                      rpath |-> <<>>], Popped(e))
                  /\ UNCHANGED routeConns
             ELSE /\ \/ \E g \in End :
                          /\ NodeOf(g) = n /\ st[g] = "running"
                          /\ Len(route) < MaxHops
                          /\ Emit(Popped(e), g, f)
                          /\ routeConns' = routeConns \cup {g[1]}
                     \/ NoEmit(Popped(e)) /\ UNCHANGED routeConns
                  /\ UNCHANGED <<respAt, cachedPath>>
    /\ UNCHANGED <<peerVars, trafAt, trafSent>>

\* handlePathResponse appends p.port, then ps.handlePathResponse
ReadResponse(e) ==
    /\ Arrived(e)
    /\ Frm(e).kind = "response"
    /\ LET n == NodeOf(e)
       IN PathResponse(n, AddReturnPort(e, Frm(e)), Popped(e))
    /\ UNCHANGED <<peerVars, route, routeConns, trafAt, trafSent>>

\* handlePathTraffic, then ps.handlePathTraffic
ReadTraffic(e) ==
    /\ Arrived(e)
    /\ Frm(e).kind = "traffic"
    /\ PathTraffic(NodeOf(e), Frm(e), Popped(e))
    /\ UNCHANGED <<peerVars, route, routeConns, respAt, cachedPath, trafSent>>

-----------------------------------------------------------------------------
(* The origin's pathfinder.                                                *)

\* The origin sends a path lookup for Target to one of its peers
StartLookup(g) ==
    /\ route = <<>>
    /\ NodeOf(g) = Origin /\ st[g] = "running"
    /\ Emit(wire, g, [kind |-> "lookup", path |-> <<>>, rpath |-> <<>>])
    /\ route' = <<Origin>>
    /\ routeConns' = {g[1]}
    /\ UNCHANGED <<peerVars, respAt, cachedPath, trafAt, trafSent>>

\* The origin sends path traffic for Target on the path it learned,
\* through its own ps.handlePathTraffic
SendTraffic ==
    /\ respAt = Origin
    /\ trafSent < MaxTraffic
    /\ ~\E g \in End : \E i \in 1..Len(wire[g]) : wire[g][i].kind = "traffic"
    /\ PathTraffic(Origin, [kind |-> "traffic", path |-> cachedPath, rpath |-> <<>>], wire)
    /\ trafSent' = trafSent + 1
    /\ UNCHANGED <<peerVars, route, routeConns, respAt, cachedPath>>

-----------------------------------------------------------------------------
(* Connections and the life of a peer.                                     *)

\* A connection is established (pconn, not in src)
OpenConn(c) ==
    /\ connSt[c] = "new"
    /\ connSt' = [connSt EXCEPT ![c] = "open"]
    /\ UNCHANGED <<st, port, reg, ka, treeDue, timer, wire, closed, crashed, kaFired, pathVars>>

\* A connection fails or its read deadline (peerTIMEOUT) passes: the frames
\* in flight are lost and both handlers' reads fail.
CloseConn(c) ==
    /\ connSt[c] = "open"
    /\ connSt' = [connSt EXCEPT ![c] = "closed"]
    /\ wire' = [e \in End |-> IF e[1] = c THEN <<>> ELSE wire[e]]
    /\ UNCHANGED <<st, port, reg, ka, treeDue, timer, closed, crashed, kaFired, pathVars>>

\* peers.addPeer for end e: refused once the node's PacketConn is closed;
\* otherwise the peer gets the lowest free port and a no-op timer.
AddPeer(e) ==
    /\ st[e] = "none"
    /\ connSt[e[1]] # "new"
    /\ LET n == NodeOf(e) IN
       IF n \in closed
       THEN /\ st' = [st EXCEPT ![e] = "refused"]
            /\ UNCHANGED <<port, reg, timer>>
       ELSE /\ port' = [port EXCEPT ![e] = FreePort(n)]
            /\ reg' = [reg EXCEPT ![n] = (FreePort(n) :> e) @@ @]
            /\ st' = [st EXCEPT ![e] = "added"]
            /\ timer' = [timer EXCEPT ![e] = "idle"]
    /\ UNCHANGED <<connSt, ka, treeDue, wire, closed, crashed, kaFired, pathVars>>

\* The goroutine running p.handler starts: it sets p.keepAlive and asks
\* the dhtree to send its tree info to the peer.
HandlerStart(e) ==
    /\ st[e] = "added"
    /\ st' = [st EXCEPT ![e] = "running"]
    /\ ka' = [ka EXCEPT ![e] = TRUE]
    /\ treeDue' = [treeDue EXCEPT ![e] = TRUE]
    /\ UNCHANGED <<connSt, port, reg, timer, wire, closed, crashed, kaFired, pathVars>>

\* The dhtree, peers and peer actors pass the tree info on: p.sendTree
SendTree(e) ==
    /\ treeDue[e]
    /\ treeDue' = [treeDue EXCEPT ![e] = FALSE]
    /\ Emit(wire, e, [kind |-> "tree", path |-> <<>>, rpath |-> <<>>])
    /\ UNCHANGED <<connSt, st, port, reg, ka, closed, crashed, kaFired, pathVars>>

\* A read fails on the closed connection: the handler returns and closes
\* done, which makes the keepalive a no-op.
HandlerExit(e) ==
    /\ st[e] = "running"
    /\ connSt[e[1]] = "closed"
    /\ st' = [st EXCEPT ![e] = "exited"]
    /\ UNCHANGED <<connSt, port, reg, ka, treeDue, timer, wire, closed, crashed, kaFired, pathVars>>

\* Fault: removePeer leaves the port in ps.peers.
RemovePeerKeep(e) ==
    /\ st[e] = "exited"
    /\ st' = [st EXCEPT ![e] = "removed"]
    /\ UNCHANGED <<connSt, port, reg, ka, treeDue, timer, wire, closed, crashed, kaFired, pathVars>>

\* peers.removePeer(p.port) once the handler has returned (called by
\* pconn, not in src): delete the port, or report "peer not found".
RemovePeer(e) ==
    /\ st[e] = "exited"
    /\ st' = [st EXCEPT ![e] = "removed"]
    /\ LET n == NodeOf(e) IN
       reg' = [reg EXCEPT ![n] = [p \in DOMAIN @ \ {port[e]} |-> @[p]]]
    /\ UNCHANGED <<connSt, port, ka, treeDue, timer, wire, closed, crashed, kaFired, pathVars>>

\* p.timer fires with p.keepAlive: a no-op once done is closed, otherwise
\* a dummy frame is written (which re-arms the timer).
KeepAliveFire(e) ==
    /\ timer[e] = "ka"
    /\ kaFired < MaxKeepAlives
    /\ kaFired' = kaFired + 1
    /\ IF st[e] \in {"exited", "removed"}
       THEN /\ timer' = [timer EXCEPT ![e] = "idle"]
            /\ UNCHANGED wire
       ELSE Emit(wire, e, [kind |-> "dummy", path |-> <<>>, rpath |-> <<>>])
    /\ UNCHANGED <<connSt, st, port, reg, ka, treeDue, closed, crashed, pathVars>>

\* p.timer fires with the nil func a write armed before the handler set
\* p.keepAlive: the runtime panics and the process dies.
NilFire(e) ==
    /\ timer[e] = "nil"
    /\ crashed' = crashed \cup {NodeOf(e)}
    /\ timer' = [timer EXCEPT ![e] = "idle"]
    /\ UNCHANGED <<connSt, st, port, reg, ka, treeDue, wire, closed, kaFired, pathVars>>

\* The node's PacketConn is closed (pconn.Close, not in src)
Shutdown(n) ==
    /\ n \in Shutdowns \ closed
    /\ closed' = closed \cup {n}
    /\ UNCHANGED <<connSt, st, port, reg, ka, treeDue, timer, wire, crashed, kaFired, pathVars>>

-----------------------------------------------------------------------------

InitEnds(n) == {e \in End : e[1] \in InitOpen /\ NodeOf(e) = n}

\* The connections of InitOpen are open, both their peers added (in some
\* order, so with ports 1..k at each node) and running, their tree infos
\* exchanged.
Init ==
    /\ connSt = [c \in Conn |-> IF c \in InitOpen THEN "open" ELSE "new"]
    /\ st = [e \in End |-> IF e[1] \in InitOpen THEN "running" ELSE "none"]
    /\ \E pf \in [End -> 0..Cardinality(Conn)] :
         /\ \A e \in End : e[1] \notin InitOpen => pf[e] = 0
         /\ \A n \in Node : {pf[e] : e \in InitEnds(n)} = 1..Cardinality(InitEnds(n))
         /\ port = pf
         /\ reg = [n \in Node |-> [p \in 1..Cardinality(InitEnds(n)) |->
                                     CHOOSE e \in InitEnds(n) : pf[e] = p]]
    /\ ka = [e \in End |-> e[1] \in InitOpen]
    /\ treeDue = [e \in End |-> FALSE]
    /\ timer = [e \in End |-> IF e[1] \in InitOpen THEN "ka" ELSE "idle"]
    /\ wire = [e \in End |-> <<>>]
    /\ closed = {}
    /\ crashed = {}
    /\ kaFired = 0
    /\ route = <<>>
    /\ routeConns = {}
    /\ respAt = None
    /\ cachedPath = <<>>
    /\ trafAt = None
    /\ trafSent = 0

\* A panic ends the process, and the model with it.
Alive == crashed = {}

Next ==
    \/ \E c \in Conn : Alive /\ OpenConn(c)
    \/ \E c \in Conn : Alive /\ CloseConn(c)
    \/ \E e \in End : Alive /\ AddPeer(e)
    \/ \E e \in End : Alive /\ HandlerStart(e)
    \/ \E e \in End : Alive /\ SendTree(e)
    \/ \E e \in End : Alive /\ HandlerExit(e)
    \/ \E e \in End : Alive /\ RemovePeer(e)
    \/ \E e \in End : Alive /\ KeepAliveFire(e)
    \/ \E e \in End : Alive /\ NilFire(e)
    \/ \E e \in End : Alive /\ ReadDummy(e)
    \/ \E e \in End : Alive /\ ReadLookup(e)
    \/ \E e \in End : Alive /\ ReadResponse(e)
    \/ \E e \in End : Alive /\ ReadTraffic(e)
    \/ \E e \in End : Alive /\ StartLookup(e)
    \/ Alive /\ SendTraffic
    \/ \E n \in Node : Alive /\ Shutdown(n)

Spec == Init /\ [][Next]_vars

-----------------------------------------------------------------------------
(* Properties.                                                             *)

TypeOK ==
    /\ connSt \in [Conn -> {"new", "open", "closed"}]
    /\ st \in [End -> {"none", "added", "running", "exited", "removed", "refused"}]
    /\ port \in [End -> 0..Cardinality(Conn)]
    /\ \A n \in Node : DOMAIN reg[n] \subseteq Port /\ \A p \in DOMAIN reg[n] : reg[n][p] \in End
    /\ timer \in [End -> {"idle", "ka", "nil"}]
    /\ \A e \in End : wire[e] \in Seq(Frame) /\ Len(wire[e]) <= MaxQueue
    /\ closed \subseteq Shutdowns /\ crashed \subseteq Node
    /\ respAt \in Node \cup {None} /\ trafAt \in Node \cup {None}

\* After any sequence of addPeer and removePeer calls, ps.peers maps the
\* port of every peer that has been added and not yet removed to that
\* peer, and to no other: a port names exactly one live link (the free
\* port search of addPeer, lines 42-49, and removePeer, lines 61-71).
RegistryConsistent ==
    \A e \in End :
        st[e] \in Registered <=>
            port[e] \in DOMAIN reg[NodeOf(e)] /\ reg[NodeOf(e)][port[e]] = e

\* The lookup's route is broken once a connection it crossed has closed.
Broken == \E c \in routeConns : connSt[c] = "closed"

\* While every connection the lookup crossed stays up, the ports
\* handlePathLookup collected lead the response back, by
\* handlePathResponse, to the origin's pathfinder and nowhere else, and the
\* path the origin learns from it leads its path traffic, by
\* handlePathTraffic, to the target (where it falls back to the DHT).
RoundTrip ==
    ~Broken => /\ respAt \in {None, Origin}
               /\ trafAt \in {None, Target}

\* No timer of a peer ever fires with a nil callback (p._write arms
\* p.timer with p.keepAlive, line 88, which the handler sets at line 99).
NoNilKeepAlive == crashed = {}

=============================================================================
