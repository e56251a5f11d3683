------------------------------ MODULE Forwarder ------------------------------
(***************************************************************************)
(* Greedy tree-distance forwarding of ironwood's router                    *)
(* (src/unnamed/part_000, lines 667-822): handleTraffic, _lookup with its  *)
(* watermark, _getDist with the per-key path cache, and _getRootAndPath.   *)
(*                                                                         *)
(* Each node forwards with its own view of the tree (its infos), which may *)
(* differ from its neighbours' and may change while a packet is in         *)
(* flight; the views are drawn from a set of spanning trees of the links.  *)
(* One packet is followed at a time; every node handles it in one atomic   *)
(* step of its router actor.                                               *)
(***************************************************************************)
EXTENDS Integers, FiniteSets, Sequences, SequencesExt, FiniteSetsExt

CONSTANTS
    Node,            \* the public keys, ordered by <
    Edges,           \* the peer links, as 2-element sets of nodes
    Trees,           \* candidate parent functions [Node -> Node] the views are built from
    LinkPrio,        \* LinkPrio[<<a, b>>]: the prio of a's link to b
    LinkTime,        \* LinkTime[<<a, b>>]: when a's link to b came up
    Top,             \* the watermark a packet starts with (^uint64(0))
    MaxViewChanges   \* bound on view changes and expiries

ASSUME /\ Node \subseteq Nat \ {0}
       /\ \A t \in Trees : t \in [Node -> Node]
       /\ Top \in Nat /\ Top > 2 * Cardinality(Node)

None == 0

VARIABLES
    view,     \* view[n]: n's infos, key -> [parent, port, expired]
    cache,    \* cache[n]: n's cached key paths, key -> Seq(port)
    pkt,      \* the packet being followed
    changes   \* view changes and expiries so far

vars == <<view, cache, pkt, changes>>

Nbrs(n) == {m \in Node : {n, m} \in Edges}

\* Fault: port allocation starts at 0 instead of skipping it.
PortOfFromZero(p, c) == Cardinality({d \in Nbrs(p) : d < c})

\* The port a parent's link to a child gets: peers.addPeer hands out the
\* lowest free port from 1, the links taken as added in key order.
PortOf(p, c) == Cardinality({d \in Nbrs(p) : d < c}) + 1

\* The infos a node holds when every key's announcement names its parent in t
MkView(t) ==
    [k \in Node |-> [parent |-> t[k],
                     port |-> IF t[k] = k THEN 0 ELSE PortOf(t[k], k),
                     expired |-> FALSE]]

Views == {MkView(t) : t \in Trees}

-----------------------------------------------------------------------------
(* Tree coordinates.                                                       *)

\* _getRootAndPath: follow parents from dest, collecting ports, up to a
\* self-parented root; a loop, an unknown or an expired info gives
\* (dest, nil).  The ports are returned root first.
RECURSIVE PathWalk(_, _, _, _, _)
PathWalk(infos, dest, next, visited, ports) ==
    IF next \in visited \/ next \notin DOMAIN infos \/ infos[next].expired
    THEN [root |-> dest, path |-> <<>>]
    ELSE IF infos[next].parent = next
    THEN [root |-> next, path |-> Reverse(ports)]
    ELSE PathWalk(infos, dest, infos[next].parent, visited \cup {next},
                  Append(ports, infos[next].port))

\* Fault: the ports are left in node-to-root order.
GetRootAndPathUnreversed(infos, dest) ==
    LET w == PathWalk(infos, dest, dest, {}, <<>>)
    IN [w EXCEPT !.path = Reverse(@)]

GetRootAndPath(infos, dest) == PathWalk(infos, dest, dest, {}, <<>>)

\* _getDist's count for two paths: both lengths, less two per common prefix port
PathDist(destPath, keyPath) ==
    Len(destPath) + Len(keyPath) - 2 * Len(LongestCommonPrefix({destPath, keyPath}))

\* The path _getDist uses for key at n: cached, or computed now
KeyPath(n, key) ==
    IF key \in DOMAIN cache[n] THEN cache[n][key]
    ELSE GetRootAndPath(view[n], key).path

\* cache[n] after _getDist has looked up every key of ks
Cached(n, ks) == [k \in DOMAIN cache[n] \cup ks |-> KeyPath(n, k)]

-----------------------------------------------------------------------------
(* _lookup.                                                                *)

\* One peer key k of the loop over r.peers; best = [peer, dist]
Consider(n, path, best, k) ==
    LET d == PathDist(path, KeyPath(n, k))
        l == <<n, k>>
        b == <<n, best.peer>>
    IN IF d >= best.dist THEN best
       ELSE IF best.peer # None /\ LinkPrio[l] > LinkPrio[b]
       THEN [best EXCEPT !.dist = d]
       ELSE IF best.peer # None /\ LinkTime[l] > LinkTime[b]
       THEN [best EXCEPT !.dist = d]
       ELSE [peer |-> k, dist |-> d]

\* Fault: the watermark test lets a node forward at a distance equal to
\* the watermark.
LookupNonStrict(n, p) ==
    LET dSelf == PathDist(p.path, KeyPath(n, n))
        Run(o) == FoldLeft(LAMBDA best, k : Consider(n, p.path, best, k),
                           [peer |-> None, dist |-> dSelf + 1], o)
    IN IF dSelf > p.wm
       THEN {[next |-> None, wm |-> p.wm, keys |-> {n}]}
       ELSE {[next |-> Run(o).peer, wm |-> dSelf, keys |-> {n} \cup Nbrs(n)] :
               o \in SetToSeqs(Nbrs(n))}

\* The results of _lookup at n for a packet (one per order of the Go map
\* r.peers): the next hop (None for nil), the packet's new watermark and
\* the keys whose paths _getDist looked up (and cached).
Lookup(n, p) ==
    LET dSelf == PathDist(p.path, KeyPath(n, n))
        Run(o) == FoldLeft(LAMBDA best, k : Consider(n, p.path, best, k),
                           [peer |-> None, dist |-> dSelf], o)
    IN IF dSelf >= p.wm
       THEN {[next |-> None, wm |-> p.wm, keys |-> {n}]}
       ELSE {[next |-> Run(o).peer, wm |-> dSelf, keys |-> {n} \cup Nbrs(n)] :
               o \in SetToSeqs(Nbrs(n))}

-----------------------------------------------------------------------------
(* Actions.                                                                *)

\* Views agree, name every key, and mark nothing expired
Agreed == \E v \in Views : \A n \in Node : view[n] = v

\* A packet for dest enters the router at src (sendTraffic); its path is
\* dest's coordinates in src's view.
Inject(src, dest) ==
    /\ pkt.status \in {"idle", "delivered", "broken"}
    /\ pkt' = [status |-> "transit", dest |-> dest, at |-> src,
               path |-> GetRootAndPath(view[src], dest).path, wm |-> Top,
               hops |-> 0, stable |-> TRUE, agreed |-> Agreed]
    /\ UNCHANGED <<view, cache, changes>>

\* handleTraffic at the node holding the packet
HandleTraffic(n) ==
    /\ pkt.status = "transit"
    /\ pkt.at = n
    /\ \E res \in Lookup(n, pkt) :
         /\ cache' = [cache EXCEPT ![n] = Cached(n, res.keys)]
         /\ pkt' = CASE res.next # None ->
                          [pkt EXCEPT !.at = res.next, !.wm = res.wm, !.hops = @ + 1]
                   []  pkt.dest = n -> [pkt EXCEPT !.status = "delivered", !.wm = res.wm]
                   []  OTHER -> [pkt EXCEPT !.status = "broken", !.wm = res.wm]
    /\ UNCHANGED <<view, changes>>

\* n accepts announcements that change its view (_update, which calls
\* _resetCache)
ChangeView(n, v) ==
    /\ changes < MaxViewChanges
    /\ v # view[n]
    /\ view' = [view EXCEPT ![n] = v]
    /\ cache' = [cache EXCEPT ![n] = [k \in {} |-> <<>>]]
    /\ pkt' = [pkt EXCEPT !.stable = FALSE]
    /\ changes' = changes + 1

\* The first expiry of key k's info at n marks it expired (lines 437-451);
\* that branch does not reset the path cache.
ExpireMark(n, k) ==
    /\ changes < MaxViewChanges
    /\ k # n
    /\ ~view[n][k].expired
    /\ view' = [view EXCEPT ![n][k].expired = TRUE]
    /\ pkt' = [pkt EXCEPT !.stable = FALSE]
    /\ changes' = changes + 1
    /\ UNCHANGED cache

Init ==
    /\ \E v \in [Node -> Views] : view = v
    /\ cache = [n \in Node |-> [k \in {} |-> <<>>]]
    /\ pkt = [status |-> "idle", dest |-> None, at |-> None, path |-> <<>>,
              wm |-> Top, hops |-> 0, stable |-> TRUE, agreed |-> FALSE]
    /\ changes = 0

Next ==
    \/ \E s, d \in Node : Inject(s, d)
    \/ \E n \in Node : HandleTraffic(n)
    \/ \E n \in Node, v \in Views : ChangeView(n, v)
    \/ \E n, k \in Node : ExpireMark(n, k)

Spec == Init /\ [][Next]_vars

-----------------------------------------------------------------------------
(* Properties.                                                             *)

\* Every info is well formed; as routerAnnounce.check demands (lines
\* 963-969), only a root's info has port 0.
TypeOK ==
    /\ \A n \in Node :
         /\ DOMAIN view[n] = Node
         /\ \A k \in Node : view[n][k] \in [parent : Node, port : 0..Cardinality(Node),
                                            expired : BOOLEAN]
         /\ \A k \in Node : (view[n][k].port = 0) = (view[n][k].parent = k)
         /\ DOMAIN cache[n] \subseteq Node
    /\ pkt.status \in {"idle", "transit", "delivered", "broken"}
    /\ pkt.wm \in 0..Top
    /\ changes \in 0..MaxViewChanges

\* However the views differ between nodes and change while the packet is
\* in flight, and whatever stale paths the caches hold, a packet is
\* forwarded at most 2N - 1 times: the watermark _lookup lowers at every
\* hop (lines 797-802) bounds every trajectory (spec, section 8, no
\* forwarding loop).
HopBound == pkt.hops <= 2 * Cardinality(Node) - 1

\* When every node holds the same complete tree and nothing changes while
\* the packet travels, greedy forwarding on _getDist never runs into a node
\* with no closer peer: the packet is never dropped as broken
\* (handleTraffic, lines 667-679).
DeliversOnAgreedTree ==
    pkt.status = "broken" => ~(pkt.agreed /\ pkt.stable)

\* Each hop goes to a peer at the least _getDist among the node's peers,
\* the lowest-prio, longest-up link breaking ties (spec section 4.6, step 3).
GreedyNextHop ==
    [][pkt'.hops = pkt.hops + 1 =>
         LET n == pkt.at
             D(k) == PathDist(pkt.path, KeyPath(n, k))
         IN D(pkt'.at) = Min({D(k) : k \in Nbrs(n)})]_vars

=============================================================================
