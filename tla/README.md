# TLA+ models of the ironwood router

These modules model the routing core in `src/unnamed/part_000`, the spanning tree of the legacy `dhtree` in the same file, and the legacy peer registry in `src/network/peers.go`. The routing core has four parts:

- the spanning-tree router with its announcement store (a CRDT);
- the signature exchange;
- parent selection;
- greedy tree-distance forwarding.

`PROJECT.json` holds the machine-readable inventory:

- the components, including those not modelled;
- the runs and the mutant for each property;
- the map from every modelling definition to the lines it models;
- the findings;
- the hazards.

## The system

`part_000` contains one `router` actor per node (`phony.Inbox`). Every handler runs as one step of that actor, and nothing else touches its state:

- `handleRequest` and `handleResponse`;
- `handleAnnounce`, `handleMerkleReq` and `handleMerkleRes`;
- `addPeer` and `removePeer`;
- the timer callbacks;
- `handleTraffic`.

The parts interact as follows:

| part | code | what it does |
|---|---|---|
| announcement store | `_update`, lines 374-469 | Keeps `infos`. A new announcement for a key wins by higher seq, then lower parent, then lower nonce. An accepted info gets an expiry timer: after `routerTimeout` it is marked expired, and after a second one it is deleted. A node's own info instead gets a refresh timer that sets `refresh` and calls `_fix`. `_handleAnnounce` (471-554) bounds the store at `routerMaxInfos` by evicting the highest non-self key. |
| signature exchange | `addPeer`, `removePeer`, `_sendReqs`, `_handleRequest`, `_handleResponse` (101-171, 295-372) | A node sends every peer a `SigReq{seq+1, nonce}`. The peer answers with its port for the link. The first response matching the outstanding request is stored with its arrival rank, and then `_fix` runs. |
| parent selection | `_fix`, `_useResponse`, `_becomeRoot` (173-321) | Picks the responder whose path leads to the lowest root. Ties go to the shorter distance, then to the earlier response. It skips peers whose ancestry contains the node itself. If no response leads to a root better than the node's current one, a one-second timer sets `doRoot1` and then `doRoot2`, and the node becomes root. |
| peer sync | `_fixMerks`, `handleMerkleReq`, `handleMerkleRes` (562-656) | Compares Merkle digests of the infos with each peer and sends the differing announcements. |
| forwarding | `handleTraffic`, `_lookup`, `_getDist`, `_getRootAndPath` (667-822) | Forwards to the peer whose tree coordinates are closest to the destination's. The packet's watermark must strictly decrease at every hop. |
| key lookup | `_keyLookup` (681-713) | Finds the closest known key not above a destination key. |

`network/peers.go` is the older network layer. It has one `peers` actor per node, holding `ps.peers`, a map from port to peer. Each connection has one `peer`, whose `handler` goroutine reads frames. Source-routed path lookups, responses and traffic hop from node to node: each hop pops the next port off `path`, or appends the incoming port to `rpath`.

## Modules

### `Router.tla`: store, signature exchange, parent selection and sync

**State.**
- `rt[n]` is node n's router: `infos`, `peers`, `requests`, `responses`, `resSeqs`, `resSeqCtr`, `refresh`, `doRoot1` and `doRoot2`. These are the fields of `router` (lines 53-72) that the handlers modelled here read and write.
- `chan[<<a,b>>]` holds a's requests to b that are still in flight.
- `up` is the set of open links.
- `panicked` collects every node that reached one of the code's `panic("this should never happen")` calls.

**Actions.** Each action is one whole handler, `_fix` and `_sendReqs` included:

| action | code |
|---|---|
| `HandleResponse` | the request, the signed response and `_handleResponse` |
| `HandleAnnounce` | `_handleAnnounce` with its capacity eviction and `_fix` |
| `SyncAnnounce` | the Merkle exchange, taken as delivering one announcement whose digest differs (`MerkleSync` models the exchange itself) |
| `SelfRefresh` | the node's own refresh timer |
| `ExpireInfo` | the expiry timer of a peer's info (both phases) |
| `RootTimer` | the `_fix` timer callback |
| `AddPeer` / `RemovePeer` with `LinkUp` / `LinkDown` | link churn |
| `Restart` | `init` running again on a node (only in `SpecRestart`) |

`Fix(r, n)` returns the set of all outcomes of `_fix`, one for each iteration order of `r.responses` and each nonce drawn. An outcome whose `_update` fails is marked `ok = FALSE`, which is the code's panic.

**Properties.**

| property | kind | what it says |
|---|---|---|
| `NoPanic` | invariant | No handler reaches the panic. |
| `ParentChoiceSound` | action | `_fix` only adopts a parent that is known and not expired in its view, and whose ancestry does not pass through the node. Checked by `expired_parent`, where it fails. |
| `CapacityBound` | invariant | No store exceeds `MaxInfos`. |
| `ParentsAcyclic` | invariant | The announced parents form no cycle. |
| `TreeConverges` | liveness | Eventually and forever, every node's root is the lowest key of its connected component. |

### `MerkleSync.tla`: the Merkle exchange, expiry timers and capacity

This module models how the routers' stores reach each other:
`_fixMerks`, `handleMerkleReq`, `handleMerkleRes`, `_handleAnnounce` and
the expiry timers of `_update`, message by message. Parent selection is
left out: each node's own info changes only by its refresh timer.

**State.**
- `infos[n]` maps each key n holds to `[seq, expired]`.
- `merks[n][m]` is the tree n last computed for peer m (`r.merks`).
- `peers[n]` is the set of peers n has added.
- `timers[n][k]` is the time left on the expiry timer of key k, `fired[n][k]` whether a callback is queued: `"current"` for the timer now in `r.timers`, `"stale"` for one that `_update` replaced or eviction stopped too late.
- `age[n][k]` is the time since k was accepted (history, for `ExpiryNotEarly`).
- `up`, `pending` (links whose `addPeer`/`removePeer` is not yet delivered) and `chan` (FIFO channels per directed link).
- `panicked` collects nodes that reached a `panic` in the tree walk.

**Actions.** `HandleMerkleReq`, `HandleMerkleRes` and `HandleAnnounce` are the
three handlers, each including the `_fixMerks` it defers. The tree walk of
`handleMerkleReq` is the recursive operator `Walk`. The merkletree package
is not in `src`: the tree of a store is its map from key to seq
(`TreeOf`), and a digest is the subtree itself, so two digests are equal
exactly when the subtrees are. `TimerFire` queues an expiry callback and
`RunTimer` runs it: mark expired and re-arm, or delete and `_fix`; a stale
callback does nothing. `Tick` advances time by one unit, only when nothing
is in flight and no callback is queued (`Quiet`), so that a timeout always
outlasts a round of the exchange. `SelfRefresh`, `AddPeer`, `RemovePeer`,
`LinkUp` and `LinkDown` are the refresh timer and link churn.

**Properties.**

| property | kind | what it says |
|---|---|---|
| `NoPanic` | invariant | The walk never reaches its `panic` calls: a request always names a node of the responder's tree. This rests on `merks` being recomputed after every store change. |
| `AgreeWhenQuiet` | invariant | When nothing is in flight, peers on an open link hold the same tree, unless one of them is at capacity and refuses a key. The exchange does not stop early. |
| `ExpiryNotEarly` | invariant | An info is marked expired only after `routerTimeout` since it was last accepted, even when a callback of a replaced timer was already queued. |
| `RefinesStore` | refinement | The stores implement `AnnounceStore`: one entry per key, only newer seqs replace older ones, capacity is kept by evicting other nodes' keys, and own keys are never dropped. |
| `DepartedForgotten` | liveness | Every node eventually forgets a router that has left (violation run). |

### `AnnounceStore.tla`: what the store promises

The abstract specification of the store: `view[n]` maps keys to seqs.
`Publish`, `Adopt`, `Replace` and `Forget` are the only ways a view may
change. `MerkleSync` instantiates it with `view <- TreeOf(infos[n])` and
checks `Store!Spec` as the property `RefinesStore`.

### `Forwarder.tla`: forwarding a packet

**State.**
- `view[n]` is node n's infos. Each view is drawn from a set of spanning trees, `Trees`.
- `cache[n]` is `r.cache`, the per-key path cache.
- `pkt` is the one packet being followed.

**Actions.**

| action | code |
|---|---|
| `Inject` | `sendTraffic` |
| `HandleTraffic` | `handleTraffic` with `_lookup`, including every iteration order of `r.peers` |
| `ChangeView` | an accepted `_update`, which resets the cache |
| `ExpireMark` | the first expiry phase, which does not reset the cache |

**Properties.**

| property | kind | what it says |
|---|---|---|
| `HopBound` | invariant | A packet makes at most 2N-1 hops, however views differ or change. |
| `DeliversOnAgreedTree` | invariant | If all views agree and stay unchanged while the packet travels, the packet never ends as broken. |
| `GreedyNextHop` | action | Every hop goes to a peer at the least distance. |

### `KeyLookup.tla`: `_keyLookup`

The fold of `_keyLookup` is checked against a direct definition, `Closest`, for:
- every store a router reaches in the `churn3` run (up to 2 of keys 1..3, changed by eviction, expiry and churn);
- every destination 1..4;
- every iteration order.

`_keyLookup` has no caller in `src`, so it is a pure function. `MC_Router` instantiates `KeyLookup`, and `churn3` checks the invariant `LookupIsClosest` on the stores of its routers.

### `DHTree.tla`: the spanning tree of the legacy `dhtree`

`dhtree` (lines 1141-1988) is an older router kept in `part_000`. It is driven by the `network/peers.go` layer. This module models its tree half, with one `dhtree` actor per node and one FIFO channel per directed link.

| variable | code |
|---|---|
| `self`, `parent`, `tinfos`, `expired`, `wait` | `t.self`, `t.parent`, `t.tinfos`, `t.expired`, `t.wait` |
| `stimer` | the armed `t.stimer`, as the self it was armed for and its deadline |
| `squeue` | stimer callbacks that fired and wait on the actor, each with its captured self |
| `hello`, `greet` | handlers that have yet to read `t.self` (`peers.go` 109-110), and selfs read but not yet sent (111-113) |
| `chan` | tree frames in flight: root, seq and hops |
| `pending` | links closed whose `remove` has not yet run |

The actions are the following:
- `HandleTree` is `peers.go` `handleTree` followed by `update`. `FrameOK` is `handleTree`'s checks (a hop, the sender as `from()`, this node as the last hop's key), which guard the step. Then come every branch of `update`: the resend to a peer without `tinfos` (`Resend`), the panic, the wait with its `WaitInfo`, storing only while waiting, and `_fix`.
- `Remove` is `remove`.
- `StimerFire` and `RunStimer` are the stimer firing and its callback.
- `WaitFire` is the one-second callback.
- `HelloRead` and `HelloSend` are the handler start.
- `LinkUp` and `LinkDown` open and close connections.
- `Tick` advances time.

`_fix` is the operator `Fix`. It is the value of the whole function: the new self and parent, the stimer re-armed on a change, the frames `_sendTree` sends, and the cleaned `expired`. Its loop is the maximum under `Replaces`, a strict total order on infos, so map iteration order does not matter.

Abstractions:
- **Time** counts ticks of `treeANNOUNCE`. `treeTIMEOUT` is `Timeout` ticks. `Tick` runs only when nothing is in flight and no callback is queued or due.
- **Counters.** `t.seq` and `t.hseq` only grow, and they are only compared with seqs and hseqs still held somewhere. So they are derived: `NextSeq(n)` is one above every seq of `n`'s own infos still in any variable, and `NextHseq` likewise. This is order-isomorphic to the code and keeps the state space finite.
- **Peers.** One link per pair of nodes; a port is named by the peer it leads to. A closed link may reopen only after its `remove` has run.
- **Pointers.** Infos are compared by value. Every info a node stores has a fresh `hseq` and every root self a fresh seq, so value equality is the code's pointer equality.

| property | kind | meaning |
|---|---|---|
| `NoPanic` | invariant | `update` never reaches `panic("this should never happen")`. |
| `FramesAccepted` | invariant | Every frame in flight passes `handleTree`'s checks at its receiver, whether it comes from `_sendTree`, the resend, a hello read earlier or bad news sent while waiting. A failing check would close a healthy link. |
| `SelfFromParent` | invariant | A node's parent is the peer whose current info is its self; a node without one is its own root. |
| `TreeConverges` | liveness | Every node ends, and stays, with the lowest key it reaches as its root, and not waiting. |

### `Peers.tla`: the peer registry, the connection loop and source routes

**State.**
- `connSt[c]` is the state of connection c: `new`, `open` or `closed`.
- An end `<<c, i>>` is connection c seen from one of its two nodes. Each end has:
  - `st[e]`: the life of its `peer`: none, added, running, exited, removed or refused;
  - `port[e]`, its port;
  - `ka[e]`, whether `p.keepAlive` is set;
  - `timer[e]`, what `p.timer` is armed with: idle, ka or nil;
  - `wire[e]`, the frames written and not yet read.
- `reg[n]` is node n's `ps.peers`.
- `closed` is the set of nodes whose PacketConn is closed.
- `crashed` is the set of nodes whose process panicked.
- History variables record:
  - `route` and `routeConns`: the lookup's route and the links it used;
  - `respAt` and `cachedPath`: where the response landed, and the path the origin cached;
  - `trafAt`: where traffic fell back to the DHT.

**Actions.**

| action | code |
|---|---|
| `AddPeer` | `addPeer` (31-59) |
| `RemovePeer` | `removePeer` (61-71) |
| `HandlerStart` | the start of `handler` (97-114) |
| `SendTree` | `sendTree` |
| `HandlerExit` | the read loop failing on a closed connection (117-132) |
| `KeepAliveFire` | the keepalive timer |
| `NilFire` | a timer armed with a nil func |
| `ReadLookup` | `handlePathLookup` |
| `ReadResponse` | `handlePathResponse` with `ps.handlePathResponse` |
| `ReadTraffic` | `handlePathTraffic` with `ps.handlePathTraffic` |
| `ReadDummy` | dummy and tree frames |

Every write goes through `Emit`, which is `_write`: it re-arms the timer with whatever `p.keepAlive` is at that moment.

`OpenConn`, `CloseConn` and `Shutdown` model the PacketConn, which is not in `src`. So do `StartLookup`, `SendTraffic` and `LearnPath`, which model the pathfinder: the target answers with the reversed `rpath`, and the origin caches the reversed `rpath` of the response.

**Properties.**

| property | kind | what it says |
|---|---|---|
| `RegistryConsistent` | invariant | A peer is in `ps.peers` under its own port exactly while it is added, running or exited. So no two live peers share a port. |
| `RoundTrip` | invariant | Unless a link the lookup used has closed, the response lands only at the origin, and traffic on the cached path falls back only at the target. |
| `NoNilKeepAlive` | invariant | No timer fires with a nil func (violation run). |

**Runs.**

| run | bounds | result |
|---|---|---|
| `net3` | triangle: links 1-2 and 2-3 up, link 1-3 opening later; one lookup from 1 for 3, one traffic packet, one keepalive, node 1 may shut down | `TypeOK`, `RegistryConsistent` and `RoundTrip` hold; 4.4M states in about 2.5 minutes. |
| `nil_keepalive` (violation) | 3 nodes, link 1-2 up, link 1-3 opening later | See finding 5. |

Why these bounds are enough:
- The triangle is the fewest nodes in which a lookup can be forwarded, so that `rpath` holds more than one port.
- Its late link 1-3 can take the port that link 1-2 frees at node 1. That is the reuse case.
- Node 1 also runs `AddPeer` for that link, so a shutdown there exercises the refusal.
- One keepalive firing is enough for a timer to re-arm through `_write`.
- `MaxHops` 2 allows the route 1-2-3 and bounces of one hop.

## Abstractions

- **Keys** are naturals. The zero key `NoKey = 0` is below all of them, as the all-zero `publicKey` is.
- **Signatures** are not modelled. The model assumes they always verify.
- **Links.** Each pair of keys has at most one link. A peer's port is any value unique at the parent and not 0. In the Forwarder, ports follow `peers.addPeer`, which hands out the lowest free port from 1.
- **Timers** in `Router` fire at any time, without a clock. Each timer's firings are bounded by a counter (`MaxExpiries`, `MaxRefreshes`). Because a timer may fire at any time, this also covers a superseded timer whose callback was already queued.
- **Merkle sync** in `Router` is one atomic transfer of one announcement, even an expired one. `handleMerkleRes` requests any leaf whose digest differs, and `handleMerkleReq` sends the stored info whatever its expiry.
- **Peer timers** (`Peers`) fire at any time. A panic from a nil timer func ends the model: every action is guarded by `Alive`.
- **Time** in `MerkleSync` is discrete: timers hold a count of units and `Tick` runs only when the system is quiet. The real exchange takes milliseconds and `routerTimeout` is minutes, so a tick never splits an exchange.
- **Digests** in `MerkleSync` are the subtrees they summarise; a hash collision is not modelled.
- **Bounds.** `MaxSeq` bounds sequence numbers, and the states past it are cut off (`Bounded`). `MaxQueue` bounds channels. Nonces come from `Nonces`.

## Runs

| run | bounds | result |
|---|---|---|
| `churn3` | 3-node line, links 1-2 up, `MaxInfos` 2, one link change, one expiry, one refresh | `TypeOK`, `NoPanic` and `CapacityBound` hold under churn, expiry and eviction, and `_keyLookup` is exactly `Closest` on every store reached (`LookupIsClosest`). |
| `collapse3` | 3-node line, at most one link failure, `MaxSeq` 4, `FairSpec` | `TreeConverges`: each component converges to its own lowest key. |
| `sync2` | 2 routers on one link that may close and reopen twice, keys 0..3 with departed 0 and 3 held at start, `MaxInfos` 2, `MaxSeq` 2, one refresh, `Timeout` 1 | `TypeOK`, `NoPanic`, `AgreeWhenQuiet`, `ExpiryNotEarly` and `RefinesStore` hold; 2.8M states in about 90 s. |
| `zombie` (violation) | 2 routers, departed key 3 held by both, capacity 3, `FairSpec` | See finding 6. |
| `walk4` | 4 nodes, 4 links (a line plus a chord), two spanning trees, arbitrary initial views, one view change or expiry| `HopBound` and `DeliversOnAgreedTree` hold. |
| `join3` | 3-node line, link 1-2 up, link 2-3 comes up and may go down (2 changes), `Timeout` 2, `MaxTime` 2, `FairSpec` | `TypeOK`, `NoPanic`, `FramesAccepted`, `SelfFromParent` and `TreeConverges` hold; 682K states in about 80 s. |
| `restart_panic` (violation) | 2 nodes, 1 restart, 2 nonces | See finding 1. |
| `expired_parent` (violation) | 3-node line, 1 expiry | See finding 2. |
| `parent_cycle` (violation) | triangle, 2 link changes | See finding 3. |
| `greedy4` (violation) | 4 nodes, one link of higher prio | See finding 4. |

**Why these bounds are enough.**
- Three nodes are the fewest in which parent selection can pick among more than one peer, forward announcements it did not originate, and cut a component off from the root.
- A triangle is the fewest nodes that can form a parent cycle.
- Four nodes with a chord give a node two peers that are both closer to the destination, which `_lookup`'s cross-key comparison needs.
- `MaxSeq` 4 allows a root change followed by a re-adoption.
- In `join3`, a third node joining a connected pair makes duplicate frames from the parent (the hello and the resend), and so a wait, and lets a hello carry a stale self. Two ticks make every root refresh its seq once. A later close makes `remove` run on the parent's link. A line offers no second route to a root, so a parent cycle from stale paths cannot arise here, and `join3` does not check acyclicity. The router's `parent_cycle` run shows that hazard on a triangle. Letting link 1-2 change too, or adding a tick, multiplies the states beyond the time limit.
- In `sync2`, two keys of departed routers with a capacity of 2 make each store full with one foreign key, so eviction, refusal at capacity, stale callbacks of evicted or replaced timers, and a request for a subtree the peer no longer has all happen. Key width 2 gives the walk two levels, so both the single-child shortcut and the leaf case are reached.

**Mutants.** Every property of a passing run is broken by a plausible bug in the definition it is about. The list is in `PROJECT.json`.

**Deadlock.** The `Router` cfgs set `CHECK_DEADLOCK FALSE` because the modelled system stops when the tree has converged and every bounded disturbance (refresh, expiry, link change, restart) is used up. The real system keeps refreshing forever. `MerkleSync` runs check deadlock. When every exchange has ended, `Tick` is always enabled (time passes, possibly changing nothing), so a deadlock there would mean a state where a message is in flight or a callback queued but no handler can take it. `join3` also sets `CHECK_DEADLOCK FALSE`: the model stops once `MaxTime` is reached and every frame and callback has been handled.

## Fairness

`Router`'s `FairSpec` assumes weak fairness of every step but a link change or a restart: `WF_vars(Next /\ UNCHANGED <<linkChanges, restarts>>)`.
- The code guarantees these steps:
  - the phony actor eventually runs every queued message;
  - `time.AfterFunc` eventually fires.
- Links and restarts are the environment. Nothing makes them happen, so a behaviour may stop short of the bound on link changes. `TreeConverges` is claimed for the links as they end up.

`DHTree`'s `FairSpec` assumes `WF_vars(Proto)`, where `Proto` is every step but a link change. Links need not go up or down, so convergence is only claimed for the links as they end up. The phony actors run every frame and callback, timers fire, and time passes. The formula uses `CanStep`, a state predicate that equals `ENABLED <<Proto>>_vars`. That equality (`CanStepExact`) was checked on the `join3` bounds with one link change. TLC's `ENABLED` on actions that call `Fix` is too slow to use directly.

`MerkleSync`'s `FairSpec` is weak fairness of every step but a link change: the phony inbox delivers every message and runs every queued callback, and time advances.

## Findings

1. **Panic after a restart** (`part_000:214`, run `restart_panic`).
   1. A router restarts and loses its seq.
   2. It receives its own older announcement back from a peer and accepts it.
   3. `_useResponse` then builds an announcement that `_update` does not take as newer, and `_fix` panics.
2. **Expired parent adopted** (`part_000:198`, run `expired_parent`).
   - `_getRootAndDists` reports the zero key as the root of a peer whose info is expired.
   - The zero key beats every real root, so `_fix` adopts that peer, even at the lowest-keyed node.
   - The comment at lines 27-29 and spec section 4.4 say expired infos are ignored.
3. **Parent cycle** (`part_000:194`, run `parent_cycle`).
   - The loop check uses the node's own stale copy of the candidate's ancestry.
   - In a triangle that loses a link, two nodes adopt each other.
   - This contradicts invariant 5 of spec section 3.
4. **Non-greedy next hop** (`part_000:806`, run `greedy4`).
   - `_lookup` compares a closer peer's link with the link of a farther, previously chosen peer.
   - If the closer link has a higher prio or came up later, `_lookup` keeps the farther peer but lowers `bestDist` anyway.
   - The choice then depends on map order, and the packet may go to a peer that is not the closest.
5. **Nil keepalive panic** (`network/peers.go:88`, run `nil_keepalive`).
   1. `addPeer` puts the peer in `ps.peers` (line 56) before its handler sets `p.keepAlive` (line 99).
   2. A frame forwarded to that port in between runs `_write`. In the trace it is path traffic on a source route cached before its link closed: `removePeer` freed the port, and `addPeer` (line 43) gave that lowest free port at once to the new link.
   3. `_write` arms `p.timer` with a nil func, and the process panics when the timer fires.
   4. The unsynchronised read of `keepAlive` is also a data race.
6. **Departed router never forgotten** (`part_000:263`, run `zombie`).
   1. Two routers hold the info of router 3, which has left.
   2. One deletes it after its second timeout and `_fixMerks` starts an exchange.
   3. The other still holds the info (its own callback is queued) and sends it back; the first accepts it as new, with a fresh timer.
   4. The second then deletes it and fetches it back from the first, and so on forever.
   - The header comment (lines 25-29) says an expired info is removed after a second timeout. With two or more peers holding it, the exchange revives it indefinitely.

## Not modelled

| part | why |
|---|---|
| Wire codecs (lines 828-1140) | Byte-level serialisation. |
| The DHT half of the legacy `dhtree` (lines 1384-1638): `dinfos`, `_dhtAdd`, `_doBootstrap`, `_handleBootstrap`, `_dhtLookup`, `_treeLookup`, `handleDHTTraffic`, `_getLabel` | Its only callers of `handleBootstrap` and `handleDHTTraffic` in `src` are the `peers.go` handlers, and those call them with other signatures (`handleBootstrap(nil, bootstrap)` against `(from, prev, bootstrap)`, `handleDHTTraffic(nil, tr, true)` against `(from, tr)`). So the two files belong to different versions of the package, and no wiring in `src` can be translated. `_doBootstrap` also runs on every `_fix` that changes self, and `_getLabel` shares `t.seq` with the tree, so a faithful model would have to sit on top of `DHTree`. Every `join3` state would then fan out over the bootstrap paths in flight, which is beyond the time limit at the bounds where joining is interesting. |
| DHT and path-notify handlers in `network/peers.go` (lines 211-287, 336-349) | They decode a frame and call `dhtree` methods that the `dhtree` in `src` does not have (`handleBootstrapAck`, `handleSetup`, `teardown`, `dhtree.pathfinder`) or has with another signature. Nothing they call can be modelled from `src`. |
| The `handlePacket` dispatch (lines 135-167) and `_sendProto`'s framing (189-202) | Byte-level. `Peers` models a frame by its kind; its 64 KiB drop is `NoEmit`. |
| The `merkletree` package | Not in `src`. `MerkleSync` models a tree by the map it summarises. |
| `addPeer` for a key that is already a peer, parent and nonce tie-breaks in `MerkleSync` | `MerkleSync` has one link per pair and no parent selection. |
| The dispatcher's checks on `prefixLen` before `handleMerkleRes` | Not in `src`. |
| Pathfinder, blooms, `pconn`, crypto | Not in `src`. `Peers` models only the pathfinder's answer and cache, from the spec. |
| Several links per key, and the `ports` map that `removePeer` may leave stale | `r.ports` is written and never read in `src`, so a stale entry changes nothing a property can observe. |

**Beyond this project.** The DHT half is out of reach for the reasons above. Convergence under capacity eviction would need a further `Router` run, with a capacity below its key count, that checks `TreeConverges`. The twelve runs the project keeps are already taken by the questions above.
