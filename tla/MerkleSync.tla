----------------------------- MODULE MerkleSync -----------------------------
(***************************************************************************)
(* The router's per-peer Merkle synchronisation of announcements          *)
(* (src/unnamed/part_000): _fixMerks, handleMerkleReq with its            *)
(* single-child skip, handleMerkleRes, _handleAnnounce with the capacity  *)
(* rule and _update's seq order, the expiry timers with their identity    *)
(* check, and addPeer/removePeer over links that open and close.          *)
(*                                                                         *)
(* An announcement is abstracted to its key and seq: two announcements    *)
(* of one key with one seq are taken to be the same, so _update's parent  *)
(* and nonce tie-breaks never apply.  A Merkle tree is abstracted to the  *)
(* set of leaves it holds (a function from keys to seqs); the digest of a *)
(* subtree is the set of leaves under it, which is the determinism the    *)
(* protocol relies on (spec 4.1) with no hash collisions.  Parent         *)
(* selection is left to the Router module: a node's own announcement     *)
(* changes by SelfRefresh, an environment step.                           *)
(*                                                                         *)
(* Time is discrete: Tick advances every timer by one unit and happens    *)
(* only when no message, addPeer/removePeer or timer callback is pending, *)
(* since a Merkle exchange takes milliseconds and routerTimeout an hour.  *)
(***************************************************************************)
EXTENDS Naturals, Sequences, FiniteSets, Functions

CONSTANTS
    Node,            \* the keys of the running routers
    KeyBits,         \* merkletree.KeyBits: keys are 0..2^KeyBits-1
    Edges,           \* possible links, a set of 2-sets of nodes
    MaxSeq,          \* bound on seq numbers
    MaxInfos,        \* routerMaxInfos
    Timeout,         \* routerTimeout, in ticks
    MaxLinkChanges,  \* bound on links opening or closing
    MaxRefreshes,    \* bound on nodes publishing a new seq
    InitUp,          \* the links open at the start
    InitHeld         \* keys of departed routers whose infos are held at the start

VARIABLES
    infos,       \* infos[n]: key -> [seq, expired], r.infos
    merks,       \* merks[n]: peer key -> tree, r.merks
    peers,       \* peers[n]: keys of n's peers (r.peers)
    timers,      \* timers[n]: key -> ticks left on r.timers[key]
    fired,       \* fired[n][k]: state of a queued expiry callback
    age,         \* age[n]: key -> ticks since the info was accepted (capped)
    up,          \* open connections
    pending,     \* queued addPeer/removePeer calls: <<n, m, "add"|"remove">>
    chan,        \* chan[<<m, n>>]: messages in flight from m to n
    panicked,    \* nodes that hit a "this should never happen" panic
    linkChanges,
    refreshes

vars == <<infos, merks, peers, timers, fired, age, up, pending, chan,
          panicked, linkChanges, refreshes>>

Key == 0..(2^KeyBits - 1)
Seqs == 1..MaxSeq
Links == {l \in Node \X Node : {l[1], l[2]} \in Edges}

-----------------------------------------------------------------------------
(* The merkletree package (not in src; modelled from spec 4.1).           *)
(* A tree is a function from keys to leaf digests (here seqs).  A prefix  *)
(* is the pair (len, p) of a length and the top len bits of a key.        *)

\* The leaves r.infos puts in the tree (_fixMerks adds every info,
\* expired or not; the encoded announcement does not carry the flag)
TreeOf(inf) == [k \in DOMAIN inf |-> inf[k].seq]

EmptyTree == [k \in {} |-> 1]

\* key k lies under prefix (len, p)
Under(k, len, p) == k \div 2^(KeyBits - len) = p

\* The subtree at (len, p); its digest is the set of its leaves
Sub(t, len, p) == [k \in {x \in DOMAIN t : Under(x, len, p)} |-> t[k]]

\* Lookup(prefix, len) is ok: the node exists (the root always does)
HasNode(t, len, p) == len = 0 \/ DOMAIN Sub(t, len, p) # {}

\* GetLeft / GetRight: the child prefixes
Left(p) == 2 * p
Right(p) == 2 * p + 1

HasChild(t, len, c) == len < KeyBits /\ DOMAIN Sub(t, len + 1, c) # {}

-----------------------------------------------------------------------------
(* Messages *)

Req(len, p) == [type |-> "req", len |-> len, p |-> p]
Res(len, p, d) == [type |-> "res", len |-> len, p |-> p, digest |-> d]
Ann(k, s) == [type |-> "ann", key |-> k, seq |-> s]
PanicMsg == [type |-> "panic"]

\* The reply handleMerkleReq sends from node (len, p) of t: follow
\* single-child chains down, reply with the digest at the first node with
\* two children, or with the announcement at a leaf (PanicMsg where the
\* code panics).
RECURSIVE Walk(_, _, _, _)
Walk(t, inf, len, p) ==
    LET l == HasChild(t, len, Left(p))
        r == HasChild(t, len, Right(p))
    IN CASE l /\ r -> Res(len, p, Sub(t, len, p))
         [] l      -> Walk(t, inf, len + 1, Left(p))
         [] r      -> Walk(t, inf, len + 1, Right(p))
         [] len # KeyBits \/ p \notin DOMAIN inf -> PanicMsg
         [] OTHER  -> Ann(p, inf[p].seq)

-----------------------------------------------------------------------------
(* Helpers *)

\* f with k mapped to v
Put(f, k, v) == [x \in DOMAIN f \cup {k} |-> IF x = k THEN v ELSE f[x]]

\* f without the keys K
Drop(f, K) == Restrict(f, DOMAIN f \ K)

\* A queued callback of a timer that is stopped or replaced stays queued,
\* but its timer is no longer r.timers[key]
Supersede(fn, K) == [k \in Key |-> IF k \in K /\ fn[k] = "current"
                                   THEN "stale" ELSE fn[k]]

\* p.send*: appended to the connection if it is still open
Post(ch, n, m, msgs) ==
    IF {n, m} \in up THEN [ch EXCEPT ![<<n, m>>] = @ \o msgs] ELSE ch

Pop(ch, m, n) == [ch EXCEPT ![<<m, n>>] = Tail(@)]

\* _fixMerks on n with store inf, trees mk and peers ps: every tree whose
\* root digest differs from that of the tree of inf is replaced by it ...
FixedMerks(inf, mk) == [k \in DOMAIN mk |-> TreeOf(inf)]

\* ... and each peer of a replaced tree is sent the new root digest and an
\* empty request
FixSends(ch, n, inf, mk, ps) ==
    LET t == TreeOf(inf)
        kicked == {k \in DOMAIN mk \cap ps : mk[k] # t}
    IN [l \in DOMAIN ch |->
          IF l[1] = n /\ l[2] \in kicked /\ {n, l[2]} \in up
          THEN ch[l] \o <<Res(0, 0, t), Req(0, 0)>> ELSE ch[l]]

-----------------------------------------------------------------------------
(* The capacity rule of _handleAnnounce and the order of _update *)

Others(n, inf) == DOMAIN inf \ {n}

\* the worst (highest) key other than n's own
Worst(n, inf) == CHOOSE w \in Others(n, inf) : \A x \in Others(n, inf) : x <= w

Full(inf) == Cardinality(DOMAIN inf) >= MaxInfos

\* Fault: a new key is taken at capacity whether or not it is lower than
\* the worst one
AdmitAlways(n, inf, k) == ~Full(inf) \/ k \in DOMAIN inf \/ Others(n, inf) # {}

\* doUpdate: below capacity, or a known key, or lower than the worst
Admit(n, inf, k) ==
    \/ ~Full(inf)
    \/ k \in DOMAIN inf
    \/ Others(n, inf) # {} /\ k < Worst(n, inf)

\* found: the worst key is evicted if _update accepts
Evicts(n, inf, k) == Full(inf) /\ k \notin DOMAIN inf /\ Others(n, inf) # {}

\* Fault: _update's seq comparison reversed
UpdateOKReversed(inf, k, s) == k \notin DOMAIN inf \/ inf[k].seq > s

\* _update's result: an unknown key or a higher seq
UpdateOK(inf, k, s) == k \notin DOMAIN inf \/ inf[k].seq < s

-----------------------------------------------------------------------------
(* Actions.  A node's handlers run one at a time (phony actor); a message *)
(* is handled only once the addPeer queued before it has run.            *)

Deliverable(m, n) ==
    /\ chan[<<m, n>>] # <<>>
    /\ <<n, m, "add">> \notin pending

\* handleMerkleReq: answer from the tree kept for that peer
HandleMerkleReq(n, m) ==
    /\ Deliverable(m, n)
    /\ Head(chan[<<m, n>>]).type = "req"
    /\ LET msg == Head(chan[<<m, n>>])
           t == merks[n][m]
           out == Walk(t, infos[n], msg.len, msg.p)
       IN CASE ~HasNode(t, msg.len, msg.p) ->
                 UNCHANGED panicked /\ chan' = Pop(chan, m, n)
            [] out = PanicMsg ->
                 panicked' = panicked \cup {n} /\ chan' = Pop(chan, m, n)
            [] OTHER ->
                 UNCHANGED panicked /\ chan' = Post(Pop(chan, m, n), n, m, <<out>>)
    /\ UNCHANGED <<infos, merks, peers, timers, fired, age, up, pending,
                   linkChanges, refreshes>>

\* Fault: only a missing node counts as a disagreement
DisagreesMissingOnly(t, len, p, d) == ~HasNode(t, len, p)

\* merk.Lookup(prefix, len) is not ok, or its digest differs
Disagrees(t, len, p, d) == ~HasNode(t, len, p) \/ Sub(t, len, p) # d

\* handleMerkleRes: on a missing node or a different digest, request
\* both children
HandleMerkleRes(n, m) ==
    /\ Deliverable(m, n)
    /\ Head(chan[<<m, n>>]).type = "res"
    /\ LET msg == Head(chan[<<m, n>>])
           t == merks[n][m]
       IN chan' = IF msg.len # KeyBits /\ Disagrees(t, msg.len, msg.p, msg.digest)
                  THEN Post(Pop(chan, m, n), n, m,
                            <<Req(msg.len + 1, Left(msg.p)), Req(msg.len + 1, Right(msg.p))>>)
                  ELSE Pop(chan, m, n)
    /\ UNCHANGED <<infos, merks, peers, timers, fired, age, up, pending,
                   panicked, linkChanges, refreshes>>

\* _handleAnnounce: capacity rule, _update, eviction of the worst key,
\* then _fix, whose deferred _fixMerks reports the change to every peer
HandleAnnounce(n, m) ==
    /\ Deliverable(m, n)
    /\ Head(chan[<<m, n>>]).type = "ann"
    /\ LET k == Head(chan[<<m, n>>]).key
           s == Head(chan[<<m, n>>]).seq
           inf == infos[n]
           gone == IF Evicts(n, inf, k) THEN {Worst(n, inf)} ELSE {}
           inf2 == Put(Drop(inf, gone), k, [seq |-> s, expired |-> FALSE])
           armed == IF k = n THEN {} ELSE {k}
       IN IF Admit(n, inf, k) /\ UpdateOK(inf, k, s)
          THEN /\ infos' = [infos EXCEPT ![n] = inf2]
               /\ timers' = [timers EXCEPT ![n] =
                     [x \in DOMAIN Drop(@, gone) \cup armed |->
                        IF x \in armed THEN Timeout ELSE @[x]]]
               /\ age' = [age EXCEPT ![n] =
                     [x \in DOMAIN Drop(@, gone) \cup armed |->
                        IF x \in armed THEN 0 ELSE @[x]]]
               /\ fired' = [fired EXCEPT ![n] = Supersede(@, gone \cup armed)]
               /\ merks' = [merks EXCEPT ![n] = FixedMerks(inf2, @)]
               /\ chan' = FixSends(Pop(chan, m, n), n, inf2, merks[n], peers[n])
          ELSE /\ chan' = Pop(chan, m, n)
               /\ UNCHANGED <<infos, timers, age, fired, merks>>
    /\ UNCHANGED <<peers, up, pending, panicked, linkChanges, refreshes>>

\* The expiry timer of k runs out: time.AfterFunc queues its callback
\* on the router's actor
TimerFire(n, k) ==
    /\ k \in DOMAIN timers[n]
    /\ timers[n][k] = 0
    /\ fired[n][k] = "none"
    /\ fired' = [fired EXCEPT ![n][k] = "current"]
    /\ UNCHANGED <<infos, merks, peers, timers, age, up, pending, chan,
                   panicked, linkChanges, refreshes>>

\* Fault: the callback of a replaced timer still runs
TimerIsCurrentAlways(n, k) == fired[n][k] # "none"

\* r.timers[key] == timer: the callback belongs to the timer in place
TimerIsCurrent(n, k) == fired[n][k] = "current"

\* Fault: the info is deleted but _fixMerks does not run
DeleteInfoNoFix(n, k) ==
    /\ infos' = [infos EXCEPT ![n] = Drop(@, {k})]
    /\ timers' = [timers EXCEPT ![n] = Drop(@, {k})]
    /\ age' = [age EXCEPT ![n] = Drop(@, {k})]
    /\ UNCHANGED <<merks, chan>>

\* The second firing: the info and its timer are deleted, and _fix runs
\* _fixMerks, which reports the smaller tree to every peer
DeleteInfo(n, k) ==
    LET inf2 == Drop(infos[n], {k})
    IN /\ infos' = [infos EXCEPT ![n] = inf2]
       /\ timers' = [timers EXCEPT ![n] = Drop(@, {k})]
       /\ age' = [age EXCEPT ![n] = Drop(@, {k})]
       /\ merks' = [merks EXCEPT ![n] = FixedMerks(inf2, @)]
       /\ chan' = FixSends(chan, n, inf2, merks[n], peers[n])

\* The first firing: the info is marked expired and the timer is reset to
\* 2 * routerTimeout; the tree, which ignores the flag, is unchanged
MarkExpired(n, k) ==
    /\ infos' = [infos EXCEPT ![n][k].expired = TRUE]
    /\ timers' = [timers EXCEPT ![n][k] = 2 * Timeout]
    /\ UNCHANGED <<age, merks, chan>>

\* The expiry callback: a stale one does nothing
RunTimer(n, k) ==
    /\ fired[n][k] # "none"
    /\ fired' = [fired EXCEPT ![n][k] = "none"]
    /\ CASE ~TimerIsCurrent(n, k) -> UNCHANGED <<infos, merks, timers, age, chan>>
         [] k \notin DOMAIN infos[n] \/ infos[n][k].expired -> DeleteInfo(n, k)
         [] OTHER -> MarkExpired(n, k)
    /\ UNCHANGED <<peers, up, pending, panicked, linkChanges, refreshes>>

\* Nothing is in flight: routerTimeout passes by one tick
Quiet ==
    /\ \A l \in Links : chan[l] = <<>>
    /\ pending = {}
    /\ \A n \in Node, k \in Key : fired[n][k] = "none"

Tick ==
    /\ Quiet
    /\ \A n \in Node : \A k \in DOMAIN timers[n] : timers[n][k] > 0
    /\ timers' = [n \in Node |-> [k \in DOMAIN timers[n] |-> timers[n][k] - 1]]
    /\ age' = [n \in Node |-> [k \in DOMAIN age[n] |->
                 IF age[n][k] < Timeout THEN age[n][k] + 1 ELSE Timeout]]
    /\ UNCHANGED <<infos, merks, peers, fired, up, pending, chan,
                   panicked, linkChanges, refreshes>>

\* n publishes a new announcement of its own (its refresh timer or a
\* parent change in _fix), then _fixMerks
SelfRefresh(n) ==
    /\ refreshes < MaxRefreshes
    /\ infos[n][n].seq < MaxSeq
    /\ LET inf2 == [infos[n] EXCEPT ![n].seq = @ + 1]
       IN /\ infos' = [infos EXCEPT ![n] = inf2]
          /\ merks' = [merks EXCEPT ![n] = FixedMerks(inf2, @)]
          /\ chan' = FixSends(chan, n, inf2, merks[n], peers[n])
    /\ refreshes' = refreshes + 1
    /\ UNCHANGED <<peers, timers, fired, age, up, pending, panicked, linkChanges>>

\* Fault: addPeer registers the peer without a tree for it
AddPeerNoMerk(n, m) ==
    /\ <<n, m, "add">> \in pending
    /\ m \notin peers[n]
    /\ chan' = FixSends(chan, n, infos[n], merks[n], peers[n] \cup {m})
    /\ peers' = [peers EXCEPT ![n] = @ \cup {m}]
    /\ pending' = pending \ {<<n, m, "add">>}
    /\ UNCHANGED <<infos, merks, timers, fired, age, up, panicked, linkChanges, refreshes>>

\* addPeer of a new key: an empty tree for it, then the deferred
\* _fixMerks finds it differs and kicks off a diff with that peer
AddPeer(n, m) ==
    /\ <<n, m, "add">> \in pending
    /\ m \notin peers[n]
    /\ LET mk == Put(merks[n], m, EmptyTree)
       IN /\ merks' = [merks EXCEPT ![n] = FixedMerks(infos[n], mk)]
          /\ chan' = FixSends(chan, n, infos[n], mk, peers[n] \cup {m})
    /\ peers' = [peers EXCEPT ![n] = @ \cup {m}]
    /\ pending' = pending \ {<<n, m, "add">>}
    /\ UNCHANGED <<infos, timers, fired, age, up, panicked, linkChanges, refreshes>>

\* removePeer of the last link to a key: the key leaves r.peers but its
\* tree stays in r.merks; the _fix that follows changes no info here
RemovePeer(n, m) ==
    /\ <<n, m, "remove">> \in pending
    /\ <<n, m, "add">> \notin pending
    /\ peers' = [peers EXCEPT ![n] = @ \ {m}]
    /\ pending' = pending \ {<<n, m, "remove">>}
    /\ UNCHANGED <<infos, merks, timers, fired, age, up, chan, panicked,
                   linkChanges, refreshes>>

\* A connection opens: each end queues addPeer
LinkUp(a, b) ==
    /\ {a, b} \in Edges \ up
    /\ linkChanges < MaxLinkChanges
    /\ \A x \in {"add", "remove"} : <<a, b, x>> \notin pending /\ <<b, a, x>> \notin pending
    /\ up' = up \cup {{a, b}}
    /\ pending' = pending \cup {<<a, b, "add">>, <<b, a, "add">>}
    /\ linkChanges' = linkChanges + 1
    /\ UNCHANGED <<infos, merks, peers, timers, fired, age, chan, panicked, refreshes>>

\* A connection closes: what is in flight on it is lost, and each end
\* queues removePeer
LinkDown(a, b) ==
    /\ {a, b} \in up
    /\ linkChanges < MaxLinkChanges
    /\ up' = up \ {{a, b}}
    /\ chan' = [chan EXCEPT ![<<a, b>>] = <<>>, ![<<b, a>>] = <<>>]
    /\ pending' = pending \cup {<<a, b, "remove">>, <<b, a, "remove">>}
    /\ linkChanges' = linkChanges + 1
    /\ UNCHANGED <<infos, merks, peers, timers, fired, age, panicked, refreshes>>

-----------------------------------------------------------------------------

\* A store as a running router may hold it before its links open: its own
\* info, and infos of routers that have left (of the keys InitHeld), each
\* with a running timer that agrees with whether it is expired.
Stores(n) ==
    {inf \in UNION {[K -> [seq : {1}, expired : BOOLEAN]] : K \in SUBSET (InitHeld \cup {n})} :
        /\ n \in DOMAIN inf
        /\ ~inf[n].expired
        /\ Cardinality(DOMAIN inf) <= MaxInfos}

TimersFor(inf, n) ==
    {tm \in [DOMAIN inf \ {n} -> 1..2 * Timeout] :
        \A k \in DOMAIN tm : ~inf[k].expired => tm[k] <= Timeout}

\* Every router running with the links InitUp just opened: addPeer is
\* queued at both ends
Init ==
    /\ infos \in {inf \in [Node -> UNION {Stores(n) : n \in Node}] :
                    \A n \in Node : inf[n] \in Stores(n)}
    /\ timers \in {tm \in [Node -> UNION {TimersFor(infos[n], n) : n \in Node}] :
                     \A n \in Node : tm[n] \in TimersFor(infos[n], n)}
    /\ age = [n \in Node |-> [k \in DOMAIN timers[n] |->
                IF infos[n][k].expired THEN Timeout ELSE Timeout - timers[n][k]]]
    /\ fired = [n \in Node |-> [k \in Key |-> "none"]]
    /\ merks = [n \in Node |-> EmptyTree]
    /\ peers = [n \in Node |-> {}]
    /\ up = InitUp
    /\ pending = {<<l[1], l[2], "add">> : l \in {x \in Links : {x[1], x[2]} \in InitUp}}
    /\ chan = [l \in Links |-> <<>>]
    /\ panicked = {}
    /\ linkChanges = 0
    /\ refreshes = 0

Next ==
    \/ \E n \in Node : \E m \in Node \ {n} :
        \/ HandleMerkleReq(n, m)
        \/ HandleMerkleRes(n, m)
        \/ HandleAnnounce(n, m)
        \/ AddPeer(n, m)
        \/ RemovePeer(n, m)
        \/ LinkUp(n, m)
        \/ LinkDown(n, m)
    \/ \E n \in Node :
        \/ SelfRefresh(n)
        \/ \E k \in Key : TimerFire(n, k) \/ RunTimer(n, k)
    \/ Tick

Spec == Init /\ [][Next]_vars

\* Every router's actor works off its mailbox, timers fire and time
\* passes: weak fairness of every step but a link change, which is not
\* bound to happen.  Tick is enabled only when nothing is pending, so it
\* cannot starve a handler.
FairSpec == Spec /\ WF_vars(Next /\ UNCHANGED linkChanges)

-----------------------------------------------------------------------------
(* Properties *)

TypeOK ==
    /\ \A n \in Node :
         /\ DOMAIN infos[n] \subseteq Key
         /\ \A k \in DOMAIN infos[n] : infos[n][k] \in [seq : Seqs, expired : BOOLEAN]
         /\ DOMAIN timers[n] = DOMAIN infos[n] \ {n}
         /\ DOMAIN age[n] = DOMAIN timers[n]
         /\ DOMAIN merks[n] \subseteq Node
         /\ peers[n] \subseteq DOMAIN merks[n]
    /\ fired \in [Node -> [Key -> {"none", "current", "stale"}]]
    /\ up \subseteq Edges
    /\ panicked \subseteq Node

\* handleMerkleReq never reaches its "this should never happen" panics
\* (lines 615-623): a walk down the tree kept for a peer never ends at an
\* inner node without children, nor at a leaf whose key r.infos has
\* dropped.  This holds only if every change to r.infos is followed by
\* _fixMerks before the next message is handled.
NoPanic == panicked = {}

\* When nothing is in flight, the two ends of every open link agree on
\* every announcement, except the keys one end's capacity rule refuses:
\* each key one end holds is held by the other with the same seq, or
\* refused by its _handleAnnounce (spec 8.3, sync convergence).  The
\* single-child skip of handleMerkleReq must not hide any difference.
Agreed(a, b) ==
    \A k \in DOMAIN infos[b] :
        IF k \in DOMAIN infos[a] THEN infos[a][k].seq = infos[b][k].seq
                                 ELSE ~Admit(a, infos[a], k)

AgreeWhenQuiet ==
    Quiet => \A a, b \in Node : {a, b} \in up => Agreed(a, b)

\* An info is marked expired only once routerTimeout has passed since it
\* was accepted: a timer callback queued before _update replaced the
\* timer must not expire the new info (the r.timers[key] == timer check).
ExpiryNotEarly ==
    \A n \in Node : \A k \in DOMAIN age[n] :
        infos[n][k].expired => age[n][k] >= Timeout

\* The Merkle protocol implements the announcement store: each node's
\* map from keys to seqs changes only as AnnounceStore allows.
Store == INSTANCE AnnounceStore WITH view <- [n \in Node |-> TreeOf(infos[n])]

RefinesStore == Store!Spec

\* Every departed router's announcement is eventually gone from every
\* store for good (the intent of the header comment, lines 25-29: an
\* expired info is kept two more timeouts so that all nodes stop syncing
\* it, and the network does not live-lock with nothing ever expiring).
Departed == Key \ Node

DepartedForgotten == <>[](\A n \in Node : DOMAIN infos[n] \cap Departed = {})

=============================================================================
