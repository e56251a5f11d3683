------------------------------- MODULE Router -------------------------------
(***************************************************************************)
(* The spanning-tree router of ironwood (src/unnamed/part_000, the router  *)
(* actor, lines 53-656): the announcement store with its CRDT ordering,    *)
(* the signature request/response exchange, the parent-selection state     *)
(* machine _fix, the expiry and refresh timers, peer addition and removal  *)
(* and node restarts, over a fixed graph of possible links.                *)
(*                                                                         *)
(* Every router is an actor (phony.Inbox): one handler runs at a time, so  *)
(* each handler is one atomic action.  Messages between two routers travel *)
(* on one FIFO channel per direction, lost when the link goes down.  The   *)
(* Merkle-tree synchronisation that carries announcements is abstracted    *)
(* here to "a node may send a peer any info whose announcement differs     *)
(* from the peer's"; MerkleSync.tla models the protocol itself.            *)
(*                                                                         *)
(* Keys are positive integers ordered by <, standing for publicKey.less;   *)
(* 0 is the zero key, below every real key.                                *)
(***************************************************************************)
EXTENDS Integers, FiniteSets, Sequences, SequencesExt, FiniteSetsExt, Relation

CONSTANTS
    Node,            \* the public keys of the nodes
    Edges,           \* the links that may exist, as 2-element sets of nodes
    InitUp,          \* the links already connected, and added on both ends, at start
    Nonces,          \* the values _newReq's random nonce may take
    MaxSeq,          \* bound on a node's own announcement seq
    MaxInfos,        \* config routerMaxInfos
    MaxQueue,        \* bound on the messages queued on one direction of a link
    MaxLinkChanges,  \* bound on links going up or down
    MaxRestarts,     \* bound on node restarts
    MaxExpiries,     \* bound on expiry-timer firings
    MaxRefreshes     \* bound on self-refresh timer firings

ASSUME /\ Node \subseteq Nat \ {0}
       /\ Edges \subseteq {e \in SUBSET Node : Cardinality(e) = 2}
       /\ InitUp \subseteq Edges
       /\ Nonces \subseteq Nat /\ Nonces # {}
       /\ MaxInfos \in Nat \ {0}

NoKey == 0   \* the zero publicKey

VARIABLES
    rt,          \* rt[n]: the router state of node n
    chan,        \* chan[<<a, b>>]: a's signature requests to b not yet answered
    up,          \* the links whose connection is open
    panicked,    \* the nodes whose router hit a "this should never happen" panic
    linkChanges, \* links brought up or down so far
    restarts,    \* node restarts so far
    expiries,    \* expiry timers fired so far
    refreshes    \* self-refresh timers fired so far

vars == <<rt, chan, up, panicked, linkChanges, restarts, expiries, refreshes>>

Links == {<<a, b>> \in Node \X Node : {a, b} \in Edges}
Port == Node \cup {0}

\* The port a parent uses for its link to a child: any value unique among
\* the parent's links and different from 0 (peers.addPeer skips port 0).
PortOf(parent, child) == child

EmptyFn == [k \in {} |-> 0]

-----------------------------------------------------------------------------
(* Records: routerInfo, routerAnnounce, routerSigReq, routerSigRes.        *)

Info == [parent : Node, seq : 0..MaxSeq, nonce : Nonces, port : Port,
         expired : BOOLEAN]
ZeroInfo == [parent |-> NoKey, seq |-> 0, nonce |-> 0, port |-> 0,
             expired |-> FALSE]

Ann(key, parent, seq, nonce, port) ==
    [key |-> key, parent |-> parent, seq |-> seq, nonce |-> nonce, port |-> port]

\* routerInfo.getAnnounce
GetAnnounce(info, key) ==
    Ann(key, info.parent, info.seq, info.nonce, info.port)

SigReqMsg(req) == [type |-> "SigReq", seq |-> req.seq, nonce |-> req.nonce]
SigResMsg(req, port) ==
    [type |-> "SigRes", seq |-> req.seq, nonce |-> req.nonce, port |-> port]

Msg == [type : {"SigReq"}, seq : 1..MaxSeq + 1, nonce : Nonces]

\* f is a function from some keys to values in S
PartialFn(f, S) == DOMAIN f \subseteq Node /\ \A k \in DOMAIN f : f[k] \in S

RouterStateOK(r) ==
    /\ DOMAIN r = {"infos", "peers", "requests", "responses", "resSeqs",
                   "resSeqCtr", "refresh", "doRoot1", "doRoot2"}
    /\ PartialFn(r.infos, Info)
    /\ r.peers \subseteq Node
    /\ PartialFn(r.requests, [seq : 1..MaxSeq + 1, nonce : Nonces])
    /\ PartialFn(r.responses, [seq : 1..MaxSeq + 1, nonce : Nonces, port : Port])
    /\ PartialFn(r.resSeqs, 1..Cardinality(Node))
    /\ r.resSeqCtr \in 0..Cardinality(Node)
    /\ {r.refresh, r.doRoot1, r.doRoot2} \subseteq BOOLEAN

-----------------------------------------------------------------------------
(* The announcement store.                                                 *)

\* The switch of _update: TRUE when ann replaces the stored info.
Accepts(info, ann) ==
    \/ info.seq < ann.seq
    \/ /\ info.seq = ann.seq
       /\ \/ ann.parent < info.parent
          \/ /\ ann.parent = info.parent
             /\ ann.nonce < info.nonce

\* _update's result
UpdateOK(infos, ann) ==
    ann.key \notin DOMAIN infos \/ Accepts(infos[ann.key], ann)

\* _update's effect when it returns true (the timers are re-armed, which
\* the nondeterministic timer actions below stand for)
Store(infos, ann) ==
    [k \in DOMAIN infos \cup {ann.key} |->
        IF k = ann.key
        THEN [parent |-> ann.parent, seq |-> ann.seq, nonce |-> ann.nonce,
              port |-> ann.port, expired |-> FALSE]
        ELSE infos[k]]

Update(r, ann) ==
    IF UpdateOK(r.infos, ann) THEN [r EXCEPT !.infos = Store(@, ann)] ELSE r

SelfInfo(r, n) == IF n \in DOMAIN r.infos THEN r.infos[n] ELSE ZeroInfo

\* _getRootAndDists: follow parents from dest, skipping expired infos;
\* returns the last key reached (the zero key if none) and the keys visited.
RECURSIVE Walk(_, _, _, _)
Walk(infos, next, dists, root) ==
    IF next \in dists \/ next \notin DOMAIN infos \/ infos[next].expired
    THEN <<root, dists>>
    ELSE Walk(infos, infos[next].parent, dists \cup {next}, next)

GetRootAndDists(infos, dest) == Walk(infos, dest, {}, NoKey)

ResSeq(r, k) == IF k \in DOMAIN r.resSeqs THEN r.resSeqs[k] ELSE 0

-----------------------------------------------------------------------------
(* _fix and the helpers it calls.                                          *)

\* Fault: the loop check through our own key (lines 193-196) is missing.
SkipsUnknownOnly(r, n, pk, rd) == pk \notin DOMAIN r.infos

\* _fix skips a responder whose info it does not know or whose parent
\* chain (rd = _getRootAndDists(pk)) already passes through n.
Skips(r, n, pk, rd) == pk \notin DOMAIN r.infos \/ n \in rd[2]

\* The best (root, parent) _fix computes, one result per iteration order of
\* the Go map r.responses.
BestChoices(r, n) ==
    LET self == SelfInfo(r, n)
        own == GetRootAndDists(r.infos, n)[1]
        start == IF self.parent \in r.peers /\ own < n
                 THEN [root |-> own, parent |-> self.parent]
                 ELSE [root |-> n, parent |-> n]
        Consider(best, pk) ==
            LET rd == GetRootAndDists(r.infos, pk)
                b1 == IF rd[1] < best.root
                      THEN [root |-> rd[1], parent |-> pk] ELSE best
            IN IF Skips(r, n, pk, rd) THEN best
               ELSE IF /\ r.refresh \/ b1.parent # self.parent
                       /\ rd[1] = b1.root
                       /\ ResSeq(r, pk) < ResSeq(r, b1.parent)
                    THEN [root |-> rd[1], parent |-> pk]
                    ELSE b1
    IN {FoldLeft(Consider, start, order) : order \in SetToSeqs(DOMAIN r.responses)}

NoOut == [m \in Node |-> <<>>]
Outcome(r, out, ok) == [r |-> r, out |-> out, ok |-> ok]

\* Fault: _clearReqs leaves the responses to the previous requests in place.
SendReqsKeepResponses(r, n, nonce) ==
    LET r2 == [r EXCEPT
                 !.requests = [pk \in r.peers |->
                                 [seq |-> r.infos[n].seq + 1, nonce |-> nonce[pk]]],
                 !.resSeqs = EmptyFn, !.resSeqCtr = 0]
    IN Outcome(r2, [m \in Node |-> IF m \in r.peers
                                   THEN <<SigReqMsg(r2.requests[m])>> ELSE <<>>],
               TRUE)

\* Fault: _clearReqs does not reset the response counter resSeqCtr.
SendReqsKeepCounter(r, n, nonce) ==
    LET r2 == [r EXCEPT
                 !.requests = [pk \in r.peers |->
                                 [seq |-> r.infos[n].seq + 1, nonce |-> nonce[pk]]],
                 !.responses = EmptyFn, !.resSeqs = EmptyFn]
    IN Outcome(r2, [m \in Node |-> IF m \in r.peers
                                   THEN <<SigReqMsg(r2.requests[m])>> ELSE <<>>],
               TRUE)

\* _sendReqs (with _clearReqs and _newReq): a fresh request to every peer;
\* nonce[pk] is the random nonce drawn for pk.
SendReqs(r, n, nonce) ==
    LET r2 == [r EXCEPT
                 !.requests = [pk \in r.peers |->
                                 [seq |-> r.infos[n].seq + 1, nonce |-> nonce[pk]]],
                 !.responses = EmptyFn, !.resSeqs = EmptyFn, !.resSeqCtr = 0]
    IN Outcome(r2, [m \in Node |-> IF m \in r.peers
                                   THEN <<SigReqMsg(r2.requests[m])>> ELSE <<>>],
               TRUE)

ClearFlags(r) == [r EXCEPT !.refresh = FALSE, !.doRoot1 = FALSE, !.doRoot2 = FALSE]

\* _useResponse: the announcement that adopts pk as parent
UseResponseAnn(r, n, pk) ==
    Ann(n, pk, r.responses[pk].seq, r.responses[pk].nonce, r.responses[pk].port)

\* _becomeRoot: a self-parented announcement from a fresh request
BecomeRootAnn(r, n, x) == Ann(n, n, SelfInfo(r, n).seq + 1, x, 0)

\* The outcomes of _fix; ok is FALSE where _fix panics.
Fix(r, n) ==
    UNION {
      IF ~(r.refresh \/ r.doRoot1 \/ r.doRoot2 \/ SelfInfo(r, n).parent # best.parent)
      THEN {Outcome(r, NoOut, TRUE)}
      ELSE IF best.parent \in DOMAIN r.responses /\ best.root # n
      THEN LET ann == UseResponseAnn(r, n, best.parent)
           IN {[SendReqs(ClearFlags(Update(r, ann)), n, f)
                  EXCEPT !.ok = UpdateOK(r.infos, ann)] : f \in [r.peers -> Nonces]}
      ELSE IF r.doRoot2
      THEN {[SendReqs(ClearFlags(Update(r, BecomeRootAnn(r, n, x))), n, f)
               EXCEPT !.ok = UpdateOK(r.infos, BecomeRootAnn(r, n, x))] :
              x \in Nonces, f \in [r.peers -> Nonces]}
      ELSE IF ~r.doRoot1
      THEN {Outcome([r EXCEPT !.doRoot1 = TRUE], NoOut, TRUE)}
      ELSE {Outcome(r, NoOut, TRUE)}
    : best \in BestChoices(r, n)}

\* The router right after init and its first _fix (doRoot2 set, no infos):
\* it becomes root with seq 1.
Booted(n, x) ==
    [infos |-> n :> [parent |-> n, seq |-> 1, nonce |-> x, port |-> 0,
                     expired |-> FALSE],
     peers |-> {}, requests |-> EmptyFn, responses |-> EmptyFn,
     resSeqs |-> EmptyFn, resSeqCtr |-> 0,
     refresh |-> FALSE, doRoot1 |-> FALSE, doRoot2 |-> FALSE]

-----------------------------------------------------------------------------
(* Channels.                                                               *)

\* Append n's outgoing messages; writes to a closed connection are lost.
Send(ch, n, out) ==
    [l \in Links |-> IF l[1] = n /\ {l[1], l[2]} \in up
                     THEN ch[l] \o out[l[2]] ELSE ch[l]]

Pop(ch, l) == [ch EXCEPT ![l] = Tail(@)]

Drop(ch, E) == [l \in Links |-> IF {l[1], l[2]} \in E THEN <<>> ELSE ch[l]]

\* The bounds of the model, required of every state an action produces
Bounded ==
    /\ \A n \in Node : SelfInfo(rt'[n], n).seq <= MaxSeq
    /\ \A l \in Links : Len(chan'[l]) <= MaxQueue

\* Node n ends a handler that read ch (a message already popped) with one
\* of the outcomes os.
Apply(n, ch, os) ==
    \E o \in os :
        /\ rt' = [rt EXCEPT ![n] = o.r]
        /\ chan' = Send(ch, n, o.out)
        /\ panicked' = IF o.ok THEN panicked ELSE panicked \cup {n}
        /\ UNCHANGED <<up, linkChanges, restarts>>
        /\ Bounded

Finish(n, ch, os) == Apply(n, ch, os) /\ UNCHANGED <<expiries, refreshes>>

-----------------------------------------------------------------------------
(* Handlers.                                                               *)

\* m answers the request at the head of n's queue to m (router.handleRequest,
\* _handleRequest: sign it with the port of m's link to n; that handler reads
\* no router state, so it is folded into this step) and n handles the
\* response (router.handleResponse, _handleResponse): keep the first
\* response that matches the outstanding request, then _fix.
HandleResponse(n, m) ==
    /\ m \in rt[n].peers
    /\ n \in rt[m].peers
    /\ chan[<<n, m>>] # <<>>
    /\ LET res == SigResMsg(Head(chan[<<n, m>>]), PortOf(m, n))
           r == rt[n]
           r1 == [r EXCEPT !.resSeqCtr = @ + 1,
                           !.resSeqs = (m :> r.resSeqCtr + 1) @@ @,
                           !.responses = (m :> [seq |-> res.seq, nonce |-> res.nonce,
                                                port |-> res.port]) @@ @]
       IN Finish(n, Pop(chan, <<n, m>>),
                 IF /\ m \notin DOMAIN r.responses
                    /\ m \in DOMAIN r.requests
                    /\ r.requests[m] = [seq |-> res.seq, nonce |-> res.nonce]
                 THEN Fix(r1, n)
                 ELSE {Outcome(r, NoOut, TRUE)})

\* Fault: the capacity check admits a new key while the store is full.
AdmitOffByOne(r, n, ann) ==
    LET others == DOMAIN r.infos \ {n}
        worst == IF others = {} THEN NoKey
                 ELSE CHOOSE w \in others : \A k \in others : k <= w
    IN IF Cardinality(DOMAIN r.infos) <= MaxInfos \/ ann.key \in DOMAIN r.infos
       THEN [ok |-> TRUE, evict |-> NoKey]
       ELSE [ok |-> ann.key < worst, evict |-> worst]

\* _handleAnnounce's capacity check: may ann be offered to _update, and
\* which entry is evicted if it is accepted (NoKey: none)
Admit(r, n, ann) ==
    LET others == DOMAIN r.infos \ {n}
        worst == IF others = {} THEN NoKey
                 ELSE CHOOSE w \in others : \A k \in others : k <= w
    IN IF Cardinality(DOMAIN r.infos) < MaxInfos \/ ann.key \in DOMAIN r.infos
       THEN [ok |-> TRUE, evict |-> NoKey]
       ELSE [ok |-> ann.key < worst, evict |-> worst]

\* Fault: _handleAnnounce stores the announcement but does not run _fix.
HandleAnnounceNoFix(n, ann) ==
    LET r == rt[n]
        adm == Admit(r, n, ann)
        r1 == [Update(r, ann) EXCEPT
                 !.infos = [k \in DOMAIN @ \ {adm.evict} |-> @[k]],
                 !.refresh = @ \/ ann.key = n]
    IN IF adm.ok /\ UpdateOK(r.infos, ann)
       THEN {Outcome(r1, NoOut, TRUE)}
       ELSE {Outcome(r, NoOut, TRUE)}

\* _handleAnnounce at node n for an announcement received from a peer
HandleAnnounce(n, ann) ==
    LET r == rt[n]
        adm == Admit(r, n, ann)
        r1 == [Update(r, ann) EXCEPT
                 !.infos = [k \in DOMAIN @ \ {adm.evict} |-> @[k]],
                 !.refresh = @ \/ ann.key = n]
    IN IF adm.ok /\ UpdateOK(r.infos, ann)
       THEN Fix(r1, n)
       ELSE {Outcome(r, NoOut, TRUE)}

\* Merkle synchronisation delivers to m the announcement of one of peer n's
\* infos whose digest differs from m's, and m handles it
\* (router.handleAnnounce).  MerkleSync.tla models how the digests are
\* compared; here the transfer is one step.
SyncAnnounce(n, m, k) ==
    /\ m \in rt[n].peers
    /\ n \in rt[m].peers
    /\ {n, m} \in up
    /\ k \in DOMAIN rt[n].infos
    /\ LET a == GetAnnounce(rt[n].infos[k], k)
       IN /\ k \in DOMAIN rt[m].infos => GetAnnounce(rt[m].infos[k], k) # a
          /\ Finish(m, chan, HandleAnnounce(m, a))

\* The refresh timer of n's own info fires (_update, lines 407-416)
SelfRefresh(n) ==
    /\ refreshes < MaxRefreshes
    /\ Apply(n, chan, Fix([rt[n] EXCEPT !.refresh = TRUE], n))
    /\ refreshes' = refreshes + 1
    /\ UNCHANGED expiries

\* The expiry timer of a remote info fires (_update, lines 418-452): the
\* first time it marks the info expired, the second time it deletes it.
ExpireInfo(n, k) ==
    /\ k # n
    /\ k \in DOMAIN rt[n].infos
    /\ expiries < MaxExpiries
    /\ LET r == rt[n]
           r1 == IF r.infos[k].expired
                 THEN [r EXCEPT !.infos = [j \in DOMAIN @ \ {k} |-> @[j]]]
                 ELSE [r EXCEPT !.infos[k].expired = TRUE]
       IN /\ Apply(n, chan, Fix(r1, n))
          /\ expiries' = expiries + 1
          /\ UNCHANGED refreshes

\* The one-second fixTimer armed by _fix fires (lines 241-248)
RootTimer(n) ==
    /\ rt[n].doRoot1
    /\ Finish(n, chan, Fix([rt[n] EXCEPT !.doRoot2 = TRUE], n))

\* router.addPeer for the first link to key m (lines 101-129)
AddPeer(n, m) ==
    /\ {n, m} \in up
    /\ m \notin rt[n].peers
    /\ \E x \in Nonces :
        LET r == rt[n]
            req == IF m \in DOMAIN r.requests THEN r.requests[m]
                   ELSE [seq |-> SelfInfo(r, n).seq + 1, nonce |-> x]
            r1 == [r EXCEPT !.peers = @ \cup {m},
                            !.requests = IF m \in DOMAIN r.responses THEN @
                                         ELSE (m :> req) @@ @]
        IN Finish(n, chan,
                  {Outcome(r1, [k \in Node |-> IF k = m /\ m \notin DOMAIN r.responses
                                               THEN <<SigReqMsg(req)>> ELSE <<>>],
                           TRUE)})

\* Fault: removePeer drops the peer but does not run _fix.
RemovePeerNoFix(n, m) ==
    /\ m \in rt[n].peers
    /\ {n, m} \notin up
    /\ LET r == rt[n]
           Del(f) == [k \in DOMAIN f \ {m} |-> f[k]]
           r1 == [r EXCEPT !.peers = @ \ {m}, !.requests = Del(@),
                           !.responses = Del(@), !.resSeqs = Del(@)]
       IN Finish(n, chan, {Outcome(r1, NoOut, TRUE)})

\* router.removePeer for the last link to key m (lines 131-147)
RemovePeer(n, m) ==
    /\ m \in rt[n].peers
    /\ {n, m} \notin up
    /\ LET r == rt[n]
           Del(f) == [k \in DOMAIN f \ {m} |-> f[k]]
           r1 == [r EXCEPT !.peers = @ \ {m}, !.requests = Del(@),
                           !.responses = Del(@), !.resSeqs = Del(@)]
       IN Finish(n, chan, Fix(r1, n))

\* A connection between n and m is established
LinkUp(n, m) ==
    /\ {n, m} \in Edges \ up
    /\ m \notin rt[n].peers /\ n \notin rt[m].peers
    /\ linkChanges < MaxLinkChanges
    /\ up' = up \cup {{n, m}}
    /\ linkChanges' = linkChanges + 1
    /\ UNCHANGED <<rt, chan, panicked, restarts, expiries, refreshes>>

\* The connection between n and m fails; queued messages are lost
LinkDown(n, m) ==
    /\ {n, m} \in up
    /\ linkChanges < MaxLinkChanges
    /\ up' = up \ {{n, m}}
    /\ chan' = Drop(chan, {{n, m}})
    /\ linkChanges' = linkChanges + 1
    /\ UNCHANGED <<rt, panicked, restarts, expiries, refreshes>>

\* Node n restarts: its connections close and its router starts afresh
\* (router.init followed by its first _fix); nothing is persisted.
Restart(n) ==
    /\ restarts < MaxRestarts
    /\ \E x \in Nonces : rt' = [rt EXCEPT ![n] = Booted(n, x)]
    /\ up' = {e \in up : n \notin e}
    /\ chan' = Drop(chan, {e \in up : n \in e})
    /\ restarts' = restarts + 1
    /\ UNCHANGED <<panicked, linkChanges, expiries, refreshes>>

-----------------------------------------------------------------------------

\* Every node booted, then router.addPeer run on both ends of the InitUp
\* links (a state reachable by LinkUp and AddPeer steps).
Init ==
    /\ \E x \in [Node -> Nonces], y \in [Links -> Nonces] :
        LET Nbrs(n) == {m \in Node : {n, m} \in InitUp}
            Req(n, m) == [seq |-> 2, nonce |-> y[<<n, m>>]]
        IN /\ rt = [n \in Node |->
                      [Booted(n, x[n]) EXCEPT !.peers = Nbrs(n),
                                              !.requests = [m \in Nbrs(n) |-> Req(n, m)]]]
           /\ chan = [l \in Links |-> IF {l[1], l[2]} \in InitUp
                                       THEN <<SigReqMsg(Req(l[1], l[2]))>> ELSE <<>>]
    /\ up = InitUp
    /\ panicked = {}
    /\ linkChanges = 0
    /\ restarts = 0
    /\ expiries = 0
    /\ refreshes = 0

Next ==
    \/ \E n, m \in Node :
        \/ HandleResponse(n, m)
        \/ AddPeer(n, m)
        \/ RemovePeer(n, m)
        \/ LinkUp(n, m)
        \/ LinkDown(n, m)
        \/ ExpireInfo(n, m)
        \/ \E k \in Node : SyncAnnounce(n, m, k)
    \/ \E n \in Node :
        \/ SelfRefresh(n)
        \/ RootTimer(n)

Spec == Init /\ [][Next]_vars

\* The same system with node restarts added (a process that exits and
\* starts again with nothing persisted).
NextRestart == Next \/ \E n \in Node : Restart(n)

SpecRestart == Init /\ [][NextRestart]_vars

-----------------------------------------------------------------------------
(* Properties.                                                             *)

TypeOK ==
    /\ \A n \in Node : RouterStateOK(rt[n])
    /\ chan \in [Links -> Seq(Msg)]
    /\ up \subseteq Edges
    /\ panicked \subseteq Node
    /\ linkChanges \in 0..MaxLinkChanges
    /\ restarts \in 0..MaxRestarts
    /\ expiries \in 0..MaxExpiries
    /\ refreshes \in 0..MaxRefreshes

\* _fix never reaches one of its "this should never happen" panics: the
\* response it adopts (lines 209-214) always yields an announcement that
\* _update accepts for the node's own key.
NoPanic == panicked = {}

\* The root n computes for itself: the end of its own parent chain
RootOf(n) == GetRootAndDists(rt[n].infos, n)[1]

\* n signs a new announcement naming parent p # n (_useResponse)
Adopts(n, p) ==
    /\ n \in DOMAIN rt'[n].infos
    /\ rt'[n].infos[n].parent = p
    /\ p # n
    /\ rt'[n].infos[n] # SelfInfo(rt[n], n)

\* When _fix adopts a parent (lines 188-214), the parent's info is live in
\* the node's own view and the parent's chain does not lead back to the
\* node: an expired info is skipped like a missing one (comment, lines
\* 27-31) and a loop through the node is refused (lines 193-196).
ParentChoiceSound ==
    [][\A n, p \in Node :
         restarts' = restarts /\ Adopts(n, p) =>
           LET v == rt'[n].infos
           IN /\ p \in DOMAIN v
              /\ ~v[p].expired
              /\ n \notin GetRootAndDists(v, p)[2]]_vars

\* The store never exceeds routerMaxInfos (_handleAnnounce, lines 475-532)
CapacityBound == \A n \in Node : Cardinality(DOMAIN rt[n].infos) <= MaxInfos

\* The lowest key n can reach over open connections
Reachable == ReflexiveTransitiveClosure([l \in Node \X Node |-> {l[1], l[2]} \in up], Node)
ComponentRoot(n) == Min({m \in Node : Reachable[n, m]})

\* The parent each node currently announces for itself
ParentOf == [n \in Node |-> SelfInfo(rt[n], n).parent]

\* Following the parents the nodes announce for themselves never leads
\* around a cycle: every chain ends at a node that is its own parent.
ParentsAcyclic ==
    \A n \in Node : \E k \in 0..Cardinality(Node) :
        LET RECURSIVE Hop(_, _)
            Hop(x, i) == IF i = 0 THEN x ELSE Hop(ParentOf[x], i - 1)
        IN ParentOf[Hop(n, k)] = Hop(n, k)

\* Once links stop changing, every node's own parent chain (_getRootAndDists
\* from its own key) eventually ends, and stays ending, at the lowest key
\* of its connected component: after a root is cut off, the nodes left
\* behind elect the next lowest key (spec scenario 3, "parent collapse").
TreeConverges == <>[](\A n \in Node : RootOf(n) = ComponentRoot(n))

-----------------------------------------------------------------------------
(* Fairness.  Each router is an actor that drains its mailbox, a timer    *)
(* that is armed fires, and Merkle synchronisation between connected       *)
(* peers keeps running while their digests differ: whenever some such      *)
(* step is possible, one is taken.  Links going up or down and restarts    *)
(* are not bound to happen, so they are left out of the fair steps.        *)

Fairness == WF_vars(Next /\ UNCHANGED <<linkChanges, restarts>>)

FairSpec == Spec /\ Fairness

=============================================================================
