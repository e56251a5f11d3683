------------------------------- MODULE DHTree -------------------------------
(***************************************************************************)
(* The spanning tree of the legacy dhtree (src/unnamed/part_000, lines    *)
(* 1141-1384), with the tree frames of network/peers.go that carry it.    *)
(* Every node keeps the last treeInfo each peer sent (tinfos), picks as    *)
(* its self the info of the lowest root, then the highest seq, then the   *)
(* earliest handled (hseq), skips infos whose root seq has timed out or   *)
(* whose path loops, and sends its self to every peer with a hop to that  *)
(* peer appended.  A root refreshes its seq every treeANNOUNCE; a non-root *)
(* drops its self when its root's seq is treeTIMEOUT old.  Bad news from   *)
(* the parent makes the node root for one second (t.wait).                 *)
(*                                                                         *)
(* Time is counted in ticks of treeANNOUNCE (treeTIMEOUT = Timeout ticks); *)
(* a tick passes only when no frame is in flight and no callback queued.   *)
(* Signatures are not modelled: peers.go's handleTree checks always pass   *)
(* for the frames this protocol sends.  A port is named by the peer it    *)
(* leads to (one link per pair of nodes).                                  *)
(***************************************************************************)
EXTENDS Naturals, Sequences, FiniteSets, FiniteSetsExt, Functions

CONSTANTS
    Node,            \* the public keys, positive naturals ordered by treeLess
    Edges,           \* the possible links, as 2-element sets of nodes
    InitUp,          \* the links up at the start
    Flaky,           \* the links that may go up or down
    Timeout,         \* treeTIMEOUT in ticks (treeANNOUNCE = Timeout \div 2)
    MaxTime,         \* the last tick
    MaxLinkChanges   \* bound on links going up or down

None == 0
Announce == Timeout \div 2

VARIABLES
    self,        \* self[n]: t.self, a treeInfo
    parent,      \* parent[n]: t.parent, the peer self came from, or None
    tinfos,      \* tinfos[n]: peer -> the last treeInfo it sent
    expired,     \* expired[n]: root -> [seq, time] (t.expired)
    wait,        \* wait[n]: t.wait, the one-second timer is pending
    stimer,      \* stimer[n]: the armed t.stimer: [self, at], or NoTimer
    squeue,      \* squeue[n]: captured selfs of fired stimer callbacks
    now,         \* the current tick
    up,          \* the links that are up
    hello,       \* <<a, b>>: a's handler for b has yet to read t.self (peers.go 109-110)
    greet,       \* [l, info]: the self read for link l, not yet sent (peers.go 111-113)
    pending,     \* <<a, b>>: a's dhtree has yet to run remove for b
    chan,        \* chan[<<a, b>>]: tree frames a sent to b, in order
    panicked,    \* nodes that reached panic("this should never happen")
    linkChanges

vars == <<self, parent, tinfos, expired, wait, stimer, squeue, now, up, hello, greet, pending, chan, panicked, linkChanges>>

Links == {l \in Node \X Node : {l[1], l[2]} \in Edges}


-----------------------------------------------------------------------------
(* treeInfo                                                                *)

\* The self a node builds when it becomes root (_fix, line 1311)
RootInfo(n, s, t) == [root |-> n, seq |-> s, hops |-> <<>>, time |-> t, hseq |-> 0]

\* The self set while waiting (update, line 1265): seq, time and hseq zero
WaitInfo(n) == [root |-> n, seq |-> 0, hops |-> <<>>, time |-> 0, hseq |-> 0]

\* A nil self (between "t.self = nil" and the _fix that follows)
NoInfo == WaitInfo(None)

NoTimer == [self |-> NoInfo, at |-> 0]

\* An info.add that forgets to append the hop
FrameNoHop(i, m) == [root |-> i.root, seq |-> i.seq, hops |-> i.hops]

\* The frame peer.sendTree writes to m: info.add appends a hop to m; time
\* and hseq are not serialised
Frame(i, m) == [root |-> i.root, seq |-> i.seq, hops |-> Append(i.hops, m)]

\* treeInfo.dest: the next key of the last hop, or the root
Dest(i) == IF i.hops = <<>> THEN i.root ELSE i.hops[Len(i.hops)]

\* treeInfo.from: the hop before the last one leads to the sender, or the
\* root sent the info itself
From(i) == IF Len(i.hops) > 1 THEN i.hops[Len(i.hops) - 1] ELSE i.root

\* peers.go handleTree (lines 169-187): a frame from p reaches update only
\* if it has a hop (checkSigs), comes from p and ends at n; otherwise the
\* handler returns the error and the connection closes
FrameOK(m, p, n) == m.hops # <<>> /\ From(m) = p /\ Dest(m) = n

\* checkLoops: no key repeats along root, hops[1].next, ...
NoLoop(i) == IsInjective(<<i.root>> \o i.hops)

Put(f, k, v) == [x \in DOMAIN f \cup {k} |-> IF x = k THEN v ELSE f[x]]

\* The switch of _fix's loop: i replaces best (a better root, then a newer
\* seq, then an info handled earlier)
Replaces(i, best) ==
    \/ i.root < best.root
    \/ i.root = best.root /\ i.seq > best.seq
    \/ i.root = best.root /\ i.seq = best.seq /\ i.hseq < best.hseq

\* _sendTree: self to every peer with an info, over the links still up
SendTree(ch, n, P, i) ==
    [l \in Links |-> IF l[1] = n /\ l[2] \in P /\ l \in up
                     THEN Append(ch[l], Frame(i, l[2])) ELSE ch[l]]

\* t.seq only grows, and it is only ever compared with the seqs of n's own
\* announcements still held somewhere; one above all of those stands for it
SeqsOf(n) ==
    LET held == {self[m] : m \in Node} \cup {stimer[m].self : m \in Node}
                \cup UNION {squeue[m] : m \in Node} \cup {g.info : g \in greet}
                \cup UNION {Range(tinfos[m]) : m \in Node}
                \cup UNION {Range(chan[l]) : l \in Links}
    IN {i.seq : i \in {j \in held : j.root = n}}
       \cup {expired[m][n].seq : m \in {x \in Node : n \in DOMAIN expired[x]}}

NextSeq(n) == Max(SeqsOf(n) \cup {1}) + 1

\* t.hseq likewise: one above every hseq n still holds
NextHseq(n) ==
    Max({self[n].hseq, stimer[n].self.hseq} \cup {i.hseq : i \in squeue[n]}
        \cup {i.hseq : i \in Range(tinfos[n])}
        \cup {g.info.hseq : g \in {h \in greet : h.l[1] = n}}) + 1

-----------------------------------------------------------------------------
(* _fix (lines 1300-1381), as a function of the state it reads; it         *)
(* returns the fields it writes.                                           *)

\* The refill of t.expired: per root, the newest seq and its earliest time
Refill(exp, tinf) ==
    LET Rs == DOMAIN exp \cup {tinf[p].root : p \in DOMAIN tinf}
        Cands(r) == {[seq |-> tinf[p].seq, time |-> tinf[p].time] :
                        p \in {q \in DOMAIN tinf : tinf[q].root = r}}
                    \cup (IF r \in DOMAIN exp THEN {exp[r]} ELSE {})
        Newer(a, b) == a.seq > b.seq \/ (a.seq = b.seq /\ a.time < b.time)
    IN [r \in Rs |-> CHOOSE c \in Cands(r) : \A d \in Cands(r) : ~Newer(d, c)]

\* The loop's first two skips: an old seq, or a seq treeTIMEOUT old
Current(i, exp, t) ==
    i.root \in DOMAIN exp =>
        /\ i.seq >= exp[i.root].seq
        /\ ~(i.seq = exp[i.root].seq /\ t - exp[i.root].time >= Timeout)

Fix(n, s0, p0, tinf, exp0, ch, st, t) ==
    LET becomeRoot == s0.root = None \/ n < s0.root
        s1 == IF becomeRoot THEN RootInfo(n, NextSeq(n), t) ELSE s0
        p1 == IF becomeRoot THEN None ELSE p0
        exp1 == Refill(exp0, tinf)
        Cand == {p \in DOMAIN tinf : Current(tinf[p], exp1, t) /\ NoLoop(tinf[p])
                                      /\ Replaces(tinf[p], s1)}
        \* the loop ends on the candidate no other one replaces
        p2 == IF Cand = {} THEN p1
              ELSE CHOOSE p \in Cand : \A q \in Cand : ~Replaces(tinf[q], tinf[p])
        s2 == IF Cand = {} THEN s1 ELSE tinf[p2]
        changed == s2 # s0
        at == IF s2.root = n THEN t + Announce ELSE exp1[s2.root].time + Timeout
    IN [self |-> s2, parent |-> p2,
        stimer |-> IF changed THEN [self |-> s2, at |-> at] ELSE st,
        chan |-> IF changed THEN SendTree(ch, n, DOMAIN tinf, s2) ELSE ch,
        \* the clean-up keeps only roots better than the new one
        expired |-> [r \in {x \in DOMAIN exp1 : x < s2.root} |-> exp1[r]]]

\* Node n runs _fix on the given state
SetFix(n, s0, p0, tinf, exp0, ch) ==
    \E r \in {Fix(n, s0, p0, tinf, exp0, ch, stimer[n], now)} :
    /\ self' = [self EXCEPT ![n] = r.self]
    /\ parent' = [parent EXCEPT ![n] = r.parent]
    /\ stimer' = [stimer EXCEPT ![n] = r.stimer]
    /\ expired' = [expired EXCEPT ![n] = r.expired]
    /\ chan' = r.chan

-----------------------------------------------------------------------------
(* Handlers                                                                *)

\* An update that never resends to a new peer
ResendNever(ch, n, p) == ch

\* update (lines 1222-1226): a peer with no info yet may have missed an
\* update (its handler read self before the last change): send self again
Resend(ch, n, p) ==
    IF p \notin DOMAIN tinfos[n] THEN SendTree(ch, n, {p}, self[n]) ELSE ch

\* peers.go handleTree and dhtree.update (lines 1213-1278): n handles the
\* tree frame at the head of the channel from peer p
HandleTree(n, p) ==
    /\ chan[<<p, n>>] # <<>>
    /\ FrameOK(Head(chan[<<p, n>>]), p, n)
    /\ LET m == Head(chan[<<p, n>>])
           info == [root |-> m.root, seq |-> m.seq, hops |-> m.hops,
                    time |-> now, hseq |-> NextHseq(n)]
           exp1 == IF m.root \notin DOMAIN expired[n] \/ expired[n][m.root].seq < m.seq
                   THEN Put(expired[n], m.root, [seq |-> m.seq, time |-> now])
                   ELSE expired[n]
           ch0 == [chan EXCEPT ![<<p, n>>] = Tail(@)]
           ch1 == Resend(ch0, n, p)
           tinf == Put(tinfos[n], p, info)
           isParent == p = parent[n]
           \* bad news from the parent: a worse root, or no newer seq
           doWait == \/ self[n].root < m.root
                     \/ m.root = self[n].root /\ m.seq <= self[n].seq
       IN /\ tinfos' = [tinfos EXCEPT ![n] = tinf]
          /\ CASE isParent /\ wait[n] ->
                    /\ panicked' = panicked \cup {n}
                    /\ expired' = [expired EXCEPT ![n] = exp1]
                    /\ chan' = ch1
                    /\ UNCHANGED <<self, parent, wait, stimer>>
               [] isParent /\ doWait ->
                    /\ self' = [self EXCEPT ![n] = WaitInfo(n)]
                    /\ parent' = [parent EXCEPT ![n] = None]
                    /\ wait' = [wait EXCEPT ![n] = TRUE]
                    /\ expired' = [expired EXCEPT ![n] = exp1]
                    /\ chan' = SendTree(ch1, n, DOMAIN tinf, WaitInfo(n))
                    /\ UNCHANGED <<stimer, panicked>>
               [] wait[n] ->
                    /\ expired' = [expired EXCEPT ![n] = exp1]
                    /\ chan' = ch1
                    /\ UNCHANGED <<self, parent, wait, stimer, panicked>>
               [] OTHER ->
                    /\ SetFix(n, IF isParent THEN NoInfo ELSE self[n],
                                 IF isParent THEN None ELSE parent[n],
                                 tinf, exp1, ch1)
                    /\ UNCHANGED <<wait, panicked>>
    /\ UNCHANGED <<squeue, now, up, hello, greet, pending, linkChanges>>

\* A remove that never re-runs _fix
RemoveKeep(n, p) ==
    /\ <<n, p>> \in pending
    /\ pending' = pending \ {<<n, p>>}
    /\ tinfos' = [tinfos EXCEPT ![n] = Restrict(@, DOMAIN @ \ {p})]
    /\ UNCHANGED <<self, parent, stimer, expired, chan>>
    /\ UNCHANGED <<wait, squeue, now, up, hello, greet, panicked, linkChanges>>

\* remove (lines 1281-1296): the peer for p is gone
Remove(n, p) ==
    /\ <<n, p>> \in pending
    /\ pending' = pending \ {<<n, p>>}
    /\ tinfos' = [tinfos EXCEPT ![n] = Restrict(@, DOMAIN @ \ {p})]
    /\ IF p \in DOMAIN tinfos[n] /\ self[n] = tinfos[n][p]
       THEN SetFix(n, NoInfo, None, Restrict(tinfos[n], DOMAIN tinfos[n] \ {p}),
                      expired[n], chan)
       ELSE UNCHANGED <<self, parent, stimer, expired, chan>>
    /\ UNCHANGED <<wait, squeue, now, up, hello, greet, panicked, linkChanges>>

\* t.stimer fires: its callback is queued on the actor
StimerFire(n) ==
    /\ stimer[n] # NoTimer
    /\ stimer[n].at <= now
    /\ squeue' = [squeue EXCEPT ![n] = @ \cup {stimer[n].self}]
    /\ stimer' = [stimer EXCEPT ![n] = NoTimer]
    /\ UNCHANGED <<self, parent, tinfos, expired, wait, now, up,
                   hello, greet, pending, chan, panicked, linkChanges>>

\* A stimer callback that drops self whatever self it was armed for
RunStimerAny(n, s) ==
    /\ s \in squeue[n]
    /\ squeue' = [squeue EXCEPT ![n] = @ \ {s}]
    /\ SetFix(n, NoInfo, None, tinfos[n], expired[n], chan)
    /\ UNCHANGED <<tinfos, wait, now, up, hello, greet, pending, panicked, linkChanges>>

\* The stimer callback (lines 1361-1368): drop self if it is still the one
\* the timer was armed for, then _fix
RunStimer(n, s) ==
    /\ s \in squeue[n]
    /\ squeue' = [squeue EXCEPT ![n] = @ \ {s}]
    /\ IF self[n] = s
       THEN SetFix(n, NoInfo, None, tinfos[n], expired[n], chan)
       ELSE UNCHANGED <<self, parent, stimer, expired, chan>>
    /\ UNCHANGED <<tinfos, wait, now, up, hello, greet, pending, panicked, linkChanges>>

\* A one-second callback that clears t.wait but keeps the waiting self
WaitFireNoFix(n) ==
    /\ wait[n]
    /\ wait' = [wait EXCEPT ![n] = FALSE]
    /\ UNCHANGED <<self, parent, stimer, expired, chan>>
    /\ UNCHANGED <<tinfos, squeue, now, up, hello, greet, pending, panicked, linkChanges>>

\* The one-second callback of update (lines 1267-1273)
WaitFire(n) ==
    /\ wait[n]
    /\ wait' = [wait EXCEPT ![n] = FALSE]
    /\ SetFix(n, NoInfo, None, tinfos[n], expired[n], chan)
    /\ UNCHANGED <<tinfos, squeue, now, up, hello, greet, pending, panicked, linkChanges>>

\* peers.go handler start (lines 109-110): the dhtree actor reads t.self
\* for the new peer
HelloRead(a, b) ==
    /\ <<a, b>> \in hello
    /\ hello' = hello \ {<<a, b>>}
    /\ greet' = greet \cup {[l |-> <<a, b>>, info |-> self[a]]}
    /\ UNCHANGED <<self, parent, tinfos, expired, wait, stimer, squeue, now, up, pending, chan, panicked, linkChanges>>

\* peers.go lines 111-113: by way of the peers actor, the peer sends the
\* self read before, after any _sendTree frames already queued
HelloSend(a, b) ==
    \E g \in greet :
        /\ g.l = <<a, b>>
        /\ greet' = greet \ {g}
        /\ chan' = [chan EXCEPT ![<<a, b>>] = Append(@, Frame(g.info, b))]
        /\ UNCHANGED <<self, parent, tinfos, expired, wait, stimer, squeue, now, up, hello, pending, panicked, linkChanges>>

LinkUp(a, b) ==
    /\ <<a, b>> \in Links \ up
    /\ {a, b} \in Flaky
    /\ linkChanges < MaxLinkChanges
    /\ {<<a, b>>, <<b, a>>} \cap pending = {}
    /\ up' = up \cup {<<a, b>>, <<b, a>>}
    /\ hello' = hello \cup {<<a, b>>, <<b, a>>}
    /\ linkChanges' = linkChanges + 1
    /\ UNCHANGED <<self, parent, tinfos, expired, wait, stimer, squeue, now, greet, pending, chan, panicked>>

\* A close that leaves the new handler's hello to be sent
LinkDownKeepHello(a, b) ==
    /\ <<a, b>> \in up
    /\ {a, b} \in Flaky
    /\ linkChanges < MaxLinkChanges
    /\ up' = up \ {<<a, b>>, <<b, a>>}
    /\ pending' = pending \cup {<<a, b>>, <<b, a>>}
    /\ chan' = [chan EXCEPT ![<<a, b>>] = <<>>, ![<<b, a>>] = <<>>]
    /\ linkChanges' = linkChanges + 1
    /\ UNCHANGED <<self, parent, tinfos, expired, wait, stimer, squeue, now, hello, greet, panicked>>

\* The connection closes: frames in flight are lost, both handlers exit
LinkDown(a, b) ==
    /\ <<a, b>> \in up
    /\ {a, b} \in Flaky
    /\ linkChanges < MaxLinkChanges
    /\ up' = up \ {<<a, b>>, <<b, a>>}
    /\ hello' = hello \ {<<a, b>>, <<b, a>>}
    /\ greet' = {g \in greet : g.l \notin {<<a, b>>, <<b, a>>}}
    /\ pending' = pending \cup {<<a, b>>, <<b, a>>}
    /\ chan' = [chan EXCEPT ![<<a, b>>] = <<>>, ![<<b, a>>] = <<>>]
    /\ linkChanges' = linkChanges + 1
    /\ UNCHANGED <<self, parent, tinfos, expired, wait, stimer, squeue,  now, panicked>>

\* Nothing in flight, no callback queued or due
Quiet ==
    /\ \A l \in Links : chan[l] = <<>>
    /\ hello = {} /\ greet = {} /\ pending = {}
    /\ \A n \in Node : squeue[n] = {} /\ ~wait[n]
                       /\ (stimer[n] = NoTimer \/ stimer[n].at > now)

\* treeANNOUNCE passes
Tick ==
    /\ Quiet
    /\ now < MaxTime
    /\ now' = now + 1
    /\ UNCHANGED <<self, parent, tinfos, expired, wait, stimer, squeue,  up, hello, greet, pending, chan, panicked, linkChanges>>

-----------------------------------------------------------------------------

UpLinks == {l \in Links : {l[1], l[2]} \in InitUp}

\* After init (lines 1189-1200): _fix made each node root with seq 1 and
\* armed the stimer for treeANNOUNCE; t.seq is then set to the Unix time,
\* which only has to exceed 1.  The handlers of the links up at the start
\* have read that self.
Init ==
    /\ now = 1
    /\ self = [n \in Node |-> RootInfo(n, 1, 1)]
    /\ parent = [n \in Node |-> None]
    /\ tinfos = [n \in Node |-> [p \in {} |-> NoInfo]]
    /\ expired = [n \in Node |-> [r \in {} |-> [seq |-> 0, time |-> 0]]]
    /\ wait = [n \in Node |-> FALSE]
    /\ stimer = [n \in Node |-> [self |-> RootInfo(n, 1, 1), at |-> 1 + Announce]]
    /\ squeue = [n \in Node |-> {}]
    /\ up = UpLinks
    /\ hello = {}
    /\ greet = {[l |-> l, info |-> RootInfo(l[1], 1, 1)] : l \in UpLinks}
    /\ pending = {}
    /\ chan = [l \in Links |-> <<>>]
    /\ panicked = {}
    /\ linkChanges = 0

Next ==
    /\ panicked = {}
    /\ \/ \E n \in Node : \E p \in Node \ {n} :
             /\ <<n, p>> \in Links
             /\ \/ HandleTree(n, p)
                \/ Remove(n, p)
                \/ HelloRead(n, p)
                \/ HelloSend(n, p)
                \/ LinkUp(n, p)
                \/ LinkDown(n, p)
       \/ \E n \in Node :
             \/ StimerFire(n)
             \/ WaitFire(n)
             \/ \E s \in squeue[n] : RunStimer(n, s)
       \/ Tick

Spec == Init /\ [][Next]_vars

\* The steps of the program itself: every step but a link going up or down
Proto == Next /\ UNCHANGED linkChanges

\* A step of Proto is possible (every such step changes vars)
CanStep ==
    /\ panicked = {}
    /\ \/ \E l \in Links : chan[l] # <<>>
       \/ pending # {}
       \/ hello # {} \/ greet # {}
       \/ \E n \in Node : \/ squeue[n] # {}
                          \/ wait[n]
                          \/ stimer[n] # NoTimer /\ stimer[n].at <= now
       \/ Quiet /\ now < MaxTime

\* Weak fairness of Proto, WF_vars(Proto), written with CanStep for ENABLED:
\* the phony actors run every queued message and callback, timers fire and
\* time passes; links are not bound to go up or down.  In a behaviour of
\* Spec, a step that changes vars but not linkChanges is a Proto step.
FairSpec == Spec /\ ([]<>~CanStep \/ []<><<linkChanges' = linkChanges>>_vars)

\* CanStep is exactly ENABLED <<Proto>>_vars
CanStepExact == CanStep = ENABLED <<Proto>>_vars

-----------------------------------------------------------------------------
(* Properties                                                              *)

Info == [root : Node \cup {None}, seq : Nat, hops : Seq(Node), time : Nat, hseq : Nat]

TypeOK ==
    /\ self \in [Node -> Info]
    /\ parent \in [Node -> Node \cup {None}]
    /\ \A n \in Node : /\ DOMAIN tinfos[n] \subseteq Node \ {n}
                       /\ Range(tinfos[n]) \subseteq Info
                       /\ DOMAIN expired[n] \subseteq Node
                       /\ squeue[n] \subseteq Info
    /\ wait \in [Node -> BOOLEAN]
    /\ now \in 1..MaxTime
    /\ up \subseteq Links /\ hello \subseteq up /\ pending \subseteq Links
    /\ greet \subseteq [l : up, info : Info]
    /\ \A l \in Links : chan[l] \in Seq([root : Node \cup {None}, seq : Nat, hops : Seq(Node)])

\* update panics ("this should never happen", line 1247) if a frame from the
\* parent arrives while t.wait is set: no interleaving of frames, link
\* changes, the stimer callback and the one-second callback gets there
NoPanic == panicked = {}

\* Every frame in flight passes handleTree's checks at its receiver: no
\* frame sent by update's resend, _sendTree, the hello or a bad-news
\* announcement while waiting would make the receiver drop the link
FramesAccepted ==
    \A l \in Links : \A k \in 1..Len(chan[l]) : FrameOK(chan[l][k], l[1], l[2])

\* A node's parent is the peer whose info is its self, and a node without a
\* parent is its own root: a peer's info replaced (update) or deleted
\* (remove) while self still points at it never survives the handler
SelfFromParent ==
    \A n \in Node :
        IF parent[n] = None THEN self[n].root = n
        ELSE parent[n] \in DOMAIN tinfos[n] /\ self[n] = tinfos[n][parent[n]]

\* The nodes n reaches over links that are up
Reach(n) ==
    LET R[k \in 0..Cardinality(Node)] ==
            IF k = 0 THEN {n}
            ELSE R[k - 1] \cup {l[2] : l \in {x \in up : x[1] \in R[k - 1]}}
    IN R[Cardinality(Node)]

\* Every node ends with the lowest key it can reach as its root, and keeps it
TreeConverges ==
    <>[](\A n \in Node : ~wait[n] /\ self[n].root = Min(Reach(n)))

=============================================================================
