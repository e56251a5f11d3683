---------------------------- MODULE AnnounceStore ----------------------------
(***************************************************************************)
(* What the announcement store of every router promises, whatever the    *)
(* wire protocol that fills it: each node holds at most MaxInfos          *)
(* announcements, one per key, always including its own; a held          *)
(* announcement is only replaced by a newer one (a higher seq); only the  *)
(* owner of a key publishes a new seq for it; a store at capacity admits  *)
(* a new key only by evicting the key of another node; and a node forgets *)
(* only keys of other nodes.                                               *)
(* MerkleSync refines this specification.                                 *)
(***************************************************************************)
EXTENDS Naturals, FiniteSets

CONSTANTS Node, Key, MaxSeq, MaxInfos

VARIABLE view   \* view[n]: the seq n holds for each key it knows

Seqs == 1..MaxSeq

\* The partial functions from keys to seqs
Views == UNION {[K -> Seqs] : K \in SUBSET Key}

TypeOK == view \in [Node -> Views]

\* view with key k removed
Without(v, k) == [x \in DOMAIN v \ {k} |-> v[x]]

\* view with key k set to seq s
With(v, k, s) == [x \in DOMAIN v \cup {k} |-> IF x = k THEN s ELSE v[x]]

Init == view \in [Node -> Views]
        /\ \A n \in Node : n \in DOMAIN view[n]
                           /\ Cardinality(DOMAIN view[n]) <= MaxInfos

\* The owner n publishes a newer announcement of its own key
Publish(n) ==
    \E s \in Seqs :
        /\ view[n][n] < s
        /\ view' = [view EXCEPT ![n] = With(@, n, s)]

\* n learns a newer announcement of a key k it knows, or a key it does not
\* know while it has room
Adopt(n, k, s) ==
    /\ k # n
    /\ \/ k \in DOMAIN view[n] /\ view[n][k] < s
       \/ k \notin DOMAIN view[n] /\ Cardinality(DOMAIN view[n]) < MaxInfos
    /\ view' = [view EXCEPT ![n] = With(@, k, s)]

\* n, at capacity, takes a new key k in place of another node's key w
Replace(n, k, s) ==
    /\ k # n
    /\ k \notin DOMAIN view[n]
    /\ Cardinality(DOMAIN view[n]) >= MaxInfos
    /\ \E w \in DOMAIN view[n] \ {n} :
          view' = [view EXCEPT ![n] = With(Without(@, w), k, s)]

\* n forgets another node's key
Forget(n, k) ==
    /\ k \in DOMAIN view[n] \ {n}
    /\ view' = [view EXCEPT ![n] = Without(@, k)]

\* A step changes the store of one node n
Next ==
    \E n \in Node :
      /\ view'[n] # view[n]
      /\ \A o \in Node \ {n} : view'[o] = view[o]
      /\ \/ Publish(n)
         \/ \E k \in Key : Forget(n, k)
         \/ \E k \in Key, s \in Seqs : Adopt(n, k, s) \/ Replace(n, k, s)

Spec == Init /\ [][Next]_view

=============================================================================
