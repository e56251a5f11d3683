------------------------------ MODULE MC_Router ------------------------------
(* Model-checking instances of Router.                                     *)
EXTENDS Router

\* Two nodes on one link
Node2 == {1, 2}
Edges2 == {{1, 2}}

\* Three nodes on a line 1 - 2 - 3
Node3 == {1, 2, 3}
Edges3 == {{1, 2}, {2, 3}}

\* Three nodes in a triangle
Up12 == {{1, 2}}

Tri3 == {{1, 2}, {2, 3}, {1, 3}}

\* router._keyLookup, for keys 1..3 and destinations 1..4
KL == INSTANCE KeyLookup WITH Keys <- Node3, Dests <- 1..4

\* Whatever order Go iterates r.infos in, _keyLookup on the keys a router
\* holds returns the closest known key not above the destination, else the
\* lowest known key, as the store changes by eviction, expiry and churn.
LookupIsClosest ==
    \A n \in Node, d \in 1..4 :
        KL!KeyLookup(DOMAIN rt[n].infos, d) = {KL!Closest(DOMAIN rt[n].infos, d)}
=============================================================================
