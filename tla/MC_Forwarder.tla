----------------------------- MODULE MC_Forwarder -----------------------------
(* Model-checking instances of Forwarder.                                  *)
EXTENDS Forwarder

\* Four nodes: a line 1 - 2 - 3 - 4 with a chord 1 - 3
Node4 == {1, 2, 3, 4}
Edges4 == {{1, 2}, {2, 3}, {3, 4}, {1, 3}}

\* Spanning trees rooted at 1: the line, and the one using the chord
Line4 == (1 :> 1) @@ (2 :> 1) @@ (3 :> 2) @@ (4 :> 3)
Chord4 == (1 :> 1) @@ (2 :> 1) @@ (3 :> 1) @@ (4 :> 3)
Trees4 == {Line4, Chord4}

\* Every link has prio 0 and came up in key order
Links4 == {<<a, b>> \in Node4 \X Node4 : {a, b} \in Edges4}
FlatPrio4 == [l \in Links4 |-> 0]
KeyTime4 == [l \in Links4 |-> l[2]]

\* 3's link to 1 has a worse prio than its link to 2
SkewPrio4 == [l \in Links4 |-> IF l = <<3, 1>> THEN 1 ELSE 0]
=============================================================================
