---------------------------- MODULE MC_DHTree ----------------------------
\* Small topologies for DHTree.
EXTENDS DHTree

Node3 == {1, 2, 3}
Line3 == {{1, 2}, {2, 3}}
Edge12 == {{1, 2}}
Edge23 == {{2, 3}}
Tri3 == {{1, 2}, {2, 3}, {1, 3}}
=============================================================================
