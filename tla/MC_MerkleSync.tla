---------------------------- MODULE MC_MerkleSync ----------------------------
(* Instances of MerkleSync for TLC: keys of 2 bits, routers 1 and 2, so   *)
(* keys 0 and 3 belong to departed routers whose infos may still be held. *)
EXTENDS MerkleSync

Node2 == {1, 2}
Edge12 == {{1, 2}}
====
