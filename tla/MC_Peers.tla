------------------------------- MODULE MC_Peers -------------------------------
(* Instances of Peers for TLC: three nodes, with connections given by the   *)
(* nodes they join.                                                         *)
EXTENDS Peers

\* A line 1 - 2 - 3 that is up at start, and a link 1 - 3 that may come up later
Line3 == {1, 2}
Ends3 == (1 :> <<1, 2>>) @@ (2 :> <<2, 3>>) @@ (3 :> <<1, 3>>)

\* One link 1 - 2 up at start, and a link 1 - 3 that may come up later
Ends2 == (1 :> <<1, 2>>) @@ (2 :> <<1, 3>>)

=============================================================================
