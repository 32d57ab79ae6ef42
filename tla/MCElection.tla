----------------------------- MODULE MCElection -----------------------------
(***************************************************************************)
(* Instances of Election for TLC.                                          *)
(***************************************************************************)
EXTENDS ElectionProperties, TLC

CONSTANTS n1, n2, n3, n4

\* Every node is a peer of every other one.
Mesh == [n \in Nodes |-> Nodes \ {n}]

\* The order in which the single loop steps the nodes.
Order2 == <<n1, n2>>
Order3 == <<n1, n2, n3>>
Order4 == <<n1, n2, n3, n4>>

\* Signatures whose values stay apart under every penalty.
TwoSigs   == {[id |-> n1, value |-> 4], [id |-> n2, value |-> 5]}
ThreeSigs == TwoSigs \cup {[id |-> n3, value |-> 7]}
=============================================================================
