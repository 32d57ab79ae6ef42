------------------------------- MODULE MCNode -------------------------------
(***************************************************************************)
(* Instances of Node for TLC. Each names the routes of the transactions:   *)
(* Source and Dest of every id.                                            *)
(***************************************************************************)
EXTENDS NodeProperties, TLC

CONSTANTS n1, n2, n3, t1, t2

\* Two robots that send one transaction to each other.
CrossSource == (t1 :> n1) @@ (t2 :> n2)
CrossDest   == (t1 :> n2) @@ (t2 :> n1)

\* One transaction that a third robot may relay.
RelaySource == (t1 :> n1)
RelayDest   == (t1 :> n3)
=============================================================================
