----------------------------- MODULE MCBalances -----------------------------
(***************************************************************************)
(* Instances of Balances for TLC.                                          *)
(***************************************************************************)
EXTENDS Balances

CONSTANTS n1, n2, a1, a2, a3, t1, t2, t3, t4, t5

Genesis2 == (a1 :> 3) @@ (a2 :> 2)

\* t2 has funds only after t1, and t3, whose call raises, only after t2; t4
\* has the same sender and destination, and a call that returns. t5 has a
\* negative value, which overdraws a1 after t1.
Transfers ==
    (t1 :> [sender |-> a1, destination |-> a2, value |-> 3, call |-> "none"]) @@
    (t2 :> [sender |-> a2, destination |-> a3, value |-> 4, call |-> "returns"]) @@
    (t3 :> [sender |-> a3, destination |-> a1, value |-> 1, call |-> "raises"]) @@
    (t4 :> [sender |-> a2, destination |-> a2, value |-> 2, call |-> "returns"]) @@
    (t5 :> [sender |-> a3, destination |-> a1, value |-> -2, call |-> "none"])

Swap == Permutations(Nodes)
=============================================================================
