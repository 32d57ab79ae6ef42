----------------------------- MODULE MCSystem -----------------------------
(***************************************************************************)
(* Instances of PoRSystem for TLC.                                         *)
(***************************************************************************)
EXTENDS PoRSystem, TLC

CONSTANTS n1, n2, n3, n4, t1, t2, t3

Mesh   == [n \in Nodes |-> Nodes \ {n}]
Order4 == <<n1, n2, n3, n4>>

Routes  == (t1 :> n1) @@ (t2 :> n2) @@ (t3 :> n4)
Targets == (t1 :> n3) @@ (t2 :> n4) @@ (t3 :> n1)

\* When they are sent: t1 and t3 promptly in the first and the second round,
\* t2 too late in the first round for all nodes to see it completed.
Ticks == (t1 :> {5, 58}) @@ (t2 :> {75}) @@ (t3 :> {358})

\* One arbitrary assignment of numbers to hops. They are odd, so that no two
\* of them are equal after any number of doublings.
TxIndex == (t1 :> 0) @@ (t2 :> 1) @@ (t3 :> 2)
Index == (n1 :> 1) @@ (n2 :> 2) @@ (n3 :> 3) @@ (n4 :> 4)
HopValue == [h \in Txs \X Nodes \X Nodes |->
    2 * ((16 * TxIndex[h[1]] + 4 * Index[h[2]] + Index[h[3]]) * 13 % 71) + 1]

\* Without the late transaction these robots are a prompt mesh. PromptProofs
\* shows for any number of rounds what this run checks for two.
Early == Txs \ {t2}
Only(f) == [t \in Early |-> f[t]]
P == INSTANCE PromptProofs WITH
        Txs <- Early, Source <- Only(Source), Dest <- Only(Dest), SendTicks <- Only(SendTicks),
        Value <- [h \in Early \X Nodes \X Nodes |-> Value[h]]
ASSUME PromptAssumption == P!SystemAssumption /\ P!PromptMesh
===========================================================================
