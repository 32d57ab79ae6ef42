------------------------- MODULE ElectionProperties -------------------------
(***************************************************************************)
(* What module Election is checked for.                                    *)
(***************************************************************************)
EXTENDS Election

Phases == {"MINING", "LEADER", "BLOCK"}

Ids == Nodes \cup (IF byzantine = {} THEN {} ELSE {Forged})

Vote == [vote : Ids \cup {Nil}, sig : Ids]

\* Types of the variables. No recorded winner is None, and the cached value is
\* a number whenever a scan compares signatures with it, although counting
\* votes puts a node id there.
TypeOK ==
    /\ time \in [Nodes -> 0..MaxTime]
    /\ pc \in [Nodes -> {"idle", "ask", "run", "adopt", "close"}]
    /\ turn \in 1..Len(Order)
    /\ state \in [Nodes -> Phases]
    /\ candidate \in [Nodes -> Ids \cup {Nil}]
    /\ \A n \in Nodes : /\ cache[n].sig \in Ids \cup {Nil}
                        /\ state[n] = "MINING" => cache[n].val \in Nat
    /\ votes \in [Nodes -> Seq(Vote)]
    /\ recent \in [Nodes -> Seq(Ids \cup {Nil})]
    /\ winners \in [Nodes -> Seq(Ids)]
    /\ on \in [Nodes -> SUBSET {"mempool", "vote", "chain"}]
    /\ sleep \in [Nodes -> 0..VoteInterval]
    /\ asking \in [Nodes -> SUBSET Nodes]
    /\ reply \in [Nodes -> [peer : Nodes \cup {Nil}, vote : Ids \cup {Nil}]]
    /\ alive \in [Nodes -> BOOLEAN]
    /\ server \in [Nodes -> BOOLEAN]

\* When all the votes are collected they are counted: no step of a node leaves
\* as many votes as it needs in vote_cache.
VotesCounted == \A n \in Nodes : pc[n] = "idle" => Len(votes[n]) < NumNeighbours

\* Nodes that may have found different transactions, and so start the vote
\* with different candidates, elect the same leader if each can ask
\* num_neighbours peers and two of them agree from the start (here: there are
\* fewer candidates than nodes): the phase has enough counts to converge.
SameLeader ==
    \A n, m \in Nodes : \A r \in DOMAIN winners[n] \cap DOMAIN winners[m] :
        winners[n][r] = winners[m][r]

\* The leader of a round relayed a transaction that was completed in that
\* round: nobody is elected on a signature of an earlier one, and a single
\* Byzantine node among the four does not get its forged candidate elected.
LeaderOfRound ==
    Cardinality(byzantine) <= 1 =>
        \A n \in Nodes : \A r \in DOMAIN winners[n] :
            \E sig \in completed[r] : sig.id = winners[n][r]

\* A round that all nodes have left has exactly one node that passes the test
\* of create_block, even where Byzantine nodes have won the vote: the nodes
\* still agree, and only the first one of the Byzantine nodes creates a block.
CreatorsOf(r) ==
    {n \in Nodes : r \in DOMAIN winners[n] /\ MayCreate(n, winners[n][r])}
OneCreator ==
    \A r \in 1..MaxRound :
        /\ Cardinality(CreatorsOf(r)) <= 1
        /\ (\A n \in Nodes : r \in DOMAIN winners[n]) => CreatorsOf(r) # {}

\* What a node takes into the BLOCK phase: the node that may create the block
\* is the one whose key verifies it, or nobody is (Elected in module Node,
\* without the mixed votes that only separate processes can read).
OutcomeConsistent ==
    [][\A n \in Nodes : state[n] = "LEADER" /\ state'[n] = "BLOCK"
                            => candidate[n] \in {cache[n].sig, Nil}]_vars

\* A vote request ends the server thread of a peer only outside the peer's
\* LEADER phase, or after the peer entered the phase by raising (VoteFails in
\* module Node): a peer that takes part in the vote always has a signature.
ServerEndsWithoutSignature ==
    [][\A p \in Nodes : server[p] /\ ~server'[p] => state[p] # "LEADER" \/ ~alive[p]]_vars

\* If transactions complete in every round, every node goes through all its
\* rounds: neither an exception nor a missed phase change stops it.
RoundsComplete ==
    (\A r \in DOMAIN completed : completed[r] # {})
        => <>(\A n \in Nodes : Len(winners[n]) = MaxTime \div Cycle)
=============================================================================
