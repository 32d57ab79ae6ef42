--------------------------- MODULE NodeProperties ---------------------------
(***************************************************************************)
(* What module Node is checked for and, in module NodeProofs, proved to    *)
(* satisfy.                                                                *)
(***************************************************************************)
EXTENDS Node

Requests ==
         [kind : {"missing"}, peer : Nodes, ids : SUBSET Txs]
    \cup [kind : {"txs"}, peer : Nodes, txs : Pool]
    \cup [kind : {"block"}, peer : Nodes, below : Nat]
    \cup [kind : {"blocks"}, peer : Nodes, height : Nat, blocks : Seq(Block)]

\* Types of the variables. A node's winning_signatures never holds None.
TypeOK ==
    /\ chain \in [Nodes -> Seq(Block)]
    /\ mempool \in [Nodes -> Pool]
    /\ previous \in [Nodes -> SUBSET Txs]
    /\ sent \in SUBSET Txs
    /\ checked \in [Nodes -> SUBSET Txs]
    /\ winning \in [Nodes -> Seq(Nodes)]
    /\ state \in [Nodes -> {"MINING", "LEADER", "BLOCK"}]
    /\ request \in [Nodes -> Requests \cup {Nil}]
    /\ alive \in [Nodes -> BOOLEAN]
    /\ server \in [Nodes -> BOOLEAN]

Pending(n, kind) == request[n] # Nil /\ request[n].kind = kind

-----------------------------------------------------------------------------
(* Transactions *)

\* previous_transactions_id is the set of ids on the chain, through mining,
\* synchronisation and discarded blocks (the check that Node.step has
\* commented out).
PreviousIdsExact == \A n \in Nodes : previous[n] = IdsIn(chain[n])

\* No transaction is in a node's mempool and on its chain at once.
MempoolOffChain == \A n \in Nodes : Held(mempool[n]) \cap previous[n] = {}

\* A transaction its node has sent is never lost: it stays in the mempool of
\* that node until a block of that node's chain holds it, although
\* create_block clears the mempool.
OwnTransactionsKept ==
    \A t \in sent : t \in Held(mempool[Source[t]]) \cup previous[Source[t]]

\* No chain holds a transaction twice.
NoDoubleInclusion ==
    \A n \in Nodes : \A i, j \in DOMAIN chain[n] :
        i # j => Held(chain[n][i].data) \cap Held(chain[n][j].data) = {}

\* What a node waits for is still unknown to its chain when the answer comes
\* (the "redundant check" of sync_mempool), and the peer that offered it has
\* it in its mempool or, then the KeyError, on its chain.
RequestsCurrent ==
    \A n \in Nodes :
        /\ Pending(n, "missing") =>
             /\ request[n].ids \cap previous[n] = {}
             /\ LET p == request[n].peer
                IN  request[n].ids \subseteq Held(mempool[p]) \cup previous[p]
        /\ Pending(n, "txs") => Held(request[n].txs) \cap previous[n] = {}

\* The copies of t that are in a mempool or on their way to one.
CopiesOf(t) ==
         {mempool[n][t] : n \in {m \in Nodes : mempool[m][t] # Nil}}
    \cup {request[n].txs[t] :
            n \in {m \in Nodes : Pending(m, "txs") /\ request[m].txs[t] # Nil}}

\* The signatures of every copy are a path of hops that starts at the source
\* and visits no node twice, so no node gains weight in the leader election
\* by relaying a transaction in a circle.
RelayPathSimple ==
    \A t \in Txs : \A c \in CopiesOf(t) :
        /\ c.sigs # <<>> => c.sigs[1].id = Source[t]
        /\ \A i \in 1..(Len(c.sigs) - 1) : c.sigs[i].relayer = c.sigs[i + 1].id
        /\ \A i \in DOMAIN c.sigs :
              /\ c.sigs[i].relayer # Source[t]
              /\ \A j \in DOMAIN c.sigs : c.sigs[i].relayer = c.sigs[j].relayer => i = j

\* All completed copies of a transaction carry the same signatures, those of
\* the path on which it first reached its destination: the nodes that scan
\* it for the lowest signature all see the same one.
CompletedCopiesAgree ==
    \A t \in Txs : \A c, d \in CopiesOf(t) : c.completed /\ d.completed => c = d

-----------------------------------------------------------------------------
(* Chains *)

\* The blocks of a chain have consecutive heights and each names the hash of
\* the one below it.
ChainsLinked ==
    \A n \in Nodes : \A i \in DOMAIN chain[n] :
        /\ chain[n][i].height = i
        /\ chain[n][i].parent = HashAt(chain[n], i - 1)

\* Two chains with the same header share everything below it, at the same
\* height, so the highest common header that handle_request_block finds is at
\* the last block the chains share or at the first one they do not: the header
\* leaves out the miner, and two leaders may have made the two blocks.
PrefixAgreement ==
    \A n, m \in Nodes : \A i \in DOMAIN chain[n], j \in DOMAIN chain[m] :
        HeaderHash(chain[n][i]) = HeaderHash(chain[m][j])
            => i = j /\ SubSeq(chain[n], 1, i - 1) = SubSeq(chain[m], 1, j - 1)

\* While n looks for a common block, the peer stays ahead of it, and n never
\* sends the hash of a block it does not have. The blocks n is sent start above
\* a header that both chains have at the same height, are still on the chain
\* of the peer when n handles them, and reach above the chain of n.
AnswersFit ==
    \A n \in Nodes :
        /\ Pending(n, "block") =>
             /\ Len(chain[n]) < Len(chain[request[n].peer])
             /\ request[n].below \in 1..(Len(chain[n]) + 1)
        /\ Pending(n, "blocks") =>
             LET h == request[n].height
                 c == chain[request[n].peer]
                 l == Len(request[n].blocks)
             IN  /\ h <= Len(chain[n]) /\ HeaderAt(chain[n], h) = HeaderAt(c, h)
                 /\ Len(chain[n]) < h + l /\ h + l <= Len(c)
                 /\ request[n].blocks = SubSeq(c, h + 1, h + l)

\* The block at height h is by the leader whose signature the node holds at
\* that index.
ByWinner(n, h) == h \in DOMAIN winning[n] /\ chain[n][h].miner = winning[n][h]

\* A block that a node took from a peer is by the leader whose signature the
\* node holds for that height.
LeaderSigned ==
    \A n \in Nodes : \A h \in DOMAIN chain[n] : chain[n][h].miner # n => ByWinner(n, h)

\* A chain grows by one block at a time and never loses one: sync_chain can
\* discard blocks, but verify_chain accepts no chain of two or more blocks,
\* and a single block above the common one never displaces another.
AppendOnly ==
    [][\A n \in Nodes :
          chain'[n] # chain[n] => /\ Len(chain'[n]) = Len(chain[n]) + 1
                                  /\ SubSeq(chain'[n], 1, Len(chain[n])) = chain[n]]_vars

\* The chains implement the replicated log.
Log == [n \in Nodes |->
          [i \in DOMAIN chain[n] |-> [id    |-> Hash(chain[n][i]),
                                      items |-> Held(chain[n][i].data)]]]

Replicated == INSTANCE ReplicatedLog WITH Replicas <- Nodes, log <- Log

ImplementsLog == Replicated!Spec

-----------------------------------------------------------------------------
(* Exchanges and exceptions *)

\* The search for a common block ends: a node that asked for something gets
\* it, is told there is nothing, or raises.
ExchangesEnd == \A n \in Nodes : request[n] # Nil ~> request[n] = Nil

\* A partial chain has one block.
SingleBlockAnswers == \A n \in Nodes : Pending(n, "blocks") => Len(request[n].blocks) = 1
=============================================================================
