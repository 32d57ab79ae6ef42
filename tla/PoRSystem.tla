----------------------------- MODULE PoRSystem -----------------------------
(***************************************************************************)
(* The single loop of test/sync_test.py with everything that Node.step     *)
(* does: module Election for the timer, the phases and the vote, module    *)
(* Node for transactions, chains and exchanges. The two share the phase,   *)
(* the recorded winners and the two flags for exceptions. Here the outcome *)
(* of a vote is computed from the signatures that the mempool exchange     *)
(* has brought to each node, and decides who creates the block.            *)
(*                                                                         *)
(* A joint action is an action of one module with what the same statements *)
(* of the code do in the other one. An operator M_... is the one after it  *)
(* with an error, as in module Node.                                       *)
(***************************************************************************)
EXTENDS Integers, Sequences, FiniteSets

CONSTANTS
    Nodes, Txs, Source, Dest, Nil, HashWindow, Nonces,    \* as in Node
    Peers, Order, Inf, BlockPeriod, VoteInterval,         \* as in Election
    NumNeighbours, MaxRecentLeaders, MaxTime,
    SyncInterval,     \* MEMPOOL_SYNC_INTERVAL and CHAIN_SYNC_INTERVAL (20)
    Value,            \* Value[t, n, m]: the number that n's signature of the
                      \* hop of t to m is read as
    SendTicks         \* SendTicks[t]: when the source of t may send it

ASSUME SystemAssumption ==
    /\ Nil \notin Nodes
    /\ Source \in [Txs -> Nodes] /\ Dest \in [Txs -> Nodes]
    /\ HashWindow \in Nat \ {0} /\ Nonces # {}
    /\ Peers \in [Nodes -> SUBSET Nodes]
    /\ BlockPeriod \in Nat \ {0, 1} /\ MaxTime \in Nat
    /\ SyncInterval \in Nat
    /\ Inf \in Nat /\ {NumNeighbours, MaxRecentLeaders} \subseteq Nat \ {0}
    /\ Value \in [Txs \X Nodes \X Nodes -> Nat]
    /\ \A h \in DOMAIN Value, k \in 0..MaxRecentLeaders : Value[h] * 2 ^ k < Inf
    /\ SendTicks \in [Txs -> SUBSET (0..MaxTime)]

VARIABLES
    chain, mempool, previous, sent, checked, request,     \* as in Node
    time, pc, turn, candidate, cache, votes, recent,      \* as in Election
    on, sleep, asking, reply,
    state, winning, alive, server,                        \* shared
    rest,             \* rest[n][k]: sleep of n's mempool or chain pinger
    left              \* left[n]: peers that pinger has yet to ask in this step

nodeVars == <<chain, mempool, previous, sent, checked, request>>
voteVars == <<time, pc, turn, candidate, cache, votes, recent, on, sleep, asking, reply>>
vars == <<nodeVars, voteVars, state, winning, alive, server, rest, left>>

MaxRounds == MaxTime \div (3 * BlockPeriod)

N == INSTANCE Node WITH
        MaxSkew <- 1, OneThread <- TRUE, Unanimous <- FALSE

\* None is no copy of a transaction and no request.
ASSUME RequestAssumption ==
    /\ Nil \notin N!Copy
    /\ Nil \notin [kind : {"missing"}, peer : Nodes, ids : SUBSET Txs]
    /\ Nil \notin [kind : {"txs"}, peer : Nodes, txs : N!Pool]
    /\ Nil \notin [kind : {"block"}, peer : Nodes, below : Nat]
    /\ Nil \notin [kind : {"blocks"}, peer : Nodes, height : Nat, blocks : Seq(N!Block)]

E == INSTANCE Election WITH
        winners <- winning, Sigs <- {}, completed <- [r \in 1..MaxRounds |-> {}],
        Suspects <- {}, byzantine <- {}, FirstByzantine <- Nil, Forged <- Nil,
        ScanTicks <- {}, SameScan <- TRUE,   \* RunMining has what a scan finds
        MaxLead <- 1, LinkFaults <- FALSE, OneThread <- TRUE

-----------------------------------------------------------------------------
(* The robots' transactions *)

\* The controller of a robot sends before the step of the robot.
SendTransaction(n, t) ==
    /\ E!MyTurn(n) /\ pc[n] = "idle" /\ time[n] \in SendTicks[t]
    /\ N!SendTransaction(n, t)
    /\ UNCHANGED <<voteVars, rest, left>>

-----------------------------------------------------------------------------
(* One step of a node: timer and pingers *)

\* The pingers that this module follows. One at most is on.
M_MempoolOnly(n) == on[n] \cap {"mempool"}
Syncing(n) == on[n] \cap {"mempool", "chain"}

\* CustomTimer.step, and the heads of the three pingers' step.
Begin(n) ==
    /\ E!Begin(n)
    /\ rest' = [rest EXCEPT ![n] = [k \in DOMAIN @ |->
                   IF k \in Syncing(n) /\ @[k] > 0 THEN @[k] - 1 ELSE @[k]]]
    /\ left' = [left EXCEPT ![n] =
                   IF \E k \in Syncing(n) : rest[n][k] = 0 THEN Peers[n] ELSE {}]
    /\ UNCHANGED nodeVars

\* What p offers starts an exchange, or there is nothing in it for n.
Offer(n, p) ==
    \/ N!MempoolSync(n, p)
    \/ N!ChainSync(n, p)
    \/ /\ IF state[n] = "MINING"
          THEN N!FindMissing(n, mempool[p]) = {}
          ELSE ~N!Behind(n, p)
       /\ UNCHANGED <<nodeVars, state, winning, alive, server>>

\* MemPoolPinger.run and ChainPinger.run ask one peer after the other.
Ask(n, p) ==
    /\ E!MyTurn(n) /\ pc[n] = "run" /\ p \in left[n] /\ request[n] = Nil
    /\ Offer(n, p)
    /\ left' = [left EXCEPT ![n] = @ \ {p}]
    /\ rest' = IF left[n] = {p}
               THEN [rest EXCEPT ![n] = [k \in DOMAIN @ |->
                        IF k \in Syncing(n) THEN SyncInterval ELSE @[k]]]
               ELSE rest
    /\ UNCHANGED voteVars

Exchange(n) ==
    /\ \/ N!ReceiveTransactions(n)
       \/ N!ReceiveBlocks(n)
       \/ \E p \in Nodes : N!AnswerMissing(n, p) \/ N!AnswerBlock(n, p)
    /\ UNCHANGED <<voteVars, rest, left>>

\* VotePinger.run.
Vote(n) ==
    /\ \/ \E p \in Nodes : E!AskVote(n, p)
       \/ E!GetVote(n)
       \/ E!VotesIn(n)
    /\ UNCHANGED <<nodeVars, rest, left>>

-----------------------------------------------------------------------------
(* One step of a node: LowestLast.run *)

PingersDone(n) == left[n] = {} /\ request[n] = Nil

\* The signatures that the scan of the mempool compares: those of completed
\* transactions that were not completed in an earlier round. (Node marks them
\* as checked at the end of the phase; comparing one twice changes nothing.)
M_FreshReceivers(n) ==
    UNION {{[id |-> h.relayer, value |-> Value[<<t, h.id, h.relayer>>]] :
               h \in {mempool[n][t].sigs[i] : i \in DOMAIN mempool[n][t].sigs}} :
           t \in {u \in N!Held(mempool[n]) : mempool[n][u].completed /\ u \notin checked[n]}}
Fresh(n) ==
    UNION {{[id |-> h.id, value |-> Value[<<t, h.id, h.relayer>>]] :
               h \in {mempool[n][t].sigs[i] : i \in DOMAIN mempool[n][t].sigs}} :
           t \in {u \in N!Held(mempool[n]) : mempool[n][u].completed /\ u \notin checked[n]}}

RunMining(n) ==
    /\ PingersDone(n)
    /\ E!MineWith(n, Fresh(n))
    /\ IF E!After(n, 1) THEN N!EndMining(n) ELSE UNCHANGED <<nodeVars, winning>>
    /\ UNCHANGED <<rest, left>>

Count(n) ==
    /\ E!Tally(n) \/ E!Adopt(n)
    /\ UNCHANGED <<nodeVars, rest, left>>

Close(n) ==
    /\ IF E!After(n, 2) THEN N!EndElection(n, candidate[n], cache[n].sig)
                        ELSE UNCHANGED nodeVars
    /\ E!Close(n)
    /\ UNCHANGED <<rest, left>>

RunBlock(n) ==
    /\ PingersDone(n)
    /\ E!RunBlock(n)
    /\ IF E!Cycled(n) < BlockPeriod THEN N!EndRound(n) ELSE UNCHANGED nodeVars
    /\ UNCHANGED <<rest, left>>

-----------------------------------------------------------------------------
(* The specification *)

Init ==
    /\ N!Init /\ E!Init
    /\ rest = [n \in Nodes |-> [k \in {"mempool", "chain"} |-> 0]]
    /\ left = [n \in Nodes |-> {}]

StepOf(n) == \/ Begin(n) \/ (\E p \in Nodes : Ask(n, p)) \/ Exchange(n) \/ Vote(n)
             \/ RunMining(n) \/ Count(n) \/ Close(n) \/ RunBlock(n)

Next == \E n \in Nodes : StepOf(n) \/ \E t \in Txs : SendTransaction(n, t)

Spec == Init /\ [][Next]_vars

\* The loop steps every node again and again, until an exception ends it.
FairSpec == Spec /\ \A n \in Nodes : WF_vars(StepOf(n))

-----------------------------------------------------------------------------
(* What the whole system promises *)

\* The network implements Node with one loop and unanimous elections: every
\* vote, computed from what the mempool exchange has spread, has one outcome.
U == INSTANCE Node WITH MaxSkew <- 1, OneThread <- TRUE, Unanimous <- TRUE
ImplementsNode == U!Spec

\* Of any two chains one is a prefix of the other: here without assuming that
\* a round synchronises or that the nodes elect one leader.
NoFork ==
    \A n, m \in Nodes : Len(chain[n]) <= Len(chain[m])
                            => chain[n] = SubSeq(chain[m], 1, Len(chain[n]))

\* winning_signatures, which grows with the rounds, has the leader of each
\* block at the index of its height.
WinnerPerBlock ==
    \A n \in Nodes : \A h \in DOMAIN chain[n] :
        h \in DOMAIN winning[n] /\ chain[n][h].miner = winning[n][h]

\* No exception leaves a server thread: what a node asks its peer for, after the
\* peer has offered it, is still in the peer's mempool, and a node that is asked
\* for its vote has a signature. Both fail in separate processes, where a block
\* takes the transaction in between, or where the peer is in another phase.
ServersUp == \A n \in Nodes : server[n]

\* Proof of Relay: the leader of a block signed a hop of a completed
\* transaction that is in the very block.
LeaderRelayed ==
    \A n \in Nodes : \A h \in DOMAIN chain[n] : \E t \in N!Held(chain[n][h].data) :
        LET copy == chain[n][h].data[t]
        IN  copy.completed /\ \E i \in DOMAIN copy.sigs : copy.sigs[i].id = chain[n][h].miner

\* Transactions sent so early in a mining phase that the mempool pinger asks
\* twice before the vote: once to bring them to their destination and once to
\* bring the completed copies back.
Prompt == {t \in Txs : \A k \in SendTicks[t] :
              k % (3 * BlockPeriod) <= BlockPeriod - 2 * (SyncInterval + 1)}

\* A round delivers: what was sent early enough is on the chain of a node when
\* the node goes on to the next round.
RoundDelivers ==
    [][\A n \in Nodes : state[n] = "BLOCK" /\ state'[n] = "MINING"
                            => sent \cap Prompt \subseteq previous[n]]_vars

\* A round in which some transaction was sent early enough never stops the
\* loop, whatever else is sent late.
OnlyIdleRoundsStop == \A n \in Nodes : ~alive[n] => sent \cap Prompt \subseteq previous[n]

\* The loop goes through all rounds until an idle one stops it: no phase is
\* missed and no exchange or vote is waited for in vain.
RoundsComplete == <>(\/ \E n \in Nodes : ~alive[n]
                     \/ \A n \in Nodes : Len(winning[n]) = MaxRounds)
=============================================================================
