------------------------------- MODULE Node --------------------------------
(***************************************************************************)
(* A network of toychain nodes under Proof of Relay: the state a Node      *)
(* object keeps (chain, mempool, previous_transactions_id, ...), the three *)
(* phases of LowestLast.run, the requests that the mempool and chain       *)
(* pingers send, the handlers of MessageHandler that answer them, and the  *)
(* exceptions that end a main loop or a server thread.                     *)
(*                                                                         *)
(* The outcome of the vote is not computed here: EndElection takes any     *)
(* outcome that LowestLast can hold at the end of its LEADER phase (module *)
(* Election models how that outcome comes about).                          *)
(*                                                                         *)
(* A request is answered by the peer's server thread and the answer is     *)
(* applied by the main loop of the requester, which waits for it; the two  *)
(* are separate actions, and everybody else may move in between.           *)
(*                                                                         *)
(* An operator M_... is the one after it with an error of the kind that is *)
(* easily made in the code; no definition uses it. It is there to find out *)
(* which property notices the error.                                       *)
(***************************************************************************)
EXTENDS Integers, Sequences, FiniteSets

CONSTANTS
    Nodes,       \* the robots
    Txs,         \* transaction ids
    Source,      \* Source[t]: the robot that creates transaction t
    Dest,        \* Dest[t]: the robot transaction t is addressed to
    Nil,         \* Python's None
    HashWindow,  \* block hashes sent in one block request (5 in the code)
    Nonces,      \* what else varies in a header: the random nonce of the
                 \* block, the tick of the round, the order of transactions
    MaxRounds,   \* bound: block generation cycles a node runs
    MaxSkew,     \* bound: phases a main loop may be ahead of another one
    OneThread,   \* TRUE: one loop steps all nodes in turn (test/sync_test.py)
                 \* FALSE: one process per robot
    Unanimous    \* TRUE: every election of a round has the same outcome

ASSUME TxsAssumption == /\ Source \in [Txs -> Nodes]
                        /\ Dest \in [Txs -> Nodes]

ASSUME BoundsAssumption == /\ HashWindow \in Nat \ {0}
                           /\ Nonces # {}
                           /\ MaxRounds \in Nat
                           /\ MaxSkew \in Nat \ {0}
                           /\ OneThread \in BOOLEAN
                           /\ Unanimous \in BOOLEAN

VARIABLES
    chain,      \* chain[n]: the blocks of n above the genesis block
    mempool,    \* mempool[n][t]: n's copy of transaction t, or Nil
    previous,   \* previous[n]: n's previous_transactions_id
    sent,       \* ids of the transactions in the my_transactions lists
    checked,    \* checked[n]: checked_ids of n's LowestLast
    winning,    \* winning[n]: node ids in n's winning_signatures
    state,      \* state[n]: n's MiningStates
    request,    \* request[n]: the exchange n's main loop waits for, or Nil
    alive,      \* alive[n]: no exception has left n's step()
    server      \* server[n]: no exception has left n's server thread

vars == <<chain, mempool, previous, sent, checked, winning, state, request,
          alive, server>>

-----------------------------------------------------------------------------
(* Data *)

\* SignatureChainEntry: node id signed the hop to node relayer.
Entry == [id : Nodes, relayer : Nodes]

\* One node's copy of a transaction.
Copy == [completed : BOOLEAN, sigs : Seq(Entry)]

ASSUME NilAssumption == Nil \notin Nodes /\ Nil \notin Copy

\* Transactions keyed by id: a mempool, the data of a block, an answer.
Pool == [Txs -> Copy \cup {Nil}]

NoTxs == [t \in Txs |-> Nil]

Held(pool) == {t \in Txs : pool[t] # Nil}

\* A block. Rounds are a block period of ticks apart, so the round in which
\* the leader stamped the block stands for its timestamp.
Block == [height : Nat, parent : (Nodes \cup {Nil}) \X Nat, data : Pool,
          miner : Nodes, stamp : Nat \ {0}, nonce : Nonces]

\* compute_block_hash, which covers the whole block. It is taken to tell all
\* blocks apart; a leader stamps one block in a round, so two of the fields do.
Hash(b) == <<b.miner, b.stamp>>

GenesisHash == <<Nil, 0>>

\* get_block(h).hash on a chain: height 0 is the genesis block.
HashAt(c, h) == IF h = 0 THEN GenesisHash ELSE Hash(c[h])

\* transactions_hash: a transaction is hashed as it is printed, with its id,
\* the length of its signature chain and whether it is completed.
TxsHash(data) == [t \in Txs |-> IF data[t] = Nil THEN Nil
                                ELSE <<data[t].completed, Len(data[t].sigs)>>]

\* get_header_hash, by which peers compare blocks. It covers neither the
\* miner nor the height: the blocks of two leaders may have the same header.
M_HeaderWithoutParent(b) == <<TxsHash(b.data), b.stamp, b.nonce>>
HeaderHash(b) == <<b.parent, TxsHash(b.data), b.stamp, b.nonce>>

GenesisHeader == <<Nil, NoTxs, 0, Nil>>

\* get_block(h).get_header_hash() on a chain.
HeaderAt(c, h) == IF h = 0 THEN GenesisHeader ELSE HeaderHash(c[h])

\* Ids of the transactions in a sequence of blocks.
IdsIn(blocks) == UNION {Held(blocks[i].data) : i \in DOMAIN blocks}

-----------------------------------------------------------------------------
(* Scheduling *)

\* Position of n in its sequence of phases.
Phase(n) == LET r == Len(winning[n])
            IN  CASE state[n] = "MINING" -> 3 * r
                  [] state[n] = "LEADER" -> 3 * r + 1
                  [] state[n] = "BLOCK"  -> 3 * r - 1

\* The main loop of n may run: it has not raised and waits for no answer. The
\* single loop of sync_test.py runs a node only if no other node is in an
\* exchange, and no node once one has raised.
Running(n) == /\ alive[n] /\ request[n] = Nil
              /\ OneThread => \A m \in Nodes : alive[m] /\ request[m] = Nil

\* n's timer reaches the end of its phase. MaxSkew bounds how far the timers
\* of separate processes drift apart.
PhaseOver(n) == \A m \in Nodes : alive[m] => Phase(n) < Phase(m) + MaxSkew

\* A pinger that a phase change starts sends its first request in the next
\* step of its node, when the single loop has stepped every other node too.
PingerOn(n) == OneThread => \A m \in Nodes : Phase(n) <= Phase(m)

-----------------------------------------------------------------------------
(* Transactions *)

SendTransaction(n, t) ==
    /\ Running(n)
    /\ Source[t] = n /\ t \notin sent
    /\ sent' = sent \cup {t}
    /\ mempool' = [mempool EXCEPT ![n][t] = [completed |-> FALSE, sigs |-> <<>>]]
    /\ UNCHANGED <<chain, previous, checked, winning, state, request, alive, server>>

\* find_missing_transactions: what n asks for when a peer offers its mempool.
M_FindMissingRefetch(n, offered) ==
    {t \in Held(offered) : /\ t \notin previous[n]
                           /\ mempool[n][t] # Nil => ~mempool[n][t].completed}
M_FindMissingStale(n, offered) ==
    {t \in Held(offered) : \/ mempool[n][t] = Nil
                           \/ offered[t].completed /\ ~mempool[n][t].completed}
M_FindMissingNew(n, offered) ==
    {t \in Held(offered) : t \notin previous[n] /\ mempool[n][t] = Nil}
FindMissing(n, offered) ==
    {t \in Held(offered) :
        IF t \notin previous[n] /\ mempool[n][t] = Nil
        THEN TRUE
        ELSE /\ offered[t].completed
             /\ mempool[n][t] # Nil /\ ~mempool[n][t].completed}

\* MemPoolPinger.launch_sync and handle_answer_mempool: p offers the ids in
\* its mempool, and n goes on to ask for those it misses.
MempoolSync(n, p) ==
    /\ Running(n) /\ PingerOn(n) /\ state[n] = "MINING"
    /\ p # n /\ server[p]
    /\ LET ids == FindMissing(n, mempool[p])
       IN  /\ ids # {}
           /\ request' = [request EXCEPT ![n] =
                             [kind |-> "missing", peer |-> p, ids |-> ids]]
    /\ UNCHANGED <<chain, mempool, previous, sent, checked, winning, state, alive, server>>

AddSignature(copy, id, relayer) ==
    [copy EXCEPT !.sigs = Append(@, [id |-> id, relayer |-> relayer])]

\* What p's server thread sends to n: p signs a transaction that is still on
\* its way, on a copy, and forwards a completed one as it is.
M_SignAlways(copy, p, n) == AddSignature(copy, p, n)
SignedFor(copy, p, n) == IF copy.completed THEN copy ELSE AddSignature(copy, p, n)

\* handle_request_missing_mempool. mempool[id] raises a KeyError when a block
\* took the transaction since p offered it: p's server thread ends, and the
\* empty answer raises an EOFError in n's main loop.
AnswerMissing(n, p) ==
    /\ alive[n] /\ request[n] # Nil
    /\ request[n].kind = "missing" /\ request[n].peer = p /\ server[p]
    /\ LET ids == request[n].ids
       IN  \/ /\ ids \subseteq Held(mempool[p])
              /\ request' = [request EXCEPT ![n] =
                    [kind |-> "txs", peer |-> p,
                     txs |-> [t \in Txs |-> IF t \in ids
                                            THEN SignedFor(mempool[p][t], p, n)
                                            ELSE Nil]]]
              /\ UNCHANGED <<alive, server>>
           \/ /\ ~ ids \subseteq Held(mempool[p])
              /\ request' = [request EXCEPT ![n] = Nil]
              /\ alive' = [alive EXCEPT ![n] = FALSE]
              /\ server' = [server EXCEPT ![p] = FALSE]
    /\ UNCHANGED <<chain, mempool, previous, sent, checked, winning, state>>

\* validate_transaction on the signatures of honest nodes: every hop starts
\* where the one before it ended, and the first one at the source.
ValidateTransaction(t, copy) ==
    /\ \A i \in 1..(Len(copy.sigs) - 1) : copy.sigs[i].relayer = copy.sigs[i + 1].id
    /\ copy.sigs[1].id = Source[t]

\* sync_mempool and handle_answer_missing: n's mempool after the answer.
SyncMempool(n, txs) ==
    [t \in Txs |->
        IF txs[t] # Nil /\ t \notin previous[n] /\ ValidateTransaction(t, txs[t])
        THEN IF n = Dest[t] THEN [txs[t] EXCEPT !.completed = TRUE] ELSE txs[t]
        ELSE mempool[n][t]]

ReceiveTransactions(n) ==
    /\ alive[n] /\ request[n] # Nil /\ request[n].kind = "txs"
    /\ mempool' = [mempool EXCEPT ![n] = SyncMempool(n, request[n].txs)]
    /\ request' = [request EXCEPT ![n] = Nil]
    /\ UNCHANGED <<chain, previous, sent, checked, winning, state, alive, server>>

-----------------------------------------------------------------------------
(* Phases of LowestLast.run *)

\* MINING to LEADER. run scans the mempool for completed transactions that it
\* has not checked yet in every step of the phase; transactions only join the
\* mempool meanwhile, so one scan at the end finds the same ones. If it finds
\* none, sig_chain_cache is still (inf, None) and reading its id raises, after
\* the state has changed.
EndMining(n) ==
    /\ Running(n) /\ state[n] = "MINING" /\ PhaseOver(n)
    /\ LET fresh == {t \in Held(mempool[n]) :
                        mempool[n][t].completed /\ t \notin checked[n]}
       IN  /\ checked' = [checked EXCEPT ![n] = @ \cup fresh]
           /\ alive' = [alive EXCEPT ![n] = fresh # {}]
    /\ state' = [state EXCEPT ![n] = "LEADER"]
    /\ UNCHANGED <<chain, mempool, previous, sent, winning, request, server>>

\* handle_vote_request on a peer without a cached signature: sig_chain_cache[1]
\* is None, p's server thread ends, and n's main loop with it. A peer may be
\* without one outside the LEADER phase, or when it entered that phase by
\* raising (which the model does not tell from other exceptions); the single
\* loop never asks it then (RoundsComplete and ServerEndsWithoutSignature in
\* module ElectionProperties).
VoteFails(n, p) ==
    /\ ~OneThread /\ Running(n) /\ state[n] = "LEADER"
    /\ p # n /\ server[p] /\ (state[p] # "LEADER" \/ ~alive[p])
    /\ server' = [server EXCEPT ![p] = FALSE]
    /\ alive' = [alive EXCEPT ![n] = FALSE]
    /\ UNCHANGED <<chain, mempool, previous, sent, checked, winning, state, request>>

\* The server thread of p shares the mempool and its transactions with p's main
\* loop without a lock. A mempool that changes while its ids are listed raises,
\* and so may a transaction that the main loop has in JSON (module
\* SharedTransaction). DeadServer has what it means for the node that asks.
ServerRaces(p) ==
    /\ ~OneThread /\ alive[p] /\ server[p]
    /\ \E n \in Nodes \ {p} :
          \/ Running(n) /\ PingerOn(n)
          \/ request[n] # Nil /\ request[n].peer = p /\ request[n].kind \in {"missing", "block"}
    /\ server' = [server EXCEPT ![p] = FALSE]
    /\ UNCHANGED <<chain, mempool, previous, sent, checked, winning, state, request, alive>>

\* What n may hold at the end of its LEADER phase: w is candidate_state, s is
\* the node of the signature in sig_chain_cache. They name one node, or w is
\* None when most votes came from nodes without a candidate. A vote that a
\* server thread reads between lines 155 and 156 may mix two elections.
Elected(n, w, s) ==
    IF Unanimous
    THEN /\ w = s
         /\ \A m \in Nodes : Len(winning[m]) > Len(winning[n])
                                => s = winning[m][Len(winning[n]) + 1]
    ELSE w = s \/ w = Nil \/ ~OneThread

\* winning_signatures.append(sig_chain_cache[1])
M_RecordCandidate(n, w, s) == [winning EXCEPT ![n] = Append(@, w)]
RecordWinner(n, w, s) == [winning EXCEPT ![n] = Append(@, s)]

\* create_block: the transactions that the leader n puts in its block.
M_OnlyCompleted(n) ==
    [t \in Txs |-> IF mempool[n][t] # Nil /\ ~mempool[n][t].completed
                   THEN Nil ELSE mempool[n][t]]
BlockData(n) == [t \in Txs |-> IF t \in previous[n] THEN Nil ELSE mempool[n][t]]

M_OnGenesis(n, nonce) == [height |-> Len(chain[n]) + 1, parent |-> GenesisHash,
                          data |-> BlockData(n), miner |-> n,
                          stamp |-> Len(winning[n]) + 1, nonce |-> nonce]
NewBlock(n, nonce) == [height |-> Len(chain[n]) + 1,
                       parent |-> HashAt(chain[n], Len(chain[n])),
                       data   |-> BlockData(n),
                       miner  |-> n,
                       stamp  |-> Len(winning[n]) + 1,
                       nonce  |-> nonce]

\* create_block clears the whole mempool.
M_KeepMempool(n) == mempool[n]
ClearedMempool(n) == NoTxs

CreateBlock(n) ==
    /\ \E nonce \in Nonces : chain' = [chain EXCEPT ![n] = Append(@, NewBlock(n, nonce))]
    /\ previous' = [previous EXCEPT ![n] = @ \cup Held(BlockData(n))]
    /\ mempool' = [mempool EXCEPT ![n] = ClearedMempool(n)]

\* create_block: only the candidate creates the block of the round.
M_AllLead(n, w) == w # Nil
IsLeader(n, w) == w = n

\* LEADER to BLOCK, with the outcome (w, s) of the vote.
EndElection(n, w, s) ==
    /\ Running(n) /\ state[n] = "LEADER" /\ PhaseOver(n)
    /\ Len(winning[n]) < MaxRounds
    /\ Elected(n, w, s)
    /\ \/ IsLeader(n, w) /\ CreateBlock(n)
       \/ ~IsLeader(n, w) /\ UNCHANGED <<chain, previous, mempool>>
    /\ winning' = RecordWinner(n, w, s)
    /\ state' = [state EXCEPT ![n] = "BLOCK"]
    /\ UNCHANGED <<sent, checked, request, alive, server>>

\* BLOCK to MINING.
EndRound(n) ==
    /\ Running(n) /\ state[n] = "BLOCK" /\ PhaseOver(n)
    /\ state' = [state EXCEPT ![n] = "MINING"]
    /\ UNCHANGED <<chain, mempool, previous, sent, checked, winning, request, alive, server>>

-----------------------------------------------------------------------------
(* Chain synchronisation *)

\* handle_answer_sync: n is behind p. p tells the header of its last block
\* and the length of its chain.
HeaderOfLast(n) == HeaderAt(chain[n], Len(chain[n]))

M_NotAhead(n, p) == HeaderOfLast(n) # HeaderOfLast(p) /\ Len(chain[n]) <= Len(chain[p])
Behind(n, p) == HeaderOfLast(n) # HeaderOfLast(p) /\ Len(chain[n]) < Len(chain[p])

\* ChainPinger.launch_sync, handle_answer_sync: n asks p for blocks if it is
\* behind. below is the height under which n sends its hashes
\* (current_height).
ChainSync(n, p) ==
    /\ Running(n) /\ PingerOn(n) /\ state[n] = "BLOCK"
    /\ p # n /\ server[p]
    /\ Behind(n, p)
    /\ request' = [request EXCEPT ![n] =
                      [kind |-> "block", peer |-> p, below |-> Len(chain[n]) + 1]]
    /\ UNCHANGED <<chain, mempool, previous, sent, checked, winning, state, alive, server>>

\* request_block: heights of the hashes n sends.
Window(n, below) == {h \in 0..(below - 1) : h >= below - HashWindow}

\* Heights of the window at which n and p have the same header.
Common(n, p, heights) ==
    {h \in heights : h <= Len(chain[p]) /\ HeaderAt(chain[n], h) = HeaderAt(chain[p], h)}

Highest(heights) == CHOOSE h \in heights : \A i \in heights : i <= h
Lowest(heights)  == CHOOSE h \in heights : \A i \in heights : h <= i

\* n asks again below the lowest height that p returned.
M_RetrySame(heights) == Lowest(heights) + 1
RetryBelow(heights) == Lowest(heights)

\* handle_request_block and handle_answer_block: p answers with its blocks
\* above the highest common one; n asks again below the window if none of it
\* is common, and gives up if p's chain ends below the window.
AnswerBlock(n, p) ==
    /\ alive[n] /\ request[n] # Nil
    /\ request[n].kind = "block" /\ request[n].peer = p /\ server[p]
    /\ LET heights == Window(n, request[n].below)
           common  == Common(n, p, heights)
       IN  \/ /\ Highest(heights) > Len(chain[p])
              /\ request' = [request EXCEPT ![n] = Nil]
           \/ /\ Highest(heights) <= Len(chain[p]) /\ common = {}
              /\ request' = [request EXCEPT ![n].below = RetryBelow(heights)]
           \/ /\ Highest(heights) <= Len(chain[p]) /\ common # {}
              /\ request' = [request EXCEPT ![n] =
                    [kind |-> "blocks", peer |-> p, height |-> Highest(common),
                     blocks |-> SubSeq(chain[p], Highest(common) + 1, Len(chain[p]))]]
    /\ UNCHANGED <<chain, mempool, previous, sent, checked, winning, state, alive, server>>

\* verify_block on n: the winner that n recorded for this height signed the
\* block. A missing entry (IndexError) and another signer (BadSignatureError)
\* both raise.
M_AnyLeader(n, b) == b.height <= Len(winning[n])
VerifyBlock(n, b) == b.height <= Len(winning[n]) /\ winning[n][b.height] = b.miner

\* verify_chain on n. A single block is valid or raises. With more blocks the
\* loop condition "1 < len(chain)" never turns false: the result is False at
\* the first block with a bad timestamp or parent, or an exception, at the
\* latest the IndexError behind the last block.
StampError(bs, i)  == bs[i].stamp <= bs[i - 1].stamp
ParentError(bs, i) == bs[i].parent # Hash(bs[i - 1])
Stops(n, bs, i) == StampError(bs, i) \/ ~VerifyBlock(n, bs[i]) \/ ParentError(bs, i)

M_VerifyAll(n, bs) ==
    IF \A i \in DOMAIN bs : VerifyBlock(n, bs[i]) THEN "valid" ELSE "raise"
VerifyChain(n, bs) ==
    IF ~VerifyBlock(n, bs[1]) THEN "raise"
    ELSE IF Len(bs) = 1 THEN "valid"
    ELSE IF \E i \in 2..Len(bs) :
                /\ \A j \in 2..(i - 1) : ~Stops(n, bs, j)
                /\ StampError(bs, i) \/ (VerifyBlock(n, bs[i]) /\ ParentError(bs, i))
         THEN "invalid"
         ELSE "raise"

\* sync_chain: the transactions of the blocks that n discards return to its
\* mempool, those of the new blocks leave it.
Discarded(n, height) == SubSeq(chain[n], height + 1, Len(chain[n]))

CopyIn(blocks, t) == blocks[CHOOSE i \in DOMAIN blocks : blocks[i].data[t] # Nil].data[t]

SyncedMempool(n, height, bs) ==
    [t \in Txs |-> IF t \in IdsIn(bs) THEN Nil
                   ELSE IF t \in IdsIn(Discarded(n, height))
                        THEN CopyIn(Discarded(n, height), t)
                        ELSE mempool[n][t]]

M_ForgetSynced(n, height, bs) == previous[n] \ IdsIn(Discarded(n, height))
SyncedPrevious(n, height, bs) == (previous[n] \ IdsIn(Discarded(n, height))) \cup IdsIn(bs)

M_InsertOnly(n, height, bs) ==
    /\ chain' = [chain EXCEPT ![n] = SubSeq(@, 1, height) \o bs]
    /\ UNCHANGED <<mempool, previous>>
Insert(n, height, bs) ==
    /\ chain' = [chain EXCEPT ![n] = SubSeq(@, 1, height) \o bs]
    /\ mempool' = [mempool EXCEPT ![n] = SyncedMempool(n, height, bs)]
    /\ previous' = [previous EXCEPT ![n] = SyncedPrevious(n, height, bs)]

\* handle_answer_block and sync_chain with an answer that holds blocks.
ReceiveBlocks(n) ==
    /\ alive[n] /\ request[n] # Nil /\ request[n].kind = "blocks"
    /\ LET h   == request[n].height
           bs  == request[n].blocks
           fit == bs[1].parent = HashAt(chain[n], h)
       IN  \/ /\ bs # <<>> /\ VerifyChain(n, bs) = "valid" /\ fit
              /\ Insert(n, h, bs) /\ UNCHANGED alive
           \/ /\ bs # <<>> /\ VerifyChain(n, bs) = "raise"
              /\ alive' = [alive EXCEPT ![n] = FALSE]
              /\ UNCHANGED <<chain, mempool, previous>>
           \/ /\ bs # <<>> => \/ VerifyChain(n, bs) = "invalid"
                               \/ (VerifyChain(n, bs) = "valid" /\ ~fit)
              /\ UNCHANGED <<chain, mempool, previous, alive>>
    /\ request' = [request EXCEPT ![n] = Nil]
    /\ UNCHANGED <<sent, checked, winning, state, server>>

-----------------------------------------------------------------------------
(* Failures of an exchange *)

\* The server thread of p has ended: its socket still accepts n's request but
\* the answer is empty, and the EOFError leaves n's main loop.
DeadServer(n, p) ==
    /\ alive[n] /\ p # n /\ ~server[p]
    /\ \/ Running(n) /\ PingerOn(n)
       \/ request[n] # Nil /\ request[n].peer = p /\ request[n].kind \in {"missing", "block"}
    /\ alive' = [alive EXCEPT ![n] = FALSE]
    /\ request' = [request EXCEPT ![n] = Nil]
    /\ UNCHANGED <<chain, mempool, previous, sent, checked, winning, state, server>>

\* The link between two robots breaks during an exchange. The pinger prints a
\* ConnectionAbortedError or a BrokenPipeError; every other exception (refused,
\* reset or unreachable peer, an answer that never came) leaves the main loop.
LinkFails(n) ==
    /\ ~OneThread /\ alive[n]
    /\ \/ request[n] # Nil /\ UNCHANGED alive
       \/ alive' = [alive EXCEPT ![n] = FALSE]
    /\ request' = [request EXCEPT ![n] = Nil]
    /\ UNCHANGED <<chain, mempool, previous, sent, checked, winning, state, server>>

-----------------------------------------------------------------------------
(* The specification *)

Init ==
    /\ chain    = [n \in Nodes |-> <<>>]
    /\ mempool  = [n \in Nodes |-> NoTxs]
    /\ previous = [n \in Nodes |-> {}]
    /\ sent     = {}
    /\ checked  = [n \in Nodes |-> {}]
    /\ winning  = [n \in Nodes |-> <<>>]
    /\ state    = [n \in Nodes |-> "MINING"]
    /\ request  = [n \in Nodes |-> Nil]
    /\ alive    = [n \in Nodes |-> TRUE]
    /\ server   = [n \in Nodes |-> TRUE]

\* The main loop of n gets an answer, or the exception that stands for it.
Exchange(n) == \/ ReceiveTransactions(n)
               \/ ReceiveBlocks(n)
               \/ \E p \in Nodes : AnswerMissing(n, p) \/ AnswerBlock(n, p) \/ DeadServer(n, p)

Next == \E n \in Nodes :
          \/ \E t \in Txs : SendTransaction(n, t)
          \/ \E p \in Nodes : MempoolSync(n, p) \/ ChainSync(n, p) \/ VoteFails(n, p)
          \/ EndMining(n)
          \/ \E w \in Nodes \cup {Nil}, s \in Nodes : EndElection(n, w, s)
          \/ EndRound(n)
          \/ Exchange(n)
          \/ LinkFails(n) \/ ServerRaces(n)

Spec == Init /\ [][Next]_vars

\* Every blocking call of send_request returns: the peer's server thread
\* answers one connection after the other, and a receive gives up after 50 s.
FairSpec == Spec /\ \A n \in Nodes : WF_vars(Exchange(n))

=============================================================================
