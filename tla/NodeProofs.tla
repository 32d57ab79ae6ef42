----------------------------- MODULE NodeProofs -----------------------------
(***************************************************************************)
(* Proofs about module Node, for any number of robots and transactions, of *)
(* rounds, of hashes in a block request, and any drift of the timers.      *)
(***************************************************************************)
EXTENDS NodeProperties, SequenceTheorems, WellFoundedInduction, TLAPS

-----------------------------------------------------------------------------
(* Lowest and highest elements *)

\* A set of heights that is not empty has a lowest one.
LEMMA LowestExists ==
    ASSUME NEW S \in SUBSET Nat, S # {}
    PROVE  Lowest(S) \in S /\ \A i \in S : Lowest(S) <= i
<1>1. PICK h \in S : \A i \in S : <<i, h>> \notin OpToRel(<, Nat)
  BY NatLessThanWellFounded, WFMin, Zenon
<1>2. \A i \in S : ~(i < h)
  BY <1>1, Zenon DEF OpToRel
<1>3. \A i \in S : h <= i
  BY <1>2
<1> QED  BY <1>3 DEF Lowest

\* A bounded set of heights that is not empty has a highest one: the lowest of
\* its upper bounds.
LEMMA HighestExists ==
    ASSUME NEW S \in SUBSET Nat, S # {}, NEW m \in Nat, \A i \in S : i <= m
    PROVE  Highest(S) \in S /\ \A i \in S : i <= Highest(S)
<1> DEFINE Bounds == {k \in Nat : \A i \in S : i <= k}
           b      == Lowest(Bounds)
<1>1. b \in Bounds /\ \A k \in Bounds : b <= k
  BY LowestExists
<1>2. b \in S
  <2>1. SUFFICES ASSUME b \notin S PROVE FALSE
    OBVIOUS
  <2>2. \A i \in S : i \in Nat /\ i <= b - 1
    BY <1>1, <2>1
  <2>3. b - 1 \in Nat
    <3>1. PICK i \in S : TRUE
      OBVIOUS
    <3>2. b \in Nat /\ i \in Nat /\ i <= b - 1
      BY <1>1, <2>2
    <3> QED  BY <3>2
  <2> QED  BY <1>1, <2>2, <2>3
<1>3. \E h \in S : \A i \in S : i <= h
  BY <1>1, <1>2
<1> QED  BY <1>3 DEF Highest

-----------------------------------------------------------------------------
(* Types of the operators *)

\* The hash at a height of a chain.
LEMMA HashType ==
    ASSUME NEW c \in Seq(Block), NEW h \in 0..Len(c)
    PROVE  HashAt(c, h) \in (Nodes \cup {Nil}) \X Nat
<1>1. CASE h = 0
  BY <1>1 DEF HashAt, GenesisHash
<1>2. CASE h # 0
  <2>1. c[h] \in Block
    BY <1>2, ElementOfSeq
  <2> QED  BY <1>2, <2>1 DEF HashAt, Hash, Block
<1> QED  BY <1>1, <1>2

\* The signature that a peer adds to a copy.
LEMMA SignedForType ==
    ASSUME NEW c \in Copy, NEW p \in Nodes, NEW n \in Nodes
    PROVE  SignedFor(c, p, n) \in Copy
<1>1. [id |-> p, relayer |-> n] \in Entry
  BY DEF Entry
<1>2. Append(c.sigs, [id |-> p, relayer |-> n]) \in Seq(Entry)
  BY <1>1, AppendProperties DEF Copy
<1> QED  BY <1>2 DEF SignedFor, AddSignature, Copy

\* The mempool after an answer with transactions.
LEMMA SyncMempoolType ==
    ASSUME TypeOK, NEW n \in Nodes, NEW txs \in Pool
    PROVE  SyncMempool(n, txs) \in Pool
<1>1. \A t \in Txs : txs[t] # Nil => [txs[t] EXCEPT !.completed = TRUE] \in Copy
  BY DEF Pool, Copy
<1> QED  BY <1>1 DEF SyncMempool, Pool, TypeOK

\* b is a block that n may create now.
IsNew(n, b) == \E nonce \in Nonces : b = NewBlock(n, nonce)

\* The block that a leader creates.
LEMMA NewBlockType ==
    ASSUME TypeOK, NEW n \in Nodes, NEW b, IsNew(n, b)
    PROVE  b \in Block
<1>1. Len(chain[n]) \in Nat /\ Len(winning[n]) \in Nat
  BY LenProperties DEF TypeOK
<1>2. HashAt(chain[n], Len(chain[n])) \in (Nodes \cup {Nil}) \X Nat
  BY <1>1, HashType DEF TypeOK
<1>3. BlockData(n) \in Pool
  BY DEF BlockData, Pool, TypeOK
<1>4. PICK nonce \in Nonces : b = NewBlock(n, nonce)
  BY DEF IsNew
<1> QED  BY <1>1, <1>2, <1>3, <1>4 DEF NewBlock, Block

\* Its fields.
LEMMA NewBlockFields ==
    ASSUME NEW n, NEW b, IsNew(n, b)
    PROVE  /\ b.height = Len(chain[n]) + 1 /\ b.parent = HashAt(chain[n], Len(chain[n]))
           /\ b.data = BlockData(n) /\ b.miner = n /\ b.stamp = Len(winning[n]) + 1
           /\ b.nonce \in Nonces /\ Hash(b) = <<n, Len(winning[n]) + 1>>
BY DEF IsNew, NewBlock, Hash

\* What a node that waits for an answer knows of it.
LEMMA RequestTypes ==
    ASSUME TypeOK, NEW n \in Nodes, request[n] # Nil
    PROVE  /\ request[n].peer \in Nodes
           /\ request[n].kind = "missing" => request[n].ids \in SUBSET Txs
           /\ request[n].kind = "txs"     => request[n].txs \in Pool
           /\ request[n].kind = "block"   => /\ request[n].below \in Nat
                                             /\ request[n] \in [kind : {"block"}, peer : Nodes, below : Nat]
           /\ request[n].kind = "blocks"  => /\ request[n].height \in Nat
                                             /\ request[n].blocks \in Seq(Block)
<1>1. request[n] \in Requests
  BY DEF TypeOK
<1> QED  BY <1>1 DEF Requests

\* The highest common block of a block request: p has it too.
LEMMA CommonBlock ==
    ASSUME TypeOK, NEW n \in Nodes, NEW p \in Nodes, NEW below \in Nat,
           Common(n, p, Window(n, below)) # {}
    PROVE  LET h == Highest(Common(n, p, Window(n, below)))
           IN  /\ h \in 0..(below - 1) /\ h <= Len(chain[p])
               /\ HeaderAt(chain[n], h) = HeaderAt(chain[p], h)
<1> DEFINE C == Common(n, p, Window(n, below))
<1>1. C \in SUBSET Nat /\ \A h \in C : h <= below
  BY DEF Common, Window
<1>2. Highest(C) \in C
  BY <1>1, HighestExists
<1> QED  BY <1>2 DEF Common, Window

\* A window without a common block ends above the genesis block.
LEMMA RetryAbove ==
    ASSUME NEW n \in Nodes, NEW p \in Nodes, NEW below \in Nat \ {0},
           Len(chain[p]) \in Nat, Common(n, p, Window(n, below)) = {}
    PROVE  RetryBelow(Window(n, below)) \in 1..(below - 1)
<1> DEFINE W == Window(n, below)
<1>1. W \in SUBSET Nat
  BY DEF Window
<1>2. below - 1 \in W
  BY BoundsAssumption DEF Window
<1>3. Lowest(W) \in W
  BY <1>1, <1>2, LowestExists
<1>4. 0 \notin W
  BY DEF Common, HeaderAt
<1> QED  BY <1>3, <1>4 DEF RetryBelow, Window

-----------------------------------------------------------------------------
(* Verification and insertion of blocks *)

\* verify_chain accepts no more than one block.
LEMMA OneBlockValid ==
    ASSUME NEW n \in Nodes, NEW bs \in Seq(Block), VerifyChain(n, bs) = "valid"
    PROVE  Len(bs) = 1 /\ VerifyBlock(n, bs[1])
BY DEF VerifyChain

\* The blocks that sync_chain inserts are one block, which extends the chain
\* of n as it extends the chain of the peer.
LEMMA InsertsOne ==
    ASSUME TypeOK, AnswersFit, NEW n \in Nodes, Pending(n, "blocks"),
           VerifyChain(n, request[n].blocks) = "valid"
    PROVE  LET bs == request[n].blocks
               p  == request[n].peer
               l  == Len(chain[n])
           IN  /\ bs \in Seq(Block) /\ Len(bs) = 1 /\ VerifyBlock(n, bs[1])
               /\ request[n].height = l
               /\ l \in Nat /\ l < Len(chain[p])
               /\ bs[1] = chain[p][l + 1] /\ bs[1] \in Block
<1> DEFINE bs == request[n].blocks
           p  == request[n].peer
           h  == request[n].height
           l  == Len(chain[n])
<1>1. p \in Nodes /\ h \in Nat /\ bs \in Seq(Block)
  BY RequestTypes DEF Pending
<1>2. l \in Nat /\ Len(chain[p]) \in Nat /\ chain[p] \in Seq(Block)
  BY <1>1, LenProperties DEF TypeOK
<1>3. Len(bs) = 1 /\ VerifyBlock(n, bs[1])
  BY <1>1, OneBlockValid
<1>4. /\ h <= l /\ HeaderAt(chain[n], h) = HeaderAt(chain[p], h)
      /\ l < h + Len(bs) /\ h + Len(bs) <= Len(chain[p])
      /\ bs = SubSeq(chain[p], h + 1, h + Len(bs))
  BY DEF AnswersFit
<1>5. h = l /\ l < Len(chain[p])
  <2>1. h <= l /\ l < h + 1 /\ h + 1 <= Len(chain[p])
    BY <1>3, <1>4
  <2> HIDE DEF h, l, p
  <2> QED  BY <1>1, <1>2, <2>1
<1>6. bs = SubSeq(chain[p], l + 1, l + 1)
  BY <1>3, <1>4, <1>5
<1>7. chain[p][l + 1] \in Block
  BY <1>2, <1>5, ElementOfSeq
<1>8. SubSeq(chain[p], l + 1, l + 1)[1] = chain[p][l + 1]
  <2>1. \A i \in (l + 1)..(l + 1) : chain[p][i] \in Block
    BY <1>2, <1>7
  <2>2. \A i \in 1..((l + 1) - (l + 1) + 1) :
           SubSeq(chain[p], l + 1, l + 1)[i] = chain[p][(l + 1) + i - 1]
    BY <1>2, <2>1, SubSeqProperties
  <2> QED  BY <1>2, <2>2
<1>9. bs[1] = chain[p][l + 1]
  BY <1>6, <1>8
<1> QED  BY <1>1, <1>2, <1>3, <1>4, <1>5, <1>7, <1>9

\* Nothing is discarded then.
LEMMA NothingDiscarded ==
    ASSUME TypeOK, NEW n \in Nodes
    PROVE  /\ Discarded(n, Len(chain[n])) = <<>>
           /\ IdsIn(Discarded(n, Len(chain[n]))) = {}
<1>1. Len(chain[n]) \in Nat
  BY LenProperties DEF TypeOK
<1>2. SubSeq(chain[n], Len(chain[n]) + 1, Len(chain[n])) = <<>>
  BY <1>1, SubSeqEmpty
<1> QED  BY <1>2 DEF Discarded, IdsIn

\* The chain of n grows by the block b, whose transactions leave its mempool.
Grows(n, b) ==
    /\ b \in Block
    /\ chain' = [chain EXCEPT ![n] = Append(chain[n], b)]
    /\ previous' = [previous EXCEPT ![n] = previous[n] \cup Held(b.data)]
    /\ \E pool \in Pool :
         /\ mempool' = [mempool EXCEPT ![n] = pool]
         /\ Held(pool) \subseteq Held(mempool[n]) \ Held(b.data)
         /\ Held(mempool[n]) \subseteq Held(pool) \cup previous[n] \cup Held(b.data)
         /\ \A t \in Txs : pool[t] = Nil \/ pool[t] = mempool[n][t]

\* n creates a block.
Mines(n) ==
    /\ (\E b : IsNew(n, b) /\ Grows(n, b)) /\ request[n] = Nil
    /\ \E s \in Nodes : winning' = [winning EXCEPT ![n] = Append(winning[n], s)]

\* n takes a block from the peer it waits for.
Takes(n) ==
    /\ Pending(n, "blocks") /\ VerifyChain(n, request[n].blocks) = "valid"
    /\ request[n].blocks[1].parent = HashAt(chain[n], request[n].height)
    /\ Grows(n, request[n].blocks[1]) /\ winning' = winning

Keeps == UNCHANGED <<chain, previous, mempool>>

\* The end of a vote adds a block of n or leaves the chains alone.
LEMMA ElectionSteps ==
    ASSUME TypeOK, NEW n \in Nodes, NEW w \in Nodes \cup {Nil}, NEW s \in Nodes,
           EndElection(n, w, s)
    PROVE  Mines(n) \/ Keeps
<1>1. CASE CreateBlock(n)
  <2>1. PICK b : /\ IsNew(n, b) /\ chain' = [chain EXCEPT ![n] = Append(chain[n], b)]
                 /\ b \in Block /\ b.data = BlockData(n)
    <3>1. PICK nonce \in Nonces :
              chain' = [chain EXCEPT ![n] = Append(chain[n], NewBlock(n, nonce))]
      BY <1>1 DEF CreateBlock
    <3>2. IsNew(n, NewBlock(n, nonce))
      BY DEF IsNew
    <3> QED  BY <3>1, <3>2, NewBlockType, NewBlockFields
  <2>2. /\ NoTxs \in Pool /\ Held(NoTxs) = {}
        /\ \A t \in Txs : NoTxs[t] = Nil
    BY DEF NoTxs, Pool, Held
  <2>3. Held(mempool[n]) \subseteq previous[n] \cup Held(b.data)
    BY <2>1 DEF Held, BlockData
  <2>4. Grows(n, b)
    BY <1>1, <2>1, <2>2, <2>3 DEF Grows, CreateBlock, ClearedMempool
  <2> QED  BY <2>1, <2>4 DEF Mines, EndElection, Running, RecordWinner
<1>2. CASE ~CreateBlock(n)
  BY <1>2 DEF EndElection, Keeps
<1> QED  BY <1>1, <1>2

\* sync_chain adds one block or leaves the chains alone.
LEMMA SyncSteps ==
    ASSUME TypeOK, AnswersFit, NEW n \in Nodes, ReceiveBlocks(n)
    PROVE  Takes(n) \/ Keeps
<1> DEFINE bs == request[n].blocks
           h  == request[n].height
           b  == bs[1]
<1>1. Pending(n, "blocks")
  BY DEF Pending, ReceiveBlocks
<1>2. CASE VerifyChain(n, bs) = "valid" /\ b.parent = HashAt(chain[n], h) /\ Insert(n, h, bs)
  <2>1. /\ bs \in Seq(Block) /\ Len(bs) = 1 /\ b \in Block
        /\ h = Len(chain[n]) /\ h \in Nat
    BY <1>1, <1>2, InsertsOne
  <2>2. DOMAIN bs = {1}
    BY <2>1, LenProperties
  <2>3. IdsIn(bs) = Held(b.data)
    BY <2>2 DEF IdsIn
  <2>4. IdsIn(Discarded(n, h)) = {}
    BY <2>1, NothingDiscarded
  <2>5. chain' = [chain EXCEPT ![n] = Append(chain[n], b)]
    <3>1. SubSeq(chain[n], 1, h) = chain[n]
      BY <2>1, SubSeqFull DEF TypeOK
    <3>2. bs = <<b>>
      BY <2>1
    <3>3. chain[n] \o <<b>> = Append(chain[n], b)
      BY <2>1, AppendIsConcat DEF TypeOK
    <3> QED  BY <1>2, <3>1, <3>2, <3>3 DEF Insert
  <2>6. previous' = [previous EXCEPT ![n] = previous[n] \cup Held(b.data)]
    BY <1>2, <2>3, <2>4 DEF Insert, SyncedPrevious
  <2> DEFINE pool == [t \in Txs |-> IF t \in Held(b.data) THEN Nil ELSE mempool[n][t]]
  <2>7. mempool' = [mempool EXCEPT ![n] = pool]
    BY <1>2, <2>3, <2>4 DEF Insert, SyncedMempool
  <2>8. /\ pool \in Pool
        /\ Held(pool) \subseteq Held(mempool[n]) \ Held(b.data)
        /\ Held(mempool[n]) \subseteq Held(pool) \cup Held(b.data)
        /\ \A t \in Txs : pool[t] = Nil \/ pool[t] = mempool[n][t]
    BY DEF Held, Pool, TypeOK
  <2>9. Grows(n, b)
    <3> HIDE DEF pool
    <3> QED  BY <2>1, <2>5, <2>6, <2>7, <2>8 DEF Grows
  <2> QED  BY <1>1, <1>2, <2>9 DEF Takes, ReceiveBlocks
<1>3. CASE ~(VerifyChain(n, bs) = "valid" /\ b.parent = HashAt(chain[n], h) /\ Insert(n, h, bs))
  BY <1>3 DEF ReceiveBlocks, Keeps
<1> QED  BY <1>2, <1>3

-----------------------------------------------------------------------------
(* Type correctness *)

\* A chain that grows keeps its type, with the pool and the ids that go along.
LEMMA GrowsType ==
    ASSUME TypeOK, NEW n \in Nodes, NEW b, Grows(n, b)
    PROVE  /\ chain' \in [Nodes -> Seq(Block)]
           /\ previous' \in [Nodes -> SUBSET Txs]
           /\ mempool' \in [Nodes -> Pool]
<1>1. Append(chain[n], b) \in Seq(Block)
  BY AppendProperties DEF Grows, TypeOK
<1>2. Held(b.data) \subseteq Txs
  BY DEF Held
<1> QED  BY <1>1, <1>2 DEF Grows, TypeOK

\* A node that asks for something asks for something of the right type.
LEMMA AskType ==
    ASSUME TypeOK, NEW n \in Nodes, NEW p \in Nodes,
           MempoolSync(n, p) \/ ChainSync(n, p)
    PROVE  request' \in [Nodes -> Requests \cup {Nil}]
<1>1. CASE MempoolSync(n, p)
  <2> DEFINE ids == FindMissing(n, mempool[p])
             r   == [kind |-> "missing", peer |-> p, ids |-> ids]
  <2>1. ids \in SUBSET Txs
    BY DEF FindMissing, Held
  <2>2. r \in Requests
    BY <2>1 DEF Requests
  <2>3. request' = [request EXCEPT ![n] = r]
    BY <1>1 DEF MempoolSync
  <2> QED  BY <2>2, <2>3 DEF TypeOK
<1>2. CASE ChainSync(n, p)
  <2>1. Len(chain[n]) + 1 \in Nat
    BY LenProperties DEF TypeOK
  <2>2. [kind |-> "block", peer |-> p, below |-> Len(chain[n]) + 1] \in Requests
    BY <2>1 DEF Requests
  <2> QED  BY <1>2, <2>2 DEF ChainSync, TypeOK
<1> QED  BY <1>1, <1>2

\* An answer with transactions has the right type.
LEMMA AnswerMissingType ==
    ASSUME TypeOK, NEW n \in Nodes, NEW p \in Nodes, AnswerMissing(n, p)
    PROVE  request' \in [Nodes -> Requests \cup {Nil}]
<1> DEFINE ids == request[n].ids
           txs == [t \in Txs |-> IF t \in ids THEN SignedFor(mempool[p][t], p, n) ELSE Nil]
           r   == [kind |-> "txs", peer |-> p, txs |-> txs]
<1>1. CASE ids \subseteq Held(mempool[p])
  <2>1. \A t \in ids : t \in Txs /\ mempool[p][t] \in Copy
    BY <1>1 DEF Held, Pool, TypeOK
  <2>2. \A t \in ids : SignedFor(mempool[p][t], p, n) \in Copy
    BY <2>1, SignedForType
  <2>3. txs \in Pool
    BY <2>2 DEF Pool
  <2>4. r \in Requests
    <3> HIDE DEF txs
    <3> QED  BY <2>3 DEF Requests
  <2>5. request' = [request EXCEPT ![n] = r]
    BY <1>1 DEF AnswerMissing
  <2> QED  BY <2>4, <2>5 DEF TypeOK
<1>2. CASE ~ ids \subseteq Held(mempool[p])
  BY <1>2 DEF AnswerMissing, TypeOK
<1> QED  BY <1>1, <1>2

\* What a block request turns into: nothing, a request further down, or the
\* blocks of the peer above a common one.
LEMMA AnswerBlockSteps ==
    ASSUME TypeOK, AnswersFit, NEW n \in Nodes, NEW p \in Nodes, AnswerBlock(n, p)
    PROVE  \/ request' = [request EXCEPT ![n] = Nil]
           \/ \E k \in 1..(request[n].below - 1) :
                request' = [request EXCEPT ![n] =
                              [kind |-> "block", peer |-> p, below |-> k]]
           \/ \E h \in 0..(request[n].below - 1) :
                /\ h <= Len(chain[p]) /\ HeaderAt(chain[n], h) = HeaderAt(chain[p], h)
                /\ request' = [request EXCEPT ![n] =
                     [kind |-> "blocks", peer |-> p, height |-> h,
                      blocks |-> SubSeq(chain[p], h + 1, Len(chain[p]))]]
<1> DEFINE below == request[n].below
           W == Window(n, below)
           C == Common(n, p, W)
<1>1. /\ Pending(n, "block") /\ request[n].peer = p
      /\ request[n] \in [kind : {"block"}, peer : Nodes, below : Nat]
  BY RequestTypes DEF AnswerBlock, Pending
<1>2. below \in Nat \ {0} /\ Len(chain[n]) \in Nat /\ Len(chain[p]) \in Nat
  BY <1>1, LenProperties DEF AnswersFit, TypeOK
<1>3. CASE request' = [request EXCEPT ![n] = Nil]
  BY <1>3
<1>4. CASE C = {} /\ request' = [request EXCEPT ![n].below = RetryBelow(W)]
  <2>1. RetryBelow(W) \in 1..(below - 1)
    BY <1>2, <1>4, RetryAbove
  <2>2. [request[n] EXCEPT !.below = RetryBelow(W)]
           = [kind |-> "block", peer |-> p, below |-> RetryBelow(W)]
    BY <1>1
  <2>3. request' = [request EXCEPT ![n] = [request[n] EXCEPT !.below = RetryBelow(W)]]
    BY <1>4
  <2> QED  BY <2>1, <2>2, <2>3
<1>5. CASE /\ C # {}
           /\ request' = [request EXCEPT ![n] =
                [kind |-> "blocks", peer |-> p, height |-> Highest(C),
                 blocks |-> SubSeq(chain[p], Highest(C) + 1, Len(chain[p]))]]
  BY <1>2, <1>5, CommonBlock
<1> QED  BY <1>3, <1>4, <1>5 DEF AnswerBlock

\* The part of a chain above a height.
LEMMA AboveType ==
    ASSUME NEW c \in Seq(Block), NEW h \in 0..Len(c)
    PROVE  /\ SubSeq(c, h + 1, Len(c)) \in Seq(Block)
           /\ Len(SubSeq(c, h + 1, Len(c))) = Len(c) - h
<1>1. Len(c) \in Nat
  BY LenProperties
<1>2. \A i \in (h + 1)..Len(c) : c[i] \in Block
  BY <1>1, ElementOfSeq
<1>3. /\ SubSeq(c, h + 1, Len(c)) \in Seq(Block)
      /\ Len(SubSeq(c, h + 1, Len(c)))
           = IF h + 1 <= Len(c) THEN Len(c) - (h + 1) + 1 ELSE 0
  BY <1>1, <1>2, SubSeqProperties
<1> QED  BY <1>1, <1>3

\* An answer to a block request has the right type.
LEMMA AnswerBlockType ==
    ASSUME TypeOK, AnswersFit, NEW n \in Nodes, NEW p \in Nodes, AnswerBlock(n, p)
    PROVE  request' \in [Nodes -> Requests \cup {Nil}]
<1>1. request[n].below \in Nat
  BY RequestTypes DEF AnswerBlock
<1>2. CASE request' = [request EXCEPT ![n] = Nil]
  BY <1>2 DEF TypeOK
<1>3. ASSUME NEW k \in 1..(request[n].below - 1),
             request' = [request EXCEPT ![n] = [kind |-> "block", peer |-> p, below |-> k]]
      PROVE  request' \in [Nodes -> Requests \cup {Nil}]
  <2>1. [kind |-> "block", peer |-> p, below |-> k] \in Requests
    BY <1>1 DEF Requests
  <2> QED  BY <1>3, <2>1 DEF TypeOK
<1>4. ASSUME NEW h \in 0..(request[n].below - 1), h <= Len(chain[p]),
             request' = [request EXCEPT ![n] =
                  [kind |-> "blocks", peer |-> p, height |-> h,
                   blocks |-> SubSeq(chain[p], h + 1, Len(chain[p]))]]
      PROVE  request' \in [Nodes -> Requests \cup {Nil}]
  <2> DEFINE bs == SubSeq(chain[p], h + 1, Len(chain[p]))
  <2>1. h \in Nat /\ Len(chain[p]) \in Nat /\ chain[p] \in Seq(Block)
    BY <1>1, LenProperties DEF TypeOK
  <2>2. bs \in Seq(Block)
    BY <1>4, <2>1, AboveType
  <2>3. [kind |-> "blocks", peer |-> p, height |-> h, blocks |-> bs] \in Requests
    <3> HIDE DEF bs
    <3> QED  BY <2>1, <2>2 DEF Requests
  <2> QED  BY <1>4, <2>3 DEF TypeOK
<1> QED  BY <1>2, <1>3, <1>4, AnswerBlockSteps

\* Every step keeps the types.
LEMMA TypeStep ==
    ASSUME TypeOK, AnswersFit, Next
    PROVE  TypeOK'
<1> PICK n \in Nodes :
          \/ \E t \in Txs : SendTransaction(n, t)
          \/ \E p \in Nodes : MempoolSync(n, p) \/ ChainSync(n, p) \/ VoteFails(n, p)
          \/ EndMining(n)
          \/ \E w \in Nodes \cup {Nil}, s \in Nodes : EndElection(n, w, s)
          \/ EndRound(n)
          \/ Exchange(n)
          \/ LinkFails(n) \/ ServerRaces(n)
  BY DEF Next
<1>1. ASSUME NEW t \in Txs, SendTransaction(n, t)
      PROVE  TypeOK'
  <2>1. [completed |-> FALSE, sigs |-> <<>>] \in Copy
    BY DEF Copy
  <2>2. [mempool[n] EXCEPT ![t] = [completed |-> FALSE, sigs |-> <<>>]] \in Pool
    BY <2>1 DEF Pool, TypeOK
  <2> QED  BY <1>1, <2>2 DEF SendTransaction, TypeOK
<1>2. ASSUME NEW p \in Nodes, MempoolSync(n, p) \/ ChainSync(n, p)
      PROVE  TypeOK'
  <2>1. request' \in [Nodes -> Requests \cup {Nil}]
    BY <1>2, AskType
  <2> QED  BY <1>2, <2>1 DEF MempoolSync, ChainSync, TypeOK
<1>3. ASSUME NEW p \in Nodes, VoteFails(n, p)
      PROVE  TypeOK'
  BY <1>3 DEF VoteFails, TypeOK
<1>4. CASE EndMining(n)
  <2>1. {t \in Held(mempool[n]) : mempool[n][t].completed /\ t \notin checked[n]} \subseteq Txs
    BY DEF Held
  <2> QED  BY <1>4, <2>1 DEF EndMining, TypeOK
<1>5. ASSUME NEW w \in Nodes \cup {Nil}, NEW s \in Nodes, EndElection(n, w, s)
      PROVE  TypeOK'
  <2>1. /\ chain' \in [Nodes -> Seq(Block)]
        /\ previous' \in [Nodes -> SUBSET Txs]
        /\ mempool' \in [Nodes -> Pool]
    BY <1>5, ElectionSteps, GrowsType DEF Mines, Keeps, TypeOK
  <2>2. winning' \in [Nodes -> Seq(Nodes)]
    <3>1. Append(winning[n], s) \in Seq(Nodes)
      BY AppendProperties DEF TypeOK
    <3> QED  BY <1>5, <3>1 DEF EndElection, RecordWinner, TypeOK
  <2> QED  BY <1>5, <2>1, <2>2 DEF EndElection, TypeOK
<1>6. CASE EndRound(n)
  BY <1>6 DEF EndRound, TypeOK
<1>7. CASE ReceiveTransactions(n)
  <2>1. SyncMempool(n, request[n].txs) \in Pool
    BY <1>7, RequestTypes, SyncMempoolType DEF ReceiveTransactions
  <2> QED  BY <1>7, <2>1 DEF ReceiveTransactions, TypeOK
<1>8. CASE ReceiveBlocks(n)
  <2>1. /\ chain' \in [Nodes -> Seq(Block)]
        /\ previous' \in [Nodes -> SUBSET Txs]
        /\ mempool' \in [Nodes -> Pool]
    BY <1>8, SyncSteps, GrowsType DEF Takes, Keeps, TypeOK
  <2>2. alive' \in [Nodes -> BOOLEAN] /\ request' \in [Nodes -> Requests \cup {Nil}]
    BY <1>8 DEF ReceiveBlocks, TypeOK
  <2> QED  BY <1>8, <2>1, <2>2 DEF ReceiveBlocks, TypeOK
<1>9. ASSUME NEW p \in Nodes, AnswerMissing(n, p)
      PROVE  TypeOK'
  <2>1. request' \in [Nodes -> Requests \cup {Nil}]
    BY <1>9, AnswerMissingType
  <2>2. alive' \in [Nodes -> BOOLEAN] /\ server' \in [Nodes -> BOOLEAN]
    BY <1>9 DEF AnswerMissing, TypeOK
  <2> QED  BY <1>9, <2>1, <2>2 DEF AnswerMissing, TypeOK
<1>10. ASSUME NEW p \in Nodes, AnswerBlock(n, p)
       PROVE  TypeOK'
  <2>1. request' \in [Nodes -> Requests \cup {Nil}]
    BY <1>10, AnswerBlockType
  <2> QED  BY <1>10, <2>1 DEF AnswerBlock, TypeOK
<1>11. ASSUME NEW p \in Nodes, DeadServer(n, p)
       PROVE  TypeOK'
  BY <1>11 DEF DeadServer, TypeOK
<1>12. CASE LinkFails(n) \/ ServerRaces(n)
  BY <1>12 DEF LinkFails, ServerRaces, TypeOK
<1> QED
  BY <1>1, <1>2, <1>3, <1>4, <1>5, <1>6, <1>7, <1>8, <1>9, <1>10, <1>11, <1>12 DEF Exchange

-----------------------------------------------------------------------------
(* Chains only grow, and answers still fit when they are handled *)

\* Chains with the same blocks at some heights have the same segment there.
LEMMA SameSegment ==
    ASSUME NEW c \in Seq(Block), NEW d \in Seq(Block), NEW a \in Nat \ {0}, NEW z \in Nat,
           z <= Len(c), z <= Len(d), \A i \in a..z : c[i] = d[i]
    PROVE  SubSeq(c, a, z) = SubSeq(d, a, z)
<1>1. Len(c) \in Nat /\ Len(d) \in Nat
  BY LenProperties
<1>2. \A i \in a..z : c[i] \in Block /\ d[i] \in Block
  BY <1>1, ElementOfSeq
<1>3. /\ SubSeq(c, a, z) \in Seq(Block)
      /\ Len(SubSeq(c, a, z)) = IF a <= z THEN z - a + 1 ELSE 0
      /\ \A i \in 1..(z - a + 1) : SubSeq(c, a, z)[i] = c[a + i - 1]
  BY <1>2, SubSeqProperties
<1>4. /\ SubSeq(d, a, z) \in Seq(Block)
      /\ Len(SubSeq(d, a, z)) = IF a <= z THEN z - a + 1 ELSE 0
      /\ \A i \in 1..(z - a + 1) : SubSeq(d, a, z)[i] = d[a + i - 1]
  BY <1>2, SubSeqProperties
<1>5. \A i \in 1..(z - a + 1) : c[a + i - 1] = d[a + i - 1]
  OBVIOUS
<1>6. \A i \in 1..Len(SubSeq(c, a, z)) : SubSeq(c, a, z)[i] = SubSeq(d, a, z)[i]
  BY <1>3, <1>4, <1>5
<1>7. Len(SubSeq(c, a, z)) = Len(SubSeq(d, a, z))
  BY <1>3, <1>4
<1> QED  BY <1>3, <1>4, <1>6, <1>7, SeqEqual

\* c is d, possibly without its last blocks.
Starts(c, d) ==
    /\ c \in Seq(Block) /\ d \in Seq(Block)
    /\ Len(c) \in Nat /\ Len(d) \in Nat /\ Len(c) <= Len(d)
    /\ \A i \in 1..Len(c) : c[i] = d[i]

\* What a node finds at a height stays there when a chain grows.
LEMMA GrownChain ==
    ASSUME NEW c, NEW d, Starts(c, d)
    PROVE  /\ \A h \in 0..Len(c) : HashAt(c, h) = HashAt(d, h) /\ HeaderAt(c, h) = HeaderAt(d, h)
           /\ \A a \in Nat \ {0}, z \in 0..Len(c) : SubSeq(c, a, z) = SubSeq(d, a, z)
<1>1. \A h \in 0..Len(c) : HashAt(c, h) = HashAt(d, h) /\ HeaderAt(c, h) = HeaderAt(d, h)
  BY DEF HashAt, HeaderAt, Starts
<1>2. ASSUME NEW a \in Nat \ {0}, NEW z \in 0..Len(c)
      PROVE  SubSeq(c, a, z) = SubSeq(d, a, z)
  <2>1. /\ c \in Seq(Block) /\ d \in Seq(Block)
        /\ z \in Nat /\ z <= Len(c) /\ z <= Len(d)
        /\ \A i \in a..z : c[i] = d[i]
    BY DEF Starts
  <2> QED  BY <2>1, SameSegment
<1> QED  BY <1>1, <1>2

\* A growing chain keeps its blocks and gets one more.
LEMMA GrownBy ==
    ASSUME TypeOK, NEW n \in Nodes, NEW b, Grows(n, b)
    PROVE  /\ Starts(chain[n], chain'[n])
           /\ Len(chain'[n]) = Len(chain[n]) + 1
           /\ chain'[n][Len(chain[n]) + 1] = b
           /\ \A m \in Nodes : m # n => chain'[m] = chain[m]
<1>1. chain'[n] = Append(chain[n], b) /\ b \in Block /\ chain[n] \in Seq(Block)
  BY DEF Grows, TypeOK
<1>2. /\ chain'[n] \in Seq(Block)
      /\ Len(chain'[n]) = Len(chain[n]) + 1
      /\ \A i \in 1..Len(chain[n]) : chain'[n][i] = chain[n][i]
      /\ chain'[n][Len(chain[n]) + 1] = b
  BY <1>1, AppendProperties
<1>3. Len(chain[n]) \in Nat
  BY <1>1, LenProperties
<1>4. Starts(chain[n], chain'[n])
  BY <1>1, <1>2, <1>3 DEF Starts
<1>5. \A m \in Nodes : m # n => chain'[m] = chain[m]
  BY DEF Grows, TypeOK
<1> QED  BY <1>2, <1>4, <1>5

\* A step leaves the chains, the mempools and the ids alone, or sends or gets
\* transactions, or makes one chain grow: by the block of its own node or by
\* one of the peer that the node waits for. That node then waits for nothing.
LEMMA ChainSteps ==
    ASSUME TypeOK, AnswersFit, Next
    PROVE  \/ UNCHANGED <<chain, previous>>
           \/ \E n \in Nodes : (Mines(n) \/ Takes(n)) /\ request'[n] = Nil
<1> PICK n \in Nodes :
          \/ \E t \in Txs : SendTransaction(n, t)
          \/ \E p \in Nodes : MempoolSync(n, p) \/ ChainSync(n, p) \/ VoteFails(n, p)
          \/ EndMining(n)
          \/ \E w \in Nodes \cup {Nil}, s \in Nodes : EndElection(n, w, s)
          \/ EndRound(n)
          \/ Exchange(n)
          \/ LinkFails(n) \/ ServerRaces(n)
  BY DEF Next
<1>1. ASSUME NEW w \in Nodes \cup {Nil}, NEW s \in Nodes, EndElection(n, w, s)
      PROVE  Keeps \/ (Mines(n) /\ request'[n] = Nil)
  <2>1. request'[n] = request[n]
    BY <1>1 DEF EndElection
  <2> QED  BY <1>1, <2>1, ElectionSteps DEF Mines
<1>2. CASE ReceiveBlocks(n)
  <2>1. request'[n] = Nil
    BY <1>2 DEF ReceiveBlocks, TypeOK
  <2> QED  BY <1>2, <2>1, SyncSteps DEF Keeps
<1>3. CASE \/ \E t \in Txs : SendTransaction(n, t)
           \/ \E p \in Nodes : MempoolSync(n, p) \/ ChainSync(n, p) \/ VoteFails(n, p)
           \/ EndMining(n) \/ EndRound(n) \/ ReceiveTransactions(n)
           \/ \E p \in Nodes : AnswerMissing(n, p) \/ AnswerBlock(n, p) \/ DeadServer(n, p)
           \/ LinkFails(n) \/ ServerRaces(n)
  BY <1>3 DEF SendTransaction, MempoolSync, ChainSync, VoteFails, EndMining, EndRound,
              ReceiveTransactions, AnswerMissing, AnswerBlock, DeadServer, LinkFails, ServerRaces
<1> QED  BY <1>1, <1>2, <1>3 DEF Exchange, Keeps

\* No chain loses a block, and a node's chain stays the same as long as it
\* waits for an answer.
LEMMA ChainsGrow ==
    ASSUME TypeOK, AnswersFit, Next
    PROVE  \A m \in Nodes : /\ Starts(chain[m], chain'[m])
                            /\ request'[m] # Nil => chain'[m] = chain[m]
<1>1. \A m \in Nodes : Starts(chain[m], chain[m])
  BY LenProperties DEF Starts, TypeOK
<1>2. CASE UNCHANGED chain
  BY <1>1, <1>2
<1>3. ASSUME NEW n \in Nodes, Mines(n) \/ Takes(n), request'[n] = Nil
      PROVE  \A m \in Nodes : /\ Starts(chain[m], chain'[m])
                              /\ request'[m] # Nil => chain'[m] = chain[m]
  BY <1>1, <1>3, GrownBy DEF Mines, Takes
<1> QED  BY <1>2, <1>3, ChainSteps

\* AnswersFit for one node.
BlockFits(n) ==
    Pending(n, "block") =>
        /\ Len(chain[n]) < Len(chain[request[n].peer])
        /\ request[n].below \in 1..(Len(chain[n]) + 1)

BlocksFit(n) ==
    Pending(n, "blocks") =>
        LET h == request[n].height
            c == chain[request[n].peer]
            l == Len(request[n].blocks)
        IN  /\ h <= Len(chain[n]) /\ HeaderAt(chain[n], h) = HeaderAt(c, h)
            /\ Len(chain[n]) < h + l /\ h + l <= Len(c)
            /\ request[n].blocks = SubSeq(c, h + 1, h + l)

\* A request that a step leaves alone fits afterwards.
LEMMA FitsStill ==
    ASSUME TypeOK, AnswersFit, Next, NEW n \in Nodes, request'[n] = request[n]
    PROVE  BlockFits(n)' /\ BlocksFit(n)'
<1>1. CASE request[n] = Nil
  BY <1>1 DEF BlockFits, BlocksFit, Pending
<1>2. CASE request[n] # Nil
  <2> DEFINE p == request[n].peer
  <2>1. /\ p \in Nodes
        /\ request[n].kind = "blocks" => /\ request[n].height \in Nat
                                         /\ request[n].blocks \in Seq(Block)
    BY <1>2, RequestTypes
  <2>2. chain'[n] = chain[n] /\ Starts(chain[p], chain'[p])
    BY <1>2, <2>1, ChainsGrow
  <2>3. Len(chain[n]) \in Nat /\ Len(chain[p]) \in Nat /\ Len(chain'[p]) \in Nat
        /\ Len(chain[p]) <= Len(chain'[p])
    BY <2>1, <2>2, LenProperties DEF Starts, TypeOK
  <2>4. BlockFits(n)'
    BY <2>2, <2>3 DEF AnswersFit, BlockFits, Pending
  <2>5. BlocksFit(n)'
    <3> SUFFICES ASSUME Pending(n, "blocks") PROVE BlocksFit(n)'
      BY DEF BlocksFit, Pending
    <3> DEFINE h  == request[n].height
               bs == request[n].blocks
    <3>1. h \in Nat /\ Len(bs) \in Nat
      BY <2>1, LenProperties DEF Pending
    <3>2. /\ h <= Len(chain[n]) /\ HeaderAt(chain[n], h) = HeaderAt(chain[p], h)
          /\ Len(chain[n]) < h + Len(bs) /\ h + Len(bs) <= Len(chain[p])
          /\ bs = SubSeq(chain[p], h + 1, h + Len(bs))
      BY DEF AnswersFit
    <3>3. h \in 0..Len(chain[p]) /\ h + Len(bs) \in 0..Len(chain[p]) /\ h + 1 \in Nat \ {0}
      <4> HIDE DEF h, bs, p
      <4> QED  BY <2>3, <3>1, <3>2
    <3>4. /\ HeaderAt(chain[p], h) = HeaderAt(chain'[p], h)
          /\ SubSeq(chain[p], h + 1, h + Len(bs)) = SubSeq(chain'[p], h + 1, h + Len(bs))
      BY <2>2, <3>3, GrownChain
    <3>5. h + Len(bs) <= Len(chain'[p])
      <4> HIDE DEF h, bs, p
      <4> QED  BY <2>3, <3>1, <3>2
    <3> QED  BY <2>2, <3>2, <3>4, <3>5 DEF BlocksFit
  <2> QED  BY <2>4, <2>5
<1> QED  BY <1>1, <1>2

\* The answer to a block request fits.
LEMMA FitsAnswered ==
    ASSUME TypeOK, AnswersFit, NEW n \in Nodes, NEW p \in Nodes, AnswerBlock(n, p)
    PROVE  BlockFits(n)' /\ BlocksFit(n)'
<1>1. /\ Pending(n, "block") /\ request[n].peer = p /\ chain' = chain
      /\ request[n].below \in 1..(Len(chain[n]) + 1)
      /\ Len(chain[n]) < Len(chain[p])
  BY DEF AnswerBlock, AnswersFit, Pending
<1>2. Len(chain[n]) \in Nat /\ Len(chain[p]) \in Nat /\ chain[p] \in Seq(Block)
  BY LenProperties DEF TypeOK
<1>3. CASE request' = [request EXCEPT ![n] = Nil]
  BY <1>3 DEF BlockFits, BlocksFit, Pending, TypeOK
<1>4. ASSUME NEW k \in 1..(request[n].below - 1),
             request' = [request EXCEPT ![n] = [kind |-> "block", peer |-> p, below |-> k]]
      PROVE  BlockFits(n)' /\ BlocksFit(n)'
  <2>1. request'[n] = [kind |-> "block", peer |-> p, below |-> k]
    BY <1>4 DEF TypeOK
  <2>2. k \in 1..(Len(chain[n]) + 1)
    BY <1>1, <1>2
  <2> QED  BY <1>1, <2>1, <2>2 DEF BlockFits, BlocksFit, Pending
<1>5. ASSUME NEW h \in 0..(request[n].below - 1),
             h <= Len(chain[p]), HeaderAt(chain[n], h) = HeaderAt(chain[p], h),
             request' = [request EXCEPT ![n] =
                  [kind |-> "blocks", peer |-> p, height |-> h,
                   blocks |-> SubSeq(chain[p], h + 1, Len(chain[p]))]]
      PROVE  BlockFits(n)' /\ BlocksFit(n)'
  <2> DEFINE bs == SubSeq(chain[p], h + 1, Len(chain[p]))
  <2>1. request'[n] = [kind |-> "blocks", peer |-> p, height |-> h, blocks |-> bs]
    BY <1>5 DEF TypeOK
  <2>2. h \in Nat /\ h <= Len(chain[n])
    BY <1>1, <1>2
  <2>3. Len(bs) = Len(chain[p]) - h
    BY <1>2, <1>5, <2>2, AboveType
  <2>4. h + Len(bs) = Len(chain[p])
    BY <1>2, <2>2, <2>3
  <2>5. bs = SubSeq(chain[p], h + 1, h + Len(bs))
    BY <2>4
  <2>6. BlockFits(n)'
    BY <2>1 DEF BlockFits, Pending
  <2>7. request'[n].peer = p /\ request'[n].height = h /\ request'[n].blocks = bs
    BY <2>1
  <2>8. Len(chain[n]) < h + Len(bs) /\ h + Len(bs) <= Len(chain[p])
    BY <1>1, <1>2, <2>4
  <2> HIDE DEF bs
  <2>9. BlocksFit(n)'
    BY <1>1, <1>5, <2>2, <2>5, <2>7, <2>8 DEF BlocksFit
  <2> QED  BY <2>6, <2>9
<1> QED  BY <1>3, <1>4, <1>5, AnswerBlockSteps

\* A step changes the request of one node at most, into one that fits.
LEMMA FitsStep ==
    ASSUME TypeOK, AnswersFit, Next
    PROVE  AnswersFit'
<1>1. ASSUME NEW n \in Nodes
      PROVE  request'[n] = request[n] \/ (BlockFits(n)' /\ BlocksFit(n)')
  <2> PICK m \in Nodes :
            \/ \E t \in Txs : SendTransaction(m, t)
            \/ \E p \in Nodes : MempoolSync(m, p) \/ ChainSync(m, p) \/ VoteFails(m, p)
            \/ EndMining(m)
            \/ \E w \in Nodes \cup {Nil}, s \in Nodes : EndElection(m, w, s)
            \/ EndRound(m)
            \/ Exchange(m)
            \/ LinkFails(m) \/ ServerRaces(m)
    BY DEF Next
  <2>1. CASE m # n
    BY <2>1 DEF SendTransaction, MempoolSync, ChainSync, VoteFails, EndMining, EndElection,
                EndRound, Exchange, ReceiveTransactions, ReceiveBlocks, AnswerMissing,
                AnswerBlock, DeadServer, LinkFails, ServerRaces, TypeOK
  <2>2. CASE m = n
    <3>1. ASSUME NEW p \in Nodes, ChainSync(n, p)
          PROVE  BlockFits(n)' /\ BlocksFit(n)'
      <4>1. /\ request'[n] = [kind |-> "block", peer |-> p, below |-> Len(chain[n]) + 1]
            /\ chain' = chain /\ Len(chain[n]) < Len(chain[p])
        BY <3>1 DEF ChainSync, Behind, TypeOK
      <4>2. Len(chain[n]) \in Nat
        BY LenProperties DEF TypeOK
      <4> QED  BY <4>1, <4>2 DEF BlockFits, BlocksFit, Pending
    <3>2. ASSUME NEW p \in Nodes, MempoolSync(n, p)
          PROVE  BlockFits(n)' /\ BlocksFit(n)'
      <4>1. request'[n].kind = "missing"
        BY <3>2 DEF MempoolSync, TypeOK
      <4> QED  BY <4>1 DEF BlockFits, BlocksFit, Pending
    <3>3. ASSUME NEW p \in Nodes, AnswerMissing(n, p)
          PROVE  BlockFits(n)' /\ BlocksFit(n)'
      <4>1. request'[n] = Nil \/ request'[n].kind = "txs"
        BY <3>3 DEF AnswerMissing, TypeOK
      <4> QED  BY <4>1 DEF BlockFits, BlocksFit, Pending
    <3>4. ASSUME NEW p \in Nodes, AnswerBlock(n, p)
          PROVE  BlockFits(n)' /\ BlocksFit(n)'
      BY <3>4, FitsAnswered
    <3>5. CASE request'[n] = Nil
      BY <3>5 DEF BlockFits, BlocksFit, Pending
    <3>6. CASE \/ ReceiveTransactions(n) \/ ReceiveBlocks(n) \/ LinkFails(n)
               \/ \E p \in Nodes : DeadServer(n, p)
      BY <3>5, <3>6 DEF ReceiveTransactions, ReceiveBlocks, LinkFails, DeadServer, TypeOK
    <3>7. CASE \/ \E t \in Txs : SendTransaction(n, t)
               \/ \E p \in Nodes : VoteFails(n, p)
               \/ EndMining(n) \/ EndRound(n) \/ ServerRaces(n)
               \/ \E w \in Nodes \cup {Nil}, s \in Nodes : EndElection(n, w, s)
      BY <3>7 DEF SendTransaction, VoteFails, ServerRaces, EndMining, EndRound, EndElection
    <3> QED  BY <2>2, <3>1, <3>2, <3>3, <3>4, <3>6, <3>7 DEF Exchange
  <2> QED  BY <2>1, <2>2
<1>2. \A n \in Nodes : BlockFits(n)' /\ BlocksFit(n)'
  BY <1>1, FitsStill
<1> QED  BY <1>2 DEF AnswersFit, BlockFits, BlocksFit, Pending

\* Every variable has its type, and a request fits the chains it is about, in
\* every reachable state. The type of a chain depends on the fit: sync_chain
\* cuts the chain at the height of the answer.
THEOREM TypesAndFit == Spec => [](TypeOK /\ AnswersFit)
<1>1. Init => TypeOK /\ AnswersFit
  <2> SUFFICES ASSUME Init PROVE TypeOK /\ AnswersFit
    OBVIOUS
  <2>1. NoTxs \in Pool /\ <<>> \in Seq(Block) /\ <<>> \in Seq(Nodes)
    BY DEF NoTxs, Pool
  <2> QED  BY <2>1 DEF Init, TypeOK, AnswersFit, Pending
<1>2. TypeOK /\ AnswersFit /\ [Next]_vars => (TypeOK /\ AnswersFit)'
  <2>1. ASSUME TypeOK, AnswersFit, UNCHANGED vars
        PROVE  (TypeOK /\ AnswersFit)'
    BY <2>1 DEF vars, TypeOK, AnswersFit, Pending
  <2> QED  BY <2>1, TypeStep, FitsStep
<1> QED  BY <1>1, <1>2, PTL DEF Spec

\* Type correctness.
THEOREM TypeCorrect == Spec => []TypeOK
BY TypesAndFit, PTL

\* An answer with blocks always fits the chain of the node that gets it.
THEOREM AnswersAlwaysFit == Spec => []AnswersFit
BY TypesAndFit, PTL

\* A chain only changes by getting one more block at its end: the part of
\* sync_chain that discards blocks is never taken.
THEOREM ChainsAppendOnly == Spec => AppendOnly
<1> DEFINE Appends == \A n \in Nodes :
          chain'[n] # chain[n] => /\ Len(chain'[n]) = Len(chain[n]) + 1
                                  /\ SubSeq(chain'[n], 1, Len(chain[n])) = chain[n]
<1>1. ASSUME TypeOK, AnswersFit, Next PROVE Appends
  <2>1. CASE UNCHANGED chain
    BY <2>1
  <2>2. ASSUME NEW m \in Nodes, NEW b, Grows(m, b) PROVE Appends
    <3>1. /\ Starts(chain[m], chain'[m]) /\ Len(chain'[m]) = Len(chain[m]) + 1
          /\ \A n \in Nodes : n # m => chain'[n] = chain[n]
      BY <1>1, <2>2, GrownBy
    <3>2. SubSeq(chain'[m], 1, Len(chain[m])) = SubSeq(chain[m], 1, Len(chain[m]))
      BY <3>1, GrownChain DEF Starts
    <3>3. SubSeq(chain[m], 1, Len(chain[m])) = chain[m]
      BY <1>1, SubSeqFull DEF TypeOK
    <3> QED  BY <3>1, <3>2, <3>3
  <2> QED  BY <1>1, <2>1, <2>2, ChainSteps DEF Mines, Takes
<1>2. TypeOK /\ AnswersFit /\ [Next]_vars => [Appends]_vars
  BY <1>1
<1> QED  BY <1>2, TypesAndFit, PTL DEF Spec, AppendOnly

-----------------------------------------------------------------------------
(* Transactions *)

\* Nobody has a transaction that was not sent.
OnlySent ==
    \A n \in Nodes : /\ Held(mempool[n]) \subseteq sent
                     /\ previous[n] \subseteq sent
                     /\ Pending(n, "txs") => Held(request[n].txs) \subseteq sent

TransactionInv ==
    PreviousIdsExact /\ MempoolOffChain /\ OwnTransactionsKept /\ OnlySent

\* A chain that grows by a block gets the ids of the block.
LEMMA GrownIds ==
    ASSUME TypeOK, NEW n \in Nodes, NEW b, Grows(n, b)
    PROVE  IdsIn(chain'[n]) = IdsIn(chain[n]) \cup Held(b.data)
<1> DEFINE l == Len(chain[n])
<1>1. /\ l \in Nat /\ Len(chain'[n]) = l + 1
      /\ chain[n] \in Seq(Block) /\ chain'[n] \in Seq(Block)
      /\ \A i \in 1..l : chain'[n][i] = chain[n][i]
      /\ chain'[n][l + 1] = b
  BY GrownBy DEF Starts
<1>2. DOMAIN chain[n] = 1..l /\ DOMAIN chain'[n] = 1..(l + 1)
  BY <1>1, LenProperties
<1>3. 1..(l + 1) = (1..l) \cup {l + 1}
  BY <1>1
<1>4. \A t : t \in IdsIn(chain'[n]) <=> \E i \in (1..l) \cup {l + 1} : t \in Held(chain'[n][i].data)
  BY <1>2, <1>3 DEF IdsIn
<1>5. \A t : t \in IdsIn(chain[n]) <=> \E i \in 1..l : t \in Held(chain[n][i].data)
  BY <1>2 DEF IdsIn
<1> QED
  <2> HIDE DEF l
  <2> QED  BY <1>1, <1>4, <1>5

\* The transactions of a block that a node creates or takes were sent.
LEMMA BlockSent ==
    ASSUME TypeOK, AnswersFit, PreviousIdsExact, OnlySent, NEW n \in Nodes
    PROVE  /\ Held(BlockData(n)) \subseteq sent
           /\ Takes(n) => Held(request[n].blocks[1].data) \subseteq sent
<1>1. Held(BlockData(n)) \subseteq sent
  BY DEF OnlySent, BlockData, Held
<1>2. ASSUME Takes(n)
      PROVE  Held(request[n].blocks[1].data) \subseteq sent
  <2> DEFINE p == request[n].peer
             l == Len(chain[n])
  <2>1. l \in Nat /\ l < Len(chain[p]) /\ request[n].blocks[1] = chain[p][l + 1]
    BY <1>2, InsertsOne DEF Takes
  <2>2. p \in Nodes
    BY <1>2, RequestTypes DEF Takes, Pending
  <2>3. l + 1 \in DOMAIN chain[p]
    <3>1. DOMAIN chain[p] = 1..Len(chain[p]) /\ Len(chain[p]) \in Nat
      BY <2>2, LenProperties DEF TypeOK
    <3> HIDE DEF l
    <3> QED  BY <2>1, <3>1
  <2>4. Held(chain[p][l + 1].data) \subseteq IdsIn(chain[p])
    BY <2>3 DEF IdsIn
  <2> QED  BY <2>1, <2>2, <2>4 DEF PreviousIdsExact, OnlySent
<1> QED  BY <1>1, <1>2

\* A growing chain keeps the invariant: its block takes what it holds out of
\* the mempool, and what else the mempool loses is on the chain already.
LEMMA GrowsTransactions ==
    ASSUME TypeOK, TransactionInv, NEW n \in Nodes, NEW b, Grows(n, b),
           Held(b.data) \subseteq sent, sent' = sent,
           \A m \in Nodes : request'[m] = request[m] \/ request'[m] = Nil
    PROVE  TransactionInv'
<1>1. PreviousIdsExact'
  <2>1. IdsIn(chain'[n]) = IdsIn(chain[n]) \cup Held(b.data)
    BY GrownIds
  <2>2. \A m \in Nodes : m # n => chain'[m] = chain[m] /\ previous'[m] = previous[m]
    BY DEF Grows, TypeOK
  <2>3. previous'[n] = previous[n] \cup Held(b.data)
    BY DEF Grows, TypeOK
  <2>4. \A m \in Nodes : previous'[m] = IdsIn(chain'[m])
    BY <2>1, <2>2, <2>3 DEF TransactionInv, PreviousIdsExact
  <2> QED  BY <2>4 DEF PreviousIdsExact
<1> PICK pool \in Pool :
         /\ mempool' = [mempool EXCEPT ![n] = pool]
         /\ Held(pool) \subseteq Held(mempool[n]) \ Held(b.data)
         /\ Held(mempool[n]) \subseteq Held(pool) \cup previous[n] \cup Held(b.data)
  BY DEF Grows
<1>2. \A m \in Nodes : m # n => mempool'[m] = mempool[m] /\ previous'[m] = previous[m]
  BY DEF Grows, TypeOK
<1>3. mempool'[n] = pool /\ previous'[n] = previous[n] \cup Held(b.data)
  BY DEF Grows, TypeOK
<1>4. MempoolOffChain'
  <2>1. \A m \in Nodes : Held(mempool'[m]) \cap previous'[m] = {}
    BY <1>2, <1>3 DEF TransactionInv, MempoolOffChain
  <2> QED  BY <2>1 DEF MempoolOffChain
<1>5. OwnTransactionsKept'
  <2>1. \A m \in Nodes : Held(mempool[m]) \cup previous[m] \subseteq Held(mempool'[m]) \cup previous'[m]
    BY <1>2, <1>3
  <2>2. \A t \in sent : Source[t] \in Nodes
    BY TxsAssumption DEF TypeOK
  <2>3. \A t \in sent : t \in Held(mempool'[Source[t]]) \cup previous'[Source[t]]
    BY <2>1, <2>2 DEF TransactionInv, OwnTransactionsKept
  <2> QED  BY <2>3 DEF OwnTransactionsKept
<1>6. OnlySent'
  <2>1. \A m \in Nodes : Held(mempool'[m]) \subseteq sent /\ previous'[m] \subseteq sent
    BY <1>2, <1>3 DEF TransactionInv, OnlySent
  <2>2. \A m \in Nodes : (request'[m] # Nil /\ request'[m].kind = "txs")
                            => Held(request'[m].txs) \subseteq sent
    BY DEF TransactionInv, OnlySent, Pending
  <2> QED  BY <2>1, <2>2 DEF OnlySent, Pending
<1> QED  BY <1>1, <1>4, <1>5, <1>6 DEF TransactionInv

\* A step of the transactions: only the mempool of n changes, nothing leaves
\* it, and what joins it is not on the chain of n.
LEMMA PoolTransactions ==
    ASSUME TypeOK, TransactionInv, NEW n \in Nodes, NEW pool \in Pool,
           mempool' = [mempool EXCEPT ![n] = pool], UNCHANGED <<chain, previous>>,
           Held(mempool[n]) \subseteq Held(pool),
           Held(pool) \cap previous[n] = {}, Held(pool) \subseteq sent',
           sent \subseteq sent',
           \A t \in sent' : t \in sent \/ (Source[t] = n /\ t \in Held(pool)),
           \A m \in Nodes : request'[m] = request[m] \/ request'[m] = Nil
    PROVE  TransactionInv'
<1>1. /\ mempool'[n] = pool
      /\ \A m \in Nodes : m # n => mempool'[m] = mempool[m]
  BY DEF TypeOK
<1>2. PreviousIdsExact'
  BY DEF TransactionInv, PreviousIdsExact
<1>3. MempoolOffChain'
  <2>1. \A m \in Nodes : Held(mempool'[m]) \cap previous[m] = {}
    BY <1>1 DEF TransactionInv, MempoolOffChain
  <2> QED  BY <2>1 DEF MempoolOffChain
<1>4. OwnTransactionsKept'
  <2>1. \A m \in Nodes : Held(mempool[m]) \subseteq Held(mempool'[m])
    BY <1>1
  <2>2. ASSUME NEW t \in sent, t \in Txs
        PROVE  t \in Held(mempool'[Source[t]]) \cup previous[Source[t]]
    <3>1. Source[t] \in Nodes
      BY <2>2, TxsAssumption
    <3> QED  BY <2>1, <3>1 DEF TransactionInv, OwnTransactionsKept
  <2>3. ASSUME NEW t, Source[t] = n, t \in Held(pool)
        PROVE  t \in Held(mempool'[Source[t]])
    BY <1>1, <2>3
  <2>4. \A t \in sent' : t \in Held(mempool'[Source[t]]) \cup previous[Source[t]]
    BY <2>2, <2>3 DEF TypeOK
  <2> QED  BY <2>4 DEF OwnTransactionsKept
<1>5. OnlySent'
  <2>1. \A m \in Nodes : Held(mempool'[m]) \subseteq sent' /\ previous[m] \subseteq sent'
    BY <1>1 DEF TransactionInv, OnlySent
  <2>2. \A m \in Nodes : (request'[m] # Nil /\ request'[m].kind = "txs")
                            => Held(request'[m].txs) \subseteq sent'
    BY DEF TransactionInv, OnlySent, Pending
  <2> QED  BY <2>1, <2>2 DEF OnlySent, Pending
<1> QED  BY <1>2, <1>3, <1>4, <1>5 DEF TransactionInv

\* A step that moves no transaction into a mempool or onto a chain.
LEMMA NoTransactions ==
    ASSUME TypeOK, TransactionInv, UNCHANGED <<chain, previous, mempool, sent>>,
           \A m \in Nodes :
              \/ request'[m] = request[m] \/ request'[m] = Nil
              \/ request'[m].kind # "txs" \/ Held(request'[m].txs) \subseteq sent
    PROVE  TransactionInv'
<1>1. /\ PreviousIdsExact' /\ MempoolOffChain' /\ OwnTransactionsKept'
  BY DEF TransactionInv, PreviousIdsExact, MempoolOffChain, OwnTransactionsKept
<1>2. \A m \in Nodes : (request'[m] # Nil /\ request'[m].kind = "txs")
                          => Held(request'[m].txs) \subseteq sent
  BY DEF TransactionInv, OnlySent, Pending
<1>3. OnlySent'
  BY <1>2 DEF TransactionInv, OnlySent, Pending
<1> QED  BY <1>1, <1>3 DEF TransactionInv

\* Transactions that n receives: those on its chain are left out.
LEMMA ReceivedPool ==
    ASSUME TypeOK, TransactionInv, NEW n \in Nodes, ReceiveTransactions(n)
    PROVE  LET pool == SyncMempool(n, request[n].txs)
           IN  /\ pool \in Pool
               /\ Held(mempool[n]) \subseteq Held(pool)
               /\ Held(pool) \cap previous[n] = {} /\ Held(pool) \subseteq sent
<1> DEFINE txs  == request[n].txs
           pool == SyncMempool(n, txs)
<1>1. txs \in Pool /\ Pending(n, "txs")
  BY RequestTypes DEF ReceiveTransactions, Pending
<1>2. pool \in Pool
  BY <1>1, SyncMempoolType
<1>3. ASSUME NEW t \in Held(mempool[n])
      PROVE  t \in Held(pool)
  <2>1. t \in Txs /\ mempool[n][t] # Nil
    BY DEF Held
  <2>2. txs[t] # Nil => txs[t] \in Copy /\ [txs[t] EXCEPT !.completed = TRUE] \in Copy
    BY <1>1, <2>1 DEF Pool, Copy
  <2>3. pool[t] # Nil
    BY <2>1, <2>2, NilAssumption DEF SyncMempool
  <2> QED  BY <2>1, <2>3 DEF Held
<1>4. \A t \in Held(pool) : (t \in Held(txs) /\ t \notin previous[n]) \/ t \in Held(mempool[n])
  BY DEF Held, SyncMempool
<1>5. Held(txs) \subseteq sent
  BY <1>1 DEF TransactionInv, OnlySent
<1> QED
  <2> HIDE DEF pool, txs
  <2> QED  BY <1>2, <1>3, <1>4, <1>5 DEF TransactionInv, MempoolOffChain, OnlySent, txs, pool

LEMMA TransactionStep ==
    ASSUME TypeOK, AnswersFit, TransactionInv, Next
    PROVE  TransactionInv'
<1> PICK n \in Nodes :
          \/ \E t \in Txs : SendTransaction(n, t)
          \/ \E p \in Nodes : MempoolSync(n, p) \/ ChainSync(n, p) \/ VoteFails(n, p)
          \/ EndMining(n)
          \/ \E w \in Nodes \cup {Nil}, s \in Nodes : EndElection(n, w, s)
          \/ EndRound(n)
          \/ Exchange(n)
          \/ LinkFails(n) \/ ServerRaces(n)
  BY DEF Next
<1>1. ASSUME NEW t \in Txs, SendTransaction(n, t)
      PROVE  TransactionInv'
  <2> DEFINE fresh == [completed |-> FALSE, sigs |-> <<>>]
             pool  == [mempool[n] EXCEPT ![t] = fresh]
  <2>1. fresh \in Copy /\ fresh # Nil
    <3>1. fresh \in Copy
      BY DEF Copy
    <3> HIDE DEF fresh
    <3> QED  BY <3>1, NilAssumption
  <2>2. mempool[n] \in [Txs -> Copy \cup {Nil}]
    BY DEF TypeOK, Pool
  <2>3. pool \in Pool /\ Held(pool) = Held(mempool[n]) \cup {t}
    <3> HIDE DEF fresh
    <3> QED  BY <2>1, <2>2 DEF Pool, Held
  <2>4. /\ mempool' = [mempool EXCEPT ![n] = pool]
        /\ UNCHANGED <<chain, previous, request>>
        /\ sent' = sent \cup {t} /\ Source[t] = n /\ t \notin sent
    BY <1>1 DEF SendTransaction, TypeOK
  <2>5. Held(pool) \cap previous[n] = {} /\ Held(pool) \subseteq sent'
    BY <2>3, <2>4 DEF TransactionInv, MempoolOffChain, OnlySent
  <2>6. \A u \in sent' : u \in sent \/ (Source[u] = n /\ u \in Held(pool))
    BY <2>3, <2>4
  <2> HIDE DEF pool
  <2> QED  BY <2>3, <2>4, <2>5, <2>6, PoolTransactions
<1>2. ASSUME NEW p \in Nodes, MempoolSync(n, p) \/ ChainSync(n, p)
      PROVE  TransactionInv'
  <2>1. /\ UNCHANGED <<chain, previous, mempool, sent>>
        /\ \A m \in Nodes : request'[m] = request[m] \/ request'[m].kind # "txs"
    BY <1>2 DEF MempoolSync, ChainSync, TypeOK
  <2> QED  BY <2>1, NoTransactions
<1>3. ASSUME NEW w \in Nodes \cup {Nil}, NEW s \in Nodes, EndElection(n, w, s)
      PROVE  TransactionInv'
  <2>1. UNCHANGED <<sent, request>>
    BY <1>3 DEF EndElection
  <2>2. Held(BlockData(n)) \subseteq sent
    BY BlockSent DEF TransactionInv
  <2>3. CASE Mines(n)
    BY <2>1, <2>2, <2>3, GrowsTransactions, NewBlockFields DEF Mines
  <2>4. CASE Keeps
    BY <2>1, <2>4, NoTransactions DEF Keeps
  <2> QED  BY <1>3, <2>3, <2>4, ElectionSteps
<1>4. CASE ReceiveTransactions(n)
  <2> DEFINE pool == SyncMempool(n, request[n].txs)
  <2>1. /\ mempool' = [mempool EXCEPT ![n] = pool]
        /\ UNCHANGED <<chain, previous, sent>>
        /\ \A m \in Nodes : request'[m] = request[m] \/ request'[m] = Nil
    BY <1>4 DEF ReceiveTransactions, TypeOK
  <2>2. /\ pool \in Pool /\ Held(mempool[n]) \subseteq Held(pool)
        /\ Held(pool) \cap previous[n] = {} /\ Held(pool) \subseteq sent
    BY <1>4, ReceivedPool
  <2> HIDE DEF pool
  <2> QED  BY <2>1, <2>2, PoolTransactions
<1>5. CASE ReceiveBlocks(n)
  <2>1. /\ sent' = sent
        /\ \A m \in Nodes : request'[m] = request[m] \/ request'[m] = Nil
    BY <1>5 DEF ReceiveBlocks, TypeOK
  <2>2. CASE Takes(n)
    <3>1. Held(request[n].blocks[1].data) \subseteq sent
      BY <2>2, BlockSent DEF TransactionInv
    <3> QED  BY <2>1, <2>2, <3>1, GrowsTransactions DEF Takes
  <2>3. CASE Keeps
    BY <2>1, <2>3, NoTransactions DEF Keeps
  <2> QED  BY <1>5, <2>2, <2>3, SyncSteps
<1>6. ASSUME NEW p \in Nodes, AnswerMissing(n, p)
      PROVE  TransactionInv'
  <2> DEFINE ids == request[n].ids
             txs == [t \in Txs |-> IF t \in ids THEN SignedFor(mempool[p][t], p, n) ELSE Nil]
  <2>1. UNCHANGED <<chain, previous, mempool, sent>>
    BY <1>6 DEF AnswerMissing
  <2>2. CASE ids \subseteq Held(mempool[p])
    <3>1. request' = [request EXCEPT ![n] = [kind |-> "txs", peer |-> p, txs |-> txs]]
      BY <1>6, <2>2 DEF AnswerMissing
    <3>2. request'[n].txs = txs /\ \A m \in Nodes : m # n => request'[m] = request[m]
      BY <3>1 DEF TypeOK
    <3>3. Held(txs) \subseteq sent
      BY <2>2 DEF Held, TransactionInv, OnlySent
    <3> HIDE DEF txs
    <3> QED  BY <2>1, <3>2, <3>3, NoTransactions
  <2>3. CASE ~ ids \subseteq Held(mempool[p])
    <3>1. \A m \in Nodes : request'[m] = request[m] \/ request'[m] = Nil
      BY <1>6, <2>3 DEF AnswerMissing, TypeOK
    <3> QED  BY <2>1, <3>1, NoTransactions
  <2> QED  BY <2>2, <2>3
<1>7. ASSUME NEW p \in Nodes, AnswerBlock(n, p)
      PROVE  TransactionInv'
  <2>1. UNCHANGED <<chain, previous, mempool, sent>>
    BY <1>7 DEF AnswerBlock
  <2>2. \E r : request' = [request EXCEPT ![n] = r] /\ (r = Nil \/ r.kind # "txs")
    BY <1>7, AnswerBlockSteps
  <2>3. \A m \in Nodes : \/ request'[m] = request[m] \/ request'[m] = Nil
                         \/ request'[m].kind # "txs"
    BY <2>2 DEF TypeOK
  <2> QED  BY <2>1, <2>3, NoTransactions
<1>8. CASE \/ EndMining(n) \/ EndRound(n) \/ LinkFails(n) \/ ServerRaces(n)
           \/ \E p \in Nodes : VoteFails(n, p) \/ DeadServer(n, p)
  <2>1. /\ UNCHANGED <<chain, previous, mempool, sent>>
        /\ \A m \in Nodes : request'[m] = request[m] \/ request'[m] = Nil
    BY <1>8 DEF EndMining, EndRound, LinkFails, ServerRaces, VoteFails, DeadServer, TypeOK
  <2> QED  BY <2>1, NoTransactions
<1> QED
  BY <1>1, <1>2, <1>3, <1>4, <1>5, <1>6, <1>7, <1>8 DEF Exchange

\* The invariant of the transactions holds in every reachable state.
THEOREM TransactionsConsistent == Spec => []TransactionInv
<1>1. Init => TransactionInv
  <2> SUFFICES ASSUME Init PROVE TransactionInv
    OBVIOUS
  <2>1. Held(NoTxs) = {}
    BY DEF Held, NoTxs
  <2>2. IdsIn(<<>>) = {}
    BY DEF IdsIn
  <2>3. \A n \in Nodes : mempool[n] = NoTxs /\ previous[n] = {} /\ chain[n] = <<>> /\ request[n] = Nil
    BY DEF Init
  <2>4. sent = {}
    BY DEF Init
  <2> QED
    BY <2>1, <2>2, <2>3, <2>4 DEF TransactionInv, PreviousIdsExact, MempoolOffChain,
                                  OwnTransactionsKept, OnlySent, Pending
<1>2. TypeOK /\ AnswersFit /\ TransactionInv /\ [Next]_vars => TransactionInv'
  <2>1. ASSUME TypeOK, TransactionInv, UNCHANGED vars PROVE TransactionInv'
    BY <2>1, NoTransactions DEF vars
  <2> QED  BY <2>1, TransactionStep
<1> QED  BY <1>1, <1>2, TypesAndFit, PTL DEF Spec

\* previous_transactions_id is exactly the set of ids on the chain.
THEOREM PreviousIdsAlwaysExact == Spec => []PreviousIdsExact
BY TransactionsConsistent, PTL DEF TransactionInv

\* No transaction is in a mempool and on the chain of the same node.
THEOREM MempoolAlwaysOffChain == Spec => []MempoolOffChain
BY TransactionsConsistent, PTL DEF TransactionInv

\* A node never loses a transaction it has sent.
THEOREM OwnTransactionsAlwaysKept == Spec => []OwnTransactionsKept
BY TransactionsConsistent, PTL DEF TransactionInv
=============================================================================
