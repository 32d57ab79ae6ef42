---------------------------- MODULE ChainProofs -----------------------------
(***************************************************************************)
(* Proofs about the two kinds of chains in module Node. Chains of blocks:  *)
(* two of them agree up to the highest block that both have, and they      *)
(* implement the replicated log. Chains of signatures: what a node asks    *)
(* for is still missing when it comes, each is a simple path, and a        *)
(* transaction is completed on one path only.                              *)
(***************************************************************************)
EXTENDS NodeProofs

(***************************************************************************)
(* Chains of blocks                                                        *)
(***************************************************************************)

\* A leader's blocks are from rounds it has finished.
StampsPast ==
    \A n \in Nodes : \A i \in DOMAIN chain[n] :
        chain[n][i].stamp <= Len(winning[chain[n][i].miner])

\* Two chains that share a block share everything below it: PrefixAgreement of
\* the hash that also covers the miner.
HashAgreement ==
    \A n, m \in Nodes : \A i \in DOMAIN chain[n], j \in DOMAIN chain[m] :
        Hash(chain[n][i]) = Hash(chain[m][j])
            => i = j /\ SubSeq(chain[n], 1, i) = SubSeq(chain[m], 1, j)

LogInv == ChainsLinked /\ StampsPast /\ HashAgreement /\ LeaderSigned /\ NoDoubleInclusion

-----------------------------------------------------------------------------
(* Agreement of two chains *)

\* Two chains that share a block share all blocks below it.
Agree(c, d) ==
    \A i \in 1..Len(c), j \in 1..Len(d) :
        Hash(c[i]) = Hash(d[j]) => i = j /\ \A k \in 1..i : c[k] = d[k]

\* The same by segments.
Parted(c, d) ==
    \A i \in DOMAIN c, j \in DOMAIN d :
        Hash(c[i]) = Hash(d[j]) => i = j /\ SubSeq(c, 1, i) = SubSeq(d, 1, j)

LEMMA AgreeParted ==
    ASSUME NEW c \in Seq(Block), NEW d \in Seq(Block)
    PROVE  Agree(c, d) <=> Parted(c, d)
<1>1. /\ Len(c) \in Nat /\ DOMAIN c = 1..Len(c)
      /\ Len(d) \in Nat /\ DOMAIN d = 1..Len(d)
  BY LenProperties
<1>2. ASSUME NEW i \in 1..Len(c), i \in 1..Len(d)
      PROVE  SubSeq(c, 1, i) = SubSeq(d, 1, i) <=> \A k \in 1..i : c[k] = d[k]
  <2>1. i \in Nat /\ i <= Len(c) /\ i <= Len(d)
    BY <1>1, <1>2
  <2>2. \A k \in 1..i : c[k] \in Block /\ d[k] \in Block
    BY <1>1, <2>1, ElementOfSeq
  <2>3. /\ \A k \in 1..(i - 1 + 1) : SubSeq(c, 1, i)[k] = c[1 + k - 1]
        /\ \A k \in 1..(i - 1 + 1) : SubSeq(d, 1, i)[k] = d[1 + k - 1]
    BY <2>1, <2>2, SubSeqProperties
  <2>4. \A k \in 1..i : SubSeq(c, 1, i)[k] = c[k] /\ SubSeq(d, 1, i)[k] = d[k]
    BY <2>1, <2>3
  <2>5. (\A k \in 1..i : c[k] = d[k]) => SubSeq(c, 1, i) = SubSeq(d, 1, i)
    BY <2>1, SameSegment
  <2> QED  BY <2>4, <2>5
<1>3. ASSUME Agree(c, d), NEW i \in DOMAIN c, NEW j \in DOMAIN d, Hash(c[i]) = Hash(d[j])
      PROVE  i = j /\ SubSeq(c, 1, i) = SubSeq(d, 1, j)
  <2>1. i \in 1..Len(c) /\ j \in 1..Len(d)
    BY <1>1
  <2>2. i = j /\ \A k \in 1..i : c[k] = d[k]
    BY <1>3, <2>1 DEF Agree
  <2> QED  BY <1>2, <2>1, <2>2
<1>4. ASSUME Parted(c, d), NEW i \in 1..Len(c), NEW j \in 1..Len(d), Hash(c[i]) = Hash(d[j])
      PROVE  i = j /\ \A k \in 1..i : c[k] = d[k]
  <2>1. i \in DOMAIN c /\ j \in DOMAIN d
    BY <1>1
  <2>2. i = j /\ SubSeq(c, 1, i) = SubSeq(d, 1, j)
    BY <1>4, <2>1 DEF Parted
  <2> QED  BY <1>2, <2>2
<1>5. Agree(c, d) => Parted(c, d)
  BY <1>3 DEF Parted
<1>6. Parted(c, d) => Agree(c, d)
  BY <1>4 DEF Agree
<1> QED  BY <1>5, <1>6

\* HashAgreement, block by block.
LEMMA AgreeEverywhere ==
    ASSUME TypeOK
    PROVE  HashAgreement <=> \A n, m \in Nodes : Agree(chain[n], chain[m])
<1>1. \A n \in Nodes : chain[n] \in Seq(Block)
  BY DEF TypeOK
<1>2. HashAgreement <=> \A n, m \in Nodes : Parted(chain[n], chain[m])
  BY DEF HashAgreement, Parted
<1> QED  BY <1>1, <1>2, AgreeParted

\* Parts of chains that agree, agree.
LEMMA PartsAgree ==
    ASSUME NEW c, NEW cc, NEW d, NEW dd, Starts(c, cc), Starts(d, dd), Agree(cc, dd)
    PROVE  Agree(c, d)
<1> SUFFICES ASSUME NEW i \in 1..Len(c), NEW j \in 1..Len(d), Hash(c[i]) = Hash(d[j])
             PROVE  i = j /\ \A k \in 1..i : c[k] = d[k]
  BY DEF Agree
<1>1. /\ i \in 1..Len(cc) /\ c[i] = cc[i] /\ \A k \in 1..i : c[k] = cc[k]
      /\ j \in 1..Len(dd) /\ d[j] = dd[j] /\ \A k \in 1..j : d[k] = dd[k]
  BY DEF Starts
<1>2. i = j /\ \A k \in 1..i : cc[k] = dd[k]
  BY <1>1 DEF Agree
<1> QED  BY <1>1, <1>2

\* Two chains at a height where they have the same block.
LEMMA SameBelow ==
    ASSUME TypeOK, HashAgreement, NEW n \in Nodes, NEW p \in Nodes,
           NEW h \in 0..Len(chain[n]), h <= Len(chain[p]),
           HashAt(chain[n], h) = HashAt(chain[p], h)
    PROVE  \A i \in 1..h : chain[n][i] = chain[p][i]
<1>1. Len(chain[n]) \in Nat /\ Len(chain[p]) \in Nat
  BY LenProperties DEF TypeOK
<1>2. CASE h = 0
  BY <1>2
<1>3. CASE h # 0
  <2>1. Hash(chain[n][h]) = Hash(chain[p][h])
    BY <1>3 DEF HashAt
  <2>2. h \in 1..Len(chain[n]) /\ h \in 1..Len(chain[p])
    BY <1>1, <1>3
  <2>3. Agree(chain[n], chain[p])
    BY AgreeEverywhere
  <2> QED  BY <2>1, <2>2, <2>3 DEF Agree
<1> QED  BY <1>2, <1>3

\* A node that takes a block then has the first blocks of its peer.
LEMMA TakesCopy ==
    ASSUME TypeOK, AnswersFit, ChainsLinked, HashAgreement, NEW n \in Nodes, Takes(n)
    PROVE  LET p == request[n].peer
           IN  p \in Nodes /\ Starts(chain'[n], chain[p])
<1> DEFINE p == request[n].peer
           l == Len(chain[n])
<1>1. /\ l \in Nat /\ l < Len(chain[p]) /\ request[n].blocks[1] = chain[p][l + 1]
      /\ request[n].blocks[1].parent = HashAt(chain[n], l)
  BY InsertsOne DEF Takes
<1>2. p \in Nodes
  BY RequestTypes DEF Takes, Pending
<1>7. HashAt(chain[n], l) = HashAt(chain[p], l)
  <2>1. l + 1 \in DOMAIN chain[p]
    <3>1. Len(chain[p]) \in Nat /\ DOMAIN chain[p] = 1..Len(chain[p])
      BY <1>2, LenProperties DEF TypeOK
    <3> HIDE DEF l, p
    <3> QED  BY <1>1, <3>1
  <2>2. chain[p][l + 1].parent = HashAt(chain[p], (l + 1) - 1)
    BY <1>2, <2>1 DEF ChainsLinked
  <2> QED  BY <1>1, <2>2
<1>3. /\ Starts(chain[n], chain'[n]) /\ Len(chain'[n]) = l + 1
      /\ chain'[n][l + 1] = chain[p][l + 1]
  BY <1>1, GrownBy DEF Takes
<1>4. \A i \in 1..l : chain[n][i] = chain[p][i]
  <2>1. l \in 0..l /\ l <= Len(chain[p])
    BY <1>1, <1>2, LenProperties DEF TypeOK
  <2> QED  BY <1>1, <1>2, <1>7, <2>1, SameBelow
<1>5. \A i \in 1..(l + 1) : chain'[n][i] = chain[p][i]
  BY <1>1, <1>3, <1>4 DEF Starts
<1>6. chain[p] \in Seq(Block) /\ Len(chain[p]) \in Nat
  BY <1>2, LenProperties DEF TypeOK
<1> QED
  <2>1. l + 1 <= Len(chain[p])
    BY <1>1, <1>6
  <2> QED  BY <1>2, <1>3, <1>5, <1>6, <2>1 DEF Starts

-----------------------------------------------------------------------------
(* The invariant *)

\* winning_signatures only grows.
LEMMA WinningGrows ==
    ASSUME TypeOK, Next
    PROVE  \A m \in Nodes : /\ Len(winning[m]) \in Nat /\ Len(winning'[m]) \in Nat
                            /\ Len(winning[m]) <= Len(winning'[m])
                            /\ \A i \in 1..Len(winning[m]) : winning'[m][i] = winning[m][i]
<1>1. \A m \in Nodes : Len(winning[m]) \in Nat
  BY LenProperties DEF TypeOK
<1> PICK n \in Nodes :
          \/ \E t \in Txs : SendTransaction(n, t)
          \/ \E p \in Nodes : MempoolSync(n, p) \/ ChainSync(n, p) \/ VoteFails(n, p)
          \/ EndMining(n)
          \/ \E w \in Nodes \cup {Nil}, s \in Nodes : EndElection(n, w, s)
          \/ EndRound(n)
          \/ Exchange(n)
          \/ LinkFails(n) \/ ServerRaces(n)
  BY DEF Next
<1>2. CASE winning' = winning
  BY <1>1, <1>2
<1>3. ASSUME NEW w \in Nodes \cup {Nil}, NEW s \in Nodes, EndElection(n, w, s)
      PROVE  \A m \in Nodes : /\ Len(winning[m]) \in Nat /\ Len(winning'[m]) \in Nat
                              /\ Len(winning[m]) <= Len(winning'[m])
                              /\ \A i \in 1..Len(winning[m]) : winning'[m][i] = winning[m][i]
  <2>1. /\ winning'[n] = Append(winning[n], s)
        /\ \A m \in Nodes : m # n => winning'[m] = winning[m]
    BY <1>3 DEF EndElection, RecordWinner, TypeOK
  <2>2. /\ Len(winning'[n]) = Len(winning[n]) + 1
        /\ \A i \in 1..Len(winning[n]) : winning'[n][i] = winning[n][i]
    BY <2>1, AppendProperties DEF TypeOK
  <2> QED  BY <1>1, <2>1, <2>2
<1>4. CASE \/ \E t \in Txs : SendTransaction(n, t)
           \/ \E p \in Nodes : MempoolSync(n, p) \/ ChainSync(n, p) \/ VoteFails(n, p)
           \/ EndMining(n) \/ EndRound(n) \/ ReceiveTransactions(n) \/ ReceiveBlocks(n)
           \/ \E p \in Nodes : AnswerMissing(n, p) \/ AnswerBlock(n, p) \/ DeadServer(n, p)
           \/ LinkFails(n) \/ ServerRaces(n)
  BY <1>2, <1>4 DEF SendTransaction, MempoolSync, ChainSync, VoteFails, EndMining, EndRound,
       ReceiveTransactions, ReceiveBlocks, AnswerMissing, AnswerBlock, DeadServer, LinkFails, ServerRaces
<1> QED  BY <1>3, <1>4 DEF Exchange

\* The blocks of the chains, by index.
LEMMA Blocks ==
    ASSUME TypeOK, NEW n \in Nodes
    PROVE  /\ chain[n] \in Seq(Block) /\ Len(chain[n]) \in Nat
           /\ DOMAIN chain[n] = 1..Len(chain[n])
           /\ \A i \in DOMAIN chain[n] : chain[n][i] \in Block
BY LenProperties, ElementOfSeq DEF TypeOK

\* A step leaves all chains but one alone.
LEMMA OneChain ==
    ASSUME TypeOK, AnswersFit, ChainsLinked, HashAgreement, Next, chain' # chain
    PROVE  \E n \in Nodes :
              /\ \A m \in Nodes : m # n => chain'[m] = chain[m]
              /\ Starts(chain[n], chain'[n]) /\ Len(chain'[n]) = Len(chain[n]) + 1
              /\ \/ Mines(n) /\ IsNew(n, chain'[n][Len(chain[n]) + 1])
                 \/ Takes(n) /\ \E p \in Nodes : p # n /\ Starts(chain'[n], chain[p])
<1> PICK n \in Nodes : Mines(n) \/ Takes(n)
  BY ChainSteps
<1>1. CASE Mines(n)
  <2>1. PICK b : IsNew(n, b) /\ Grows(n, b)
    BY <1>1 DEF Mines
  <2> QED  BY <1>1, <2>1, GrownBy
<1>2. CASE Takes(n)
  <2>1. request[n].peer \in Nodes /\ Starts(chain'[n], chain[request[n].peer])
    BY <1>2, TakesCopy
  <2>2. /\ Starts(chain[n], chain'[n]) /\ Len(chain'[n]) = Len(chain[n]) + 1
        /\ \A m \in Nodes : m # n => chain'[m] = chain[m]
    BY <1>2, GrownBy DEF Takes
  <2>3. request[n].peer # n
    BY <2>1, <2>2 DEF Starts
  <2> QED  BY <1>2, <2>1, <2>2, <2>3
<1> QED  BY <1>1, <1>2

\* A new block has a hash that no block has yet.
LEMMA NewHash ==
    ASSUME TypeOK, StampsPast, NEW n \in Nodes, NEW b, IsNew(n, b),
           NEW m \in Nodes, NEW i \in 1..Len(chain[m])
    PROVE  Hash(chain[m][i]) # Hash(b)
<1>1. chain[m][i].stamp <= Len(winning[chain[m][i].miner]) /\ chain[m][i] \in Block
  BY Blocks DEF StampsPast
<1>2. Len(winning[n]) \in Nat
  BY LenProperties DEF TypeOK
<1>3. SUFFICES ASSUME Hash(chain[m][i]) = Hash(b) PROVE FALSE
  OBVIOUS
<1>4. chain[m][i].miner = n /\ chain[m][i].stamp = Len(winning[n]) + 1
  BY <1>3, NewBlockFields DEF Hash
<1> QED  BY <1>1, <1>2, <1>4 DEF Block

LEMMA StampsStep ==
    ASSUME TypeOK, TypeOK', AnswersFit, ChainsLinked, HashAgreement, StampsPast, Next
    PROVE  StampsPast'
<1>1. ASSUME NEW m \in Nodes, NEW i \in 1..Len(chain[m])
      PROVE  chain[m][i].stamp <= Len(winning'[chain[m][i].miner])
  <2>1. /\ chain[m][i].stamp <= Len(winning[chain[m][i].miner])
        /\ chain[m][i].miner \in Nodes /\ chain[m][i].stamp \in Nat
    BY Blocks DEF StampsPast, Block
  <2> QED  BY <2>1, WinningGrows
<1>2. \A m \in Nodes : \A i \in 1..Len(chain'[m]) :
          chain'[m][i].stamp <= Len(winning'[chain'[m][i].miner])
  <2>1. CASE chain' = chain
    BY <1>1, <2>1
  <2>2. ASSUME NEW n \in Nodes, NEW p \in Nodes, Starts(chain'[n], chain[p])
        PROVE  \A i \in 1..Len(chain'[n]) :
                  chain'[n][i].stamp <= Len(winning'[chain'[n][i].miner])
    <3>1. \A i \in 1..Len(chain'[n]) : i \in 1..Len(chain[p]) /\ chain'[n][i] = chain[p][i]
      BY <2>2 DEF Starts
    <3>2. \A i \in 1..Len(chain[p]) : chain[p][i].stamp <= Len(winning'[chain[p][i].miner])
      BY <1>1
    <3> QED  BY <3>1, <3>2
  <2>3. ASSUME NEW n \in Nodes, Mines(n), Starts(chain[n], chain'[n]),
               Len(chain'[n]) = Len(chain[n]) + 1,
               IsNew(n, chain'[n][Len(chain[n]) + 1])
        PROVE  \A i \in 1..Len(chain'[n]) :
                  chain'[n][i].stamp <= Len(winning'[chain'[n][i].miner])
    <3>1. Len(winning'[n]) = Len(winning[n]) + 1
      BY <2>3, AppendProperties DEF Mines, TypeOK
    <3> DEFINE b == chain'[n][Len(chain[n]) + 1]
    <3>2. b.stamp <= Len(winning'[b.miner])
      <4>1. Len(winning[n]) \in Nat
        BY LenProperties DEF TypeOK
      <4>2. b.miner = n /\ b.stamp = Len(winning[n]) + 1
        BY <2>3, NewBlockFields
      <4> QED  BY <3>1, <4>1, <4>2
    <3>3. \A i \in 1..Len(chain[n]) : chain'[n][i] = chain[n][i]
      BY <2>3 DEF Starts
    <3>4. \A i \in 1..(Len(chain[n]) + 1) : i \in 1..Len(chain[n]) \/ i = Len(chain[n]) + 1
      BY Blocks
    <3> QED  BY <1>1, <2>3, <3>2, <3>3, <3>4
  <2> QED  BY <1>1, <2>1, <2>2, <2>3, OneChain
<1>3. \A m \in Nodes : DOMAIN chain'[m] = 1..Len(chain'[m])
  BY LenProperties DEF TypeOK
<1> QED  BY <1>2, <1>3 DEF StampsPast

LEMMA LinkedStep ==
    ASSUME TypeOK, TypeOK', AnswersFit, HashAgreement, ChainsLinked, Next
    PROVE  ChainsLinked'
<1> DEFINE Linked(c) == \A i \in 1..Len(c) : /\ c[i].height = i
                                             /\ c[i].parent = HashAt(c, i - 1)
<1>1. \A m \in Nodes : Linked(chain[m])
  BY Blocks DEF ChainsLinked
<1>2. ASSUME NEW c, NEW d, Starts(c, d), Linked(d)
      PROVE  Linked(c)
  <2>1. \A i \in 1..Len(c) : /\ i \in 1..Len(d) /\ c[i] = d[i] /\ i - 1 \in 0..Len(c)
                             /\ HashAt(c, i - 1) = HashAt(d, i - 1)
    BY <1>2, GrownChain DEF Starts
  <2> QED  BY <1>2, <2>1
<1>3. ASSUME NEW n \in Nodes, Starts(chain[n], chain'[n]),
             Len(chain'[n]) = Len(chain[n]) + 1,
             IsNew(n, chain'[n][Len(chain[n]) + 1])
      PROVE  Linked(chain'[n])
  <2> DEFINE l == Len(chain[n])
  <2>1. /\ l \in Nat
        /\ \A i \in 1..l : chain'[n][i] = chain[n][i]
        /\ \A h \in 0..l : HashAt(chain[n], h) = HashAt(chain'[n], h)
    BY <1>3, GrownChain DEF Starts
  <2>2. ASSUME NEW i \in 1..l
        PROVE  chain'[n][i].height = i /\ chain'[n][i].parent = HashAt(chain'[n], i - 1)
    <3>1. i - 1 \in 0..l
      BY <2>1
    <3>2. chain[n][i].height = i /\ chain[n][i].parent = HashAt(chain[n], i - 1)
      BY <1>1
    <3> QED  BY <2>1, <3>1, <3>2
  <2>3. /\ chain'[n][l + 1].height = l + 1
        /\ chain'[n][l + 1].parent = HashAt(chain'[n], (l + 1) - 1)
    BY <1>3, <2>1, NewBlockFields
  <2>4. \A i \in 1..(l + 1) : i \in 1..l \/ i = l + 1
    BY <2>1
  <2> QED  BY <1>3, <2>2, <2>3, <2>4
<1>4. \A m \in Nodes : Linked(chain'[m])
  <2> HIDE DEF Linked
  <2>1. CASE chain' = chain
    BY <1>1, <2>1
  <2> QED  BY <1>1, <1>2, <1>3, <2>1, OneChain
<1>5. \A m \in Nodes : DOMAIN chain'[m] = 1..Len(chain'[m])
  BY LenProperties DEF TypeOK
<1> QED  BY <1>4, <1>5 DEF ChainsLinked

LEMMA AgreementStep ==
    ASSUME TypeOK, TypeOK', AnswersFit, ChainsLinked, HashAgreement, StampsPast, Next
    PROVE  HashAgreement'
<1>1. \A m, q \in Nodes : Agree(chain[m], chain[q])
  BY AgreeEverywhere
<1>2. \A m \in Nodes : Starts(chain[m], chain[m])
  BY Blocks DEF Starts
<1>3. ASSUME NEW n \in Nodes, NEW p \in Nodes, Starts(chain'[n], chain[p]),
             \A m \in Nodes : m # n => chain'[m] = chain[m]
      PROVE  \A m, q \in Nodes : Agree(chain'[m], chain'[q])
  <2>1. \A m \in Nodes : \E q \in Nodes : Starts(chain'[m], chain[q])
    BY <1>2, <1>3
  <2> QED  BY <1>1, <2>1, PartsAgree
<1>4. ASSUME NEW n \in Nodes, Starts(chain[n], chain'[n]),
             Len(chain'[n]) = Len(chain[n]) + 1,
             IsNew(n, chain'[n][Len(chain[n]) + 1]),
             \A m \in Nodes : m # n => chain'[m] = chain[m]
      PROVE  \A m, q \in Nodes : Agree(chain'[m], chain'[q])
  <2> DEFINE l == Len(chain[n])
  <2>1. /\ l \in Nat /\ \A i \in 1..l : chain'[n][i] = chain[n][i]
        /\ \A i \in 1..(l + 1) : i \in 1..l \/ i = l + 1
    BY <1>4 DEF Starts
  <2>2. \A m \in Nodes : \A i \in 1..Len(chain'[m]) :
           \/ i \in 1..Len(chain[m]) /\ \A k \in 1..i : chain'[m][k] = chain[m][k]
           \/ m = n /\ i = l + 1
    <3>1. ASSUME NEW m \in Nodes, NEW i \in 1..Len(chain[m])
          PROVE  \A k \in 1..i : chain'[m][k] = chain[m][k]
      <4>1. \A k \in 1..i : k \in 1..Len(chain[m])
        BY Blocks
      <4> QED  BY <1>4, <2>1, <4>1
    <3> QED  BY <1>4, <2>1, <3>1
  <2>3. ASSUME NEW m \in Nodes, NEW i \in 1..Len(chain[m])
        PROVE  Hash(chain[m][i]) # Hash(chain'[n][l + 1])
    BY <1>4, <2>3, NewHash
  <2>4. ASSUME NEW m \in Nodes, NEW q \in Nodes,
               NEW i \in 1..Len(chain'[m]), NEW j \in 1..Len(chain'[q]),
               Hash(chain'[m][i]) = Hash(chain'[q][j])
        PROVE  i = j /\ \A k \in 1..i : chain'[m][k] = chain'[q][k]
    <3>1. CASE i \in 1..Len(chain[m]) /\ j \in 1..Len(chain[q])
      <4>1. /\ \A k \in 1..i : chain'[m][k] = chain[m][k]
            /\ \A k \in 1..j : chain'[q][k] = chain[q][k]
        <5>1. ASSUME NEW x \in Nodes, NEW y \in 1..Len(chain[x]), NEW k \in 1..y
              PROVE  chain'[x][k] = chain[x][k]
          <6>1. k \in 1..Len(chain[x])
            BY Blocks
          <6> QED  BY <1>4, <2>1, <6>1
        <5> QED  BY <3>1, <5>1
      <4>2. i \in 1..i /\ j \in 1..j
        BY <3>1
      <4>3. Hash(chain[m][i]) = Hash(chain[q][j])
        BY <2>4, <4>1, <4>2
      <4>4. i = j /\ \A k \in 1..i : chain[m][k] = chain[q][k]
        BY <1>1, <3>1, <4>3 DEF Agree
      <4> QED  BY <4>1, <4>4
    <3>2. CASE i \notin 1..Len(chain[m]) /\ j \in 1..Len(chain[q])
      <4>1. m = n /\ i = l + 1
        BY <2>2, <3>2
      <4>2. chain'[q][j] = chain[q][j]
        BY <1>4, <2>1, <3>2
      <4> QED  BY <2>3, <2>4, <3>2, <4>1, <4>2
    <3>3. CASE i \in 1..Len(chain[m]) /\ j \notin 1..Len(chain[q])
      <4>1. q = n /\ j = l + 1
        BY <2>2, <3>3
      <4>2. chain'[m][i] = chain[m][i]
        BY <1>4, <2>1, <3>3
      <4> QED  BY <2>3, <2>4, <3>3, <4>1, <4>2
    <3>4. CASE i \notin 1..Len(chain[m]) /\ j \notin 1..Len(chain[q])
      BY <2>2, <3>4
    <3> QED  BY <3>1, <3>2, <3>3, <3>4
  <2> QED  BY <2>4 DEF Agree
<1>5. \A m, q \in Nodes : Agree(chain'[m], chain'[q])
  <2>1. CASE chain' = chain
    BY <1>1, <2>1
  <2> QED  BY <1>3, <1>4, <2>1, OneChain
<1>6. \A m, q \in Nodes : Parted(chain'[m], chain'[q])
  BY <1>5, AgreeParted DEF TypeOK
<1> QED  BY <1>6 DEF HashAgreement, Parted

LEMMA SignedStep ==
    ASSUME TypeOK, TypeOK', AnswersFit, ChainsLinked, LeaderSigned, Next
    PROVE  LeaderSigned'
<1> DEFINE Signed(c, n, h) == c[h].miner # n => h \in DOMAIN winning'[n] /\ c[h].miner = winning'[n][h]
<1>1. \A m \in Nodes : DOMAIN winning[m] = 1..Len(winning[m])
                       /\ DOMAIN winning'[m] = 1..Len(winning'[m])
  BY LenProperties DEF TypeOK
<1>2. ASSUME NEW m \in Nodes, NEW h \in 1..Len(winning[m])
      PROVE  h \in DOMAIN winning'[m] /\ winning'[m][h] = winning[m][h]
  BY <1>1, WinningGrows
<1>3. ASSUME NEW m \in Nodes, NEW h \in 1..Len(chain[m])
      PROVE  Signed(chain[m], m, h)
  <2>1. chain[m][h].miner # m => h \in 1..Len(winning[m]) /\ chain[m][h].miner = winning[m][h]
    BY <1>1, Blocks DEF LeaderSigned, ByWinner
  <2> QED  BY <1>2, <2>1
<1>4. ASSUME NEW n \in Nodes, Mines(n) \/ Takes(n)
      PROVE  \A h \in 1..Len(chain'[n]) : Signed(chain'[n], n, h)
  <2> DEFINE l == Len(chain[n])
  <2>1. l \in Nat
    BY Blocks
  <2>2. PICK b : Grows(n, b) /\ (b.miner # n => Takes(n) /\ b = request[n].blocks[1])
    BY <1>4, NewBlockFields DEF Mines, Takes
  <2>3. /\ Len(chain'[n]) = l + 1 /\ chain'[n][l + 1] = b
        /\ \A h \in 1..l : chain'[n][h] = chain[n][h]
    BY <2>2, GrownBy DEF Starts
  <2>4. ASSUME b.miner # n
        PROVE  l + 1 \in 1..Len(winning[n]) /\ b.miner = winning[n][l + 1]
    <3> DEFINE p == request[n].peer
    <3>1. /\ VerifyBlock(n, b) /\ l < Len(chain[p]) /\ b = chain[p][l + 1]
      BY <2>2, <2>4, InsertsOne DEF Takes
    <3>2. p \in Nodes
      BY <2>2, <2>4, RequestTypes DEF Takes, Pending
    <3>3. l + 1 \in DOMAIN chain[p]
      <4>1. Len(chain[p]) \in Nat /\ DOMAIN chain[p] = 1..Len(chain[p])
        BY <3>2, Blocks
      <4> HIDE DEF l, p
      <4> QED  BY <2>1, <3>1, <4>1
    <3>4. b.height = l + 1
      BY <3>1, <3>2, <3>3 DEF ChainsLinked
    <3>5. Len(winning[n]) \in Nat
      BY LenProperties DEF TypeOK
    <3> QED  BY <2>1, <3>1, <3>4, <3>5 DEF VerifyBlock
  <2>5. \A h \in 1..(l + 1) : h \in 1..l \/ h = l + 1
    BY <2>1
  <2>6. ASSUME NEW h \in 1..l
        PROVE  Signed(chain'[n], n, h)
    <3>1. chain'[n][h] = chain[n][h] /\ Signed(chain[n], n, h)
      BY <1>3, <2>3
    <3> QED  BY <3>1
  <2>7. Signed(chain'[n], n, l + 1)
    BY <1>2, <2>3, <2>4
  <2> QED  BY <2>3, <2>5, <2>6, <2>7
<1>5. \A m \in Nodes : \A h \in 1..Len(chain'[m]) : Signed(chain'[m], m, h)
  <2>1. CASE chain' = chain
    BY <1>3, <2>1
  <2>2. ASSUME NEW n \in Nodes, Mines(n) \/ Takes(n)
        PROVE  \A m \in Nodes : m # n => chain'[m] = chain[m]
    BY <2>2, GrownBy DEF Mines, Takes
  <2> QED  BY <1>3, <1>4, <2>1, <2>2, ChainSteps
<1>6. \A m \in Nodes : DOMAIN chain'[m] = 1..Len(chain'[m])
  BY LenProperties DEF TypeOK
<1> QED  BY <1>5, <1>6 DEF LeaderSigned, ByWinner

LEMMA InclusionStep ==
    ASSUME TypeOK, TypeOK', AnswersFit, ChainsLinked, HashAgreement, PreviousIdsExact, NoDoubleInclusion, Next
    PROVE  NoDoubleInclusion'
<1> DEFINE Once(c) == \A i, j \in 1..Len(c) : i # j => Held(c[i].data) \cap Held(c[j].data) = {}
<1>1. \A m \in Nodes : Once(chain[m])
  BY Blocks DEF NoDoubleInclusion
<1>2. ASSUME NEW c, NEW d, Starts(c, d), Once(d)
      PROVE  Once(c)
  <2>1. \A i \in 1..Len(c) : i \in 1..Len(d) /\ c[i] = d[i]
    BY <1>2 DEF Starts
  <2> QED  BY <1>2, <2>1
<1>3. ASSUME NEW n \in Nodes, Starts(chain[n], chain'[n]),
             Len(chain'[n]) = Len(chain[n]) + 1,
             IsNew(n, chain'[n][Len(chain[n]) + 1])
      PROVE  Once(chain'[n])
  <2> DEFINE l == Len(chain[n])
  <2>1. /\ \A i \in 1..l : chain'[n][i] = chain[n][i]
        /\ \A i \in 1..(l + 1) : i \in 1..l \/ i = l + 1
        /\ DOMAIN chain[n] = 1..l
    BY <1>3, Blocks DEF Starts
  <2>2. \A i \in 1..l : Held(chain[n][i].data) \subseteq previous[n]
    BY <2>1 DEF PreviousIdsExact, IdsIn
  <2>3. Held(chain'[n][l + 1].data) \cap previous[n] = {}
    <3>1. chain'[n][l + 1].data = BlockData(n)
      BY <1>3, NewBlockFields
    <3>2. Held(BlockData(n)) \cap previous[n] = {}
      BY DEF BlockData, Held
    <3> QED  BY <3>1, <3>2
  <2> QED  BY <1>1, <1>3, <2>1, <2>2, <2>3
<1>4. \A m \in Nodes : Once(chain'[m])
  <2> HIDE DEF Once
  <2>1. CASE chain' = chain
    BY <1>1, <2>1
  <2> QED  BY <1>1, <1>2, <1>3, <2>1, OneChain
<1>5. \A m \in Nodes : DOMAIN chain'[m] = 1..Len(chain'[m])
  BY LenProperties DEF TypeOK
<1> QED  BY <1>4, <1>5 DEF NoDoubleInclusion

\* The invariant of the chains holds in every reachable state.
THEOREM ChainsConsistent == Spec => []LogInv
<1>1. Init => LogInv
  <2> SUFFICES ASSUME Init PROVE LogInv
    OBVIOUS
  <2>1. \A n \in Nodes : DOMAIN chain[n] = {}
    BY DEF Init
  <2> QED
    BY <2>1 DEF LogInv, ChainsLinked, StampsPast, HashAgreement, LeaderSigned, NoDoubleInclusion
<1>2. /\ TypeOK /\ TypeOK' /\ AnswersFit /\ TransactionInv /\ LogInv /\ [Next]_vars
      => LogInv'
  <2>1. ASSUME LogInv, UNCHANGED vars PROVE LogInv'
    <3>1. chain' = chain /\ winning' = winning
      BY <2>1 DEF vars
    <3>2. ChainsLinked' /\ StampsPast'
      BY <2>1, <3>1 DEF LogInv, ChainsLinked, StampsPast
    <3>3. HashAgreement'
      <4>1. \A n, m \in Nodes : Parted(chain[n], chain[m])
        BY <2>1 DEF LogInv, HashAgreement, Parted
      <4>2. \A n, m \in Nodes : Parted(chain'[n], chain'[m])
        BY <3>1, <4>1
      <4> QED  BY <4>2 DEF HashAgreement, Parted
    <3>4. LeaderSigned'
      BY <2>1, <3>1 DEF LogInv, LeaderSigned, ByWinner
    <3>5. NoDoubleInclusion'
      BY <2>1, <3>1 DEF LogInv, NoDoubleInclusion
    <3> QED  BY <3>2, <3>3, <3>4, <3>5 DEF LogInv
  <2>2. ASSUME TypeOK, TypeOK', AnswersFit, TransactionInv, LogInv, Next PROVE LogInv'
    BY <2>2, LinkedStep, StampsStep, AgreementStep, SignedStep, InclusionStep
       DEF LogInv, TransactionInv
  <2> QED  BY <2>1, <2>2
<1> QED  BY <1>1, <1>2, TypesAndFit, TransactionsConsistent, PTL DEF Spec

\* Blocks are linked by their heights and parent hashes.
THEOREM ChainsAlwaysLinked == Spec => []ChainsLinked
BY ChainsConsistent, PTL DEF LogInv

\* Blocks with the same header have the same parent, and so the same blocks
\* below them.
LEMMA HeadersAgree ==
    ASSUME TypeOK, ChainsLinked, HashAgreement
    PROVE  PrefixAgreement
<1> SUFFICES ASSUME NEW n \in Nodes, NEW m \in Nodes,
                    NEW i \in DOMAIN chain[n], NEW j \in DOMAIN chain[m],
                    HeaderHash(chain[n][i]) = HeaderHash(chain[m][j])
             PROVE  i = j /\ SubSeq(chain[n], 1, i - 1) = SubSeq(chain[m], 1, j - 1)
  BY DEF PrefixAgreement
<1>1. /\ i \in 1..Len(chain[n]) /\ Len(chain[n]) \in Nat
      /\ j \in 1..Len(chain[m]) /\ Len(chain[m]) \in Nat
  BY Blocks
<1>2. HashAt(chain[n], i - 1) = HashAt(chain[m], j - 1)
  BY DEF HeaderHash, ChainsLinked
<1>3. ASSUME NEW p \in Nodes, NEW h \in 1..Len(chain[p])
      PROVE  HashAt(chain[p], h) = Hash(chain[p][h]) /\ Hash(chain[p][h]) # GenesisHash
  <2>1. h \in DOMAIN chain[p] /\ h # 0
    BY <1>3, Blocks
  <2>2. chain[p][h].miner \in Nodes
    BY <2>1, Blocks DEF Block
  <2> QED  BY <2>1, <2>2, NilAssumption DEF HashAt, Hash, GenesisHash
<1>4. CASE i = 1 \/ j = 1
  <2>1. i = 1 /\ j = 1
    <3>1. HashAt(chain[n], 0) = GenesisHash /\ HashAt(chain[m], 0) = GenesisHash
      BY DEF HashAt
    <3>2. i # 1 => i - 1 \in 1..Len(chain[n])
      BY <1>1
    <3>3. j # 1 => j - 1 \in 1..Len(chain[m])
      BY <1>1
    <3> QED  BY <1>2, <1>3, <1>4, <3>1, <3>2, <3>3
  <2>2. SubSeq(chain[n], 1, 0) = <<>> /\ SubSeq(chain[m], 1, 0) = <<>>
    BY SubSeqEmpty
  <2> QED  BY <2>1, <2>2
<1>5. CASE i # 1 /\ j # 1
  <2>1. /\ i - 1 \in 1..Len(chain[n]) /\ i - 1 \in DOMAIN chain[n]
        /\ j - 1 \in 1..Len(chain[m]) /\ j - 1 \in DOMAIN chain[m]
    BY <1>1, <1>5, Blocks
  <2>2. Hash(chain[n][i - 1]) = Hash(chain[m][j - 1])
    BY <1>2, <1>3, <2>1
  <2>3. i - 1 = j - 1 /\ SubSeq(chain[n], 1, i - 1) = SubSeq(chain[m], 1, j - 1)
    BY <2>1, <2>2 DEF HashAgreement
  <2> QED  BY <1>1, <2>3
<1> QED  BY <1>4, <1>5

\* Chains with the same header, which covers neither the miner nor the height,
\* share all blocks below it.
THEOREM PrefixesAlwaysAgree == Spec => []PrefixAgreement
BY ChainsConsistent, TypesAndFit, HeadersAgree, PTL DEF LogInv

\* Every block from a peer is by the leader recorded for its height.
THEOREM AlwaysLeaderSigned == Spec => []LeaderSigned
BY ChainsConsistent, PTL DEF LogInv

\* No chain ever holds a transaction twice.
THEOREM NeverIncludedTwice == Spec => []NoDoubleInclusion
BY ChainsConsistent, PTL DEF LogInv

-----------------------------------------------------------------------------
(* Refinement *)

\* The log of a chain.
LogEntry == [id : (Nodes \cup {Nil}) \X Nat, items : SUBSET Txs]

LogOf(c) == [i \in DOMAIN c |-> [id |-> Hash(c[i]), items |-> Held(c[i].data)]]

LEMMA LogType ==
    ASSUME NEW c \in Seq(Block)
    PROVE  /\ LogOf(c) \in Seq(LogEntry) /\ Len(LogOf(c)) = Len(c)
           /\ DOMAIN LogOf(c) = 1..Len(c)
           /\ \A i \in 1..Len(c) : /\ LogOf(c)[i].id = Hash(c[i])
                                   /\ LogOf(c)[i].items = Held(c[i].data)
<1>1. Len(c) \in Nat /\ DOMAIN c = 1..Len(c)
  BY LenProperties
<1>2. \A i \in 1..Len(c) : [id |-> Hash(c[i]), items |-> Held(c[i].data)] \in LogEntry
  <2>1. \A i \in 1..Len(c) : c[i] \in Block
    BY ElementOfSeq
  <2> QED  BY <2>1 DEF Hash, Held, Block, LogEntry
<1>3. LogOf(c) \in [1..Len(c) -> LogEntry]
  BY <1>1, <1>2 DEF LogOf
<1>4. LogOf(c) \in Seq(LogEntry)
  BY <1>1, <1>3, SeqDef
<1>5. DOMAIN LogOf(c) = 1..Len(LogOf(c)) /\ Len(LogOf(c)) \in Nat
  BY <1>4, LenProperties
<1>6. 1..Len(LogOf(c)) = 1..Len(c)
  BY <1>3, <1>5
<1>7. Len(LogOf(c)) = Len(c)
  <2>1. ASSUME NEW a \in Nat, NEW b \in Nat, 1..a = 1..b
        PROVE  a = b
    <3>1. (a = 0 \/ a \in 1..b) /\ (b = 0 \/ b \in 1..a)
      BY <2>1
    <3> QED  BY <2>1, <3>1
  <2> QED  BY <1>1, <1>5, <1>6, <2>1
<1> QED  BY <1>1, <1>3, <1>4, <1>7 DEF LogOf

\* The log of a chain's first blocks is the first part of its log.
LEMMA LogStarts ==
    ASSUME NEW c, NEW d, Starts(c, d)
    PROVE  SubSeq(LogOf(d), 1, Len(c)) = LogOf(c)
<1>1. /\ c \in Seq(Block) /\ d \in Seq(Block) /\ Len(c) \in Nat /\ Len(d) \in Nat
      /\ Len(c) <= Len(d) /\ \A i \in 1..Len(c) : i \in 1..Len(d) /\ c[i] = d[i]
  BY DEF Starts
<1>2. /\ LogOf(c) \in Seq(LogEntry) /\ Len(LogOf(c)) = Len(c) /\ DOMAIN c = 1..Len(c)
      /\ LogOf(d) \in Seq(LogEntry) /\ Len(LogOf(d)) = Len(d) /\ DOMAIN d = 1..Len(d)
  BY <1>1, LogType, LenProperties
<1>3. \A i \in 1..Len(c) : LogOf(c)[i] = LogOf(d)[i]
  BY <1>1, <1>2 DEF LogOf
<1>4. \A i \in 1..Len(c) : LogOf(d)[i] \in LogEntry
  BY <1>1, <1>2, ElementOfSeq
<1>5. /\ SubSeq(LogOf(d), 1, Len(c)) \in Seq(LogEntry)
      /\ Len(SubSeq(LogOf(d), 1, Len(c))) = IF 1 <= Len(c) THEN Len(c) - 1 + 1 ELSE 0
      /\ \A i \in 1..(Len(c) - 1 + 1) : SubSeq(LogOf(d), 1, Len(c))[i] = LogOf(d)[1 + i - 1]
  BY <1>1, <1>4, SubSeqProperties
<1>6. Len(SubSeq(LogOf(d), 1, Len(c))) = Len(LogOf(c))
  BY <1>1, <1>2, <1>5
<1>7. \A i \in 1..Len(LogOf(c)) : SubSeq(LogOf(d), 1, Len(c))[i] = LogOf(c)[i]
  BY <1>1, <1>2, <1>3, <1>5
<1> QED  BY <1>2, <1>5, <1>6, <1>7, SeqEqual

\* The refinement mapping, replica by replica.
LEMMA LogMap ==
    ASSUME NEW n \in Nodes
    PROVE  Log[n] = LogOf(chain[n]) /\ Log'[n] = LogOf(chain'[n])
BY DEF Log, LogOf

\* The items of a node's log are the ids of its past transactions.
LEMMA LogItems ==
    ASSUME TypeOK, PreviousIdsExact, NEW n \in Nodes
    PROVE  Replicated!Items(Log[n]) = previous[n]
<1>1. chain[n] \in Seq(Block)
  BY DEF TypeOK
<1>2. DOMAIN LogOf(chain[n]) = DOMAIN chain[n]
  BY DEF LogOf
<1>3. \A i \in DOMAIN chain[n] : LogOf(chain[n])[i].items = Held(chain[n][i].data)
  BY DEF LogOf
<1>4. previous[n] = UNION {Held(chain[n][i].data) : i \in DOMAIN chain[n]}
  BY DEF PreviousIdsExact, IdsIn
<1>5. Replicated!Items(Log[n]) = UNION {LogOf(chain[n])[i].items : i \in DOMAIN chain[n]}
  BY <1>2, LogMap DEF Replicated!Items
<1> QED  BY <1>3, <1>4, <1>5

\* A longer chain has a longer log.
LEMMA LogExtends ==
    ASSUME NEW c, NEW d, Starts(c, d), Len(d) = Len(c) + 1
    PROVE  Replicated!Extends(LogOf(c), LogOf(d))
<1>1. c \in Seq(Block) /\ d \in Seq(Block)
  BY DEF Starts
<1>2. Len(LogOf(c)) = Len(c) /\ Len(LogOf(d)) = Len(d)
  BY <1>1, LogType
<1> QED  BY <1>2, LogStarts DEF Replicated!Extends

\* A step that changes a chain is a step of the replicated log.
LEMMA LogStep ==
    ASSUME TypeOK, TypeOK', AnswersFit, PreviousIdsExact, ChainsLinked,
           HashAgreement, StampsPast, Next,
           chain' # chain
    PROVE  Replicated!Next
<1>1. PICK n \in Nodes :
              /\ \A m \in Nodes : m # n => chain'[m] = chain[m]
              /\ Starts(chain[n], chain'[n]) /\ Len(chain'[n]) = Len(chain[n]) + 1
              /\ \/ Mines(n) /\ IsNew(n, chain'[n][Len(chain[n]) + 1])
                 \/ Takes(n) /\ \E p \in Nodes : p # n /\ Starts(chain'[n], chain[p])
  BY OneChain
<1>2. \A m \in Nodes \ {n} : Log'[m] = Log[m]
  BY <1>1, LogMap
<1>3. Replicated!Extends(Log[n], Log'[n])
  BY <1>1, LogExtends, LogMap
<1>4. \A m \in Nodes : /\ chain[m] \in Seq(Block) /\ chain'[m] \in Seq(Block)
                       /\ Len(Log[m]) = Len(chain[m])
                       /\ DOMAIN Log[m] = 1..Len(chain[m])
                       /\ \A i \in 1..Len(chain[m]) : Log[m][i].id = Hash(chain[m][i])
  BY LogMap, LogType DEF TypeOK
<1>5. CASE IsNew(n, chain'[n][Len(chain[n]) + 1])
  <2> DEFINE entry == Log'[n][Len(Log[n]) + 1]
             b     == chain'[n][Len(chain[n]) + 1]
  <2>1. entry.id = Hash(b) /\ entry.items = Held(b.data)
    <3>1. Len(chain[n]) + 1 \in 1..Len(chain'[n])
      BY <1>1, Blocks
    <3>2. Log'[n] = LogOf(chain'[n])
      BY LogMap
    <3> QED  BY <1>4, <1>5, <3>1, <3>2, LogType
  <2>2. \A q \in Nodes : \A i \in DOMAIN Log[q] : Log[q][i].id # entry.id
    BY <1>4, <1>5, <2>1, NewHash
  <2>3. entry.items \cap Replicated!Items(Log[n]) = {}
    <3>1. Held(b.data) \cap previous[n] = {}
      <4>1. b.data = BlockData(n)
        BY <1>5, NewBlockFields
      <4>2. Held(BlockData(n)) \cap previous[n] = {}
        BY DEF BlockData, Held
      <4> QED  BY <4>1, <4>2
    <3> QED  BY <2>1, <3>1, LogItems
  <2>4. Replicated!Create(n)
    BY <1>3, <2>2, <2>3 DEF Replicated!Create
  <2> QED  BY <1>2, <2>4 DEF Replicated!Next
<1>6. ASSUME NEW p \in Nodes, p # n, Starts(chain'[n], chain[p])
      PROVE  Replicated!Copy(n, p)
  <2>1. SubSeq(Log[p], 1, Len(Log[n]) + 1) = Log'[n]
    BY <1>1, <1>4, <1>6, LogStarts, LogMap
  <2>2. Len(Log[p]) >= Len(Log[n]) + 1
    BY <1>1, <1>4, <1>6 DEF Starts
  <2> QED  BY <1>3, <2>1, <2>2 DEF Replicated!Copy
<1>7. CASE \E p \in Nodes : p # n /\ Starts(chain'[n], chain[p])
  BY <1>2, <1>6, <1>7 DEF Replicated!Next
<1> QED  BY <1>1, <1>5, <1>7

\* The chains implement the replicated log: whatever the election decides and
\* whichever exchange fails, a node's chain grows by an entry that is new
\* everywhere, with transactions new to it, or by a peer's next entry.
THEOREM ChainsImplementLog == Spec => ImplementsLog
<1>1. Init => Replicated!Init
  <2> SUFFICES ASSUME Init PROVE Log = [n \in Nodes |-> <<>>]
    BY DEF Replicated!Init
  <2>1. \A n \in Nodes : chain[n] = <<>>
    BY DEF Init
  <2>2. [i \in DOMAIN <<>> |-> [id |-> Hash(<<>>[i]), items |-> Held(<<>>[i].data)]] = <<>>
    OBVIOUS
  <2> QED  BY <2>1, <2>2 DEF Log
<1>2. /\ TypeOK /\ TypeOK' /\ AnswersFit /\ TransactionInv /\ LogInv /\ [Next]_vars
      => [Replicated!Next]_Log
  <2>1. ASSUME chain' = chain PROVE Log' = Log
    BY <2>1 DEF Log
  <2> QED  BY <2>1, LogStep DEF vars, TransactionInv, LogInv
<1> QED
  BY <1>1, <1>2, TypesAndFit, TransactionsConsistent, ChainsConsistent, PTL
     DEF Spec, ImplementsLog, Replicated!Spec

(***************************************************************************)
(* Chains of signatures                                                    *)
(***************************************************************************)
-----------------------------------------------------------------------------
(* The invariant *)

\* n has the transaction, in its mempool or on its chain. It will have it for
\* ever.
Knows(n, t) == mempool[n][t] # Nil \/ t \in previous[n]

Relayers(sigs) == {sigs[i].relayer : i \in DOMAIN sigs}

\* Where a path from the source has arrived.
End(t, sigs) == IF sigs = <<>> THEN Source[t] ELSE sigs[Len(sigs)].relayer

SimplePath(t, sigs) ==
    /\ sigs # <<>> => sigs[1].id = Source[t]
    /\ \A i \in 1..(Len(sigs) - 1) : sigs[i].relayer = sigs[i + 1].id
    /\ Source[t] \notin Relayers(sigs)
    /\ \A i, j \in DOMAIN sigs : sigs[i].relayer = sigs[j].relayer => i = j

\* A copy at n, or on its way to n. A completed one is signed up to its
\* destination, another one up to n.
GoodCopy(n, t, copy) ==
    /\ SimplePath(t, copy.sigs)
    /\ IF copy.completed THEN copy.sigs # <<>> /\ End(t, copy.sigs) = Dest[t]
                         ELSE End(t, copy.sigs) = n

GoodMempool(n) ==
    \A t \in Txs : mempool[n][t] # Nil =>
        /\ GoodCopy(n, t, mempool[n][t])
        /\ \A m \in Relayers(mempool[n][t].sigs) : Knows(m, t)

\* What n asks for is not on its chain, and not in its mempool either unless
\* the peer has it completed.
Asked(n, p, t) == Pending(n, "missing") /\ request[n].peer = p /\ t \in request[n].ids

GoodQuestion(n) ==
    \A p \in Nodes, t \in Txs : Asked(n, p, t) =>
        /\ t \notin previous[n]
        /\ Knows(p, t)
        /\ \/ mempool[n][t] = Nil
           \/ t \in previous[p]
           \/ mempool[p][t] # Nil /\ mempool[p][t].completed

\* An answer has been signed to n only if n did not have the transaction.
GoodAnswer(n) ==
    Pending(n, "txs") =>
        \A t \in Txs : request[n].txs[t] # Nil =>
            LET copy == request[n].txs[t]
            IN  /\ GoodCopy(n, t, copy)
                /\ copy.sigs # <<>>
                /\ t \notin previous[n]
                /\ \A m \in Relayers(copy.sigs) : Knows(m, t) \/ (m = n /\ ~copy.completed)
                /\ ~copy.completed => ~Knows(n, t)

PathInv ==
    /\ \A n \in Nodes : GoodMempool(n) /\ GoodQuestion(n) /\ GoodAnswer(n)
    /\ CompletedCopiesAgree

-----------------------------------------------------------------------------
(* Paths *)

\* A path with one more hop.
LEMMA LongerPath ==
    ASSUME NEW t \in Txs, NEW p \in Nodes, NEW n \in Nodes, NEW s \in Seq(Entry),
           SimplePath(t, s), End(t, s) = p, n # Source[t], n \notin Relayers(s)
    PROVE  LET l == Append(s, [id |-> p, relayer |-> n])
           IN  /\ SimplePath(t, l) /\ l # <<>> /\ End(t, l) = n
               /\ Relayers(l) = Relayers(s) \cup {n}
<1> DEFINE e == [id |-> p, relayer |-> n]
           l == Append(s, e)
           k == Len(s)
<1>1. /\ k \in Nat /\ DOMAIN s = 1..k /\ Len(l) = k + 1 /\ DOMAIN l = 1..(k + 1)
      /\ \A i \in 1..k : l[i] = s[i]
      /\ l[k + 1] = e /\ l # <<>>
  OBVIOUS
<1>2. e.id = p /\ e.relayer = n
  OBVIOUS
<1>3. Relayers(l) = Relayers(s) \cup {n}
  <2>1. \A i \in 1..k : l[i].relayer = s[i].relayer
    BY <1>1
  <2>2. 1..(k + 1) = (1..k) \cup {k + 1}
    BY <1>1
  <2> HIDE DEF l, k, e
  <2> QED  BY <1>1, <1>2, <2>1, <2>2 DEF Relayers
<1>4. End(t, l) = n
  BY <1>1, <1>2 DEF End
<1>5. l[1].id = Source[t]
  <2>1. CASE s = <<>>
    BY <2>1, <1>1, <1>2 DEF End
  <2>2. CASE s # <<>>
    <3>1. 1 \in 1..k
      BY <1>1, <2>2
    <3> QED  BY <1>1, <2>2, <3>1 DEF SimplePath
  <2> QED  BY <2>1, <2>2
<1>6. ASSUME NEW i \in 1..(Len(l) - 1) PROVE l[i].relayer = l[i + 1].id
  <2>1. CASE i = k
    <3>1. s # <<>> /\ k >= 1
      BY <2>1, <1>1, <1>6
    <3>2. s[k].relayer = p
      BY <3>1 DEF End
    <3> QED  BY <2>1, <3>1, <3>2, <1>1, <1>2
  <2>2. CASE i # k
    <3>1. i \in 1..(k - 1) /\ i \in 1..k /\ i + 1 \in 1..k
      BY <2>2, <1>1, <1>6
    <3> QED  BY <3>1, <1>1 DEF SimplePath
  <2> QED  BY <2>1, <2>2
<1>7. Source[t] \notin Relayers(l)
  BY <1>3 DEF SimplePath
<1>8. ASSUME NEW i \in DOMAIN l, NEW j \in DOMAIN l, l[i].relayer = l[j].relayer
      PROVE  i = j
  <2>1. \A h \in 1..k : s[h].relayer # n
    BY <1>1 DEF Relayers
  <2>2. CASE i \in 1..k /\ j \in 1..k
    BY <1>1, <1>8, <2>2 DEF SimplePath
  <2>3. CASE i = k + 1 \/ j = k + 1
    <3>1. \A h \in 1..k : l[h].relayer # n
      BY <1>1, <2>1
    <3>2. i \in (1..k) \cup {k + 1} /\ j \in (1..k) \cup {k + 1} /\ l[k + 1].relayer = n
      BY <1>1, <1>2
    <3> HIDE DEF l, k
    <3> QED  BY <1>8, <2>3, <3>1, <3>2
  <2> QED  BY <1>1, <2>2, <2>3
<1> HIDE DEF l
<1>9. SimplePath(t, l)
  BY <1>5, <1>6, <1>7, <1>8 DEF SimplePath
<1> QED  BY <1>1, <1>3, <1>4, <1>9 DEF l

\* A chain of signatures that is a path passes validate_transaction.
LEMMA PathValid ==
    ASSUME NEW t \in Txs, NEW copy \in Copy, SimplePath(t, copy.sigs), copy.sigs # <<>>
    PROVE  ValidateTransaction(t, copy)
BY DEF SimplePath, ValidateTransaction

-----------------------------------------------------------------------------
(* Steps *)

\* Completed copies agree if no new completed copy comes up but one that is the
\* only one.
LEMMA AgreeStep ==
    ASSUME CompletedCopiesAgree,
           \A t \in Txs :
              \/ \A c \in CopiesOf(t)' : c \in CopiesOf(t) \/ ~c.completed
              \/ \E e : \A c \in CopiesOf(t)' : c.completed => c = e
    PROVE  CompletedCopiesAgree'
<1> SUFFICES ASSUME NEW t \in Txs, NEW c \in CopiesOf(t)', NEW d \in CopiesOf(t)',
                    c.completed, d.completed
             PROVE  c = d
  BY DEF CompletedCopiesAgree
<1>1. CASE \A b \in CopiesOf(t)' : b \in CopiesOf(t) \/ ~b.completed
  BY <1>1 DEF CompletedCopiesAgree
<1>2. CASE \E e : \A b \in CopiesOf(t)' : b.completed => b = e
  BY <1>2
<1> QED  BY <1>1, <1>2

\* Who relayed a transaction is a node.
LEMMA RelayersType ==
    ASSUME NEW copy \in Copy
    PROVE  Relayers(copy.sigs) \subseteq Nodes
<1>1. \A i \in DOMAIN copy.sigs : copy.sigs[i] \in Entry
  BY ElementOfSeq DEF Copy
<1> QED  BY <1>1 DEF Relayers, Entry

\* Copies and paths in them have their types.
LEMMA CopyTypes ==
    ASSUME TypeOK, NEW n \in Nodes, NEW t \in Txs
    PROVE  /\ mempool[n][t] # Nil => mempool[n][t] \in Copy
           /\ Pending(n, "txs") /\ request[n].txs[t] # Nil => request[n].txs[t] \in Copy
<1>1. mempool[n] \in Pool
  BY DEF TypeOK
<1>2. Pending(n, "txs") => request[n].txs \in Pool
  BY RequestTypes DEF Pending
<1> QED  BY <1>1, <1>2 DEF Pool

\* The last signature of a completed copy is for the hop to its destination.
LEMMA EndRelayer ==
    ASSUME NEW n, NEW t \in Txs, NEW copy \in Copy, GoodCopy(n, t, copy), copy.completed
    PROVE  Dest[t] \in Relayers(copy.sigs)
<1> DEFINE s == copy.sigs
<1>1. s \in Seq(Entry) /\ s # <<>> /\ s[Len(s)].relayer = Dest[t]
  BY DEF GoodCopy, End, Copy
<1>2. Len(s) \in DOMAIN s
  <2> HIDE DEF s
  <2> QED  BY <1>1
<1> QED  BY <1>1, <1>2 DEF Relayers

\* Steps that bring no transaction to any node: copies may leave mempools for
\* the chain, and a node that waits for transactions stays as it is.
LEMMA NothingComes ==
    ASSUME TypeOK, PathInv,
           \A m \in Nodes, t \in Txs : mempool'[m][t] = mempool[m][t] \/ mempool'[m][t] = Nil,
           \A m \in Nodes, t \in Txs : Knows(m, t) => Knows(m, t)',
           \A m \in Nodes : previous[m] \subseteq previous'[m],
           \A m \in Nodes :
              \/ request'[m] = Nil
              \/ request'[m].kind \in {"block", "blocks"}
              \/ /\ request'[m] = request[m]
                 /\ Pending(m, "missing") \/ Pending(m, "txs") =>
                       mempool'[m] = mempool[m] /\ previous'[m] = previous[m]
    PROVE  PathInv'
<1>1. ASSUME NEW n \in Nodes PROVE GoodMempool(n)'
  <2> SUFFICES ASSUME NEW t \in Txs, mempool'[n][t] # Nil
               PROVE  /\ GoodCopy(n, t, mempool'[n][t])
                      /\ \A m \in Relayers(mempool'[n][t].sigs) : Knows(m, t)'
    BY DEF GoodMempool
  <2>1. mempool'[n][t] = mempool[n][t] /\ mempool[n][t] # Nil
    OBVIOUS
  <2>2. /\ GoodCopy(n, t, mempool[n][t])
        /\ \A m \in Relayers(mempool[n][t].sigs) : Knows(m, t)
    BY <2>1 DEF PathInv, GoodMempool
  <2>3. Relayers(mempool[n][t].sigs) \subseteq Nodes
    BY <2>1, CopyTypes, RelayersType
  <2> QED  BY <2>1, <2>2, <2>3
<1>2. ASSUME NEW n \in Nodes PROVE GoodQuestion(n)'
  <2> SUFFICES ASSUME NEW p \in Nodes, NEW t \in Txs, Asked(n, p, t)'
               PROVE  /\ t \notin previous'[n]
                      /\ Knows(p, t)'
                      /\ \/ mempool'[n][t] = Nil
                         \/ t \in previous'[p]
                         \/ mempool'[p][t] # Nil /\ mempool'[p][t].completed
    BY DEF GoodQuestion
  <2>1. /\ Asked(n, p, t) /\ mempool'[n] = mempool[n] /\ previous'[n] = previous[n]
    BY DEF Asked, Pending
  <2>2. /\ t \notin previous[n] /\ Knows(p, t)
        /\ \/ mempool[n][t] = Nil
           \/ t \in previous[p]
           \/ mempool[p][t] # Nil /\ mempool[p][t].completed
    BY <2>1 DEF PathInv, GoodQuestion
  <2>3. Knows(p, t)' /\ (mempool'[p][t] = Nil => t \in previous'[p])
    BY <2>2 DEF Knows
  <2> QED  BY <2>1, <2>2, <2>3
<1>3. ASSUME NEW n \in Nodes PROVE GoodAnswer(n)'
  <2> SUFFICES ASSUME Pending(n, "txs")', NEW t \in Txs, request'[n].txs[t] # Nil
               PROVE  LET copy == request'[n].txs[t]
                      IN  /\ GoodCopy(n, t, copy)
                          /\ copy.sigs # <<>>
                          /\ t \notin previous'[n]
                          /\ \A m \in Relayers(copy.sigs) : Knows(m, t)' \/ (m = n /\ ~copy.completed)
                          /\ ~copy.completed => ~Knows(n, t)'
    BY DEF GoodAnswer
  <2>1. /\ request'[n] = request[n] /\ Pending(n, "txs")
        /\ mempool'[n] = mempool[n] /\ previous'[n] = previous[n]
    BY DEF Pending
  <2> DEFINE copy == request[n].txs[t]
  <2>2. /\ GoodCopy(n, t, copy)
        /\ copy.sigs # <<>>
        /\ t \notin previous[n]
        /\ \A m \in Relayers(copy.sigs) : Knows(m, t) \/ (m = n /\ ~copy.completed)
        /\ ~copy.completed => ~Knows(n, t)
    BY <2>1 DEF PathInv, GoodAnswer
  <2>3. Relayers(copy.sigs) \subseteq Nodes
    BY <2>1, CopyTypes, RelayersType
  <2>4. Knows(n, t)' = Knows(n, t)
    BY <2>1 DEF Knows
  <2> HIDE DEF copy
  <2>5. \A m \in Relayers(copy.sigs) : Knows(m, t)' \/ (m = n /\ ~copy.completed)
    BY <2>2, <2>3
  <2> QED  BY <2>1, <2>2, <2>4, <2>5 DEF copy
<1>4. CompletedCopiesAgree'
  <2>1. ASSUME NEW t \in Txs, NEW c \in CopiesOf(t)' PROVE c \in CopiesOf(t)
    <3>1. CASE \E n \in Nodes : mempool'[n][t] # Nil /\ c = mempool'[n][t]
      BY <3>1 DEF CopiesOf
    <3>2. CASE \E n \in Nodes : Pending(n, "txs")' /\ request'[n].txs[t] # Nil /\ c = request'[n].txs[t]
      <4>1. PICK n \in Nodes : Pending(n, "txs")' /\ request'[n].txs[t] # Nil /\ c = request'[n].txs[t]
        BY <3>2
      <4>2. request'[n] = request[n] /\ Pending(n, "txs")
        BY <4>1 DEF Pending
      <4> QED  BY <4>1, <4>2 DEF CopiesOf
    <3> QED  BY <3>1, <3>2 DEF CopiesOf
  <2> QED  BY <2>1, AgreeStep DEF PathInv
<1> QED  BY <1>1, <1>2, <1>3, <1>4 DEF PathInv

\* A robot sends a transaction that nobody has.
LEMMA SendPaths ==
    ASSUME TypeOK, TransactionInv, PathInv, NEW n \in Nodes, NEW t \in Txs, SendTransaction(n, t)
    PROVE  PathInv'
<1> DEFINE fresh == [completed |-> FALSE, sigs |-> <<>>]
<1>1. /\ mempool' = [mempool EXCEPT ![n][t] = fresh] /\ UNCHANGED <<previous, request>>
      /\ Source[t] = n /\ t \notin sent /\ request[n] = Nil
  BY DEF SendTransaction, Running
<1>2. fresh \in Copy
  BY DEF Copy
<1>3. fresh # Nil /\ ~fresh.completed /\ fresh.sigs = <<>>
  <2>1. fresh # Nil
    <3> HIDE DEF fresh
    <3> QED  BY <1>2, NilAssumption
  <2> QED  BY <2>1
<1> HIDE DEF fresh
<1>4. /\ mempool'[n][t] = fresh
      /\ \A m \in Nodes, u \in Txs : m # n \/ u # t => mempool'[m][u] = mempool[m][u]
  BY <1>1 DEF TypeOK, Pool
<1>5. \A m \in Nodes : ~Knows(m, t)
  BY <1>1 DEF TransactionInv, OnlySent, Knows, Held
<1>6. \A m \in Nodes, u \in Txs : Knows(m, u) => Knows(m, u)'
  BY <1>1, <1>4, <1>5 DEF Knows
<1>7. ASSUME NEW m \in Nodes PROVE GoodMempool(m)'
  <2> SUFFICES ASSUME NEW u \in Txs, mempool'[m][u] # Nil
               PROVE  /\ GoodCopy(m, u, mempool'[m][u])
                      /\ \A r \in Relayers(mempool'[m][u].sigs) : Knows(r, u)'
    BY DEF GoodMempool
  <2>1. CASE m = n /\ u = t
    <3>1. Relayers(<<>>) = {}
      BY DEF Relayers
    <3>2. SimplePath(t, <<>>) /\ End(t, <<>>) = n
      BY <1>1, <3>1 DEF SimplePath, End
    <3> QED  BY <2>1, <1>3, <1>4, <3>1, <3>2 DEF GoodCopy
  <2>2. CASE m # n \/ u # t
    <3>1. mempool'[m][u] = mempool[m][u]
      BY <2>2, <1>4
    <3>2. /\ GoodCopy(m, u, mempool[m][u])
          /\ \A r \in Relayers(mempool[m][u].sigs) : Knows(r, u)
      BY <3>1 DEF PathInv, GoodMempool
    <3>3. Relayers(mempool[m][u].sigs) \subseteq Nodes
      BY <3>1, CopyTypes, RelayersType
    <3> QED  BY <3>1, <3>2, <3>3, <1>6
  <2> QED  BY <2>1, <2>2
<1>8. ASSUME NEW m \in Nodes PROVE GoodQuestion(m)'
  <2> SUFFICES ASSUME NEW p \in Nodes, NEW u \in Txs, Asked(m, p, u)'
               PROVE  /\ u \notin previous'[m]
                      /\ Knows(p, u)'
                      /\ \/ mempool'[m][u] = Nil
                         \/ u \in previous'[p]
                         \/ mempool'[p][u] # Nil /\ mempool'[p][u].completed
    BY DEF GoodQuestion
  <2>1. Asked(m, p, u) /\ m # n
    BY <1>1 DEF Asked, Pending
  <2>2. /\ u \notin previous[m] /\ Knows(p, u)
        /\ \/ mempool[m][u] = Nil
           \/ u \in previous[p]
           \/ mempool[p][u] # Nil /\ mempool[p][u].completed
    BY <2>1 DEF PathInv, GoodQuestion
  <2>3. u # t
    BY <2>2, <1>5
  <2> QED  BY <2>1, <2>2, <2>3, <1>1, <1>4, <1>6
<1>9. ASSUME NEW m \in Nodes PROVE GoodAnswer(m)'
  <2> SUFFICES ASSUME Pending(m, "txs")', NEW u \in Txs, request'[m].txs[u] # Nil
               PROVE  LET copy == request'[m].txs[u]
                      IN  /\ GoodCopy(m, u, copy)
                          /\ copy.sigs # <<>>
                          /\ u \notin previous'[m]
                          /\ \A r \in Relayers(copy.sigs) : Knows(r, u)' \/ (r = m /\ ~copy.completed)
                          /\ ~copy.completed => ~Knows(m, u)'
    BY DEF GoodAnswer
  <2> DEFINE copy == request[m].txs[u]
  <2>1. Pending(m, "txs") /\ m # n /\ copy # Nil /\ request'[m].txs[u] = copy
    BY <1>1 DEF Pending
  <2>2. /\ GoodCopy(m, u, copy)
        /\ copy.sigs # <<>>
        /\ u \notin previous[m]
        /\ \A r \in Relayers(copy.sigs) : Knows(r, u) \/ (r = m /\ ~copy.completed)
        /\ ~copy.completed => ~Knows(m, u)
    BY <2>1 DEF PathInv, GoodAnswer
  <2>3. Relayers(copy.sigs) \subseteq Nodes
    BY <2>1, CopyTypes, RelayersType
  <2>4. Knows(m, u)' = Knows(m, u)
    BY <2>1, <1>1, <1>4 DEF Knows
  <2> HIDE DEF copy
  <2>5. \A r \in Relayers(copy.sigs) : Knows(r, u)' \/ (r = m /\ ~copy.completed)
    BY <2>2, <2>3, <1>6
  <2> QED  BY <2>1, <2>2, <2>4, <2>5, <1>1
<1>10. CompletedCopiesAgree'
  <2>1. ASSUME NEW u \in Txs, NEW c \in CopiesOf(u)' PROVE c \in CopiesOf(u) \/ ~c.completed
    <3>1. CASE \E m \in Nodes : mempool'[m][u] # Nil /\ c = mempool'[m][u]
      BY <3>1, <1>3, <1>4 DEF CopiesOf
    <3>2. CASE \E m \in Nodes : Pending(m, "txs") /\ request[m].txs[u] # Nil /\ c = request[m].txs[u]
      BY <3>2 DEF CopiesOf
    <3> QED  BY <3>1, <3>2, <1>1 DEF CopiesOf, Pending
  <2> QED  BY <2>1, AgreeStep DEF PathInv
<1> QED  BY <1>7, <1>8, <1>9, <1>10 DEF PathInv

\* A node asks a peer for what it misses.
LEMMA AskPaths ==
    ASSUME TypeOK, TransactionInv, PathInv, NEW n \in Nodes, NEW p \in Nodes, MempoolSync(n, p)
    PROVE  PathInv'
<1> DEFINE ids == FindMissing(n, mempool[p])
           r   == [kind |-> "missing", peer |-> p, ids |-> ids]
<1>1. /\ request' = [request EXCEPT ![n] = r] /\ UNCHANGED <<mempool, previous>>
  BY DEF MempoolSync
<1>2. r.kind = "missing" /\ r.peer = p /\ r.ids = ids
  OBVIOUS
<1>3. ASSUME NEW t \in ids
      PROVE  /\ t \in Txs /\ mempool[p][t] # Nil /\ t \notin previous[n]
             /\ mempool[n][t] = Nil \/ mempool[p][t].completed
  <2>1. t \in Txs /\ mempool[p][t] # Nil
    BY DEF FindMissing, Held
  <2>2. mempool[n][t] # Nil => t \notin previous[n]
    BY <2>1 DEF TransactionInv, MempoolOffChain, Held
  <2> QED  BY <2>1, <2>2 DEF FindMissing
<1> HIDE DEF ids, r
<1>4. request'[n] = r /\ \A m \in Nodes : m # n => request'[m] = request[m]
  BY <1>1 DEF TypeOK
<1>5. \A m \in Nodes : Pending(m, "txs")' => Pending(m, "txs") /\ request'[m] = request[m]
  BY <1>2, <1>4 DEF Pending
<1>6. \A m \in Nodes, t \in Txs : Knows(m, t)' = Knows(m, t)
  BY <1>1 DEF Knows
<1>7. ASSUME NEW m \in Nodes PROVE GoodMempool(m)'
  <2> SUFFICES ASSUME NEW t \in Txs, mempool[m][t] # Nil
               PROVE  /\ GoodCopy(m, t, mempool[m][t])
                      /\ \A q \in Relayers(mempool[m][t].sigs) : Knows(q, t)'
    BY <1>1 DEF GoodMempool
  <2>1. Relayers(mempool[m][t].sigs) \subseteq Nodes
    BY CopyTypes, RelayersType
  <2> QED  BY <2>1, <1>6 DEF PathInv, GoodMempool
<1>8. ASSUME NEW m \in Nodes PROVE GoodQuestion(m)'
  <2> SUFFICES ASSUME NEW q \in Nodes, NEW t \in Txs, Asked(m, q, t)'
               PROVE  /\ t \notin previous[m]
                      /\ Knows(q, t)'
                      /\ \/ mempool[m][t] = Nil
                         \/ t \in previous[q]
                         \/ mempool[q][t] # Nil /\ mempool[q][t].completed
    BY <1>1 DEF GoodQuestion
  <2>1. CASE m = n
    <3>1. q = p /\ t \in ids
      BY <2>1, <1>2, <1>4 DEF Asked
    <3> QED  BY <2>1, <3>1, <1>3, <1>6 DEF Knows
  <2>2. CASE m # n
    <3>1. Asked(m, q, t)
      BY <2>2, <1>4 DEF Asked, Pending
    <3> QED  BY <3>1, <1>6 DEF PathInv, GoodQuestion
  <2> QED  BY <2>1, <2>2
<1>9. ASSUME NEW m \in Nodes PROVE GoodAnswer(m)'
  <2> SUFFICES ASSUME Pending(m, "txs")', NEW t \in Txs, request'[m].txs[t] # Nil
               PROVE  LET copy == request'[m].txs[t]
                      IN  /\ GoodCopy(m, t, copy)
                          /\ copy.sigs # <<>>
                          /\ t \notin previous[m]
                          /\ \A q \in Relayers(copy.sigs) : Knows(q, t)' \/ (q = m /\ ~copy.completed)
                          /\ ~copy.completed => ~Knows(m, t)'
    BY <1>1 DEF GoodAnswer
  <2> DEFINE copy == request[m].txs[t]
  <2>1. Pending(m, "txs") /\ copy # Nil /\ request'[m].txs[t] = copy
    BY <1>5
  <2>2. Relayers(copy.sigs) \subseteq Nodes
    BY <2>1, CopyTypes, RelayersType
  <2>3. /\ GoodCopy(m, t, copy)
        /\ copy.sigs # <<>>
        /\ t \notin previous[m]
        /\ \A q \in Relayers(copy.sigs) : Knows(q, t) \/ (q = m /\ ~copy.completed)
        /\ ~copy.completed => ~Knows(m, t)
    BY <2>1 DEF PathInv, GoodAnswer
  <2> HIDE DEF copy
  <2> QED  BY <2>1, <2>2, <2>3, <1>6
<1>10. CompletedCopiesAgree'
  <2>1. ASSUME NEW t \in Txs PROVE CopiesOf(t)' \subseteq CopiesOf(t)
    BY <1>1, <1>5 DEF CopiesOf
  <2> QED  BY <2>1, AgreeStep DEF PathInv
<1> QED  BY <1>7, <1>8, <1>9, <1>10 DEF PathInv

\* What a peer sends: a completed copy as it is, another one signed to a node
\* that does not have the transaction.
LEMMA SignedPath ==
    ASSUME TypeOK, TransactionInv, PathInv, NEW n \in Nodes, NEW p \in Nodes, NEW t \in Txs,
           Asked(n, p, t), mempool[p][t] # Nil
    PROVE  LET old  == mempool[p][t]
               copy == SignedFor(old, p, n)
           IN  /\ GoodCopy(n, t, copy) /\ copy.sigs # <<>> /\ t \notin previous[n]
               /\ \A m \in Relayers(copy.sigs) : Knows(m, t) \/ (m = n /\ ~copy.completed)
               /\ ~copy.completed => ~Knows(n, t)
               /\ copy = old \/ ~copy.completed
<1> DEFINE old  == mempool[p][t]
           e    == [id |-> p, relayer |-> n]
           l    == Append(old.sigs, e)
           copy == SignedFor(old, p, n)
<1>1. old \in Copy
  BY CopyTypes
<1>2. /\ GoodCopy(p, t, old)
      /\ \A m \in Relayers(old.sigs) : Knows(m, t)
  BY DEF PathInv, GoodMempool
<1>3. /\ t \notin previous[n]
      /\ mempool[n][t] = Nil \/ old.completed
  <2>1. t \notin previous[p]
    BY DEF TransactionInv, MempoolOffChain, Held
  <2> QED  BY <2>1 DEF PathInv, GoodQuestion
<1>4. CASE old.completed
  <2>1. copy = old
    BY <1>4 DEF SignedFor
  <2> HIDE DEF old, copy
  <2> QED  BY <2>1, <1>2, <1>3, <1>4 DEF GoodCopy, old, copy
<1>5. CASE ~old.completed
  <2>1. ~Knows(n, t)
    BY <1>3, <1>5 DEF Knows
  <2>2. n # Source[t]
    <3>1. t \in sent
      BY DEF TransactionInv, OnlySent, Held
    <3>2. Knows(Source[t], t)
      BY <3>1 DEF TransactionInv, OwnTransactionsKept, Knows, Held
    <3> QED  BY <2>1, <3>2
  <2>3. n \notin Relayers(old.sigs)
    BY <1>2, <2>1
  <2>4. SimplePath(t, old.sigs) /\ End(t, old.sigs) = p /\ old.sigs \in Seq(Entry)
    BY <1>1, <1>2, <1>5 DEF GoodCopy, Copy
  <2>5. /\ SimplePath(t, l) /\ l # <<>> /\ End(t, l) = n
        /\ Relayers(l) = Relayers(old.sigs) \cup {n}
    <3> HIDE DEF old
    <3> QED  BY <2>2, <2>3, <2>4, LongerPath
  <2>6. copy.sigs = l /\ copy.completed = old.completed
    BY <1>1, <1>5 DEF SignedFor, AddSignature, Copy
  <2> HIDE DEF old, copy, l
  <2>7. GoodCopy(n, t, copy)
    BY <2>5, <2>6, <1>5 DEF GoodCopy
  <2> QED  BY <2>1, <2>5, <2>6, <2>7, <1>2, <1>3, <1>5 DEF old, copy
<1> QED  BY <1>4, <1>5

\* A peer answers with the transactions that it was asked for.
LEMMA AnswerPaths ==
    ASSUME TypeOK, TransactionInv, PathInv, NEW n \in Nodes, NEW p \in Nodes, AnswerMissing(n, p),
           request[n].ids \subseteq Held(mempool[p])
    PROVE  PathInv'
<1> DEFINE ids == request[n].ids
           txs == [t \in Txs |-> IF t \in ids THEN SignedFor(mempool[p][t], p, n) ELSE Nil]
           r   == [kind |-> "txs", peer |-> p, txs |-> txs]
<1>1. /\ request' = [request EXCEPT ![n] = r] /\ UNCHANGED <<mempool, previous>>
      /\ Pending(n, "missing") /\ request[n].peer = p
  BY DEF AnswerMissing, Pending
<1>2. r.kind = "txs" /\ r.txs = txs
  OBVIOUS
<1>3. ASSUME NEW t \in Txs, txs[t] # Nil
      PROVE  LET copy == txs[t]
             IN  /\ GoodCopy(n, t, copy) /\ copy.sigs # <<>> /\ t \notin previous[n]
                 /\ \A m \in Relayers(copy.sigs) : Knows(m, t) \/ (m = n /\ ~copy.completed)
                 /\ ~copy.completed => ~Knows(n, t)
                 /\ copy = mempool[p][t] \/ ~copy.completed
                 /\ mempool[p][t] # Nil /\ copy = SignedFor(mempool[p][t], p, n)
  <2>1. t \in ids /\ txs[t] = SignedFor(mempool[p][t], p, n)
    BY <1>3
  <2>2. Asked(n, p, t) /\ mempool[p][t] # Nil
    BY <1>1, <2>1 DEF Asked, Held
  <2> HIDE DEF txs, ids
  <2> QED  BY <2>1, <2>2, SignedPath
<1> HIDE DEF ids, txs, r
<1>4. request'[n] = r /\ \A m \in Nodes : m # n => request'[m] = request[m]
  BY <1>1 DEF TypeOK
<1>5. \A m \in Nodes, t \in Txs : Knows(m, t)' = Knows(m, t)
  BY <1>1 DEF Knows
<1>6. ASSUME NEW m \in Nodes PROVE GoodMempool(m)'
  <2> SUFFICES ASSUME NEW t \in Txs, mempool[m][t] # Nil
               PROVE  /\ GoodCopy(m, t, mempool[m][t])
                      /\ \A q \in Relayers(mempool[m][t].sigs) : Knows(q, t)'
    BY <1>1 DEF GoodMempool
  <2>1. Relayers(mempool[m][t].sigs) \subseteq Nodes
    BY CopyTypes, RelayersType
  <2> QED  BY <2>1, <1>5 DEF PathInv, GoodMempool
<1>7. ASSUME NEW m \in Nodes PROVE GoodQuestion(m)'
  <2> SUFFICES ASSUME NEW q \in Nodes, NEW t \in Txs, Asked(m, q, t)'
               PROVE  /\ t \notin previous[m]
                      /\ Knows(q, t)'
                      /\ \/ mempool[m][t] = Nil
                         \/ t \in previous[q]
                         \/ mempool[q][t] # Nil /\ mempool[q][t].completed
    BY <1>1 DEF GoodQuestion
  <2>1. m # n /\ Asked(m, q, t)
    BY <1>2, <1>4 DEF Asked, Pending
  <2> QED  BY <2>1, <1>5 DEF PathInv, GoodQuestion
<1>8. ASSUME NEW m \in Nodes PROVE GoodAnswer(m)'
  <2> SUFFICES ASSUME Pending(m, "txs")', NEW t \in Txs, NEW copy, copy = request'[m].txs[t], copy # Nil
               PROVE  /\ GoodCopy(m, t, copy)
                      /\ copy.sigs # <<>>
                      /\ t \notin previous[m]
                      /\ \A q \in Relayers(copy.sigs) : Knows(q, t)' \/ (q = m /\ ~copy.completed)
                      /\ ~copy.completed => ~Knows(m, t)'
    BY <1>1 DEF GoodAnswer
  <2>1. /\ GoodCopy(m, t, copy)
        /\ copy.sigs # <<>>
        /\ t \notin previous[m]
        /\ \A q \in Relayers(copy.sigs) : Knows(q, t) \/ (q = m /\ ~copy.completed)
        /\ ~copy.completed => ~Knows(m, t)
    <3>1. CASE m = n
      BY <3>1, <1>2, <1>3, <1>4
    <3>2. CASE m # n
      BY <3>2, <1>4 DEF Pending, PathInv, GoodAnswer
    <3> QED  BY <3>1, <3>2
  <2>2. Relayers(copy.sigs) \subseteq Nodes
    <3>1. CASE m = n
      <4>1. mempool[p][t] \in Copy /\ copy = SignedFor(mempool[p][t], p, n)
        BY <3>1, <1>2, <1>3, <1>4, CopyTypes
      <4> QED  BY <4>1, SignedForType, RelayersType
    <3>2. CASE m # n
      BY <3>2, <1>4, CopyTypes, RelayersType DEF Pending
    <3> QED  BY <3>1, <3>2
  <2> QED  BY <2>1, <2>2, <1>5
<1>9. CompletedCopiesAgree'
  <2>1. ASSUME NEW t \in Txs, NEW c \in CopiesOf(t)' PROVE c \in CopiesOf(t) \/ ~c.completed
    <3>1. CASE \E m \in Nodes : mempool[m][t] # Nil /\ c = mempool[m][t]
      BY <3>1 DEF CopiesOf
    <3>2. CASE \E m \in Nodes : Pending(m, "txs") /\ request[m].txs[t] # Nil /\ c = request[m].txs[t]
      BY <3>2 DEF CopiesOf
    <3>3. CASE txs[t] # Nil /\ c = txs[t]
      BY <3>3, <1>3 DEF CopiesOf
    <3> QED  BY <3>1, <3>2, <3>3, <1>1, <1>2, <1>4 DEF CopiesOf, Pending
  <2> QED  BY <2>1, AgreeStep DEF PathInv
<1> QED  BY <1>6, <1>7, <1>8, <1>9 DEF PathInv

\* What comes of an answer in the mempool of n: every transaction of the answer
\* is taken over, and completed if n is its destination.
LEMMA ReceivedCopy ==
    ASSUME TypeOK, TransactionInv, PathInv, NEW n \in Nodes, Pending(n, "txs"), NEW t \in Txs
    PROVE  LET txs  == request[n].txs
               copy == SyncMempool(n, txs)[t]
           IN  IF txs[t] = Nil
               THEN copy = mempool[n][t]
               ELSE /\ copy \in Copy /\ copy # Nil /\ copy.sigs = txs[t].sigs
                    /\ GoodCopy(n, t, copy)
                    /\ copy = txs[t] \/ (~txs[t].completed /\ n = Dest[t])
<1> DEFINE c    == request[n].txs[t]
           copy == SyncMempool(n, request[n].txs)[t]
<1>1. CASE c = Nil
  BY <1>1 DEF SyncMempool
<1>2. CASE c # Nil
  <2>1. c \in Copy
    BY <1>2, CopyTypes
  <2>2. GoodCopy(n, t, c) /\ c.sigs # <<>> /\ t \notin previous[n]
    BY <1>2 DEF PathInv, GoodAnswer
  <2>3. ValidateTransaction(t, c)
    BY <2>1, <2>2, PathValid DEF GoodCopy
  <2>4. copy = IF n = Dest[t] THEN [c EXCEPT !.completed = TRUE] ELSE c
    BY <1>2, <2>2, <2>3 DEF SyncMempool
  <2>5. copy \in Copy /\ copy.sigs = c.sigs /\ (copy.completed <=> c.completed \/ n = Dest[t])
    BY <2>1, <2>4 DEF Copy
  <2>6. copy # Nil
    BY <2>5, NilAssumption
  <2>7. c.completed => copy = c
    BY <2>1, <2>4 DEF Copy
  <2>8. GoodCopy(n, t, copy)
    BY <2>2, <2>5 DEF GoodCopy
  <2> HIDE DEF c, copy
  <2> QED  BY <2>4, <2>5, <2>6, <2>7, <2>8, <1>2 DEF c, copy
<1> QED  BY <1>1, <1>2

\* A node takes the transactions of an answer into its mempool. A transaction
\* is completed only when its destination gets to know it.
LEMMA ReceivePaths ==
    ASSUME TypeOK, TransactionInv, PathInv, NEW n \in Nodes, ReceiveTransactions(n)
    PROVE  PathInv'
<1> DEFINE txs  == request[n].txs
           pool == SyncMempool(n, txs)
<1>1. /\ mempool' = [mempool EXCEPT ![n] = pool] /\ UNCHANGED previous
      /\ request' = [request EXCEPT ![n] = Nil]
      /\ Pending(n, "txs")
  BY DEF ReceiveTransactions, Pending
<1>2. ASSUME NEW t \in Txs
      PROVE  IF txs[t] = Nil
             THEN pool[t] = mempool[n][t]
             ELSE /\ pool[t] \in Copy /\ pool[t] # Nil /\ pool[t].sigs = txs[t].sigs
                  /\ GoodCopy(n, t, pool[t])
                  /\ pool[t] = txs[t] \/ (~txs[t].completed /\ n = Dest[t])
  BY <1>1, ReceivedCopy
<1>3. ASSUME NEW t \in Txs, txs[t] # Nil
      PROVE  /\ txs[t] \in Copy /\ txs[t].sigs # <<>> /\ t \notin previous[n]
             /\ \A m \in Relayers(txs[t].sigs) : Knows(m, t) \/ (m = n /\ ~txs[t].completed)
             /\ ~txs[t].completed => ~Knows(n, t)
  BY <1>1, <1>3, CopyTypes DEF PathInv, GoodAnswer
<1> HIDE DEF txs, pool
<1>4. /\ mempool'[n] = pool /\ \A m \in Nodes : m # n => mempool'[m] = mempool[m]
      /\ request'[n] = Nil /\ \A m \in Nodes : m # n => request'[m] = request[m]
  BY <1>1 DEF TypeOK
<1>5. \A m \in Nodes, t \in Txs : Knows(m, t) => Knows(m, t)'
  BY <1>1, <1>2, <1>4 DEF Knows
<1>6. \A t \in Txs : txs[t] # Nil => Knows(n, t)'
  BY <1>2, <1>4 DEF Knows
<1>7. ASSUME NEW m \in Nodes PROVE GoodMempool(m)'
  <2> SUFFICES ASSUME NEW t \in Txs, mempool'[m][t] # Nil
               PROVE  /\ GoodCopy(m, t, mempool'[m][t])
                      /\ \A q \in Relayers(mempool'[m][t].sigs) : Knows(q, t)'
    BY DEF GoodMempool
  <2>1. CASE m = n /\ txs[t] # Nil
    <3>1. GoodCopy(m, t, mempool'[m][t]) /\ mempool'[m][t].sigs = txs[t].sigs
      BY <2>1, <1>2, <1>4
    <3>2. Relayers(txs[t].sigs) \subseteq Nodes
      BY <2>1, <1>3, RelayersType
    <3>3. \A q \in Relayers(txs[t].sigs) : Knows(q, t)'
      BY <2>1, <3>2, <1>3, <1>5, <1>6
    <3> QED  BY <3>1, <3>3
  <2>2. CASE m # n \/ txs[t] = Nil
    <3>1. mempool'[m][t] = mempool[m][t]
      BY <2>2, <1>2, <1>4
    <3>2. /\ GoodCopy(m, t, mempool[m][t])
          /\ \A q \in Relayers(mempool[m][t].sigs) : Knows(q, t)
      BY <3>1 DEF PathInv, GoodMempool
    <3>3. Relayers(mempool[m][t].sigs) \subseteq Nodes
      BY <3>1, CopyTypes, RelayersType
    <3> QED  BY <3>1, <3>2, <3>3, <1>5
  <2> QED  BY <2>1, <2>2
<1>8. ASSUME NEW m \in Nodes PROVE GoodQuestion(m)'
  <2> SUFFICES ASSUME NEW p \in Nodes, NEW t \in Txs, Asked(m, p, t)'
               PROVE  /\ t \notin previous[m]
                      /\ Knows(p, t)'
                      /\ \/ mempool'[m][t] = Nil
                         \/ t \in previous[p]
                         \/ mempool'[p][t] # Nil /\ mempool'[p][t].completed
    BY <1>1 DEF GoodQuestion
  <2>1. Asked(m, p, t) /\ m # n
    BY <1>4 DEF Asked, Pending
  <2>2. /\ t \notin previous[m] /\ Knows(p, t)
        /\ \/ mempool[m][t] = Nil
           \/ t \in previous[p]
           \/ mempool[p][t] # Nil /\ mempool[p][t].completed
    BY <2>1 DEF PathInv, GoodQuestion
  <2>3. ASSUME mempool[p][t] # Nil, mempool[p][t].completed
        PROVE  mempool'[p][t] # Nil /\ mempool'[p][t].completed
    <3>1. CASE p = n /\ txs[t] # Nil
      <4>1. txs[t].completed
        BY <2>3, <3>1, <1>3 DEF Knows
      <4> QED  BY <3>1, <4>1, <1>2, <1>4
    <3>2. CASE p # n \/ txs[t] = Nil
      BY <2>3, <3>2, <1>2, <1>4
    <3> QED  BY <3>1, <3>2
  <2> QED  BY <2>1, <2>2, <2>3, <1>4, <1>5
<1>9. ASSUME NEW m \in Nodes PROVE GoodAnswer(m)'
  <2> SUFFICES ASSUME Pending(m, "txs")', NEW t \in Txs, NEW copy, copy = request'[m].txs[t], copy # Nil
               PROVE  /\ GoodCopy(m, t, copy)
                      /\ copy.sigs # <<>>
                      /\ t \notin previous[m]
                      /\ \A q \in Relayers(copy.sigs) : Knows(q, t)' \/ (q = m /\ ~copy.completed)
                      /\ ~copy.completed => ~Knows(m, t)'
    BY <1>1 DEF GoodAnswer
  <2>1. Pending(m, "txs") /\ m # n /\ copy = request[m].txs[t]
    BY <1>4 DEF Pending
  <2>2. /\ GoodCopy(m, t, copy)
        /\ copy.sigs # <<>>
        /\ t \notin previous[m]
        /\ \A q \in Relayers(copy.sigs) : Knows(q, t) \/ (q = m /\ ~copy.completed)
        /\ ~copy.completed => ~Knows(m, t)
    BY <2>1 DEF PathInv, GoodAnswer
  <2>3. Relayers(copy.sigs) \subseteq Nodes
    BY <2>1, CopyTypes, RelayersType
  <2>4. Knows(m, t)' = Knows(m, t)
    BY <2>1, <1>1, <1>4 DEF Knows
  <2> QED  BY <2>2, <2>3, <2>4, <1>5
<1>10. CompletedCopiesAgree'
  <2>1. ASSUME NEW t \in Txs, NEW c \in CopiesOf(t)' PROVE c \in CopiesOf(t) \/ c = pool[t]
    <3>1. CASE \E m \in Nodes : mempool'[m][t] # Nil /\ c = mempool'[m][t]
      BY <3>1, <1>4 DEF CopiesOf
    <3>2. CASE \E m \in Nodes : Pending(m, "txs")' /\ request'[m].txs[t] # Nil /\ c = request'[m].txs[t]
      BY <3>2, <1>4 DEF CopiesOf, Pending
    <3> QED  BY <3>1, <3>2 DEF CopiesOf
  <2>2. ASSUME NEW t \in Txs
        PROVE  \/ \A c \in CopiesOf(t)' : c \in CopiesOf(t) \/ ~c.completed
               \/ \E e : \A c \in CopiesOf(t)' : c.completed => c = e
    <3>1. CASE txs[t] # Nil /\ ~txs[t].completed /\ n = Dest[t]
      <4>1. ~Knows(n, t)
        BY <3>1, <1>3
      <4>2. ASSUME NEW c \in CopiesOf(t) PROVE ~c.completed
        <5>1. CASE \E m \in Nodes : mempool[m][t] # Nil /\ c = mempool[m][t]
          <6>1. PICK m \in Nodes : mempool[m][t] # Nil /\ c = mempool[m][t]
            BY <5>1
          <6>2. GoodCopy(m, t, c) /\ c \in Copy /\ \A q \in Relayers(c.sigs) : Knows(q, t)
            BY <6>1, CopyTypes DEF PathInv, GoodMempool
          <6>3. c.completed => n \in Relayers(c.sigs)
            BY <6>2, <3>1, EndRelayer
          <6> QED  BY <4>1, <6>2, <6>3
        <5>2. CASE \E m \in Nodes : Pending(m, "txs") /\ request[m].txs[t] # Nil /\ c = request[m].txs[t]
          <6>1. PICK m \in Nodes : Pending(m, "txs") /\ request[m].txs[t] # Nil /\ c = request[m].txs[t]
            BY <5>2
          <6>2. /\ GoodCopy(m, t, c) /\ c \in Copy
                /\ \A q \in Relayers(c.sigs) : Knows(q, t) \/ (q = m /\ ~c.completed)
            BY <6>1, CopyTypes DEF PathInv, GoodAnswer
          <6>3. c.completed => n \in Relayers(c.sigs)
            BY <6>2, <3>1, EndRelayer
          <6> QED  BY <4>1, <6>2, <6>3
        <5> QED  BY <5>1, <5>2 DEF CopiesOf
      <4>3. \A c \in CopiesOf(t)' : c.completed => c = pool[t]
        BY <2>1, <4>2
      <4> QED  BY <4>3
    <3>2. CASE txs[t] # Nil /\ pool[t] = txs[t]
      <4>1. pool[t] \in CopiesOf(t)
        BY <3>2, <1>1 DEF CopiesOf, txs
      <4> QED  BY <2>1, <4>1
    <3>3. CASE txs[t] = Nil
      <4>1. ASSUME NEW c \in CopiesOf(t)' PROVE c \in CopiesOf(t)
        <5>1. pool[t] = mempool[n][t]
          BY <3>3, <1>2
        <5>2. CASE \E m \in Nodes : mempool'[m][t] # Nil /\ c = mempool'[m][t]
          BY <5>1, <5>2, <1>4 DEF CopiesOf
        <5>3. CASE \E m \in Nodes : Pending(m, "txs")' /\ request'[m].txs[t] # Nil /\ c = request'[m].txs[t]
          BY <5>3, <1>4 DEF CopiesOf, Pending
        <5> QED  BY <5>2, <5>3 DEF CopiesOf
      <4> QED  BY <4>1
    <3> QED  BY <3>1, <3>2, <3>3, <1>2
  <2> QED  BY <2>2, AgreeStep DEF PathInv
<1> QED  BY <1>7, <1>8, <1>9, <1>10 DEF PathInv

\* A chain that grows takes transactions out of the mempool of a node that does
\* not wait for any.
LEMMA GrowsPaths ==
    ASSUME TypeOK, PathInv, NEW n \in Nodes, NEW b, Grows(n, b),
           request[n] = Nil \/ Pending(n, "blocks"),
           \A m \in Nodes : request'[m] = request[m] \/ request'[m] = Nil
    PROVE  PathInv'
<1> PICK pool \in Pool :
         /\ mempool' = [mempool EXCEPT ![n] = pool]
         /\ Held(mempool[n]) \subseteq Held(pool) \cup previous[n] \cup Held(b.data)
         /\ \A t \in Txs : pool[t] = Nil \/ pool[t] = mempool[n][t]
  BY DEF Grows
<1>1. /\ mempool'[n] = pool /\ previous'[n] = previous[n] \cup Held(b.data)
      /\ \A m \in Nodes : m # n => mempool'[m] = mempool[m] /\ previous'[m] = previous[m]
  BY DEF Grows, TypeOK
<1>2. \A m \in Nodes, t \in Txs : mempool'[m][t] = mempool[m][t] \/ mempool'[m][t] = Nil
  BY <1>1
<1>3. ASSUME NEW m \in Nodes, NEW t \in Txs, Knows(m, t) PROVE Knows(m, t)'
  <2>1. CASE m = n
    <3>1. mempool[n][t] # Nil => pool[t] # Nil \/ t \in previous[n] \cup Held(b.data)
      BY DEF Held
    <3> QED  BY <2>1, <3>1, <1>1, <1>3 DEF Knows
  <2>2. CASE m # n
    BY <2>2, <1>1, <1>3 DEF Knows
  <2> QED  BY <2>1, <2>2
<1>4. \A m \in Nodes : previous[m] \subseteq previous'[m]
  BY <1>1
<1>5. \A m \in Nodes : Pending(m, "missing") \/ Pending(m, "txs") => m # n
  BY DEF Pending
<1> QED  BY <1>1, <1>2, <1>3, <1>4, <1>5, NothingComes

\* Steps that change no mempool and no chain, and ask for no transactions.
LEMMA KeepsPaths ==
    ASSUME TypeOK, PathInv, UNCHANGED <<mempool, previous>>,
           \A m \in Nodes : \/ request'[m] = request[m] \/ request'[m] = Nil
                            \/ request'[m].kind \in {"block", "blocks"}
    PROVE  PathInv'
<1>1. \A m \in Nodes, t \in Txs : Knows(m, t) => Knows(m, t)'
  BY DEF Knows
<1> QED  BY <1>1, NothingComes

\* Every step keeps the invariant.
LEMMA PathStep ==
    ASSUME TypeOK, AnswersFit, TransactionInv, PathInv, Next
    PROVE  PathInv'
<1> PICK n \in Nodes :
          \/ \E t \in Txs : SendTransaction(n, t)
          \/ \E p \in Nodes : MempoolSync(n, p) \/ ChainSync(n, p) \/ VoteFails(n, p)
          \/ EndMining(n)
          \/ \E w \in Nodes \cup {Nil}, s \in Nodes : EndElection(n, w, s)
          \/ EndRound(n)
          \/ Exchange(n)
          \/ LinkFails(n) \/ ServerRaces(n)
  BY DEF Next
<1>1. ASSUME NEW t \in Txs, SendTransaction(n, t) PROVE PathInv'
  BY <1>1, SendPaths
<1>2. ASSUME NEW p \in Nodes, MempoolSync(n, p) PROVE PathInv'
  BY <1>2, AskPaths
<1>3. ASSUME NEW p \in Nodes, ChainSync(n, p) PROVE PathInv'
  <2>1. /\ UNCHANGED <<mempool, previous>>
        /\ \A m \in Nodes : request'[m] = request[m] \/ request'[m].kind = "block"
    BY <1>3 DEF ChainSync, TypeOK
  <2> QED  BY <2>1, KeepsPaths
<1>4. ASSUME NEW w \in Nodes \cup {Nil}, NEW s \in Nodes, EndElection(n, w, s) PROVE PathInv'
  <2>1. UNCHANGED request
    BY <1>4 DEF EndElection
  <2>2. CASE Mines(n)
    BY <2>1, <2>2, GrowsPaths DEF Mines
  <2>3. CASE Keeps
    BY <2>1, <2>3, KeepsPaths DEF Keeps
  <2> QED  BY <1>4, <2>2, <2>3, ElectionSteps
<1>5. CASE ReceiveTransactions(n)
  BY <1>5, ReceivePaths
<1>6. CASE ReceiveBlocks(n)
  <2>1. \A m \in Nodes : request'[m] = request[m] \/ request'[m] = Nil
    BY <1>6 DEF ReceiveBlocks, TypeOK
  <2>2. CASE Takes(n)
    BY <2>1, <2>2, GrowsPaths DEF Takes
  <2>3. CASE Keeps
    BY <2>1, <2>3, KeepsPaths DEF Keeps
  <2> QED  BY <1>6, <2>2, <2>3, SyncSteps
<1>7. ASSUME NEW p \in Nodes, AnswerMissing(n, p) PROVE PathInv'
  <2>1. CASE request[n].ids \subseteq Held(mempool[p])
    BY <1>7, <2>1, AnswerPaths
  <2>2. CASE ~ request[n].ids \subseteq Held(mempool[p])
    <3>1. /\ UNCHANGED <<mempool, previous>>
          /\ \A m \in Nodes : request'[m] = request[m] \/ request'[m] = Nil
      BY <1>7, <2>2 DEF AnswerMissing, TypeOK
    <3> QED  BY <3>1, KeepsPaths
  <2> QED  BY <2>1, <2>2
<1>8. ASSUME NEW p \in Nodes, AnswerBlock(n, p) PROVE PathInv'
  <2>1. \E r : request' = [request EXCEPT ![n] = r] /\ (r = Nil \/ r.kind \in {"block", "blocks"})
    BY <1>8, AnswerBlockSteps
  <2>2. /\ UNCHANGED <<mempool, previous>>
        /\ \A m \in Nodes : \/ request'[m] = request[m] \/ request'[m] = Nil
                            \/ request'[m].kind \in {"block", "blocks"}
    BY <1>8, <2>1 DEF AnswerBlock, TypeOK
  <2> QED  BY <2>2, KeepsPaths
<1>9. CASE \/ EndMining(n) \/ EndRound(n) \/ LinkFails(n) \/ ServerRaces(n)
           \/ \E p \in Nodes : VoteFails(n, p) \/ DeadServer(n, p)
  <2>1. /\ UNCHANGED <<mempool, previous>>
        /\ \A m \in Nodes : request'[m] = request[m] \/ request'[m] = Nil
    BY <1>9 DEF EndMining, EndRound, LinkFails, ServerRaces, VoteFails, DeadServer, TypeOK
  <2> QED  BY <2>1, KeepsPaths
<1> QED
  BY <1>1, <1>2, <1>3, <1>4, <1>5, <1>6, <1>7, <1>8, <1>9 DEF Exchange

-----------------------------------------------------------------------------
(* Theorems *)

\* The invariant of the signature chains holds in every reachable state.
THEOREM PathsConsistent == Spec => []PathInv
<1>1. Init => PathInv
  <2> SUFFICES ASSUME Init PROVE PathInv
    OBVIOUS
  <2>1. \A n \in Nodes : request[n] = Nil /\ \A t \in Txs : mempool[n][t] = Nil
    BY DEF Init, NoTxs
  <2>2. \A t \in Txs : CopiesOf(t) = {}
    BY <2>1 DEF CopiesOf, Pending
  <2> QED
    BY <2>1, <2>2 DEF PathInv, GoodMempool, GoodQuestion, GoodAnswer, Asked, Pending,
                      CompletedCopiesAgree
<1>2. TypeOK /\ AnswersFit /\ TransactionInv /\ PathInv /\ [Next]_vars => PathInv'
  <2>1. ASSUME TypeOK, PathInv, UNCHANGED vars PROVE PathInv'
    BY <2>1, KeepsPaths DEF vars
  <2> QED  BY <2>1, PathStep
<1> QED  BY <1>1, <1>2, TypesAndFit, TransactionsConsistent, PTL DEF Spec

\* What a node waits for is not on its chain when it comes, and the peer that
\* offered it has it in its mempool or on its chain.
THEOREM RequestsAlwaysCurrent == Spec => []RequestsCurrent
<1>1. TypeOK /\ PathInv => RequestsCurrent
  <2> SUFFICES ASSUME TypeOK, PathInv, NEW n \in Nodes
               PROVE  /\ Pending(n, "missing") =>
                           /\ request[n].ids \cap previous[n] = {}
                           /\ LET p == request[n].peer
                              IN  request[n].ids \subseteq Held(mempool[p]) \cup previous[p]
                      /\ Pending(n, "txs") => Held(request[n].txs) \cap previous[n] = {}
    BY DEF RequestsCurrent
  <2>1. ASSUME Pending(n, "missing"), NEW t \in request[n].ids
        PROVE  /\ t \notin previous[n]
               /\ t \in Held(mempool[request[n].peer]) \cup previous[request[n].peer]
    <3>1. request[n].peer \in Nodes /\ t \in Txs
      BY <2>1, RequestTypes DEF Pending
    <3>2. Asked(n, request[n].peer, t)
      BY <2>1 DEF Asked
    <3> QED  BY <3>1, <3>2 DEF PathInv, GoodQuestion, Knows, Held
  <2>2. ASSUME Pending(n, "txs"), NEW t \in Held(request[n].txs)
        PROVE  t \notin previous[n]
    BY <2>2 DEF PathInv, GoodAnswer, Held
  <2> QED  BY <2>1, <2>2
<1> QED  BY <1>1, TypeCorrect, PathsConsistent, PTL

\* Whatever the order of exchanges, a signature chain is a path from the source
\* that comes to no robot twice.
THEOREM RelayPathsAlwaysSimple == Spec => []RelayPathSimple
<1>1. PathInv => RelayPathSimple
  <2> SUFFICES ASSUME PathInv, NEW t \in Txs, NEW c \in CopiesOf(t)
               PROVE  /\ c.sigs # <<>> => c.sigs[1].id = Source[t]
                      /\ \A i \in 1..(Len(c.sigs) - 1) : c.sigs[i].relayer = c.sigs[i + 1].id
                      /\ \A i \in DOMAIN c.sigs :
                            /\ c.sigs[i].relayer # Source[t]
                            /\ \A j \in DOMAIN c.sigs :
                                  c.sigs[i].relayer = c.sigs[j].relayer => i = j
    BY DEF RelayPathSimple
  <2>1. SimplePath(t, c.sigs)
    BY DEF PathInv, GoodMempool, GoodAnswer, GoodCopy, CopiesOf
  <2> QED  BY <2>1 DEF SimplePath, Relayers
<1> QED  BY <1>1, PathsConsistent, PTL

\* All nodes that see a completed transaction see the same signatures.
THEOREM CompletedCopiesAlwaysAgree == Spec => []CompletedCopiesAgree
BY PathsConsistent, PTL DEF PathInv
=============================================================================
