--------------------------- MODULE BalancesProofs ---------------------------
(***************************************************************************)
(* Proofs about module Balances, for any number of nodes, accounts and     *)
(* transactions, any values, and contract functions that return or raise.  *)
(***************************************************************************)
EXTENDS Balances, FiniteSetTheorems, SequenceTheorems, WellFoundedInduction, TLAPS

-----------------------------------------------------------------------------
(* Types *)

\* A dictionary of the balances of some accounts.
Ledger == UNION {[A -> Int] : A \in SUBSET Accounts}

State  == [balances : Ledger, n : Int, calls : Seq(Txs)]
Block  == [data : Seq(Txs), state : State]

\* Types of the variables. A balance may be negative.
TypeOK ==
    /\ chain \in [Nodes -> Seq(Block) \ {<<>>}]
    /\ todo \in [Nodes -> Seq(Txs)]
    /\ block \in [Nodes -> Block]
    /\ alive \in [Nodes -> BOOLEAN]

\* A ledger is a function from some accounts to integers.
LEMMA LedgerIs ==
    ASSUME NEW b
    PROVE  b \in Ledger <=> DOMAIN b \subseteq Accounts /\ b \in [DOMAIN b -> Int]
BY DEF Ledger

\* setdefault only adds accounts.
LEMMA WithAccountsType ==
    ASSUME NEW b \in Ledger, NEW t \in Txs
    PROVE  /\ WithAccounts(b, t) \in Ledger
           /\ Tx[t].sender \in DOMAIN WithAccounts(b, t)
           /\ Tx[t].destination \in DOMAIN WithAccounts(b, t)
           /\ \A a \in DOMAIN b : WithAccounts(b, t)[a] = b[a]
<1> DEFINE A == DOMAIN b \cup {Tx[t].sender, Tx[t].destination}
<1>1. Tx[t].sender \in Accounts /\ Tx[t].destination \in Accounts
  BY BalancesAssumption
<1>2. DOMAIN b \subseteq Accounts /\ b \in [DOMAIN b -> Int]
  BY LedgerIs
<1>3. A \in SUBSET Accounts
  BY <1>1, <1>2
<1>4. WithAccounts(b, t) \in [A -> Int]
  BY <1>2 DEF WithAccounts
<1> QED  BY <1>3, <1>4 DEF Ledger, WithAccounts

\* A transfer changes a ledger into a ledger.
LEMMA TransferredType ==
    ASSUME NEW b \in Ledger, NEW t \in Txs,
           Tx[t].sender \in DOMAIN b, Tx[t].destination \in DOMAIN b
    PROVE  Transferred(b, t) \in Ledger
<1> DEFINE A == DOMAIN b
           s == Tx[t].sender
           d == Tx[t].destination
           v == Tx[t].value
           paid == [b EXCEPT ![s] = @ - v]
<1>1. A \in SUBSET Accounts /\ b \in [A -> Int]
  BY LedgerIs
<1>2. v \in Int /\ b[s] \in Int
  BY <1>1, BalancesAssumption
<1>3. b[s] - v \in Int
  BY <1>2
<1>4. paid \in [A -> Int]
  BY <1>1, <1>3
<1>5. paid[d] + v \in Int
  BY <1>4, <1>2
<1>6. Transferred(b, t) = [paid EXCEPT ![d] = @ + v]
  BY DEF Transferred
<1>7. Transferred(b, t) \in [A -> Int]
  BY <1>4, <1>5, <1>6
<1> QED  BY <1>1, <1>7 DEF Ledger

\* apply_transaction turns a state into a state, with funds or without.
LEMMA AppliedType ==
    ASSUME NEW s \in State, NEW t \in Txs
    PROVE  Applied(s, t) \in State
<1> DEFINE b == WithAccounts(s.balances, t)
<1>1. s.balances \in Ledger /\ s.n \in Int /\ s.calls \in Seq(Txs)
  BY DEF State
<1>2. b \in Ledger /\ Tx[t].sender \in DOMAIN b /\ Tx[t].destination \in DOMAIN b
  BY <1>1, WithAccountsType
<1>3. Append(s.calls, t) \in Seq(Txs)
  BY <1>1
<1>4. CASE Covered(b, t)
  <2>1. Transferred(b, t) \in Ledger
    BY <1>2, TransferredType
  <2>2. Applied(s, t) = [balances |-> Transferred(b, t), n |-> s.n + 1,
                         calls |-> IF Tx[t].call = "none" THEN s.calls ELSE Append(s.calls, t)]
    BY <1>4 DEF Applied
  <2> QED  BY <2>1, <2>2, <1>1, <1>3 DEF State
<1>5. CASE ~Covered(b, t)
  <2>1. Applied(s, t) = [s EXCEPT !.balances = b]
    BY <1>5 DEF Applied
  <2> QED  BY <2>1, <1>1, <1>2 DEF State
<1> QED  BY <1>4, <1>5

\* The states of the genesis block and of no block.
LEMMA GenesisType == Genesis \in Block /\ NoBlock \in Block
<1>1. <<>> \in [{} -> Int]
  OBVIOUS
<1>2. <<>> \in Ledger
  BY <1>1 DEF Ledger
<1>3. <<>> \in Seq(Txs)
  OBVIOUS
<1>4. Funds \in Ledger
  BY LedgerIs, BalancesAssumption
<1> QED  BY <1>2, <1>3, <1>4 DEF Genesis, NoBlock, Block, State

-----------------------------------------------------------------------------
(* What happens to a chain *)

\* A mempool is a sequence of transactions without repetition, none of which is
\* on the chain.
LEMMA MempoolsAre ==
    ASSUME NEW n \in Nodes, NEW d \in Mempools(n)
    PROVE  d \in Seq(Txs) /\ IsInjective(d) /\ Range(d) \cap OnChain(n) = {}
<1>1. PICK m \in 0..MaxData : d \in [1..m -> Txs \ OnChain(n)]
  BY DEF Mempools, BoundedSeq, SeqOf
<1>2. d \in Seq(Txs \ OnChain(n))
  BY <1>1, BalancesAssumption
<1>3. DOMAIN d = 1..m
  BY <1>1
<1>4. Range(d) \subseteq Txs \ OnChain(n)
  BY <1>1, <1>3 DEF Range
<1>5. IsInjective(d)
  BY DEF Mempools
<1> QED  BY <1>2, <1>4, <1>5

\* A node that takes a block then has the chain of its peer.
LEMMA SyncCopies ==
    ASSUME TypeOK, NEW n \in Nodes, NEW p \in Nodes, SyncChain(n, p)
    PROVE  chain' = [chain EXCEPT ![n] = chain[p]]
<1> DEFINE c == chain[n]
           d == chain[p]
<1>1. c \in Seq(Block) /\ d \in Seq(Block)
  BY DEF TypeOK
<1>2. Len(d) = Len(c) + 1 /\ SubSeq(c, 1, Len(c)) = SubSeq(d, 1, Len(c))
  BY <1>1 DEF SyncChain, IsPrefix
<1>3. Append(c, d[Len(d)]) = d
  <2>1. \A i \in 1..Len(c) : c[i] = d[i]
    <3>1. \A i \in 1..Len(c) : SubSeq(c, 1, Len(c))[i] = c[i] /\ SubSeq(d, 1, Len(c))[i] = d[i]
      BY <1>1, <1>2
    <3> QED  BY <1>2, <3>1
  <2>2. Append(c, d[Len(d)]) \in Seq(Block) /\ Len(Append(c, d[Len(d)])) = Len(d)
    BY <1>1, <1>2
  <2>3. \A i \in 1..Len(d) : Append(c, d[Len(d)])[i] = d[i]
    BY <1>1, <1>2, <2>1
  <2> QED  BY <1>1, <2>2, <2>3, SeqEqual
<1> QED  BY <1>3 DEF SyncChain, Received, Last

\* The last block of a chain.
LEMMA LastIs ==
    ASSUME TypeOK, NEW n \in Nodes
    PROVE  /\ Len(chain[n]) \in DOMAIN chain[n]
           /\ Last(chain[n]) = chain[n][Len(chain[n])]
           /\ Last(chain[n]) \in Block
<1>1. chain[n] \in Seq(Block) /\ chain[n] # <<>>
  BY DEF TypeOK
<1>2. Len(chain[n]) \in 1..Len(chain[n]) /\ DOMAIN chain[n] = 1..Len(chain[n])
  BY <1>1
<1> QED  BY <1>1, <1>2 DEF Last

\* Every step keeps the types: creating, giving up and exchanging blocks.
LEMMA TypeStep == TypeOK /\ [Next]_vars => TypeOK'
<1> SUFFICES ASSUME TypeOK, [Next]_vars PROVE TypeOK'
  OBVIOUS
<1>1. CASE UNCHANGED vars
  BY <1>1 DEF TypeOK, vars
<1>2. ASSUME NEW n \in Nodes, StartBlock(n) PROVE TypeOK'
  <2>1. PICK d \in Mempools(n) :
          /\ todo' = [todo EXCEPT ![n] = d]
          /\ block' = [block EXCEPT ![n] = [data |-> d, state |-> PreviousState(n)]]
    BY <1>2 DEF StartBlock
  <2>2. PreviousState(n) \in State
    BY LastIs DEF PreviousState, Block
  <2>3. [data |-> d, state |-> PreviousState(n)] \in Block
    BY <2>2, MempoolsAre DEF Block
  <2> QED  BY <1>2, <2>1, <2>3, MempoolsAre DEF StartBlock, TypeOK
<1>3. ASSUME NEW n \in Nodes, ApplyNext(n) PROVE TypeOK'
  <2>1. todo[n] \in Seq(Txs) /\ todo[n] # <<>>
    BY <1>3 DEF ApplyNext, TypeOK
  <2>2. Head(todo[n]) \in Txs /\ Tail(todo[n]) \in Seq(Txs)
    BY <2>1
  <2>3. CASE Raises(block[n].state, Head(todo[n]))
    <3>1. /\ block' = [block EXCEPT ![n] = NoBlock]
          /\ todo' = [todo EXCEPT ![n] = <<>>]
          /\ alive' = [alive EXCEPT ![n] = FALSE]
          /\ UNCHANGED chain
      BY <1>3, <2>3 DEF ApplyNext
    <3>2. <<>> \in Seq(Txs)
      OBVIOUS
    <3> QED  BY <3>1, <3>2, GenesisType DEF TypeOK
  <2>4. CASE ~Raises(block[n].state, Head(todo[n]))
    <3>1. Applied(block[n].state, Head(todo[n])) \in State
      BY <2>2, AppliedType DEF TypeOK, Block
    <3>2. /\ block' = [block EXCEPT ![n].state = Applied(block[n].state, Head(todo[n]))]
          /\ todo' = [todo EXCEPT ![n] = Tail(todo[n])]
          /\ UNCHANGED <<chain, alive>>
      BY <1>3, <2>4 DEF ApplyNext
    <3>3. block' \in [Nodes -> Block]
      BY <3>1, <3>2 DEF TypeOK, Block
    <3> QED  BY <2>2, <3>2, <3>3 DEF TypeOK
  <2> QED  BY <2>3, <2>4
<1>4. ASSUME NEW n \in Nodes, AppendBlock(n) PROVE TypeOK'
  <2>1. Append(chain[n], block[n]) \in Seq(Block) \ {<<>>}
    <3>1. chain[n] \in Seq(Block) /\ block[n] \in Block
      BY DEF TypeOK
    <3>2. Append(chain[n], block[n]) \in Seq(Block) /\ Len(Append(chain[n], block[n])) > 0
      BY <3>1
    <3> QED  BY <3>2
  <2>2. <<>> \in Seq(Txs)
    OBVIOUS
  <2> QED  BY <1>4, <2>1, <2>2, GenesisType DEF AppendBlock, TypeOK
<1>5. ASSUME NEW n \in Nodes, NEW p \in Nodes, SyncChain(n, p) PROVE TypeOK'
  <2>1. chain' = [chain EXCEPT ![n] = chain[p]]
    BY <1>5, SyncCopies
  <2> QED  BY <1>5, <2>1 DEF SyncChain, TypeOK
<1> QED  BY <1>1, <1>2, <1>3, <1>4, <1>5 DEF Next

\* All states are well typed.
THEOREM TypeCorrect == Spec => []TypeOK
<1>1. Init => TypeOK
  <2> SUFFICES ASSUME Init PROVE TypeOK
    OBVIOUS
  <2>1. <<Genesis>> \in Seq(Block) \ {<<>>} /\ <<>> \in Seq(Txs)
    BY GenesisType
  <2> QED  BY <2>1, GenesisType DEF Init, TypeOK
<1> QED  BY <1>1, TypeStep, PTL DEF Spec

-----------------------------------------------------------------------------
(* Contract calls *)

\* Calls that have taken effect, each once and none that raises.
GoodCalls(calls) == IsInjective(calls) /\ \A t \in Range(calls) : Tx[t].call = "returns"

DataOf(c) == UNION {Range(c[k].data) : k \in DOMAIN c}

\* The calls in the states of a chain are of transactions on the chain.
GoodChain(c) ==
    \A k \in DOMAIN c : /\ GoodCalls(c[k].state.calls)
                        /\ Range(c[k].state.calls) \subseteq DataOf(c)

\* While a block is created, no transaction that is still to be applied has had
\* an effect: it is not on the chain and occurs once in the block.
GoodBlock(n) ==
    LET calls == block[n].state.calls
    IN  /\ GoodCalls(calls)
        /\ IsInjective(todo[n])
        /\ Range(todo[n]) \cap Range(calls) = {}
        /\ Range(todo[n]) \subseteq Range(block[n].data)
        /\ Range(calls) \subseteq DataOf(chain[n]) \cup Range(block[n].data)

CallsInv == \A n \in Nodes : GoodChain(chain[n]) /\ GoodBlock(n)

\* The empty list.
LEMMA EmptyGood == GoodCalls(<<>>) /\ IsInjective(<<>>) /\ Range(<<>>) = {}
BY DEF GoodCalls, IsInjective, Range

\* A list with one more element.
LEMMA AppendGood ==
    ASSUME NEW c \in Seq(Txs), NEW t \in Txs, t \notin Range(c), IsInjective(c)
    PROVE  IsInjective(Append(c, t)) /\ Range(Append(c, t)) = Range(c) \cup {t}
<1>1. /\ DOMAIN c = 1..Len(c) /\ DOMAIN Append(c, t) = 1..(Len(c) + 1)
      /\ \A i \in 1..Len(c) : Append(c, t)[i] = c[i]
      /\ Append(c, t)[Len(c) + 1] = t
  OBVIOUS
<1>2. IsInjective(Append(c, t))
  <2> SUFFICES ASSUME NEW i \in DOMAIN Append(c, t), NEW j \in DOMAIN Append(c, t),
                      Append(c, t)[i] = Append(c, t)[j]
               PROVE  i = j
    BY DEF IsInjective
  <2>1. \A k \in 1..Len(c) : c[k] # t
    BY <1>1 DEF Range
  <2>2. CASE i = Len(c) + 1 \/ j = Len(c) + 1
    BY <1>1, <2>1, <2>2
  <2>3. CASE i \in 1..Len(c) /\ j \in 1..Len(c)
    BY <1>1, <2>3 DEF IsInjective
  <2> QED  BY <1>1, <2>2, <2>3
<1>3. Range(Append(c, t)) = Range(c) \cup {t}
  BY <1>1 DEF Range
<1> QED  BY <1>2, <1>3

\* A list without its head.
LEMMA TailGood ==
    ASSUME NEW c \in Seq(Txs), c # <<>>, IsInjective(c)
    PROVE  /\ IsInjective(Tail(c)) /\ Range(Tail(c)) \subseteq Range(c)
           /\ Head(c) \in Range(c) /\ Head(c) \notin Range(Tail(c))
<1>1. /\ DOMAIN c = 1..Len(c) /\ Len(c) \in Nat /\ Len(c) >= 1
      /\ DOMAIN Tail(c) = 1..(Len(c) - 1)
      /\ \A i \in 1..(Len(c) - 1) : Tail(c)[i] = c[i + 1]
      /\ Head(c) = c[1]
  OBVIOUS
<1>2. IsInjective(Tail(c))
  BY <1>1 DEF IsInjective
<1>3. Range(Tail(c)) \subseteq Range(c) /\ Head(c) \in Range(c)
  BY <1>1 DEF Range
<1>4. Head(c) \notin Range(Tail(c))
  BY <1>1 DEF Range, IsInjective
<1> QED  BY <1>2, <1>3, <1>4

\* One transaction adds its call if there are funds, and nothing else does.
LEMMA AppliedCalls ==
    ASSUME NEW s \in State, NEW t \in Txs, ~Raises(s, t), t \notin Range(s.calls), GoodCalls(s.calls)
    PROVE  LET calls == Applied(s, t).calls
           IN  GoodCalls(calls) /\ Range(calls) \subseteq Range(s.calls) \cup {t}
<1>1. s.calls \in Seq(Txs)
  BY DEF State
<1>2. Applied(s, t).calls = s.calls \/
      (Tx[t].call = "returns" /\ Applied(s, t).calls = Append(s.calls, t))
  <2> DEFINE b == WithAccounts(s.balances, t)
  <2>1. Tx[t].call \in Calls
    BY BalancesAssumption
  <2>2. CASE Covered(b, t)
    <3>1. Tx[t].call # "raises"
      BY <2>2 DEF Raises
    <3>2. Applied(s, t).calls = IF Tx[t].call = "none" THEN s.calls ELSE Append(s.calls, t)
      BY <2>2 DEF Applied
    <3> QED  BY <2>1, <3>1, <3>2 DEF Calls
  <2>3. CASE ~Covered(b, t)
    <3>1. Applied(s, t) = [s EXCEPT !.balances = b]
      BY <2>3 DEF Applied
    <3> QED  BY <3>1 DEF State
  <2> QED  BY <2>2, <2>3
<1>3. CASE Applied(s, t).calls = s.calls
  BY <1>3
<1>4. CASE Tx[t].call = "returns" /\ Applied(s, t).calls = Append(s.calls, t)
  BY <1>1, <1>4, AppendGood DEF GoodCalls
<1> QED  BY <1>2, <1>3, <1>4

\* A chain with one more block.
LEMMA ChainAppend ==
    ASSUME NEW c \in Seq(Block), NEW b \in Block, GoodChain(c), GoodCalls(b.state.calls),
           Range(b.state.calls) \subseteq DataOf(c) \cup Range(b.data)
    PROVE  GoodChain(Append(c, b))
<1> DEFINE d == Append(c, b)
<1>1. /\ DOMAIN c = 1..Len(c) /\ DOMAIN d = 1..(Len(c) + 1) /\ Len(c) \in Nat
      /\ \A i \in 1..Len(c) : d[i] = c[i]
      /\ d[Len(c) + 1] = b
  OBVIOUS
<1>2. DataOf(d) = DataOf(c) \cup Range(b.data)
  BY <1>1 DEF DataOf
<1>3. ASSUME NEW k \in DOMAIN d
      PROVE  GoodCalls(d[k].state.calls) /\ Range(d[k].state.calls) \subseteq DataOf(d)
  <2>1. CASE k = Len(c) + 1
    BY <1>1, <1>2, <2>1
  <2>2. CASE k \in 1..Len(c)
    BY <1>1, <1>2, <2>2 DEF GoodChain
  <2> QED  BY <1>1, <2>1, <2>2
<1> QED  BY <1>3 DEF GoodChain

\* Every step keeps the invariant: a raise drops the copy of the state, a
\* finished block takes its calls onto the chain, a received one comes with them.
LEMMA CallsStep == TypeOK /\ CallsInv /\ [Next]_vars => CallsInv'
<1> SUFFICES ASSUME TypeOK, CallsInv, [Next]_vars PROVE CallsInv'
  OBVIOUS
<1>0. ASSUME NEW n \in Nodes,
             \A m \in Nodes \ {n} : /\ chain'[m] = chain[m] /\ todo'[m] = todo[m]
                                    /\ block'[m] = block[m],
             GoodChain(chain'[n]), GoodBlock(n)'
      PROVE  CallsInv'
  <2> SUFFICES ASSUME NEW m \in Nodes PROVE GoodChain(chain'[m]) /\ GoodBlock(m)'
    BY DEF CallsInv
  <2>1. CASE m = n
    BY <1>0, <2>1
  <2>2. CASE m # n
    BY <1>0, <2>2 DEF CallsInv, GoodBlock
  <2> QED  BY <2>1, <2>2
<1>1. CASE UNCHANGED vars
  BY <1>1 DEF CallsInv, GoodBlock, vars
<1>2. ASSUME NEW n \in Nodes, StartBlock(n) PROVE CallsInv'
  <2>1. PICK d \in Mempools(n) :
          /\ todo' = [todo EXCEPT ![n] = d]
          /\ block' = [block EXCEPT ![n] = [data |-> d, state |-> PreviousState(n)]]
          /\ chain' = chain
    BY <1>2 DEF StartBlock
  <2>2. d \in Seq(Txs) /\ IsInjective(d) /\ Range(d) \cap OnChain(n) = {}
    BY MempoolsAre
  <2>3. OnChain(n) = DataOf(chain[n])
    BY DEF OnChain, DataOf
  <2>4. GoodCalls(PreviousState(n).calls) /\ Range(PreviousState(n).calls) \subseteq DataOf(chain[n])
    BY LastIs DEF PreviousState, CallsInv, GoodChain
  <2>5. todo'[n] = d /\ block'[n].data = d /\ block'[n].state = PreviousState(n)
    BY <2>1 DEF TypeOK
  <2>6. GoodBlock(n)'
    BY <2>1, <2>2, <2>3, <2>4, <2>5 DEF GoodBlock
  <2> QED  BY <1>0, <2>1, <2>6 DEF TypeOK, CallsInv
<1>3. ASSUME NEW n \in Nodes, ApplyNext(n) PROVE CallsInv'
  <2> DEFINE t == Head(todo[n])
             s == block[n].state
  <2>1. todo[n] \in Seq(Txs) /\ todo[n] # <<>> /\ chain' = chain
    BY <1>3 DEF ApplyNext, TypeOK
  <2>2. t \in Txs /\ s \in State
    BY <2>1 DEF TypeOK, Block
  <2>3. GoodBlock(n) /\ GoodChain(chain[n])
    BY DEF CallsInv
  <2>4. CASE Raises(s, t)
    <3>1. /\ block' = [block EXCEPT ![n] = NoBlock]
          /\ todo' = [todo EXCEPT ![n] = <<>>]
      BY <1>3, <2>4 DEF ApplyNext
    <3>2. block'[n].state.calls = <<>> /\ todo'[n] = <<>>
      BY <3>1 DEF TypeOK, NoBlock
    <3>3. GoodBlock(n)'
      BY <3>2, EmptyGood DEF GoodBlock
    <3> QED  BY <1>0, <2>1, <2>3, <3>1, <3>3 DEF TypeOK
  <2>5. CASE ~Raises(s, t)
    <3>1. /\ block' = [block EXCEPT ![n].state = Applied(s, t)]
          /\ todo' = [todo EXCEPT ![n] = Tail(todo[n])]
      BY <1>3, <2>5 DEF ApplyNext
    <3>2. /\ IsInjective(Tail(todo[n])) /\ Range(Tail(todo[n])) \subseteq Range(todo[n])
          /\ t \in Range(todo[n]) /\ t \notin Range(Tail(todo[n]))
      BY <2>1, <2>3, TailGood DEF GoodBlock
    <3>3. GoodCalls(Applied(s, t).calls) /\ Range(Applied(s, t).calls) \subseteq Range(s.calls) \cup {t}
      BY <2>2, <2>3, <2>5, <3>2, AppliedCalls DEF GoodBlock
    <3>4. /\ block'[n].data = block[n].data /\ block'[n].state = Applied(s, t)
          /\ todo'[n] = Tail(todo[n]) /\ chain'[n] = chain[n]
      BY <2>1, <3>1 DEF TypeOK, Block
    <3>5. GoodBlock(n)'
      BY <2>3, <3>2, <3>3, <3>4 DEF GoodBlock
    <3> QED  BY <1>0, <2>1, <2>3, <3>1, <3>5 DEF TypeOK
  <2> QED  BY <2>4, <2>5
<1>4. ASSUME NEW n \in Nodes, AppendBlock(n) PROVE CallsInv'
  <2>1. /\ chain' = [chain EXCEPT ![n] = Append(chain[n], block[n])]
        /\ block' = [block EXCEPT ![n] = NoBlock]
        /\ todo' = [todo EXCEPT ![n] = <<>>]
    BY <1>4 DEF AppendBlock
  <2>2. GoodChain(Append(chain[n], block[n]))
    BY ChainAppend DEF CallsInv, GoodBlock, TypeOK
  <2>3. block'[n].state.calls = <<>> /\ todo'[n] = <<>>
    BY <2>1 DEF TypeOK, NoBlock
  <2>4. GoodBlock(n)'
    BY <2>3, EmptyGood DEF GoodBlock
  <2> QED  BY <1>0, <2>1, <2>2, <2>4 DEF TypeOK
<1>5. ASSUME NEW n \in Nodes, NEW p \in Nodes, SyncChain(n, p) PROVE CallsInv'
  <2>1. chain' = [chain EXCEPT ![n] = chain[p]]
    BY <1>5, SyncCopies
  <2>2. block[n] = NoBlock /\ block' = block /\ todo' = todo
    BY <1>5 DEF SyncChain
  <2>3. chain'[n] = chain[p] /\ GoodChain(chain[p])
    BY <2>1 DEF TypeOK, CallsInv
  <2>4. Range(todo[n]) = {} /\ Range(block[n].state.calls) = {}
    BY <2>2, EmptyGood DEF CallsInv, GoodBlock, NoBlock
  <2>5. GoodBlock(n)'
    BY <2>2, <2>4 DEF CallsInv, GoodBlock
  <2> QED  BY <1>0, <2>1, <2>2, <2>3, <2>5 DEF TypeOK
<1> QED  BY <1>1, <1>2, <1>3, <1>4, <1>5 DEF Next

LEMMA CallsCorrect == Spec => []CallsInv
<1>1. Init => CallsInv
  <2> SUFFICES ASSUME Init, NEW n \in Nodes PROVE GoodChain(chain[n]) /\ GoodBlock(n)
    BY DEF CallsInv
  <2>1. chain[n] = <<Genesis>> /\ todo[n] = <<>> /\ block[n] = NoBlock
    BY DEF Init
  <2>2. DOMAIN chain[n] = {1} /\ chain[n][1] = Genesis
    BY <2>1
  <2>3. GoodChain(chain[n])
    BY <2>2, EmptyGood DEF GoodChain, Genesis
  <2> QED  BY <2>1, <2>3, EmptyGood DEF GoodBlock, NoBlock
<1> QED  BY <1>1, TypeCorrect, CallsStep, PTL DEF Spec

\* However blocks are created, given up by an exception and exchanged, a
\* contract function takes effect at most once for its transaction, and only
\* if it returns.
THEOREM CallsAlwaysOnce == Spec => []CallsOnce
<1>1. CallsInv => CallsOnce
  BY DEF CallsInv, CallsOnce, GoodChain, GoodCalls
<1> QED  BY <1>1, CallsCorrect, PTL

-----------------------------------------------------------------------------
(* Debts *)

\* setdefault adds accounts with nothing in them.
LEMMA WithAccountsExplained ==
    ASSUME NEW b \in Ledger, NEW t \in Txs, NEW ids, Explained(b, ids)
    PROVE  Explained(WithAccounts(b, t), ids)
BY DEF Explained, WithAccounts

\* A transfer that passes the funds test leaves no new debt, to the sender or
\* to the destination, but that of the destination of a negative value.
LEMMA TransferredExplained ==
    ASSUME NEW b \in Ledger, NEW t \in Txs, NEW ids, t \in ids, Covered(b, t), Explained(b, ids),
           Tx[t].sender \in DOMAIN b, Tx[t].destination \in DOMAIN b
    PROVE  Explained(Transferred(b, t), ids)
<1> DEFINE s == Tx[t].sender
           d == Tx[t].destination
           v == Tx[t].value
           paid == [b EXCEPT ![s] = @ - v]
           new == Transferred(b, t)
<1>1. v \in Int /\ b \in [DOMAIN b -> Int]
  BY LedgerIs, BalancesAssumption
<1>2. paid \in [DOMAIN b -> Int]
  BY <1>1
<1>3. new = [paid EXCEPT ![d] = @ + v]
  BY DEF Transferred
<1>4. /\ DOMAIN new = DOMAIN b
      /\ \A a \in DOMAIN b : new[a] = paid[a] + (IF a = d THEN v ELSE 0)
      /\ \A a \in DOMAIN b : paid[a] = b[a] - (IF a = s THEN v ELSE 0)
  BY <1>1, <1>2, <1>3
<1> SUFFICES ASSUME NEW a \in DOMAIN b, new[a] < 0
             PROVE  \E u \in ids : Tx[u].value < 0 /\ Tx[u].destination = a
  BY <1>4 DEF Explained
<1> HIDE DEF new, paid
<1>5. CASE b[a] < 0
  BY <1>5 DEF Explained
<1>6. CASE b[a] >= 0
  <2>1. CASE v < 0
    <3>1. a = d
      <4> SUFFICES ASSUME a # d PROVE FALSE
        OBVIOUS
      <4>1. new[a] = b[a] \/ new[a] = b[a] - v
        BY <1>1, <1>4
      <4> QED  BY <1>1, <1>6, <2>1, <4>1
    <3> QED  BY <2>1, <3>1
  <2>2. CASE v >= 0
    <3>1. b[s] >= v \/ v = 0
      BY DEF Covered
    <3>2. paid[a] >= 0
      BY <1>1, <1>4, <1>6, <2>2, <3>1
    <3>3. new[a] >= 0
      BY <1>1, <1>2, <1>4, <2>2, <3>2
    <3> QED  BY <1>1, <1>2, <1>4, <3>3
  <2> QED  BY <1>1, <2>1, <2>2
<1> QED  BY <1>1, <1>5, <1>6

\* apply_transaction leaves no debt without an explanation.
LEMMA AppliedExplained ==
    ASSUME NEW s \in State, NEW t \in Txs, NEW ids, t \in ids, Explained(s.balances, ids)
    PROVE  Explained(Applied(s, t).balances, ids)
<1> DEFINE b == WithAccounts(s.balances, t)
<1>1. s.balances \in Ledger
  BY DEF State
<1>2. b \in Ledger /\ Tx[t].sender \in DOMAIN b /\ Tx[t].destination \in DOMAIN b
  BY <1>1, WithAccountsType
<1>3. Explained(b, ids)
  BY <1>1, WithAccountsExplained
<1>4. CASE Covered(b, t)
  <2>1. Applied(s, t).balances = Transferred(b, t)
    BY <1>4 DEF Applied
  <2> QED  BY <1>2, <1>3, <1>4, <2>1, TransferredExplained
<1>5. CASE ~Covered(b, t)
  <2>1. Applied(s, t) = [s EXCEPT !.balances = b]
    BY <1>5 DEF Applied
  <2>2. Applied(s, t).balances = b
    BY <2>1 DEF State
  <2> QED  BY <1>3, <2>2
<1> QED  BY <1>4, <1>5

\* More transactions explain no less, and who owns nothing owes nothing.
LEMMA ExplainedMore ==
    ASSUME NEW b, NEW ids, NEW more, ids \subseteq more, Explained(b, ids)
    PROVE  Explained(b, more)
BY DEF Explained

LEMMA NothingExplained == \A ids : Explained(<<>>, ids)
BY DEF Explained

\* The transactions of a chain with one more block.
LEMMA IdsAppend ==
    ASSUME NEW c \in Seq(Block), NEW b \in Block
    PROVE  /\ \A k \in 1..Len(c) : IdsUpTo(Append(c, b), k) = IdsUpTo(c, k)
           /\ IdsUpTo(Append(c, b), Len(c) + 1) = IdsUpTo(c, Len(c)) \cup Range(b.data)
<1> DEFINE d == Append(c, b)
<1>1. /\ Len(c) \in Nat /\ d[Len(c) + 1] = b
      /\ \A i \in 1..Len(c) : d[i] = c[i]
  OBVIOUS
<1> HIDE DEF d
<1>2. ASSUME NEW k \in 1..Len(c) PROVE IdsUpTo(d, k) = IdsUpTo(c, k)
  <2>1. \A i \in 1..k : d[i] = c[i]
    BY <1>1
  <2> QED  BY <2>1 DEF IdsUpTo
<1>3. IdsUpTo(d, Len(c) + 1) = IdsUpTo(c, Len(c)) \cup Range(b.data)
  <2>1. 1..(Len(c) + 1) = 1..Len(c) \cup {Len(c) + 1}
    BY <1>1
  <2> QED  BY <1>1, <2>1 DEF IdsUpTo
<1> QED  BY <1>2, <1>3 DEF d

\* The states of one node's chain and of its new block have debts that their
\* transactions explain.
DebtsOf(n) ==
    /\ \A k \in DOMAIN chain[n] : Explained(chain[n][k].state.balances, IdsUpTo(chain[n], k))
    /\ Explained(block[n].state.balances, OnChain(n) \cup Range(block[n].data))

\* Every step keeps the debts explained.
LEMMA DebtStep == TypeOK /\ CallsInv /\ OnlyNegativeOverdraws /\ [Next]_vars => OnlyNegativeOverdraws'
<1> SUFFICES ASSUME TypeOK, CallsInv, OnlyNegativeOverdraws, [Next]_vars PROVE OnlyNegativeOverdraws'
  OBVIOUS
<1>0. ASSUME NEW n \in Nodes,
             \A m \in Nodes \ {n} : chain'[m] = chain[m] /\ block'[m] = block[m],
             DebtsOf(n)'
      PROVE  OnlyNegativeOverdraws'
  <2> SUFFICES ASSUME NEW m \in Nodes PROVE DebtsOf(m)'
    BY DEF OnlyNegativeOverdraws, DebtsOf
  <2>1. CASE m # n
    <3>1. DebtsOf(m) /\ chain'[m] = chain[m] /\ block'[m] = block[m]
      BY <1>0, <2>1 DEF OnlyNegativeOverdraws, DebtsOf
    <3> QED  BY <3>1 DEF DebtsOf, OnChain
  <2> QED  BY <1>0, <2>1
<1>1. CASE UNCHANGED vars
  BY <1>1 DEF OnlyNegativeOverdraws, OnChain, vars
<1>2. ASSUME NEW n \in Nodes, StartBlock(n) PROVE OnlyNegativeOverdraws'
  <2>1. PICK d \in Mempools(n) :
          /\ block' = [block EXCEPT ![n] = [data |-> d, state |-> PreviousState(n)]]
          /\ chain' = chain
    BY <1>2 DEF StartBlock
  <2>2. block'[n].data = d /\ block'[n].state = PreviousState(n) /\ OnChain(n)' = OnChain(n)
    BY <2>1 DEF TypeOK, OnChain
  <2>3. DebtsOf(n)
    BY DEF OnlyNegativeOverdraws, DebtsOf
  <2>4. Explained(PreviousState(n).balances, IdsUpTo(chain[n], Len(chain[n])))
    BY <2>3, LastIs DEF PreviousState, DebtsOf
  <2>5. IdsUpTo(chain[n], Len(chain[n])) = OnChain(n)
    <3>1. DOMAIN chain[n] = 1..Len(chain[n])
      BY DEF TypeOK
    <3> QED  BY <3>1 DEF IdsUpTo, OnChain
  <2>6. Explained(PreviousState(n).balances, OnChain(n) \cup Range(d))
    BY <2>4, <2>5, ExplainedMore
  <2> QED  BY <1>0, <2>1, <2>2, <2>3, <2>6 DEF TypeOK, DebtsOf
<1>3. ASSUME NEW n \in Nodes, ApplyNext(n) PROVE OnlyNegativeOverdraws'
  <2> DEFINE t == Head(todo[n])
             s == block[n].state
             ids == OnChain(n) \cup Range(block[n].data)
  <2>1. todo[n] \in Seq(Txs) /\ todo[n] # <<>> /\ chain' = chain /\ OnChain(n)' = OnChain(n)
    BY <1>3 DEF ApplyNext, TypeOK, OnChain
  <2>2. t \in Txs /\ s \in State /\ DebtsOf(n)
    <3>1. t \in Txs /\ s \in State
      BY <2>1 DEF TypeOK, Block
    <3>2. DebtsOf(n)
      BY DEF OnlyNegativeOverdraws, DebtsOf
    <3> QED  BY <3>1, <3>2
  <2>3. t \in ids
    BY <2>1, TailGood DEF CallsInv, GoodBlock
  <2>4. CASE Raises(s, t)
    <3>1. block' = [block EXCEPT ![n] = NoBlock]
      BY <1>3, <2>4 DEF ApplyNext
    <3>2. block'[n].state.balances = <<>>
      BY <3>1 DEF TypeOK, NoBlock
    <3> QED  BY <1>0, <2>1, <2>2, <3>1, <3>2, NothingExplained DEF TypeOK, DebtsOf
  <2>5. CASE ~Raises(s, t)
    <3>1. block' = [block EXCEPT ![n].state = Applied(s, t)]
      BY <1>3, <2>5 DEF ApplyNext
    <3>2. block'[n].data = block[n].data /\ block'[n].state = Applied(s, t)
      BY <3>1 DEF TypeOK, Block
    <3>3. Explained(Applied(s, t).balances, ids)
      BY <2>2, <2>3, AppliedExplained DEF DebtsOf
    <3> QED  BY <1>0, <2>1, <2>2, <3>1, <3>2, <3>3 DEF TypeOK, DebtsOf
  <2> QED  BY <2>4, <2>5
<1>4. ASSUME NEW n \in Nodes, AppendBlock(n) PROVE OnlyNegativeOverdraws'
  <2> DEFINE c == chain[n]
  <2>1. /\ chain' = [chain EXCEPT ![n] = Append(c, block[n])]
        /\ block' = [block EXCEPT ![n] = NoBlock]
    BY <1>4 DEF AppendBlock
  <2>2. c \in Seq(Block) /\ block[n] \in Block /\ chain'[n] = Append(c, block[n])
    BY <2>1 DEF TypeOK
  <2>3. block'[n].state.balances = <<>>
    BY <2>1 DEF TypeOK, NoBlock
  <2>4. DebtsOf(n)
    BY DEF OnlyNegativeOverdraws, DebtsOf
  <2>5. IdsUpTo(c, Len(c)) = OnChain(n)
    BY <2>2 DEF IdsUpTo, OnChain
  <2>6. ASSUME NEW k \in DOMAIN chain'[n]
        PROVE  Explained(chain'[n][k].state.balances, IdsUpTo(chain'[n], k))
    <3>1. CASE k \in 1..Len(c)
      BY <2>2, <2>4, <3>1, IdsAppend DEF DebtsOf
    <3>2. CASE k = Len(c) + 1
      <4>1. chain'[n][k] = block[n]
        BY <2>2, <3>2
      <4>2. IdsUpTo(chain'[n], k) = OnChain(n) \cup Range(block[n].data)
        BY <2>2, <2>5, <3>2, IdsAppend
      <4> QED  BY <2>4, <4>1, <4>2 DEF DebtsOf
    <3> QED  BY <2>2, <3>1, <3>2
  <2>7. Explained(block'[n].state.balances, OnChain(n)' \cup Range(block'[n].data))
    BY <2>3, NothingExplained
  <2>8. DebtsOf(n)'
    BY <2>6, <2>7 DEF DebtsOf
  <2>9. \A m \in Nodes \ {n} : chain'[m] = chain[m] /\ block'[m] = block[m]
    BY <2>1 DEF TypeOK
  <2> QED  BY <1>0, <2>8, <2>9
<1>5. ASSUME NEW n \in Nodes, NEW p \in Nodes, SyncChain(n, p) PROVE OnlyNegativeOverdraws'
  <2>1. chain' = [chain EXCEPT ![n] = chain[p]]
    BY <1>5, SyncCopies
  <2>2. block' = block /\ block[n] = NoBlock /\ chain'[n] = chain[p]
    BY <1>5, <2>1 DEF SyncChain, TypeOK
  <2>3. block'[n].state.balances = <<>>
    BY <2>2 DEF NoBlock
  <2>4. \A k \in DOMAIN chain[p] : Explained(chain[p][k].state.balances, IdsUpTo(chain[p], k))
    BY DEF OnlyNegativeOverdraws
  <2>5. Explained(block'[n].state.balances, OnChain(n)' \cup Range(block'[n].data))
    BY <2>3, NothingExplained
  <2>6. DebtsOf(n)'
    BY <2>2, <2>4, <2>5 DEF DebtsOf
  <2>7. \A m \in Nodes \ {n} : chain'[m] = chain[m] /\ block'[m] = block[m]
    BY <2>1, <2>2 DEF TypeOK
  <2> QED  BY <1>0, <2>6, <2>7
<1> QED  BY <1>1, <1>2, <1>3, <1>4, <1>5 DEF Next

\* However transfers are ordered, in blocks created, given up and exchanged in
\* any way, and whatever the signs of their values, an account is overdrawn only
\* if some transaction up to that block names it as the destination of a
\* negative value: the funds test stops every other way.
THEOREM OnlyNegativeValuesOverdraw == Spec => []OnlyNegativeOverdraws
<1>1. Init => OnlyNegativeOverdraws
  <2> SUFFICES ASSUME Init, NEW n \in Nodes PROVE DebtsOf(n)
    BY DEF OnlyNegativeOverdraws, DebtsOf
  <2>1. chain[n] = <<Genesis>> /\ block[n] = NoBlock
    BY DEF Init
  <2>2. DOMAIN chain[n] = {1} /\ chain[n][1] = Genesis
    BY <2>1
  <2>3. \A ids : Explained(Funds, ids)
    BY BalancesAssumption DEF Explained
  <2> QED  BY <2>1, <2>2, <2>3, NothingExplained DEF DebtsOf, Genesis, NoBlock
<1> QED  BY <1>1, TypeCorrect, CallsCorrect, DebtStep, PTL DEF Spec

-----------------------------------------------------------------------------
(* Folds *)

\* Every set of natural numbers that is not empty has a least one.
LEMMA Least ==
    ASSUME NEW S \in SUBSET Nat, S # {}
    PROVE  \E x \in S : \A y \in S : x <= y
<1>1. PICK x \in S : \A y \in S : ~(<<y, x>> \in OpToRel(<, Nat))
  BY WFMin, NatLessThanWellFounded
<1>2. \A y \in S : ~(y < x)
  BY <1>1 DEF OpToRel
<1> QED  BY <1>2

\* Where some subset of a finite set is bad, there is a bad one that is good
\* without any of its elements.
LEMMA MinimalSet ==
    ASSUME NEW S, IsFiniteSet(S), NEW Bad \in SUBSET (SUBSET S), Bad # {}
    PROVE  \E T \in Bad : \A x \in T : T \ {x} \notin Bad
<1> DEFINE N == {n \in Nat : \E T \in Bad : Cardinality(T) = n}
<1>1. \A T \in Bad : IsFiniteSet(T) /\ Cardinality(T) \in Nat
  BY FS_Subset, FS_CardinalityType
<1>2. N \in SUBSET Nat /\ N # {}
  BY <1>1
<1>3. PICK n \in N : \A m \in N : n <= m
  BY <1>2, Least
<1>4. PICK T \in Bad : Cardinality(T) = n
  BY <1>3
<1>5. ASSUME NEW x \in T PROVE T \ {x} \notin Bad
  <2>1. Cardinality(T \ {x}) = n - 1 /\ n \in Nat
    BY <1>1, <1>4, FS_RemoveElement
  <2> SUFFICES ASSUME T \ {x} \in Bad PROVE FALSE
    OBVIOUS
  <2>2. n - 1 \in N
    BY <1>1, <2>1
  <2> QED  BY <1>3, <2>1, <2>2
<1> QED  BY <1>4, <1>5

\* sel chooses an element of every set.
Chooses(sel, S) == \A s \in SUBSET S : s # {} => sel[s] \in s

\* g takes the elements of a set in the order that sel gives.
IsFold(g, S, V, base, sel, step) ==
    /\ g \in [SUBSET S -> V]
    /\ \A s \in SUBSET S : g[s] = IF s = {} THEN base ELSE step[<<s, g[s \ {sel[s]}]>>]

\* A function on the subsets of a finite set that is defined by taking one
\* element after the other, in a given order, exists.
LEMMA FoldExists ==
    ASSUME NEW S, IsFiniteSet(S), NEW V, NEW base \in V, NEW sel, Chooses(sel, S),
           NEW step \in [(SUBSET S) \X V -> V]
    PROVE  \E g : IsFold(g, S, V, base, sel, step)
<1> DEFINE Small(n) == {s \in SUBSET S : Cardinality(s) <= n}
           Right(g, n) == \A s \in Small(n) :
                            g[s] = IF s = {} THEN base ELSE step[<<s, g[s \ {sel[s]}]>>]
           Bad == {n \in Nat : ~\E g \in [Small(n) -> V] : Right(g, n)}
<1>1. \A s \in SUBSET S : IsFiniteSet(s) /\ Cardinality(s) \in Nat /\ (Cardinality(s) = 0 <=> s = {})
  BY FS_Subset, FS_CardinalityType, FS_EmptySet
<1>2. Bad = {}
  <2> SUFFICES ASSUME Bad # {} PROVE FALSE
    OBVIOUS
  <2>1. PICK n \in Bad : \A m \in Bad : n <= m
    BY Least
  <2>2. n # 0
    <3> DEFINE g == [s \in Small(0) |-> base]
    <3>1. \A s \in Small(0) : s = {}
      BY <1>1
    <3>2. g \in [Small(0) -> V] /\ Right(g, 0)
      BY <3>1
    <3>3. 0 \notin Bad
      BY <3>2
    <3> QED  BY <2>1, <3>3
  <2>3. PICK g \in [Small(n - 1) -> V] : Right(g, n - 1)
    <3>1. n - 1 \in Nat /\ ~(n <= n - 1)
      BY <2>2
    <3> QED  BY <2>1, <3>1
  <2> DEFINE h == [s \in Small(n) |-> IF s = {} THEN base ELSE step[<<s, g[s \ {sel[s]}]>>]]
  <2>4. ASSUME NEW s \in Small(n), s # {}
        PROVE  s \ {sel[s]} \in Small(n - 1)
    <3>1. sel[s] \in s /\ Cardinality(s) \in Nat /\ Cardinality(s) <= n /\ IsFiniteSet(s)
      BY <1>1, <2>4 DEF Chooses
    <3>2. Cardinality(s \ {sel[s]}) = Cardinality(s) - 1
      <4>1. \A x \in s : Cardinality(s \ {x}) = Cardinality(s) - 1
        BY <3>1, FS_RemoveElement
      <4> QED  BY <3>1, <4>1
    <3> QED  BY <3>1, <3>2
  <2>5. h \in [Small(n) -> V]
    BY <2>3, <2>4
  <2>6. \A s \in Small(n - 1) : s \in Small(n) /\ h[s] = g[s]
    <3> SUFFICES ASSUME NEW s \in Small(n - 1) PROVE s \in Small(n) /\ h[s] = g[s]
      OBVIOUS
    <3>1. s \in Small(n)
      BY <1>1
    <3>2. g[s] = IF s = {} THEN base ELSE step[<<s, g[s \ {sel[s]}]>>]
      BY <2>3
    <3> QED  BY <3>1, <3>2
  <2>7. Right(h, n)
    <3> SUFFICES ASSUME NEW s \in Small(n)
                 PROVE  h[s] = IF s = {} THEN base ELSE step[<<s, h[s \ {sel[s]}]>>]
      OBVIOUS
    <3>1. CASE s = {}
      BY <3>1
    <3>2. CASE s # {}
      <4>1. h[s \ {sel[s]}] = g[s \ {sel[s]}]
        BY <2>4, <2>6, <3>2
      <4> HIDE DEF Small
      <4> QED  BY <3>2, <4>1
    <3> QED  BY <3>1, <3>2
  <2> QED  BY <2>1, <2>5, <2>7
<1>3. Cardinality(S) \in Nat /\ Small(Cardinality(S)) = SUBSET S
  BY <1>1, FS_Subset, FS_CardinalityType
<1>4. PICK g \in [Small(Cardinality(S)) -> V] : Right(g, Cardinality(S))
  BY <1>2, <1>3
<1> QED  BY <1>3, <1>4 DEF IsFold

-----------------------------------------------------------------------------
(* Sums *)

\* F gives the sum of b over each set of accounts, in any order.
Sums(F, b) ==
    /\ F \in [SUBSET DOMAIN b -> Int] /\ F[{}] = 0
    /\ \A s \in SUBSET DOMAIN b : \A x \in s : F[s] = b[x] + F[s \ {x}]

\* A function that takes the accounts in some order gives the sums.
LEMMA AnyOrder ==
    ASSUME NEW b, IsFiniteSet(DOMAIN b), b \in [DOMAIN b -> Int], NEW sel, NEW F \in [SUBSET DOMAIN b -> Int],
           Chooses(sel, DOMAIN b),
           \A s \in SUBSET DOMAIN b : F[s] = IF s = {} THEN 0 ELSE b[sel[s]] + F[s \ {sel[s]}]
    PROVE  Sums(F, b)
<1> DEFINE Bad == {s \in SUBSET DOMAIN b : \E x \in s : F[s] # b[x] + F[s \ {x}]}
<1> SUFFICES ASSUME Bad # {} PROVE FALSE
  BY DEF Sums
<1>1. PICK s \in Bad : \A x \in s : s \ {x} \notin Bad
  <2>1. Bad \in SUBSET (SUBSET DOMAIN b)
    OBVIOUS
  <2> HIDE DEF Bad
  <2> QED  BY <2>1, MinimalSet
<1>2. PICK x \in s : F[s] # b[x] + F[s \ {x}]
  BY <1>1
<1>3. s \in SUBSET DOMAIN b
  BY <1>1
<1>4. PICK c \in s : c = sel[s] /\ F[s] = b[c] + F[s \ {c}]
  BY <1>2, <1>3 DEF Chooses
<1>5. c # x
  BY <1>2, <1>4
<1>6. F[s \ {c}] = b[x] + F[(s \ {c}) \ {x}]
  <2>1. s \ {c} \in SUBSET DOMAIN b /\ x \in s \ {c} /\ s \ {c} \notin Bad
    BY <1>1, <1>3, <1>5
  <2> QED  BY <2>1
<1>7. F[s \ {x}] = b[c] + F[(s \ {x}) \ {c}]
  <2>1. s \ {x} \in SUBSET DOMAIN b /\ c \in s \ {x} /\ s \ {x} \notin Bad
    BY <1>1, <1>3, <1>5
  <2> QED  BY <2>1
<1>8. (s \ {c}) \ {x} = (s \ {x}) \ {c}
  OBVIOUS
<1>9. b[x] \in Int /\ b[c] \in Int /\ F[(s \ {x}) \ {c}] \in Int
  BY <1>3
<1>10. F[s] = b[x] + F[s \ {x}]
  <2>1. \A i, j, q \in Int : i + (j + q) = j + (i + q)
    OBVIOUS
  <2>2. F[s] = b[c] + (b[x] + F[(s \ {x}) \ {c}])
    BY <1>4, <1>6, <1>8
  <2> QED  BY <1>7, <1>9, <2>1, <2>2
<1> QED  BY <1>2, <1>10

\* The total of a ledger is the sum over its accounts.
LEMMA TotalIs ==
    ASSUME NEW b, IsFiniteSet(DOMAIN b), b \in [DOMAIN b -> Int]
    PROVE  \E F : Sums(F, b) /\ Total(b) = F[DOMAIN b]
<1> DEFINE S == DOMAIN b
           sel == [s \in SUBSET S |-> CHOOSE x \in s : TRUE]
           step == [p \in (SUBSET S) \X Int |-> IF p[1] = {} THEN 0 ELSE b[sel[p[1]]] + p[2]]
           Rec(F) == [s \in SUBSET S |-> IF s = {} THEN 0
                                          ELSE b[CHOOSE x \in s : TRUE] + F[s \ {CHOOSE x \in s : TRUE}]]
           H == CHOOSE F : F = Rec(F)
<1>1. Chooses(sel, S)
  BY DEF Chooses
<1>0. \A s \in SUBSET S, v \in Int : step[<<s, v>>] = IF s = {} THEN 0 ELSE b[sel[s]] + v
  <2> HIDE DEF sel
  <2> SUFFICES ASSUME NEW s \in SUBSET S, NEW v \in Int
               PROVE  step[<<s, v>>] = IF s = {} THEN 0 ELSE b[sel[s]] + v
    OBVIOUS
  <2>1. <<s, v>> \in (SUBSET S) \X Int /\ <<s, v>>[1] = s /\ <<s, v>>[2] = v
    OBVIOUS
  <2> QED  BY <2>1
<1>2. step \in [(SUBSET S) \X Int -> Int]
  <2> SUFFICES ASSUME NEW p \in (SUBSET S) \X Int
               PROVE  (IF p[1] = {} THEN 0 ELSE b[sel[p[1]]] + p[2]) \in Int
    OBVIOUS
  <2>1. p[1] # {} => b[sel[p[1]]] \in Int
    <3> HIDE DEF sel
    <3> QED  BY <1>1 DEF Chooses
  <2> HIDE DEF sel
  <2> QED  BY <2>1
<1>3. PICK g : IsFold(g, S, Int, 0, sel, step)
  <2>1. IsFiniteSet(S) /\ 0 \in Int
    OBVIOUS
  <2> HIDE DEF S, sel, step
  <2> QED  BY <1>1, <1>2, <2>1, FoldExists
<1>4. \A s \in SUBSET S : g[s] = IF s = {} THEN 0 ELSE b[sel[s]] + g[s \ {sel[s]}]
  <2> SUFFICES ASSUME NEW s \in SUBSET S, s # {} PROVE g[s] = b[sel[s]] + g[s \ {sel[s]}]
    BY <1>3 DEF IsFold
  <2>1. g[s \ {sel[s]}] \in Int
    BY <1>3 DEF IsFold
  <2> HIDE DEF step, sel
  <2> QED  BY <1>0, <1>3, <2>1 DEF IsFold
<1>5. g = Rec(g)
  <2>1. g = [s \in SUBSET S |-> g[s]]
    BY <1>3 DEF IsFold
  <2>2. \A s \in SUBSET S : g[s] = IF s = {} THEN 0
                                    ELSE b[CHOOSE x \in s : TRUE] + g[s \ {CHOOSE x \in s : TRUE}]
    <3> SUFFICES ASSUME NEW s \in SUBSET S, s # {}
                 PROVE  g[s] = b[CHOOSE x \in s : TRUE] + g[s \ {CHOOSE x \in s : TRUE}]
      BY <1>4
    <3>1. sel[s] = CHOOSE x \in s : TRUE
      OBVIOUS
    <3> HIDE DEF sel
    <3> QED  BY <1>4, <3>1
  <2> HIDE DEF sel, step
  <2> QED  BY <2>1, <2>2
<1>6. H = Rec(H)
  <2> HIDE DEF Rec
  <2> QED  BY <1>5
<1>7. Total(b) = H[S]
  BY DEF Total, FoldFunction, FoldFunctionOnSet, MapThenFoldSet
<1>8. \A s \in SUBSET S : H[s] = IF s = {} THEN 0 ELSE b[sel[s]] + H[s \ {sel[s]}]
  <2> HIDE DEF H
  <2> QED  BY <1>6
<1>9. H \in [SUBSET S -> Int]
  <2> DEFINE Bad == {s \in SUBSET S : H[s] # g[s]}
  <2>1. Bad = {}
    <3> SUFFICES ASSUME Bad # {} PROVE FALSE
      OBVIOUS
    <3>1. PICK s \in Bad : \A x \in s : s \ {x} \notin Bad
      <4>1. Bad \in SUBSET (SUBSET S)
        OBVIOUS
      <4> HIDE DEF Bad
      <4> QED  BY <4>1, MinimalSet
    <3>2. s \in SUBSET S /\ H[s] # g[s]
      BY <3>1
    <3>3. s # {} => H[s \ {sel[s]}] = g[s \ {sel[s]}]
      <4> HIDE DEF H, sel
      <4> QED  BY <1>1, <3>1, <3>2 DEF Chooses
    <3> HIDE DEF H, sel, step, Bad
    <3> QED  BY <1>4, <1>8, <3>2, <3>3
  <2>2. \A s \in SUBSET S : H[s] = g[s]
    BY <2>1
  <2>4. \A s \in SUBSET S : g[s] \in Int
    BY <1>3 DEF IsFold
  <2> HIDE DEF H
  <2>3. H = [s \in SUBSET S |-> H[s]]
    BY <1>6
  <2> QED  BY <2>2, <2>3, <2>4
<1>10. Sums(H, b)
  <2> HIDE DEF H, sel
  <2> QED  BY <1>1, <1>8, <1>9, AnyOrder
<1> QED  BY <1>7, <1>10

\* Where two ledgers agree, so do their sums.
LEMMA SumsAgree ==
    ASSUME NEW b, NEW c, NEW F, NEW G, Sums(F, b), Sums(G, c),
           NEW T, IsFiniteSet(T), T \subseteq DOMAIN b, T \subseteq DOMAIN c,
           \A x \in T : b[x] = c[x]
    PROVE  F[T] = G[T]
<1> DEFINE Bad == {s \in SUBSET T : F[s] # G[s]}
<1> SUFFICES ASSUME Bad # {} PROVE FALSE
  OBVIOUS
<1>1. PICK s \in Bad : \A x \in s : s \ {x} \notin Bad
  <2>1. Bad \in SUBSET (SUBSET T)
    OBVIOUS
  <2> HIDE DEF Bad
  <2> QED  BY <2>1, MinimalSet
<1>2. s \in SUBSET DOMAIN b /\ s \in SUBSET DOMAIN c /\ s \subseteq T /\ F[s] # G[s]
  BY <1>1
<1>3. PICK x \in s : TRUE
  BY <1>2 DEF Sums
<1>4. F[s \ {x}] = G[s \ {x}]
  BY <1>1, <1>3
<1>5. F[s] = b[x] + F[s \ {x}] /\ G[s] = c[x] + G[s \ {x}]
  BY <1>2, <1>3 DEF Sums
<1> QED  BY <1>2, <1>3, <1>4, <1>5

\* setdefault adds accounts without money.
LEMMA SameTotal ==
    ASSUME NEW b \in Ledger, NEW t \in Txs, IsFiniteSet(DOMAIN b)
    PROVE  /\ IsFiniteSet(DOMAIN WithAccounts(b, t))
           /\ Total(WithAccounts(b, t)) = Total(b)
<1> DEFINE c == WithAccounts(b, t)
           s == Tx[t].sender
           d == Tx[t].destination
           D == DOMAIN b
<1>1. c \in Ledger /\ DOMAIN c = (D \cup {s}) \cup {d} /\ \A a \in D : c[a] = b[a]
  <2>1. DOMAIN c = D \cup {s, d}
    BY DEF WithAccounts
  <2> QED  BY <2>1, WithAccountsType
<1>2. IsFiniteSet(D \cup {s}) /\ IsFiniteSet(DOMAIN c)
  BY <1>1, FS_AddElement
<1>3. b \in [D -> Int] /\ c \in [DOMAIN c -> Int]
  BY <1>1, LedgerIs
<1>4. PICK F : Sums(F, b) /\ Total(b) = F[D]
  BY <1>3, TotalIs
<1>5. PICK G : Sums(G, c) /\ Total(c) = G[DOMAIN c]
  BY <1>2, <1>3, TotalIs
<1>6. G[D] = F[D]
  BY <1>1, <1>4, <1>5, SumsAgree
<1>7. ASSUME NEW x \in DOMAIN c, x \notin D PROVE c[x] = 0
  <2>1. c[x] = IF x \in D THEN b[x] ELSE 0
    BY <1>1 DEF WithAccounts
  <2> QED  BY <1>7, <2>1
<1>8. \A A \in SUBSET DOMAIN c, x \in DOMAIN c : D \subseteq A => G[A \cup {x}] = G[A]
  <2> SUFFICES ASSUME NEW A \in SUBSET DOMAIN c, NEW x \in DOMAIN c, D \subseteq A, x \notin A
               PROVE  G[A \cup {x}] = G[A]
    <3>1. \A A \in SUBSET DOMAIN c, x \in DOMAIN c : x \in A => A \cup {x} = A
      OBVIOUS
    <3> QED  BY <3>1
  <2> HIDE DEF c
  <2>1. (A \cup {x}) \ {x} = A /\ A \cup {x} \in SUBSET DOMAIN c
    OBVIOUS
  <2>2. G[A \cup {x}] = c[x] + G[A] /\ G[A] \in Int
    BY <1>5, <2>1 DEF Sums
  <2> QED  BY <1>7, <2>2
<1>9. G[D \cup {s}] = G[D] /\ G[DOMAIN c] = G[D \cup {s}]
  <2>1. /\ D \in SUBSET DOMAIN c /\ D \cup {s} \in SUBSET DOMAIN c
        /\ s \in DOMAIN c /\ d \in DOMAIN c /\ D \subseteq D \cup {s}
    BY <1>1
  <2>2. G[D \cup {s}] = G[D]
    BY <1>8, <2>1
  <2>3. G[(D \cup {s}) \cup {d}] = G[D \cup {s}]
    <3> HIDE DEF c, s, d, D
    <3> QED  BY <1>8, <2>1
  <2> QED  BY <1>1, <2>2, <2>3
<1> QED  BY <1>2, <1>4, <1>5, <1>6, <1>9

\* A ledger with one balance changed.
LEMMA OneChanged ==
    ASSUME NEW b, IsFiniteSet(DOMAIN b), b \in [DOMAIN b -> Int], NEW x \in DOMAIN b, NEW v \in Int
    PROVE  Total([b EXCEPT ![x] = v]) = Total(b) - b[x] + v /\ Total(b) \in Int
<1> DEFINE c == [b EXCEPT ![x] = v]
           D == DOMAIN b
<1>1. /\ DOMAIN c = D /\ c \in [DOMAIN c -> Int] /\ c[x] = v
      /\ \A a \in D \ {x} : c[a] = b[a]
  OBVIOUS
<1> HIDE DEF c
<1>2. PICK F : Sums(F, b) /\ Total(b) = F[D]
  BY TotalIs
<1>3. PICK G : Sums(G, c) /\ Total(c) = G[D]
  BY <1>1, TotalIs
<1>4. F[D \ {x}] = G[D \ {x}]
  <2>1. IsFiniteSet(D \ {x})
    BY FS_RemoveElement
  <2> QED  BY <1>1, <1>2, <1>3, <2>1, SumsAgree
<1>5. F[D] = b[x] + F[D \ {x}] /\ G[D] = v + G[D \ {x}] /\ F[D] \in Int /\ F[D \ {x}] \in Int /\ b[x] \in Int
  BY <1>1, <1>2, <1>3 DEF Sums
<1>6. Total(c) = Total(b) - b[x] + v /\ Total(b) \in Int
  BY <1>2, <1>3, <1>4, <1>5
<1> QED  BY <1>6 DEF c

\* A transfer moves money, to the sender too.
LEMMA TransferKeeps ==
    ASSUME NEW b \in Ledger, NEW t \in Txs, IsFiniteSet(DOMAIN b),
           Tx[t].sender \in DOMAIN b, Tx[t].destination \in DOMAIN b
    PROVE  DOMAIN Transferred(b, t) = DOMAIN b /\ Total(Transferred(b, t)) = Total(b)
<1> DEFINE s == Tx[t].sender
           d == Tx[t].destination
           v == Tx[t].value
           paid == [b EXCEPT ![s] = b[s] - v]
<1>1. b \in [DOMAIN b -> Int] /\ v \in Int /\ b[s] \in Int
  BY LedgerIs, BalancesAssumption
<1>2. paid \in [DOMAIN paid -> Int] /\ DOMAIN paid = DOMAIN b /\ paid[d] \in Int
  BY <1>1
<1>3. Total(paid) = Total(b) - b[s] + (b[s] - v) /\ Total(b) \in Int
  BY <1>1, OneChanged
<1>4. Transferred(b, t) = [paid EXCEPT ![d] = paid[d] + v]
  BY DEF Transferred
<1> HIDE DEF paid
<1>5. Total([paid EXCEPT ![d] = paid[d] + v]) = Total(paid) - paid[d] + (paid[d] + v)
  <2>1. IsFiniteSet(DOMAIN paid) /\ d \in DOMAIN paid /\ paid[d] + v \in Int
    BY <1>1, <1>2
  <2> HIDE DEF d, v
  <2> QED  BY <1>2, <2>1, OneChanged
<1> QED  BY <1>1, <1>2, <1>3, <1>4, <1>5

-----------------------------------------------------------------------------
(* Money *)

\* A ledger with the money of the genesis block.
Kept(b) == IsFiniteSet(DOMAIN b) /\ Total(b) = Total(Funds)

MoneyInv ==
    \A n \in Nodes :
        /\ \A k \in DOMAIN chain[n] : Kept(chain[n][k].state.balances)
        /\ IF block[n] = NoBlock THEN todo[n] = <<>> ELSE Kept(block[n].state.balances)

\* A transaction keeps the money, with funds or without, and leaves a ledger
\* that is not empty.
LEMMA AppliedMoney ==
    ASSUME NEW s \in State, NEW t \in Txs, Kept(s.balances)
    PROVE  Kept(Applied(s, t).balances) /\ Applied(s, t).balances # <<>>
<1> DEFINE b == WithAccounts(s.balances, t)
<1>1. s.balances \in Ledger
  BY DEF State
<1>2. /\ b \in Ledger /\ Tx[t].sender \in DOMAIN b /\ Tx[t].destination \in DOMAIN b
      /\ IsFiniteSet(DOMAIN b) /\ Total(b) = Total(Funds)
  BY <1>1, WithAccountsType, SameTotal DEF Kept
<1>3. Applied(s, t).balances = b \/ Applied(s, t).balances = Transferred(b, t)
  BY DEF Applied, State
<1> HIDE DEF b
<1>4. DOMAIN Transferred(b, t) = DOMAIN b /\ Total(Transferred(b, t)) = Total(b)
  BY <1>2, TransferKeeps
<1>5. DOMAIN <<>> = {}
  OBVIOUS
<1> QED  BY <1>2, <1>3, <1>4, <1>5 DEF Kept

\* Every step keeps the money of every state.
LEMMA MoneyStep == TypeOK /\ MoneyInv /\ [Next]_vars => MoneyInv'
<1> SUFFICES ASSUME TypeOK, MoneyInv, [Next]_vars PROVE MoneyInv'
  OBVIOUS
<1>0. ASSUME NEW n \in Nodes,
             \A m \in Nodes \ {n} : /\ chain'[m] = chain[m] /\ todo'[m] = todo[m]
                                    /\ block'[m] = block[m],
             \A k \in DOMAIN chain'[n] : Kept(chain'[n][k].state.balances),
             IF block'[n] = NoBlock THEN todo'[n] = <<>> ELSE Kept(block'[n].state.balances)
      PROVE  MoneyInv'
  <2> SUFFICES ASSUME NEW m \in Nodes
               PROVE  /\ \A k \in DOMAIN chain'[m] : Kept(chain'[m][k].state.balances)
                      /\ IF block'[m] = NoBlock THEN todo'[m] = <<>> ELSE Kept(block'[m].state.balances)
    BY DEF MoneyInv, Kept
  <2>1. CASE m = n
    BY <1>0, <2>1
  <2>2. CASE m # n
    BY <1>0, <2>2 DEF MoneyInv
  <2> QED  BY <2>1, <2>2
<1>1. CASE UNCHANGED vars
  BY <1>1 DEF MoneyInv, Kept, vars
<1>2. ASSUME NEW n \in Nodes, StartBlock(n) PROVE MoneyInv'
  <2>1. PICK d \in Mempools(n) :
          /\ todo' = [todo EXCEPT ![n] = d]
          /\ block' = [block EXCEPT ![n] = [data |-> d, state |-> PreviousState(n)]]
          /\ chain' = chain
    BY <1>2 DEF StartBlock
  <2>2. todo'[n] = d /\ block'[n].data = d /\ block'[n].state = PreviousState(n)
    BY <2>1 DEF TypeOK
  <2>3. Kept(PreviousState(n).balances)
    BY LastIs DEF PreviousState, MoneyInv
  <2>4. block'[n] = NoBlock => todo'[n] = <<>>
    BY <2>2 DEF NoBlock
  <2> QED  BY <1>0, <2>1, <2>2, <2>3, <2>4 DEF TypeOK, MoneyInv
<1>3. ASSUME NEW n \in Nodes, ApplyNext(n) PROVE MoneyInv'
  <2> DEFINE t == Head(todo[n])
             s == block[n].state
  <2>1. todo[n] \in Seq(Txs) /\ todo[n] # <<>> /\ chain' = chain
    BY <1>3 DEF ApplyNext, TypeOK
  <2>2. t \in Txs /\ s \in State /\ Kept(s.balances)
    BY <2>1 DEF TypeOK, Block, MoneyInv
  <2>3. CASE Raises(s, t)
    <3>1. /\ block' = [block EXCEPT ![n] = NoBlock]
          /\ todo' = [todo EXCEPT ![n] = <<>>]
      BY <1>3, <2>3 DEF ApplyNext
    <3>2. block'[n] = NoBlock /\ todo'[n] = <<>>
      BY <3>1 DEF TypeOK
    <3> QED  BY <1>0, <2>1, <3>1, <3>2 DEF TypeOK, MoneyInv
  <2>4. CASE ~Raises(s, t)
    <3>1. /\ block' = [block EXCEPT ![n].state = Applied(s, t)]
          /\ todo' = [todo EXCEPT ![n] = Tail(todo[n])]
      BY <1>3, <2>4 DEF ApplyNext
    <3>2. Kept(Applied(s, t).balances) /\ Applied(s, t).balances # <<>>
      BY <2>2, AppliedMoney
    <3>3. block'[n].state = Applied(s, t)
      BY <3>1 DEF TypeOK, Block
    <3>4. block'[n] # NoBlock
      BY <3>2, <3>3 DEF NoBlock
    <3> QED  BY <1>0, <2>1, <3>1, <3>2, <3>3, <3>4 DEF TypeOK, MoneyInv
  <2> QED  BY <2>3, <2>4
<1>4. ASSUME NEW n \in Nodes, AppendBlock(n) PROVE MoneyInv'
  <2>1. /\ chain' = [chain EXCEPT ![n] = Append(chain[n], block[n])]
        /\ block' = [block EXCEPT ![n] = NoBlock]
        /\ todo' = [todo EXCEPT ![n] = <<>>]
    BY <1>4 DEF AppendBlock
  <2>2. block'[n] = NoBlock /\ todo'[n] = <<>> /\ chain'[n] = Append(chain[n], block[n])
    BY <2>1 DEF TypeOK
  <2>3. Kept(block[n].state.balances)
    BY <1>4 DEF AppendBlock, Finished, MoneyInv
  <2>4. ASSUME NEW k \in DOMAIN chain'[n] PROVE Kept(chain'[n][k].state.balances)
    <3>1. k \in 1..(Len(chain[n]) + 1) /\ DOMAIN chain[n] = 1..Len(chain[n]) /\ Len(chain[n]) \in Nat
      BY <2>2, <2>4 DEF TypeOK
    <3>2. chain'[n][k] = IF k = Len(chain[n]) + 1 THEN block[n] ELSE chain[n][k]
      BY <2>2, <3>1 DEF TypeOK
    <3>3. k # Len(chain[n]) + 1 => k \in DOMAIN chain[n]
      BY <3>1
    <3> QED  BY <2>3, <3>2, <3>3 DEF MoneyInv
  <2> QED  BY <1>0, <2>1, <2>2, <2>4 DEF TypeOK
<1>5. ASSUME NEW n \in Nodes, NEW p \in Nodes, SyncChain(n, p) PROVE MoneyInv'
  <2>1. chain' = [chain EXCEPT ![n] = chain[p]]
    BY <1>5, SyncCopies
  <2>2. block' = block /\ todo' = todo
    BY <1>5 DEF SyncChain
  <2>3. chain'[n] = chain[p]
    BY <2>1 DEF TypeOK
  <2> QED  BY <1>0, <2>1, <2>2, <2>3 DEF TypeOK, MoneyInv
<1> QED  BY <1>1, <1>2, <1>3, <1>4, <1>5 DEF Next

\* MoneyInv is an invariant.
LEMMA MoneyCorrect == Spec => []MoneyInv
<1>1. Init => MoneyInv
  <2> SUFFICES ASSUME Init, NEW n \in Nodes
               PROVE  /\ \A k \in DOMAIN chain[n] : Kept(chain[n][k].state.balances)
                      /\ block[n] = NoBlock /\ todo[n] = <<>>
    BY DEF MoneyInv
  <2>1. chain[n] = <<Genesis>> /\ todo[n] = <<>> /\ block[n] = NoBlock
    BY DEF Init
  <2>2. DOMAIN chain[n] = {1} /\ chain[n][1] = Genesis
    BY <2>1
  <2>3. Kept(Genesis.state.balances)
    BY BalancesAssumption DEF Kept, Genesis
  <2> QED  BY <2>1, <2>2, <2>3
<1> QED  BY <1>1, TypeCorrect, MoneyStep, PTL DEF Spec

\* However blocks are created and exchanged, whatever the transactions and in
\* any order: no block of any chain has more or less money than the genesis
\* block.
THEOREM MoneyAlwaysKept == Spec => []MoneyKept
<1>1. MoneyInv => MoneyKept
  BY DEF MoneyInv, MoneyKept, Kept
<1> QED  BY <1>1, MoneyCorrect, PTL

-----------------------------------------------------------------------------
(* The state as a replay *)

\* The greatest number of a set of positions.
LEMMA MaxIs ==
    ASSUME NEW n \in Nat, NEW s \in SUBSET (1..n), s # {}
    PROVE  Max(s) \in s /\ \A y \in s : Max(s) >= y
<1> DEFINE N == {n - x : x \in s}
<1>1. N \in SUBSET Nat /\ N # {}
  <2>1. \A x \in s : n - x \in Nat
    OBVIOUS
  <2> QED  BY <2>1
<1>2. PICK m \in N : \A y \in N : m <= y
  BY <1>1, Least
<1>3. PICK x \in s : m = n - x
  BY <1>2
<1>4. \A y \in s : x >= y
  <2> SUFFICES ASSUME NEW y \in s PROVE x >= y
    OBVIOUS
  <2>1. n - x <= n - y /\ x \in Nat /\ y \in Nat
    BY <1>2, <1>3
  <2> QED  BY <2>1
<1> QED  BY <1>4 DEF Max

\* F replays the transactions at any set of positions of d, the last one last.
Replays(F, d) ==
    \A s \in SUBSET DOMAIN d :
        F[s] = IF s = {} THEN Genesis.state ELSE Applied(F[s \ {Max(s)}], d[Max(s)])

Replay(d) == FoldLeft(Applied, Genesis.state, d)

\* FoldLeft replays all of them.
LEMMA ReplayIs ==
    ASSUME NEW d \in Seq(Txs)
    PROVE  \E F : Replays(F, d) /\ Replay(d) = F[DOMAIN d]
<1> DEFINE S == DOMAIN d
           sel == [s \in SUBSET S |-> Max(s)]
           step == [p \in (SUBSET S) \X State |-> IF p[1] = {} THEN p[2] ELSE Applied(p[2], d[sel[p[1]]])]
           Rec(F) == [s \in SUBSET S |-> IF s = {} THEN Genesis.state
                                         ELSE Applied(F[s \ {Max(s)}], d[Max(s)])]
           H == CHOOSE F : F = Rec(F)
<1>1. S = 1..Len(d) /\ Len(d) \in Nat /\ IsFiniteSet(S)
  BY FS_Interval
<1>2. Chooses(sel, S)
  BY <1>1, MaxIs DEF Chooses
<1>3. step \in [(SUBSET S) \X State -> State]
  <2> SUFFICES ASSUME NEW p \in (SUBSET S) \X State, p[1] # {}
               PROVE  Applied(p[2], d[sel[p[1]]]) \in State
    OBVIOUS
  <2> HIDE DEF sel
  <2>1. d[sel[p[1]]] \in Txs
    BY <1>2 DEF Chooses
  <2> QED  BY <2>1, AppliedType
<1>4. Genesis.state \in State
  BY GenesisType DEF Block
<1>5. PICK g : IsFold(g, S, State, Genesis.state, sel, step)
  <2> HIDE DEF S, sel, step
  <2> QED  BY <1>1, <1>2, <1>3, <1>4, FoldExists
<1>6. \A s \in SUBSET S : g[s] = IF s = {} THEN Genesis.state ELSE Applied(g[s \ {Max(s)}], d[Max(s)])
  <2> SUFFICES ASSUME NEW s \in SUBSET S, s # {} PROVE g[s] = Applied(g[s \ {Max(s)}], d[Max(s)])
    BY <1>5 DEF IsFold
  <2>1. sel[s] = Max(s) /\ s \ {sel[s]} \in SUBSET S
    OBVIOUS
  <2>2. g[s] = step[<<s, g[s \ {sel[s]}]>>] /\ g[s \ {sel[s]}] \in State
    <3> HIDE DEF sel, step
    <3> QED  BY <1>5, <2>1 DEF IsFold
  <2>3. \A v \in State : step[<<s, v>>] = Applied(v, d[sel[s]])
    <3> HIDE DEF sel
    <3> SUFFICES ASSUME NEW v \in State PROVE step[<<s, v>>] = Applied(v, d[sel[s]])
      OBVIOUS
    <3>1. <<s, v>> \in (SUBSET S) \X State /\ <<s, v>>[1] = s /\ <<s, v>>[2] = v
      OBVIOUS
    <3> QED  BY <3>1
  <2> HIDE DEF sel, step
  <2> QED  BY <2>1, <2>2, <2>3
<1>7. g = Rec(g)
  <2>1. g = [s \in SUBSET S |-> g[s]]
    BY <1>5 DEF IsFold
  <2> HIDE DEF sel, step
  <2> QED  BY <1>6, <2>1
<1>8. H = Rec(H)
  <2> HIDE DEF Rec
  <2> QED  BY <1>7
<1>9. Replay(d) = H[S]
  BY DEF Replay, FoldLeft, MapThenFoldSet
<1>10. Replays(H, d)
  <2> HIDE DEF H
  <2> QED  BY <1>8 DEF Replays
<1> QED  BY <1>9, <1>10

\* One more transaction is applied to what the others have made.
LEMMA ReplayAppend ==
    ASSUME NEW d \in Seq(Txs), NEW t \in Txs
    PROVE  Replay(Append(d, t)) = Applied(Replay(d), t)
<1> DEFINE e == Append(d, t)
           n == Len(d)
<1>1. /\ DOMAIN d = 1..n /\ n \in Nat /\ e \in Seq(Txs) /\ DOMAIN e = 1..(n + 1)
      /\ 1..(n + 1) = (1..n) \cup {n + 1} /\ e[n + 1] = t
      /\ \A i \in 1..n : e[i] = d[i]
  OBVIOUS
<1> HIDE DEF e, n
<1>2. PICK F : Replays(F, d) /\ Replay(d) = F[1..n]
  BY <1>1, ReplayIs
<1>3. PICK G : Replays(G, e) /\ Replay(e) = G[1..(n + 1)]
  BY <1>1, ReplayIs
<1>4. G[1..n] = F[1..n]
  <2> DEFINE Bad == {s \in SUBSET (1..n) : G[s] # F[s]}
  <2> SUFFICES ASSUME Bad # {} PROVE FALSE
    OBVIOUS
  <2>1. PICK s \in Bad : \A x \in s : s \ {x} \notin Bad
    <3>1. Bad \in SUBSET (SUBSET (1..n))
      OBVIOUS
    <3>2. IsFiniteSet(1..n)
      <4>1. 1 \in Int /\ n \in Int
        BY <1>1
      <4> QED  BY ONLY <4>1, FS_Interval
    <3> HIDE DEF Bad
    <3> QED  BY <3>1, <3>2, MinimalSet
  <2>2. s \in SUBSET DOMAIN d /\ s \in SUBSET DOMAIN e /\ s \in SUBSET (1..n) /\ G[s] # F[s]
    BY <1>1, <2>1
  <2>3. s # {}
    BY <1>2, <1>3, <2>2 DEF Replays
  <2>4. Max(s) \in s /\ e[Max(s)] = d[Max(s)]
    BY <1>1, <2>2, <2>3, MaxIs
  <2>5. G[s \ {Max(s)}] = F[s \ {Max(s)}]
    BY <2>1, <2>2, <2>4
  <2>6. F[s] = Applied(F[s \ {Max(s)}], d[Max(s)]) /\ G[s] = Applied(G[s \ {Max(s)}], e[Max(s)])
    BY <1>2, <1>3, <2>2, <2>3 DEF Replays
  <2> QED  BY <2>2, <2>4, <2>5, <2>6
<1>5. Max(1..(n + 1)) = n + 1
  <2>1. n + 1 \in 1..(n + 1) /\ \A y \in 1..(n + 1) : n + 1 >= y
    BY <1>1
  <2>2. Max(1..(n + 1)) \in 1..(n + 1) /\ Max(1..(n + 1)) >= n + 1
    BY <1>1, <2>1, MaxIs
  <2> QED  BY <1>1, <2>2
<1>6. G[1..(n + 1)] = Applied(G[(1..(n + 1)) \ {n + 1}], t)
  <2>1. 1..(n + 1) \in SUBSET DOMAIN e /\ 1..(n + 1) # {}
    BY <1>1
  <2> QED  BY <1>1, <1>3, <1>5, <2>1 DEF Replays
<1>7. (1..(n + 1)) \ {n + 1} = 1..n
  BY <1>1
<1>8. Replay(e) = Applied(Replay(d), t)
  BY <1>2, <1>3, <1>4, <1>6, <1>7
<1> QED  BY <1>8 DEF e

\* Nothing to replay.
LEMMA ReplayEmpty == Replay(<<>>) = Genesis.state
<1>1. <<>> \in Seq(Txs)
  OBVIOUS
<1>3. DOMAIN <<>> = {}
  OBVIOUS
<1>2. PICK F : Replays(F, <<>>) /\ Replay(<<>>) = F[DOMAIN <<>>]
  BY <1>1, ReplayIs
<1> QED  BY <1>2, <1>3 DEF Replays

\* g joins the first lists of s, up to k of them.
Joining(g, s, k) == \A i \in 1..k : g[i] = IF i = 1 THEN s[i] ELSE g[i - 1] \o s[i]
Joins(g, s, k) == g \in [1..k -> Seq(Txs)] /\ Joining(g, s, k)

\* It exists ...
LEMMA JoinExists ==
    ASSUME NEW n \in Nat, NEW s \in [1..n -> Seq(Txs)]
    PROVE  \E g : Joins(g, s, n)
<1> DEFINE Bad == {k \in 0..n : ~\E g : Joins(g, s, k)}
<1> SUFFICES ASSUME Bad # {} PROVE FALSE
  <2>1. n \in 0..n
    OBVIOUS
  <2> QED  BY <2>1
<1>1. PICK k \in Bad : \A j \in Bad : k <= j
  <2>1. Bad \in SUBSET Nat
    OBVIOUS
  <2> HIDE DEF Bad
  <2> QED  BY <2>1, Least
<1>2. k # 0
  <2>1. Joins(<<>>, s, 0)
    BY DEF Joins, Joining
  <2> QED  BY <1>1, <2>1
<1>3. k \in 1..n /\ k - 1 \in 0..n /\ ~(k <= k - 1)
  BY <1>1, <1>2
<1>4. PICK g : Joins(g, s, k - 1)
  BY <1>1, <1>3
<1> DEFINE h == [i \in 1..k |-> IF i = 1 THEN s[i] ELSE g[i - 1] \o s[i]]
<1>5. \A i \in 1..k : s[i] \in Seq(Txs) /\ (i # 1 => i - 1 \in 1..(k - 1) /\ g[i - 1] \in Seq(Txs))
  BY <1>3, <1>4 DEF Joins, Joining
<1>6. h \in [1..k -> Seq(Txs)]
  <2>1. ASSUME NEW i \in 1..k PROVE (IF i = 1 THEN s[i] ELSE g[i - 1] \o s[i]) \in Seq(Txs)
    BY <1>5
  <2> QED  BY <2>1
<1>7. ASSUME NEW i \in 1..k, i # 1 PROVE h[i - 1] = g[i - 1]
  <2>1. i - 1 \in 1..(k - 1) /\ i - 1 \in 1..k
    BY <1>3, <1>7
  <2>2. h[i - 1] = IF i - 1 = 1 THEN s[i - 1] ELSE g[(i - 1) - 1] \o s[i - 1]
    BY <2>1
  <2>3. g[i - 1] = IF i - 1 = 1 THEN s[i - 1] ELSE g[(i - 1) - 1] \o s[i - 1]
    BY <1>4, <2>1 DEF Joins, Joining
  <2> QED  BY <2>2, <2>3
<1>8. \A i \in 1..k : h[i] = IF i = 1 THEN s[i] ELSE h[i - 1] \o s[i]
  <2> SUFFICES ASSUME NEW i \in 1..k, i # 1 PROVE h[i] = h[i - 1] \o s[i]
    OBVIOUS
  <2>1. h[i] = g[i - 1] \o s[i]
    OBVIOUS
  <2> HIDE DEF h
  <2> QED  BY <1>7, <2>1
<1>9. Joins(h, s, k)
  <2> HIDE DEF h
  <2> QED  BY <1>6, <1>8 DEF Joins, Joining
<1> QED  BY <1>1, <1>9

\* ... and there is one.
LEMMA JoinUnique ==
    ASSUME NEW n \in Nat, NEW s, NEW f, NEW g, Joining(f, s, n), Joining(g, s, n)
    PROVE  \A i \in 1..n : f[i] = g[i]
<1> DEFINE Bad == {i \in 1..n : f[i] # g[i]}
<1> SUFFICES ASSUME Bad # {} PROVE FALSE
  OBVIOUS
<1>1. PICK i \in Bad : \A j \in Bad : i <= j
  <2>1. Bad \in SUBSET Nat
    OBVIOUS
  <2> HIDE DEF Bad
  <2> QED  BY <2>1, Least
<1>2. i \in 1..n /\ f[i] # g[i]
  BY <1>1
<1>3. i # 1
  BY <1>2 DEF Joining
<1>4. i - 1 \in 1..n /\ ~(i <= i - 1)
  BY <1>2, <1>3
<1>5. f[i - 1] = g[i - 1]
  BY <1>1, <1>4
<1> QED  BY <1>2, <1>3, <1>5 DEF Joining

\* FlattenSeq joins all lists.
LEMMA FlattenIs ==
    ASSUME NEW n \in Nat, n > 0, NEW s \in [1..n -> Seq(Txs)]
    PROVE  \E g : Joins(g, s, n) /\ FlattenSeq(s) = g[n]
<1> DEFINE Rec(F) == [i \in 1..n |-> IF i = 1 THEN s[i] ELSE F[i - 1] \o s[i]]
           H == CHOOSE F : F = Rec(F)
<1>1. PICK g : Joins(g, s, n)
  BY JoinExists
<1>2. g = Rec(g)
  <2>1. g = [i \in 1..n |-> g[i]]
    BY <1>1 DEF Joins, Joining
  <2> QED  BY <1>1, <2>1 DEF Joins, Joining
<1>3. H = Rec(H)
  <2> HIDE DEF Rec
  <2> QED  BY <1>2
<1>4. Len(s) = n
  OBVIOUS
<1>5. FlattenSeq(s) = H[n]
  BY <1>4 DEF FlattenSeq
<1>6. Joining(H, s, n)
  <2> HIDE DEF H
  <2> QED  BY <1>3 DEF Joining
<1> HIDE DEF H, Rec
<1>7. \A i \in 1..n : g[i] = H[i]
  BY <1>1, <1>6, JoinUnique DEF Joins
<1> QED  BY <1>1, <1>5, <1>7

\* The transactions of a chain with one more block.
LEMMA AllDataNext ==
    ASSUME NEW c \in Seq(Block), NEW k \in Nat, k > 0, k < Len(c)
    PROVE  /\ AllData(c, k) \in Seq(Txs)
           /\ AllData(c, k + 1) = AllData(c, k) \o c[k + 1].data
<1> DEFINE s == [i \in 1..k |-> c[i].data]
           t == [i \in 1..(k + 1) |-> c[i].data]
<1>1. \A i \in 1..(k + 1) : c[i].data \in Seq(Txs)
  <2>1. \A i \in 1..(k + 1) : i \in 1..Len(c)
    OBVIOUS
  <2>2. \A i \in 1..Len(c) : c[i] \in Block
    OBVIOUS
  <2> QED  BY <2>1, <2>2 DEF Block
<1>2. s \in [1..k -> Seq(Txs)] /\ t \in [1..(k + 1) -> Seq(Txs)]
  BY <1>1
<1>3. AllData(c, k) = FlattenSeq(s) /\ AllData(c, k + 1) = FlattenSeq(t)
  BY DEF AllData
<1>4. /\ \A i \in 1..k : t[i] = s[i] /\ i \in 1..(k + 1)
      /\ t[k + 1] = c[k + 1].data /\ k + 1 \in Nat /\ k + 1 > 0
  OBVIOUS
<1> HIDE DEF s, t
<1>5. PICK f : Joins(f, s, k) /\ AllData(c, k) = f[k]
  BY <1>2, <1>3, FlattenIs
<1>6. PICK g : Joins(g, t, k + 1) /\ AllData(c, k + 1) = g[k + 1]
  BY <1>2, <1>3, <1>4, FlattenIs
<1>7. f[k] = g[k]
  <2>1. Joining(g, s, k)
    BY <1>4, <1>6 DEF Joins, Joining
  <2>2. \A i \in 1..k : f[i] = g[i]
    BY <1>5, <2>1, JoinUnique DEF Joins
  <2> QED  BY <2>2
<1>8. g[k + 1] = g[k] \o c[k + 1].data
  <2>1. k + 1 \in 1..(k + 1) /\ k + 1 # 1 /\ (k + 1) - 1 = k
    OBVIOUS
  <2> QED  BY <1>4, <1>6, <2>1 DEF Joins, Joining
<1>9. f[k] \in Seq(Txs)
  BY <1>5 DEF Joins
<1> QED  BY <1>5, <1>6, <1>7, <1>8, <1>9

\* The transactions of a chain of one block.
LEMMA AllDataOne ==
    ASSUME NEW c \in Seq(Block), Len(c) > 0
    PROVE  AllData(c, 1) = c[1].data
<1> DEFINE one == 1
           s == [i \in 1..one |-> c[i].data]
<1>1. c[1] \in Block
  OBVIOUS
<1>2. s \in [1..one -> Seq(Txs)] /\ s[one] = c[1].data /\ one \in Nat /\ one > 0
  BY <1>1 DEF Block
<1>3. AllData(c, 1) = FlattenSeq(s)
  BY DEF AllData
<1> HIDE DEF s, one
<1>4. PICK f : Joins(f, s, one) /\ FlattenSeq(s) = f[one]
  BY <1>2, FlattenIs
<1>5. f[one] = s[one]
  BY <1>2, <1>4 DEF Joins, Joining, one
<1> QED  BY <1>2, <1>3, <1>4, <1>5

ChainData(n) == AllData(chain[n], Len(chain[n]))

\* While a block is created, the transactions that are done have been applied
\* to the state of the chain, and the others are still to be applied.
ReplayInv ==
    \A n \in Nodes :
        /\ \A k \in DOMAIN chain[n] : chain[n][k].state = Replay(AllData(chain[n], k))
        /\ IF block[n] = NoBlock THEN todo[n] = <<>>
           ELSE \E done \in Seq(Txs) : /\ block[n].data = done \o todo[n]
                                       /\ block[n].state = Replay(ChainData(n) \o done)

\* The data of a chain is a list of transactions.
LEMMA DataType ==
    ASSUME NEW c \in Seq(Block), NEW k \in 1..Len(c)
    PROVE  AllData(c, k) \in Seq(Txs)
<1>1. CASE k = 1
  <2>1. c[1] \in Block /\ Len(c) > 0
    BY <1>1
  <2> QED  BY <1>1, <2>1, AllDataOne DEF Block
<1>2. CASE k # 1
  <2> DEFINE j == k - 1
  <2>1. j \in Nat /\ j > 0 /\ j < Len(c) /\ j + 1 = k /\ c[k] \in Block
    BY <1>2
  <2> HIDE DEF j
  <2>2. AllData(c, j) \in Seq(Txs) /\ AllData(c, k) = AllData(c, j) \o c[k].data
    BY <2>1, AllDataNext
  <2> QED  BY <2>1, <2>2 DEF Block
<1> QED  BY <1>1, <1>2

\* The state of a chain that grows by a block.
LEMMA ReplayChain ==
    ASSUME NEW c \in Seq(Block) \ {<<>>}, NEW b \in Block,
           \A k \in DOMAIN c : c[k].state = Replay(AllData(c, k)),
           b.state = Replay(AllData(c, Len(c)) \o b.data)
    PROVE  \A k \in DOMAIN Append(c, b) : Append(c, b)[k].state = Replay(AllData(Append(c, b), k))
<1> DEFINE d == Append(c, b)
           m == Len(c)
<1>1. /\ m \in Nat /\ m > 0 /\ DOMAIN c = 1..m /\ DOMAIN d = 1..(m + 1) /\ d \in Seq(Block) /\ Len(d) = m + 1
      /\ d[m + 1] = b /\ \A i \in 1..m : d[i] = c[i]
  <2>1. c \in Seq(Block) /\ c # <<>>
    OBVIOUS
  <2>2. m \in Nat /\ m > 0 /\ DOMAIN c = 1..m
    BY <2>1
  <2> QED  BY <2>1, <2>2
<1> HIDE DEF d, m
<1>2. ASSUME NEW k \in 1..m PROVE AllData(d, k) = AllData(c, k)
  <2>1. \A i \in 1..k : d[i].data = c[i].data
    BY <1>1
  <2>2. [i \in 1..k |-> d[i].data] = [i \in 1..k |-> c[i].data]
    BY <2>1
  <2> QED  BY <2>2 DEF AllData
<1>3. AllData(d, m + 1) = AllData(c, m) \o b.data
  <2>1. m \in 1..m /\ m < Len(d)
    BY <1>1
  <2> QED  BY <1>1, <1>2, <2>1, AllDataNext
<1>4. ASSUME NEW k \in DOMAIN d PROVE d[k].state = Replay(AllData(d, k))
  <2>1. CASE k \in 1..m
    BY <1>1, <1>2, <2>1
  <2>2. CASE k = m + 1
    BY <1>1, <1>3, <2>2 DEF m
  <2> QED  BY <1>1, <2>1, <2>2
<1> QED  BY <1>4 DEF d

\* The first transaction to be applied is done.
LEMMA MoveHead ==
    ASSUME NEW all \in Seq(Txs), NEW done \in Seq(Txs), NEW rest \in Seq(Txs), rest # <<>>
    PROVE  /\ Append(done, Head(rest)) \in Seq(Txs)
           /\ done \o rest = Append(done, Head(rest)) \o Tail(rest)
           /\ all \o Append(done, Head(rest)) = Append(all \o done, Head(rest))
           /\ all \o done \in Seq(Txs)
<1>1. Head(rest) \in Txs /\ Tail(rest) \in Seq(Txs)
  OBVIOUS
<1>2. done \o rest = Append(done, Head(rest)) \o Tail(rest)
  OBVIOUS
<1>3. all \o Append(done, Head(rest)) = Append(all \o done, Head(rest))
  BY <1>1
<1> QED  BY <1>1, <1>2, <1>3

\* Every step keeps the invariant.
LEMMA ReplayStep == TypeOK /\ MoneyInv /\ MoneyInv' /\ ReplayInv /\ [Next]_vars => ReplayInv'
<1> SUFFICES ASSUME TypeOK, MoneyInv, MoneyInv', ReplayInv, [Next]_vars PROVE ReplayInv'
  OBVIOUS
<1>0. ASSUME NEW n \in Nodes,
             \A m \in Nodes \ {n} : /\ chain'[m] = chain[m] /\ todo'[m] = todo[m]
                                    /\ block'[m] = block[m],
             \A k \in DOMAIN chain'[n] : chain'[n][k].state = Replay(AllData(chain'[n], k)),
             block'[n] = NoBlock \/
             \E done \in Seq(Txs) : /\ block'[n].data = done \o todo'[n]
                                    /\ block'[n].state = Replay(ChainData(n)' \o done)
      PROVE  ReplayInv'
  <2> SUFFICES ASSUME NEW m \in Nodes
               PROVE  /\ \A k \in DOMAIN chain'[m] : chain'[m][k].state = Replay(AllData(chain'[m], k))
                      /\ IF block'[m] = NoBlock THEN todo'[m] = <<>>
                         ELSE \E done \in Seq(Txs) : /\ block'[m].data = done \o todo'[m]
                                                     /\ block'[m].state = Replay(ChainData(m)' \o done)
    BY DEF ReplayInv, Replay, AllData, Genesis
  <2>1. CASE m = n
    BY <1>0, <2>1 DEF MoneyInv
  <2>2. CASE m # n
    <3>1. ChainData(m)' = ChainData(m)
      BY <1>0, <2>2 DEF ChainData, AllData
    <3>2. chain'[m] = chain[m] /\ todo'[m] = todo[m] /\ block'[m] = block[m]
      BY <1>0, <2>2
    <3>3. /\ \A k \in DOMAIN chain[m] : chain[m][k].state = Replay(AllData(chain[m], k))
          /\ IF block[m] = NoBlock THEN todo[m] = <<>>
             ELSE \E done \in Seq(Txs) : /\ block[m].data = done \o todo[m]
                                         /\ block[m].state = Replay(ChainData(m) \o done)
      BY DEF ReplayInv
    <3> QED  BY <3>1, <3>2, <3>3
  <2> QED  BY <2>1, <2>2
<1>1. CASE UNCHANGED vars
  BY <1>1 DEF ReplayInv, ChainData, AllData, Replay, Genesis, vars
<1>2. ASSUME NEW n \in Nodes, StartBlock(n) PROVE ReplayInv'
  <2>1. PICK d \in Mempools(n) :
          /\ todo' = [todo EXCEPT ![n] = d]
          /\ block' = [block EXCEPT ![n] = [data |-> d, state |-> PreviousState(n)]]
          /\ chain' = chain
    BY <1>2 DEF StartBlock
  <2>2. todo'[n] = d /\ block'[n].data = d /\ block'[n].state = PreviousState(n) /\ d \in Seq(Txs)
    BY <2>1, MempoolsAre DEF TypeOK
  <2>3. PreviousState(n) = Replay(ChainData(n)) /\ ChainData(n) \in Seq(Txs) /\ ChainData(n)' = ChainData(n)
    <3>1. chain[n] \in Seq(Block) /\ Len(chain[n]) \in 1..Len(chain[n])
      BY LastIs DEF TypeOK
    <3>2. ChainData(n) \in Seq(Txs)
      BY <3>1, DataType DEF ChainData
    <3>3. ChainData(n)' = ChainData(n)
      BY <2>1 DEF ChainData, AllData
    <3> QED  BY <3>2, <3>3, LastIs DEF PreviousState, ChainData, ReplayInv
  <2>4. <<>> \in Seq(Txs)
    OBVIOUS
  <2>5. ChainData(n) \o <<>> = ChainData(n) /\ <<>> \o d = d
    BY <2>2, <2>3
  <2>6. \E done \in Seq(Txs) : /\ block'[n].data = done \o todo'[n]
                               /\ block'[n].state = Replay(ChainData(n)' \o done)
    BY <2>2, <2>3, <2>4, <2>5
  <2> QED  BY <1>0, <2>1, <2>6 DEF TypeOK, ReplayInv
<1>3. ASSUME NEW n \in Nodes, ApplyNext(n) PROVE ReplayInv'
  <2> DEFINE t == Head(todo[n])
             s == block[n].state
  <2>1. todo[n] \in Seq(Txs) /\ todo[n] # <<>> /\ chain' = chain /\ block[n] # NoBlock
    BY <1>3 DEF ApplyNext, TypeOK, ReplayInv
  <2>2. t \in Txs /\ Tail(todo[n]) \in Seq(Txs)
    BY <2>1
  <2>3. CASE Raises(s, t)
    <3>1. /\ block' = [block EXCEPT ![n] = NoBlock]
          /\ todo' = [todo EXCEPT ![n] = <<>>]
      BY <1>3, <2>3 DEF ApplyNext
    <3>2. block'[n] = NoBlock
      BY <3>1 DEF TypeOK
    <3> QED  BY <1>0, <2>1, <3>1, <3>2 DEF TypeOK, ReplayInv
  <2>4. CASE ~Raises(s, t)
    <3>1. /\ block' = [block EXCEPT ![n].state = Applied(s, t)]
          /\ todo' = [todo EXCEPT ![n] = Tail(todo[n])]
      BY <1>3, <2>4 DEF ApplyNext
    <3>2. /\ block'[n].state = Applied(s, t) /\ block'[n].data = block[n].data
          /\ todo'[n] = Tail(todo[n])
      BY <3>1 DEF TypeOK, Block
    <3>3. PICK done \in Seq(Txs) : /\ block[n].data = done \o todo[n]
                                   /\ block[n].state = Replay(ChainData(n) \o done)
      BY <2>1 DEF ReplayInv
    <3>4. ChainData(n) \in Seq(Txs) /\ ChainData(n)' = ChainData(n)
      <4>1. chain[n] \in Seq(Block) /\ Len(chain[n]) \in 1..Len(chain[n])
        BY LastIs DEF TypeOK
      <4>2. ChainData(n) \in Seq(Txs)
        BY <4>1, DataType DEF ChainData
      <4> QED  BY <2>1, <4>2 DEF ChainData, AllData
    <3>5. /\ Append(done, t) \in Seq(Txs)
          /\ done \o todo[n] = Append(done, t) \o Tail(todo[n])
          /\ ChainData(n) \o Append(done, t) = Append(ChainData(n) \o done, t)
          /\ ChainData(n) \o done \in Seq(Txs)
      BY <2>1, <2>2, <3>4, MoveHead
    <3>6. Replay(ChainData(n) \o Append(done, t)) = Applied(s, t)
      BY <2>2, <3>3, <3>5, ReplayAppend
    <3>7. \E e \in Seq(Txs) : /\ block'[n].data = e \o todo'[n]
                              /\ block'[n].state = Replay(ChainData(n)' \o e)
      BY <3>2, <3>3, <3>4, <3>5, <3>6
    <3> QED  BY <1>0, <2>1, <3>1, <3>7 DEF TypeOK, ReplayInv
  <2> QED  BY <2>3, <2>4
<1>4. ASSUME NEW n \in Nodes, AppendBlock(n) PROVE ReplayInv'
  <2>1. /\ chain' = [chain EXCEPT ![n] = Append(chain[n], block[n])]
        /\ block' = [block EXCEPT ![n] = NoBlock]
        /\ todo' = [todo EXCEPT ![n] = <<>>]
        /\ block[n] # NoBlock /\ todo[n] = <<>>
    BY <1>4 DEF AppendBlock, Finished
  <2>2. block'[n] = NoBlock /\ chain'[n] = Append(chain[n], block[n])
    BY <2>1 DEF TypeOK
  <2>3. block[n].state = Replay(ChainData(n) \o block[n].data)
    <3>1. PICK done \in Seq(Txs) : /\ block[n].data = done \o todo[n]
                                   /\ block[n].state = Replay(ChainData(n) \o done)
      BY <2>1 DEF ReplayInv
    <3>2. done \o <<>> = done
      OBVIOUS
    <3> QED  BY <2>1, <3>1, <3>2
  <2>4. chain[n] \in Seq(Block) \ {<<>>} /\ block[n] \in Block
    BY DEF TypeOK
  <2>5. \A k \in DOMAIN chain'[n] : chain'[n][k].state = Replay(AllData(chain'[n], k))
    <3>1. \A k \in DOMAIN chain[n] : chain[n][k].state = Replay(AllData(chain[n], k))
      BY DEF ReplayInv
    <3>2. block[n].state = Replay(AllData(chain[n], Len(chain[n])) \o block[n].data)
      BY <2>3 DEF ChainData
    <3> QED  BY <2>2, <2>4, <3>1, <3>2, ReplayChain
  <2> QED  BY <1>0, <2>1, <2>2, <2>5 DEF TypeOK
<1>5. ASSUME NEW n \in Nodes, NEW p \in Nodes, SyncChain(n, p) PROVE ReplayInv'
  <2>1. chain' = [chain EXCEPT ![n] = chain[p]]
    BY <1>5, SyncCopies
  <2>2. block' = block /\ todo' = todo /\ block[n] = NoBlock
    BY <1>5 DEF SyncChain
  <2>3. chain'[n] = chain[p]
    BY <2>1 DEF TypeOK
  <2>4. \A k \in DOMAIN chain'[n] : chain'[n][k].state = Replay(AllData(chain'[n], k))
    BY <2>3 DEF ReplayInv
  <2> QED  BY <1>0, <2>1, <2>2, <2>4 DEF TypeOK
<1> QED  BY <1>1, <1>2, <1>3, <1>4, <1>5 DEF Next

\* However blocks are created, given up and exchanged, the state of every block
\* of every chain is what a replay of all transactions of the chain up to it
\* makes of the genesis state.
THEOREM StateAlwaysReplay == Spec => []StateIsReplay
<1>1. Init => ReplayInv
  <2> SUFFICES ASSUME Init, NEW n \in Nodes
               PROVE  /\ \A k \in DOMAIN chain[n] : chain[n][k].state = Replay(AllData(chain[n], k))
                      /\ block[n] = NoBlock /\ todo[n] = <<>>
    BY DEF ReplayInv
  <2>1. chain[n] = <<Genesis>> /\ todo[n] = <<>> /\ block[n] = NoBlock
    BY DEF Init
  <2>2. DOMAIN chain[n] = {1} /\ chain[n][1] = Genesis /\ chain[n] \in Seq(Block) /\ Len(chain[n]) > 0
    BY <2>1, GenesisType
  <2>3. AllData(chain[n], 1) = <<>>
    BY <2>2, AllDataOne DEF Genesis
  <2> QED  BY <2>1, <2>2, <2>3, ReplayEmpty
<1>2. ReplayInv => StateIsReplay
  BY DEF ReplayInv, StateIsReplay, Replay
<1> QED  BY <1>1, <1>2, TypeCorrect, MoneyCorrect, ReplayStep, PTL DEF Spec
=============================================================================
