------------------------------ MODULE Balances ------------------------------
(***************************************************************************)
(* The contract state that a block carries: StateMixin.apply_transaction,  *)
(* its use by create_block, and how other nodes come by the state. A leader*)
(* applies the transactions of its block one by one to a copy of the state *)
(* of the last block; a node that receives the block takes the state that  *)
(* comes with it. Forks and elections are in module Node: here any node may*)
(* create a block on its own chain.                                        *)
(*                                                                         *)
(* An operator M_... is the one after it with an error, as in module Node. *)
(***************************************************************************)
EXTENDS Integers, FiniteSets, SequencesExt

CONSTANTS
    Nodes,
    Accounts,     \* the ids that transactions name
    Txs,          \* transactions
    Tx,           \* Tx[t]: [sender, destination, value, call]; call is "none",
                  \* or what the contract function of the data does
    Funds,        \* balances of the genesis block
    MaxData,      \* bound: transactions in a block
    MaxBlocks     \* bound: blocks after the genesis block

Calls == {"none", "returns", "raises"}

ASSUME BalancesAssumption ==
    /\ Tx \in [Txs -> [sender : Accounts, destination : Accounts, value : Int, call : Calls]]
    /\ DOMAIN Funds \subseteq Accounts /\ Funds \in [DOMAIN Funds -> Nat]
    /\ IsFiniteSet(DOMAIN Funds)
    /\ MaxData \in Nat /\ MaxBlocks \in Nat

VARIABLES
    chain,     \* chain[n]: blocks [data, state]; state is [balances, n, calls],
               \* with what contract functions have changed as a list of calls
    todo,      \* todo[n]: transactions of n's new block that are not yet applied
    block,     \* block[n]: the block that n is creating
    alive      \* alive[n]: no exception has left n's step()

vars == <<chain, todo, block, alive>>

Genesis == [data |-> <<>>, state |-> [balances |-> Funds, n |-> 0, calls |-> <<>>]]
NoBlock == [data |-> <<>>, state |-> [balances |-> <<>>, n |-> -1, calls |-> <<>>]]

-----------------------------------------------------------------------------
(* apply_transaction *)

\* setdefault for the two accounts.
WithAccounts(b, t) ==
    [a \in DOMAIN b \cup {Tx[t].sender, Tx[t].destination} |->
        IF a \in DOMAIN b THEN b[a] ELSE 0]

\* The funds test. Nothing tests the sign: a transfer of a negative value passes
\* and takes from its destination.
M_AnyFunds(b, t) == TRUE
Covered(b, t) == Tx[t].value = 0 \/ b[Tx[t].sender] >= Tx[t].value

M_ReadFirst(b, t) ==
    [b EXCEPT ![Tx[t].sender] = b[Tx[t].sender] - Tx[t].value,
              ![Tx[t].destination] = b[Tx[t].destination] + Tx[t].value]
Transferred(b, t) ==
    [[b EXCEPT ![Tx[t].sender] = @ - Tx[t].value] EXCEPT ![Tx[t].destination] = @ + Tx[t].value]

\* A transfer without funds ends the function before the contract is called.
Applied(s, t) ==
    LET b == WithAccounts(s.balances, t)
    IN  IF Covered(b, t)
        THEN [balances |-> Transferred(b, t), n |-> s.n + 1,
              calls |-> IF Tx[t].call = "none" THEN s.calls ELSE Append(s.calls, t)]
        ELSE [s EXCEPT !.balances = b]

M_Caught(s, t) == FALSE
Raises(s, t) == Tx[t].call = "raises" /\ Covered(WithAccounts(s.balances, t), t)

-----------------------------------------------------------------------------
(* create_block *)

OnChain(n) == UNION {Range(chain[n][k].data) : k \in DOMAIN chain[n]}

\* What a mempool without the transactions on the chain may hold, in any order.
Mempools(n) ==
    {d \in BoundedSeq(Txs \ OnChain(n), MaxData) : IsInjective(d)}

M_GenesisState(n) == chain[n][1].state
PreviousState(n) == Last(chain[n]).state

StartBlock(n) ==
    /\ alive[n] /\ block[n] = NoBlock /\ Len(chain[n]) <= MaxBlocks
    /\ \E data \in Mempools(n) :
          /\ todo' = [todo EXCEPT ![n] = data]
          /\ block' = [block EXCEPT ![n] = [data |-> data, state |-> PreviousState(n)]]
    /\ UNCHANGED <<chain, alive>>

\* One transaction, on the copy of the state. An exception leaves create_block.
ApplyNext(n) ==
    /\ todo[n] # <<>>
    /\ LET t == Head(todo[n])
       IN  IF Raises(block[n].state, t)
           THEN /\ alive' = [alive EXCEPT ![n] = FALSE]
                /\ block' = [block EXCEPT ![n] = NoBlock]
                /\ todo' = [todo EXCEPT ![n] = <<>>]
           ELSE /\ block' = [block EXCEPT ![n].state = Applied(@, t)]
                /\ todo' = [todo EXCEPT ![n] = Tail(@)]
                /\ UNCHANGED alive
    /\ UNCHANGED chain

Finished(n) == block[n] # NoBlock /\ todo[n] = <<>>

AppendBlock(n) ==
    /\ Finished(n)
    /\ chain' = [chain EXCEPT ![n] = Append(@, block[n])]
    /\ block' = [block EXCEPT ![n] = NoBlock]
    /\ todo' = [todo EXCEPT ![n] = <<>>]
    /\ UNCHANGED alive

-----------------------------------------------------------------------------
(* sync_chain *)

\* Block(..., state_var): the state comes with the block. A node takes one
\* block at a time, on the chain that it has (module Node). The server thread
\* of p answers whatever p's main loop is doing or has raised.
Received(n, b) == b

SyncChain(n, p) ==
    /\ alive[n] /\ block[n] = NoBlock
    /\ Len(chain[p]) = Len(chain[n]) + 1 /\ IsPrefix(chain[n], chain[p])
    /\ chain' = [chain EXCEPT ![n] = Append(@, Received(n, Last(chain[p])))]
    /\ UNCHANGED <<todo, block, alive>>

-----------------------------------------------------------------------------
(* The specification *)

Init ==
    /\ chain = [n \in Nodes |-> <<Genesis>>]
    /\ todo  = [n \in Nodes |-> <<>>]
    /\ block = [n \in Nodes |-> NoBlock]
    /\ alive = [n \in Nodes |-> TRUE]

Next == \E n \in Nodes :
          \/ StartBlock(n) \/ ApplyNext(n) \/ AppendBlock(n)
          \/ \E p \in Nodes : SyncChain(n, p)

Spec == Init /\ [][Next]_vars

-----------------------------------------------------------------------------
(* Properties *)

Total(b) == FoldFunction(+, 0, b)

\* Every account in debt is the destination of a negative value among ids.
Explained(b, ids) ==
    \A a \in DOMAIN b : b[a] < 0 => \E t \in ids : Tx[t].value < 0 /\ Tx[t].destination = a

IdsUpTo(c, k) == UNION {Range(c[i].data) : i \in 1..k}

\* No order of transactions lets an account spend more than it has: on any chain
\* and in any block under construction, an account is overdrawn only if a
\* transaction up to that block names it as the destination of a negative value.
OnlyNegativeOverdraws ==
    \A n \in Nodes :
        /\ \A k \in DOMAIN chain[n] : Explained(chain[n][k].state.balances, IdsUpTo(chain[n], k))
        /\ Explained(block[n].state.balances, OnChain(n) \cup Range(block[n].data))

\* Transfers neither create nor destroy money, one to the sender included.
MoneyKept ==
    \A n \in Nodes : \A k \in DOMAIN chain[n] :
        Total(chain[n][k].state.balances) = Total(Funds)

\* The state of a block is what all the transactions up to it make of the
\* genesis state, on the leader and on those that took the block as it came
\* (nodes do not check it: verify_block has no test of the state).
AllData(c, k) == FlattenSeq([i \in 1..k |-> c[i].data])
StateIsReplay ==
    \A n \in Nodes : \A k \in DOMAIN chain[n] :
        chain[n][k].state = FoldLeft(Applied, Genesis.state, AllData(chain[n], k))

\* A contract function takes effect once for its transaction, and never if it
\* raises, although the leader that raised has it in its mempool and another
\* node may have put it into a block in the meantime.
CallsOnce ==
    \A n \in Nodes : \A k \in DOMAIN chain[n] :
        LET calls == chain[n][k].state.calls
        IN  IsInjective(calls) /\ \A t \in Range(calls) : Tx[t].call = "returns"
=============================================================================
