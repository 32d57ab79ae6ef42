---------------------------- MODULE PromptProofs ----------------------------
(***************************************************************************)
(* Proof that every vote of the network has one outcome, and with it that  *)
(* the network implements Node with unanimous elections: for any number of *)
(* robots in range of each other whose transactions are sent early enough  *)
(* in a mining phase, for any periods, for any signatures whose values     *)
(* differ under all penalties, and for runs of any length. As many votes   *)
(* are counted as a robot has peers: the code's num_neighbours is that     *)
(* number for four robots.                                                 *)
(***************************************************************************)
EXTENDS SystemProofs

-----------------------------------------------------------------------------
(* The assumptions on a network *)

\* The last tick of a phase at which the source of a transaction may send it.
LastSend == BlockPeriod - 2 * (SyncInterval + 1)

\* The loop steps every robot once in a pass, and num_neighbours is the number
\* of its peers.
OncePerPass ==
    /\ IsFiniteSet(Nodes) /\ Order \in [1..Cardinality(Nodes) -> Nodes]
    /\ \A n \in Nodes : \E i \in DOMAIN Order : Order[i] = n
    /\ NumNeighbours = Cardinality(Nodes) - 1

\* No penalties make signatures of two robots equal.
Distinct ==
    \A h, g \in Txs \X Nodes \X Nodes, j, k \in 0..MaxRecentLeaders :
        Value[h] * 2 ^ j = Value[g] * 2 ^ k => h[2] = g[2]

\* Robots in range of each other, as in test/sync_test.py, that send early
\* enough and to one another.
PromptMesh == /\ Meshed /\ OncePerPass /\ Distinct
              /\ Txs = Prompt /\ \A t \in Txs : Source[t] # Dest[t]

-----------------------------------------------------------------------------
(* The invariant: the loop *)

\* 1 for the nodes whose step of this pass has begun.
Ahead(i) == IF i < turn \/ (i = turn /\ pc[Order[i]] # "idle") THEN 1 ELSE 0

\* The nodes take their steps in turn.
Lockstep == /\ turn \in DOMAIN Order
            /\ \A i, j \in DOMAIN Order :
                  time[Order[i]] - Ahead(i) = time[Order[j]] - Ahead(j)

AllAlive == \A n \in Nodes : alive[n]

\* What holds of every prompt network in every state.
Base == /\ SystemInv /\ PairInv /\ CopyInv /\ ScanInv /\ ChainInv /\ Lockstep
        /\ \A n \in Nodes : pc[n] # "idle" => AllAlive

-----------------------------------------------------------------------------
(* The invariant: what each node has *)

\* A copy of t that is held at, or on its way to, this node.
Path(t, copy, at) ==
    IF copy.sigs = <<>> THEN at = Source[t] /\ ~copy.completed
    ELSE /\ N!ValidateTransaction(t, copy)
         /\ copy.completed \/ copy.sigs[Len(copy.sigs)].relayer = at

\* previous_transactions_id has the transactions of the chain; the mempool has
\* others. In the MINING phase those that are marked as checked are old.
Booked(n) ==
    /\ previous[n] = N!IdsIn(chain[n])
    /\ N!Held(mempool[n]) \cap previous[n] = {}
    /\ checked[n] \subseteq sent
    /\ state[n] = "MINING" => checked[n] \subseteq previous[n]
    /\ \A t \in N!Held(mempool[n]) : Path(t, mempool[n][t], n)

\* While some node is in the BLOCK phase of a round, all that has been sent is
\* on the chains that have the block of the round.
Delivered ==
    \A n, m \in Nodes : state[m] = "BLOCK" /\ Height(n) = Rounds(m) => sent \subseteq previous[n]

\* The transactions that wait for a block.
Current(n) == sent \ previous[n]

Has(n, t) == mempool[n][t] # Nil
Done(n, t) == Has(n, t) /\ mempool[n][t].completed

\* The source has its transaction; every completed copy is the one that the
\* destination has.
Settled(n) ==
    \A t \in Current(n) :
        /\ Height(Source[t]) = Height(n) => Has(Source[t], t)
        /\ Has(Dest[t], t) /\ Height(Dest[t]) = Height(n) => Done(Dest[t], t)
        /\ Done(n, t) /\ Height(Dest[t]) = Height(n) => mempool[Dest[t]][t] = mempool[n][t]

\* The answer on its way to n: from the destination's copy if it is completed.
Arriving(n) ==
    request[n] # Nil /\ request[n].kind = "txs" =>
        \A t \in N!Held(request[n].txs) :
            /\ Path(t, request[n].txs[t], n)
            /\ t \in Current(n) /\ request[n].txs[t].completed
                  => mempool[Dest[t]][t] = request[n].txs[t]

-----------------------------------------------------------------------------
(* The invariant: the mempool exchange *)

\* How far n is within its round.
Into(n) == time[n] - RoundsEnd(n)

\* The exchange that n is in brings it t, or the completed copy of t.
Brings(n, t) ==
    /\ request[n] # Nil
    /\ \/ request[n].kind = "missing" /\ t \in request[n].ids
       \/ request[n].kind = "txs" /\ request[n].txs[t] # Nil
Completes(n, t) ==
    /\ request[n] # Nil
    /\ \/ /\ request[n].kind = "missing" /\ t \in request[n].ids
          /\ mempool[request[n].peer][t].completed
       \/ /\ request[n].kind = "txs" /\ request[n].txs[t] # Nil
          /\ request[n].txs[t].completed

\* n is about to ask its peers again, at tick k + 1 at the latest.
Rests(n, k) == left[n] = {} /\ request[n] = Nil /\ Into(n) + rest[n]["mempool"] <= k

\* A pass over the peers after t was sent brings t; a pass after that, when
\* the destination has it, brings the completed copy.
Mines(n) ==
    state[n] = "MINING" => \A t \in Current(n) :
        /\ \/ Has(n, t)
           \/ /\ pc[n] = "run" /\ Into(n) <= LastSend + SyncInterval + 2
              /\ Source[t] \in left[n] \/ Brings(n, t)
           \/ Rests(n, LastSend + SyncInterval + 1)
        /\ Has(Dest[t], t) =>
           \/ Done(n, t)
           \/ pc[n] = "run" /\ (Dest[t] \in left[n] \/ Completes(n, t))
           \/ Rests(n, BlockPeriod)

-----------------------------------------------------------------------------
(* The invariant: the vote *)

\* The signatures of the completed copies that n has.
Hops(n) ==
    UNION {{[id |-> h.id, value |-> Value[<<t, h.id, h.relayer>>]] :
               h \in {mempool[n][t].sigs[i] : i \in DOMAIN mempool[n][t].sigs}} :
           t \in {u \in N!Held(mempool[n]) : mempool[n][u].completed}}

\* A signature of w is the lowest one.
Best(n, w) == \E s \in Hops(n) :
                 s.id = w /\ \A u \in Hops(n) : E!SigValue(n, s) <= E!SigValue(n, u)

\* The cache of the scans so far.
Cached(n) == state[n] = "MINING" /\ cache[n].sig # Nil =>
                \E s \in Hops(n) : s.id = cache[n].sig /\ E!SigValue(n, s) = cache[n].val

\* n votes for the lowest signature of all that was sent.
Leads(n) ==
    state[n] = "LEADER" => (\A t \in Current(n) : Done(n, t)) /\ Best(n, candidate[n])

\* All votes in hand are for the same candidate, and either none or all are in
\* hand where they are counted.
Polls(n) ==
    /\ \A i \in DOMAIN votes[n] : votes[n][i].vote = candidate[n]
    /\ pc[n] = "ask" => Len(votes[n]) + Cardinality(asking[n]) = NumNeighbours
    /\ pc[n] = "run" => Len(votes[n]) \in {0, NumNeighbours}
    /\ pc[n] \in {"idle", "close"} \/ state[n] # "LEADER" => votes[n] = <<>>

\* What the vote has left until it is forgotten.
Leaves(n) ==
    state[n] = "BLOCK" => \/ candidate[n] = winning[n][Rounds(n)]
                          \/ candidate[n] = Nil /\ cache[n].sig = Nil

\* Nodes of one round have the same recent leaders and the same candidate, and
\* who is a round ahead has recorded it.
Follows(n, m) ==
    /\ Rounds(n) = Rounds(m) =>
          /\ recent[n] = recent[m]
          /\ state[n] = "LEADER" /\ state[m] = "LEADER" => candidate[n] = candidate[m]
    /\ Rounds(m) = Rounds(n) + 1 =>
          /\ recent[m] = E!WithLeader(recent[n], candidate[n])
          /\ winning[m][Rounds(m)] = candidate[n]

\* What the nodes have, and what they vote for.
Stocked == /\ sent \subseteq Txs /\ DOMAIN previous = Nodes /\ Delivered
           /\ \A n \in Nodes : Booked(n) /\ Settled(n) /\ Arriving(n)
Agreed == /\ \A n \in Nodes : Cached(n) /\ Leads(n) /\ Polls(n) /\ Leaves(n)
          /\ \A n, m \in Nodes : Follows(n, m)

Steady == Stocked /\ Agreed /\ \A n \in Nodes : Mines(n)

\* The exception of an idle round leaves nothing undelivered.
Stopped == \A n \in Nodes : ~alive[n] => sent \subseteq previous[n]

\* While no main loop has raised, each robot has of every transaction what the
\* passes of the mempool pinger since it was sent must have brought, and the
\* candidates, votes and winning signatures of all robots are of one outcome;
\* a loop that has raised had nothing to wait for, and every leader relayed a
\* transaction of its block.
PromptInv == Base /\ (AllAlive => Steady) /\ Stopped /\ LeaderRelayed

-----------------------------------------------------------------------------
(* The single loop *)

\* A node has one place in the loop.
LEMMA OnePlace ==
    ASSUME OncePerPass, NEW i \in DOMAIN Order, NEW j \in DOMAIN Order, Order[i] = Order[j]
    PROVE  i = j
<1>1. /\ Cardinality(Nodes) \in Nat /\ DOMAIN Order = 1..Cardinality(Nodes)
      /\ Order \in [1..Cardinality(Nodes) -> Nodes]
  BY FS_CardinalityType DEF OncePerPass
<1>2. IsFiniteSet(1..Cardinality(Nodes)) /\ Cardinality(1..Cardinality(Nodes)) = Cardinality(Nodes)
  <2>1. \A k \in Nat : IsFiniteSet(1..k) /\ Cardinality(1..k) = k
    BY FS_Interval
  <2> QED  BY <1>1, <2>1
<1>3. Order \in Surjection(1..Cardinality(Nodes), Nodes)
  BY <1>1 DEF Surjection, OncePerPass
<1>4. Order \in Injection(1..Cardinality(Nodes), Nodes)
  BY <1>2, <1>3, FS_SurjSameCardinalityImpliesInj DEF OncePerPass
<1> QED  BY <1>1, <1>4 DEF Injection, IsInjective

LEMMA Places ==
    ASSUME OncePerPass
    PROVE  /\ Len(Order) \in Nat /\ DOMAIN Order = 1..Len(Order) /\ \A i \in DOMAIN Order : Order[i] \in Nodes
           /\ \A n \in Nodes : \E i \in DOMAIN Order : Order[i] = n
<1>1. Cardinality(Nodes) \in Nat /\ Order \in [1..Cardinality(Nodes) -> Nodes]
  BY FS_CardinalityType DEF OncePerPass
<1>2. Order \in Seq(Nodes) /\ Len(Order) = Cardinality(Nodes)
  BY <1>1
<1> QED  BY <1>1, <1>2 DEF OncePerPass

\* At the turn of a node that has not begun its step, nobody is behind it.
LEMMA NobodyEarlier ==
    ASSUME OncePerPass, LoopInv, Lockstep, NEW n \in Nodes, Order[turn] = n, pc[n] = "idle",
           NEW m \in Nodes
    PROVE  time[n] <= time[m]
<1>1. PICK j \in DOMAIN Order : Order[j] = m
  BY Places
<1>2. turn \in DOMAIN Order /\ DOMAIN Order = 1..Len(Order) /\ turn \in Nat /\ j \in Nat
  BY Places DEF Lockstep
<1>3. Ahead(turn) = 0 /\ Ahead(j) \in {0, 1} /\ time[n] \in Nat /\ time[m] \in Nat
  BY <1>2 DEF Ahead, LoopInv, Typed
<1>4. time[n] - Ahead(turn) = time[m] - Ahead(j)
  BY <1>1, <1>2 DEF Lockstep
<1> QED  BY <1>3, <1>4

\* The index after t in a sequence of length l that is gone through in a circle.
LEMMA NextIndex ==
    ASSUME NEW l \in Nat, NEW t \in 1..l
    PROVE  (t % l) + 1 = IF t < l THEN t + 1 ELSE 1
<1>1. l > 0 /\ t = l * (t \div l) + (t % l) /\ t % l \in 0..(l - 1) /\ t \div l \in Int
  OBVIOUS
<1>2. ASSUME NEW q \in Int, NEW k \in 0..(l - 1), t = l * q + k
      PROVE  IF t < l THEN k = t ELSE k = 0
  <2>1. CASE q <= -1
    <3>1. l * q <= l * (-1)
      BY <2>1
    <3> QED  BY <1>2, <3>1
  <2>2. CASE q = 0
    BY <1>2, <2>2
  <2>3. CASE q = 1
    BY <1>2, <2>3
  <2>4. CASE q >= 2
    <3>1. l * q >= l * 2
      BY <2>4
    <3> QED  BY <1>2, <3>1
  <2> QED  BY <2>1, <2>2, <2>3, <2>4
<1> QED  BY <1>1, <1>2

\* The node at work goes on, or takes the turn.
LEMMA LockOn ==
    ASSUME OncePerPass, LoopInv, Lockstep, NEW n \in Nodes, Order[turn] = n, turn' = turn,
           pc'[n] # "idle", \A m \in Nodes \ {n} : pc'[m] = pc[m] /\ time'[m] = time[m],
           time'[n] = time[n] + (IF pc[n] = "idle" THEN 1 ELSE 0)
    PROVE  Lockstep'
<1>1. \A i \in DOMAIN Order : Order[i] \in Nodes
  BY Places
<1>2. ASSUME NEW i \in DOMAIN Order
      PROVE  time'[Order[i]] - Ahead(i)' = time[Order[i]] - Ahead(i)
  <2>1. CASE i = turn
    <3>1. time[n] \in Nat
      BY DEF LoopInv, Typed
    <3>2. Ahead(i)' = 1 /\ Ahead(i) = IF pc[n] = "idle" THEN 0 ELSE 1
      BY <2>1, Places DEF Ahead, Lockstep
    <3> QED  BY <2>1, <3>1, <3>2
  <2>2. CASE i # turn
    <3>1. Order[i] # n
      BY <2>2, OnePlace DEF Lockstep
    <3> QED  BY <1>1, <2>2, <3>1 DEF Ahead
  <2> QED  BY <2>1, <2>2
<1> QED  BY <1>2 DEF Lockstep

\* The node is done, and it is the turn of the next one.
LEMMA LockDone ==
    ASSUME OncePerPass, LoopInv, Lockstep, NEW n \in Nodes, Order[turn] = n, pc[n] # "idle",
           E!Done(n), time' = time
    PROVE  Lockstep'
<1>1. /\ Len(Order) \in Nat /\ DOMAIN Order = 1..Len(Order) /\ \A i \in DOMAIN Order : Order[i] \in Nodes
      /\ turn \in 1..Len(Order)
  BY Places DEF Lockstep
<1>2. turn' = IF turn < Len(Order) THEN turn + 1 ELSE 1
  <2>1. turn' = (turn % Len(Order)) + 1
    BY DEF E!Done
  <2> QED  BY <1>1, <2>1, NextIndex
<1>3. \A m \in Nodes : pc'[m] = "idle" /\ time[m] \in Nat
  BY DEF E!Done, LoopInv, Typed, Turns
<1>4. ASSUME NEW i \in DOMAIN Order
      PROVE  Ahead(i)' = IF turn < Len(Order) THEN Ahead(i) ELSE Ahead(i) - 1
  BY <1>1, <1>2, <1>3 DEF Ahead
<1>5. ASSUME NEW i \in DOMAIN Order, NEW j \in DOMAIN Order
      PROVE  time'[Order[i]] - Ahead(i)' = time'[Order[j]] - Ahead(j)'
  <2>1. time[Order[i]] - Ahead(i) = time[Order[j]] - Ahead(j)
    BY DEF Lockstep
  <2>2. Ahead(i) \in {0, 1} /\ Ahead(j) \in {0, 1} /\ time[Order[i]] \in Nat /\ time[Order[j]] \in Nat
    BY <1>1, <1>3 DEF Ahead
  <2> QED  BY <1>4, <2>1, <2>2
<1>6. turn' \in DOMAIN Order
  BY <1>1, <1>2
<1> QED  BY <1>5, <1>6 DEF Lockstep

\* The nodes stay in step, and where one is at work none has raised.
LEMMA LockSteps ==
    ASSUME OncePerPass, SystemInv, Lockstep, [Next]_vars
    PROVE  Lockstep'
<1>0. LoopInv /\ VoteInv /\ DOMAIN pc = Nodes
  BY DEF SystemInv, LoopInv, Typed
<1>1. CASE UNCHANGED <<time, pc, turn>>
  BY <1>1 DEF Lockstep, Ahead
<1>2. ASSUME NEW n \in Nodes, Begin(n) PROVE Lockstep'
  <2>1. Order[turn] = n /\ turn' = turn /\ \A m \in Nodes \ {n} : pc'[m] = pc[m] /\ time'[m] = time[m]
    BY <1>0, <1>2, BeginLoop DEF Begin, E!Begin, E!MyTurn, E!Goto, SameAt
  <2> QED  BY <1>0, <1>2, <2>1, BeginLoop, LockOn
<1>3. ASSUME NEW n \in Nodes, Vote(n) \/ Count(n), ~UNCHANGED pc PROVE Lockstep'
  <2>1. /\ Order[turn] = n /\ turn' = turn /\ time' = time /\ pc[n] # "idle"
        /\ \E label \in {"run", "adopt", "close"} : pc' = [pc EXCEPT ![n] = label]
    BY <1>3 DEF Vote, Count, E!AskVote, E!GetVote, E!VotesIn, E!Tally, E!Adopt, E!MyTurn, E!Goto, E!step
  <2>2. time[n] \in Nat
    BY <1>0 DEF LoopInv, Typed
  <2> QED  BY <1>0, <2>1, <2>2, LockOn
<1>4. ASSUME NEW n \in Nodes, RunMining(n) \/ Close(n) \/ RunBlock(n) PROVE Lockstep'
  BY <1>0, <1>4, LockDone DEF RunMining, E!MineWith, Close, E!Close, RunBlock, E!RunBlock, E!MyTurn
<1>5. CASE UNCHANGED vars
  BY <1>1, <1>5 DEF vars, voteVars
<1>6. ASSUME NEW n \in Nodes, \/ \E t \in Txs : SendTransaction(n, t)
                              \/ \E p \in Nodes : Ask(n, p)
                              \/ Exchange(n)
                              \/ (Vote(n) \/ Count(n)) /\ UNCHANGED pc
      PROVE  Lockstep'
  <2>1. UNCHANGED <<time, pc, turn>>
    BY <1>6 DEF SendTransaction, Ask, Exchange, voteVars, Vote, Count, E!AskVote, E!GetVote, E!VotesIn,
                E!Tally, E!Adopt, E!Goto, E!step
  <2> QED  BY <1>1, <2>1
<1> QED  BY <1>2, <1>3, <1>4, <1>5, <1>6 DEF Next, StepOf

-----------------------------------------------------------------------------
(* Where the nodes are in the round *)

\* The times of the phases, of nodes at work and of the others.
LEMMA PhaseTimes ==
    ASSUME LoopInv, NEW n \in Nodes
    PROVE  LET done == IF pc[n] = "idle" THEN 0 ELSE 1
               end  == RoundsEnd(n)
           IN  /\ Rounds(n) \in Nat /\ time[n] \in Nat /\ end \in Nat /\ end = Cycle * Rounds(n)
               /\ state[n] \in {"MINING", "LEADER", "BLOCK"} /\ Into(n) = time[n] - end
               /\ state[n] = "MINING" => end + done <= time[n] /\ time[n] <= end + BlockPeriod + done
               /\ state[n] = "LEADER" => /\ end + BlockPeriod + 1 + done <= time[n]
                                         /\ time[n] <= end + 2 * BlockPeriod + done
               /\ state[n] = "BLOCK" => /\ end + 1 + done <= time[n] + BlockPeriod
                                        /\ time[n] < end + done /\ Rounds(n) > 0
<1>1. /\ Rounds(n) \in Nat /\ time[n] \in Nat /\ RoundsEnd(n) \in Nat
      /\ OnTime(n) /\ state[n] \in {"MINING", "LEADER", "BLOCK"}
  BY RoundTypes DEF LoopInv, Typed
<1> QED  BY <1>1, Periods DEF OnTime, Into, RoundsEnd

\* At most one round apart, and then one node votes and the other one does not
\* any more.
LEMMA Apart ==
    ASSUME LoopInv, NEW n \in Nodes, NEW m \in Nodes, Rounds(n) < Rounds(m)
    PROVE  Rounds(m) = Rounds(n) + 1 /\ state[n] = "LEADER" /\ state[m] = "BLOCK"
<1> DEFINE r == Rounds(n)
           q == Rounds(m)
           a == time[n]
           b == time[m]
<1>1. /\ r \in Nat /\ q \in Nat /\ a \in Nat /\ b \in Nat /\ b <= a + 1 /\ r < q
      /\ RoundsEnd(n) = Cycle * r /\ RoundsEnd(m) = Cycle * q /\ Cycle * r \in Nat /\ Cycle * q \in Nat
      /\ pc[n] # "idle" => b <= a
      /\ pc[n] # "idle" => pc[m] = "idle"
  <2>1. n # m
    BY RoundTypes DEF LoopInv
  <2>2. pc[n] # "idle" => pc[m] = "idle" /\ b <= a
    BY <2>1 DEF LoopInv, Turns
  <2> QED  BY <2>2, PhaseTimes DEF LoopInv, Turns, RoundsEnd
<1>2. /\ state[n] \in {"MINING", "LEADER", "BLOCK"} /\ state[m] \in {"MINING", "LEADER", "BLOCK"}
      /\ state[n] = "MINING" => a <= Cycle * r + BlockPeriod + 1
      /\ state[n] = "LEADER" => a <= Cycle * r + 2 * BlockPeriod + 1
      /\ state[n] = "LEADER" /\ pc[n] = "idle" => a <= Cycle * r + 2 * BlockPeriod
      /\ state[n] = "BLOCK" => a <= Cycle * r
      /\ state[m] = "MINING" => Cycle * q <= b
      /\ state[m] = "LEADER" => Cycle * q <= b
      /\ state[m] = "BLOCK" => Cycle * q + 1 <= b + BlockPeriod
      /\ state[m] = "MINING" /\ pc[m] # "idle" => Cycle * q + 1 <= b
      /\ state[m] = "BLOCK" /\ pc[m] # "idle" => Cycle * q + 2 <= b + BlockPeriod
  BY <1>1, PhaseTimes, Periods
<1>3. Cycle * r + Cycle <= Cycle * q /\ (r + 1 < q => Cycle * (r + 1) + Cycle <= Cycle * q)
      /\ Cycle * (r + 1) = Cycle * r + Cycle
  BY <1>1, LaterRound, NextRound
<1> HIDE DEF r, q, a, b
<1>4. q = r + 1
  BY <1>1, <1>2, <1>3, Periods
<1>5. state[n] = "LEADER"
  BY <1>1, <1>2, <1>3, Periods
<1>6. state[m] = "BLOCK"
  BY <1>1, <1>2, <1>3, <1>5, Periods
<1> QED  BY <1>4, <1>5, <1>6 DEF r, q

\* Nodes of one round while one is at work in its MINING phase ...
LEMMA MiningTogether ==
    ASSUME LoopInv, NEW n \in Nodes, pc[n] # "idle", state[n] = "MINING", NEW m \in Nodes
    PROVE  /\ Rounds(m) = Rounds(n) /\ state[m] \in {"MINING", "LEADER"}
           /\ Into(m) <= Into(n) /\ Into(n) <= Into(m) + 1
<1>1. Rounds(m) = Rounds(n)
  BY Apart, PhaseTimes
<1>2. time[n] <= time[m] + 1 /\ time[m] <= time[n] /\ (m # n => pc[m] = "idle")
  <2>1. time[n] \in Nat
    BY PhaseTimes
  <2> QED  BY <2>1 DEF LoopInv, Turns
<1> QED  BY <1>1, <1>2, PhaseTimes, Periods DEF RoundsEnd

\* ... or in its LEADER phase.
LEMMA LeadingTogether ==
    ASSUME LoopInv, NEW n \in Nodes, pc[n] # "idle", state[n] = "LEADER", NEW m \in Nodes
    PROVE  \/ Rounds(m) = Rounds(n) /\ state[m] = "LEADER"
           \/ Rounds(m) = Rounds(n) + 1 /\ state[m] = "BLOCK" /\ m # n
<1>1. CASE Rounds(n) < Rounds(m)
  BY <1>1, Apart
<1>2. CASE Rounds(m) < Rounds(n)
  BY <1>2, Apart
<1>3. CASE Rounds(m) = Rounds(n)
  <2>1. time[n] <= time[m] + 1 /\ time[m] <= time[n] /\ (m # n => pc[m] = "idle")
    <3>1. time[n] \in Nat
      BY PhaseTimes
    <3> QED  BY <3>1 DEF LoopInv, Turns
  <2> QED  BY <1>3, <2>1, PhaseTimes, Periods DEF RoundsEnd
<1> QED  BY <1>1, <1>2, <1>3, PhaseTimes

\* When a transaction is sent, all nodes are in the same MINING phase.
LEMMA SentEarly ==
    ASSUME PromptMesh, LoopInv, Lockstep, NEW n \in Nodes, NEW t \in Txs, SendTransaction(n, t),
           NEW m \in Nodes
    PROVE  Rounds(m) = Rounds(n) /\ state[m] = "MINING" /\ Into(m) <= LastSend + 1
<1>1. /\ Order[turn] = n /\ pc[n] = "idle" /\ time[n] \in SendTicks[t]
      /\ time[n] % Cycle <= LastSend /\ LastSend \in Int /\ LastSend <= BlockPeriod - 2
  <2>1. time[n] \in SendTicks[t] /\ Order[turn] = n /\ pc[n] = "idle"
    BY DEF SendTransaction, E!MyTurn
  <2>2. t \in Prompt
    BY DEF PromptMesh
  <2> QED  BY <2>1, <2>2, Periods, SystemAssumption DEF Prompt, LastSend, Cycle
<1>2. state[n] = "MINING" /\ Into(n) <= LastSend
  <2> DEFINE into == Into(n)
  <2>1. /\ Rounds(n) \in Nat /\ time[n] = Cycle * Rounds(n) + into /\ into \in Int
        /\ state[n] \in {"MINING", "LEADER", "BLOCK"}
        /\ state[n] = "MINING" => 0 <= into /\ into <= BlockPeriod
        /\ state[n] = "LEADER" => BlockPeriod + 1 <= into /\ into <= 2 * BlockPeriod
        /\ state[n] = "BLOCK" => 1 <= into + BlockPeriod /\ into < 0 /\ Rounds(n) > 0
    BY <1>1, PhaseTimes, Periods
  <2> HIDE DEF into
  <2>2. CASE into >= 0
    <3>0. into \in Nat /\ into < Cycle
      BY <2>1, <2>2, Periods
    <3>1. (Cycle * Rounds(n) + into) % Cycle = into
      BY <2>1, <3>0, WithinCycle
    <3> QED  BY <1>1, <2>1, <2>2, <3>1, Periods DEF into
  <2>3. CASE into < 0
    <3>1. Rounds(n) - 1 \in Nat /\ into + Cycle \in Nat /\ into + Cycle < Cycle
          /\ BlockPeriod <= into + Cycle
      BY <2>1, <2>3, Periods
    <3>2. Cycle * ((Rounds(n) - 1) + 1) = Cycle * (Rounds(n) - 1) + Cycle /\ Cycle * (Rounds(n) - 1) \in Nat
      BY <3>1, NextRound
    <3>3. time[n] = Cycle * (Rounds(n) - 1) + (into + Cycle)
      BY <2>1, <3>1, <3>2, Periods
    <3>4. time[n] % Cycle = into + Cycle
      BY <3>1, <3>3, WithinCycle
    <3> QED  BY <1>1, <3>1, <3>4, Periods
  <2> QED  BY <2>1, <2>2, <2>3
<1>3. time[n] <= time[m] /\ time[m] <= time[n] + 1 /\ pc[m] = "idle"
  <2>1. pc[m] = "idle"
    BY <1>1, Alone
  <2> QED  BY <1>1, <2>1, NobodyEarlier DEF PromptMesh, LoopInv, Turns
<1>4. Rounds(m) = Rounds(n)
  <2>1. ~(Rounds(n) < Rounds(m))
    BY <1>2, Apart
  <2>2. ASSUME Rounds(m) < Rounds(n) PROVE FALSE
    BY <1>2, <2>2, Apart
  <2> QED  BY <2>1, <2>2, PhaseTimes
<1> QED  BY <1>1, <1>2, <1>3, <1>4, PhaseTimes, Periods DEF RoundsEnd

-----------------------------------------------------------------------------
(* The outcome of a vote *)

\* Where a step is taken, no node has raised.
LEMMA Working ==
    ASSUME Base, NEW n \in Nodes, StepOf(n) \/ \E t \in Txs : SendTransaction(n, t)
    PROVE  AllAlive
<1>1. CASE Exchange(n)
  <2>1. request[n] # Nil
    BY <1>1 DEF Exchange, N!ReceiveTransactions, N!ReceiveBlocks, N!AnswerMissing, N!AnswerBlock
  <2>2. pc[n] # "idle"
    BY <2>1 DEF Base, SystemInv, LoopInv, Pinging
  <2> QED  BY <2>2 DEF Base
<1>2. CASE ~Exchange(n)
  <2>1. E!MyTurn(n)
    BY <1>2 DEF StepOf, SendTransaction, Begin, E!Begin, Ask, Vote, E!AskVote, E!GetVote, E!VotesIn,
                RunMining, E!MineWith, Count, E!Tally, E!Adopt, Close, E!Close, RunBlock, E!RunBlock
  <2> QED  BY <2>1 DEF E!MyTurn, AllAlive
<1> QED  BY <1>1, <1>2

\* What a node that takes the block of its round does.
LEMMA BlockInserted ==
    ASSUME LoopInv, ChainInv, NEW n \in Nodes, N!ReceiveBlocks(n)
    PROVE  /\ alive' = alive
           /\ \E p \in Nodes : Takes(n, p) /\ N!Insert(n, Height(n), <<chain[p][Height(n) + 1]>>)
<1>1. PICK p \in Nodes : Takes(n, p)
  BY BlockTaken
<1>2. chain' # chain
  <2>1. chain \in [Nodes -> Seq(N!Block)] /\ chain[n] \in Seq(N!Block) /\ Len(chain[n]) \in Nat
    BY DEF LoopInv, Typed
  <2>2. chain'[n] = Append(chain[n], chain[p][Height(n) + 1])
    BY <1>1, <2>1 DEF Takes
  <2>3. Len(Append(chain[n], chain[p][Height(n) + 1])) = Len(chain[n]) + 1
    BY <2>1
  <2> QED  BY <2>1, <2>2, <2>3
<1>3. N!Insert(n, request[n].height, request[n].blocks) /\ UNCHANGED alive
  BY <1>2 DEF N!ReceiveBlocks
<1>4. request[n] # Nil /\ request[n].kind = "blocks"
  BY DEF N!ReceiveBlocks
<1>5. request[n].height = Height(n) /\ request[n].blocks = <<chain[p][Height(n) + 1]>>
  <2>1. Asked(n)
    BY DEF ChainInv
  <2> QED  BY <1>1, <1>4, <2>1 DEF Asked, Takes
<1> QED  BY <1>1, <1>3, <1>5

\* No exchange raises.
LEMMA ExchangeSafe ==
    ASSUME LoopInv, RequestInv, ChainInv, NEW n \in Nodes, Exchange(n)
    PROVE  alive' = alive
<1>1. ASSUME NEW p \in Nodes, N!AnswerMissing(n, p) PROVE alive' = alive
  BY <1>1, MissingAnswered
<1>2. CASE N!ReceiveTransactions(n)
  BY <1>2, TransactionsReceived
<1>3. ASSUME NEW p \in Nodes, N!AnswerBlock(n, p) PROVE alive' = alive
  BY <1>3, BlocksAnswered
<1>4. CASE N!ReceiveBlocks(n)
  BY <1>4, BlockInserted
<1> QED  BY <1>1, <1>2, <1>3, <1>4 DEF Exchange

\* A robot raises at the end of a MINING phase only.
LEMMA NoneRaises ==
    ASSUME Base, NEW n \in Nodes, StepOf(n) \/ \E t \in Txs : SendTransaction(n, t), ~RunMining(n)
    PROVE  alive' = alive
<1>0. LoopInv /\ VoteInv /\ RequestInv /\ ChainInv
  BY DEF Base, SystemInv
<1>1. CASE Exchange(n)
  BY <1>0, <1>1, ExchangeSafe
<1>2. CASE Vote(n) \/ Count(n)
  BY <1>0, <1>2, VoteVotes, CountVotes
<1>3. CASE ~(Exchange(n) \/ Vote(n) \/ Count(n))
  BY <1>3 DEF StepOf, SendTransaction, N!SendTransaction, Begin, E!Begin, E!up, Ask, Offer,
              N!MempoolSync, N!ChainSync, Close, E!Close, RunBlock, E!RunBlock
<1> QED  BY <1>1, <1>2, <1>3

\* Signatures are of robots, and a transaction's.
LEMMA HopTypes ==
    ASSUME Typed, NEW n \in Nodes
    PROVE  /\ Hops(n) \subseteq [id : Nodes, value : Nat]
           /\ \A s \in Hops(n) : \E t \in N!Held(mempool[n]) :
                 /\ mempool[n][t].completed
                 /\ \E i \in DOMAIN mempool[n][t].sigs :
                       LET h == mempool[n][t].sigs[i]
                       IN  /\ h \in N!Entry /\ s = [id |-> h.id, value |-> Value[<<t, h.id, h.relayer>>]]
                           /\ <<t, h.id, h.relayer>> \in Txs \X Nodes \X Nodes
<1>1. ASSUME NEW s \in Hops(n)
      PROVE  \E t \in N!Held(mempool[n]) :
                 /\ mempool[n][t].completed
                 /\ \E i \in DOMAIN mempool[n][t].sigs :
                       LET h == mempool[n][t].sigs[i]
                       IN  /\ h \in N!Entry /\ s = [id |-> h.id, value |-> Value[<<t, h.id, h.relayer>>]]
                           /\ <<t, h.id, h.relayer>> \in Txs \X Nodes \X Nodes
  <2>1. PICK t \in N!Held(mempool[n]) :
           /\ mempool[n][t].completed
           /\ s \in {[id |-> h.id, value |-> Value[<<t, h.id, h.relayer>>]] :
                       h \in {mempool[n][t].sigs[i] : i \in DOMAIN mempool[n][t].sigs}}
    BY <1>1 DEF Hops
  <2>2. PICK i \in DOMAIN mempool[n][t].sigs :
           LET h == mempool[n][t].sigs[i]
           IN  s = [id |-> h.id, value |-> Value[<<t, h.id, h.relayer>>]]
    BY <2>1
  <2>3. t \in Txs /\ mempool[n][t] \in N!Copy
    BY DEF Typed, N!Held, N!Pool
  <2>4. mempool[n][t].sigs[i] \in N!Entry
    BY <2>3 DEF N!Copy
  <2> QED  BY <2>1, <2>2, <2>3, <2>4 DEF N!Entry
<1>2. ASSUME NEW s \in Hops(n) PROVE s \in [id : Nodes, value : Nat]
  <2>0. PICK t \in N!Held(mempool[n]) : \E i \in DOMAIN mempool[n][t].sigs :
           LET h == mempool[n][t].sigs[i]
           IN  /\ h \in N!Entry /\ s = [id |-> h.id, value |-> Value[<<t, h.id, h.relayer>>]]
               /\ <<t, h.id, h.relayer>> \in Txs \X Nodes \X Nodes
    BY <1>1
  <2>1. PICK i \in DOMAIN mempool[n][t].sigs :
           LET h == mempool[n][t].sigs[i]
           IN  /\ h \in N!Entry /\ s = [id |-> h.id, value |-> Value[<<t, h.id, h.relayer>>]]
               /\ <<t, h.id, h.relayer>> \in Txs \X Nodes \X Nodes
    BY <2>0
  <2> DEFINE h == mempool[n][t].sigs[i]
  <2>2. /\ h \in N!Entry /\ s = [id |-> h.id, value |-> Value[<<t, h.id, h.relayer>>]]
        /\ <<t, h.id, h.relayer>> \in Txs \X Nodes \X Nodes
    BY <2>1
  <2> HIDE DEF h
  <2>3. h.id \in Nodes /\ Value[<<t, h.id, h.relayer>>] \in Nat
    BY <2>2, SystemAssumption DEF N!Entry
  <2> QED  BY <2>2, <2>3
<1> QED  BY <1>1, <1>2

\* A candidate in the LEADER phase, and the signature that it stands for.
LEMMA Candidate ==
    ASSUME Base, Steady, NEW n \in Nodes, state[n] = "LEADER"
    PROVE  candidate[n] \in Nodes /\ (pc[n] # "adopt" => cache[n].sig = candidate[n])
<1>1. Typed /\ Paired(n) /\ Best(n, candidate[n])
  BY DEF Base, SystemInv, LoopInv, PairInv, Steady, Agreed, Leads
<1>2. candidate[n] \in Nodes
  BY <1>1, HopTypes DEF Best
<1>3. candidate[n] # Nil
  BY <1>2, SystemAssumption
<1> QED  BY <1>1, <1>2, <1>3 DEF Paired, Agrees

\* The outcome of a vote is the one that all others have or will have.
LEMMA OneOutcome ==
    ASSUME Base, Steady, NEW n \in Nodes, Close(n)
    PROVE  candidate[n] \in Nodes /\ U!Elected(n, candidate[n], cache[n].sig)
<1>1. LoopInv /\ pc[n] = "close" /\ state[n] = "LEADER"
  BY DEF Base, SystemInv, LoopInv, Close, E!Close, Pinging
<1>2. candidate[n] \in Nodes /\ cache[n].sig = candidate[n]
  BY <1>1, Candidate
<1>3. ASSUME NEW m \in Nodes, Rounds(m) > Rounds(n)
      PROVE  winning[m][Rounds(n) + 1] = candidate[n]
  <2>1. Rounds(m) = Rounds(n) + 1
    BY <1>1, <1>3, Apart, PhaseTimes
  <2> QED  BY <2>1 DEF Steady, Agreed, Follows
<1> QED  BY <1>2, <1>3 DEF U!Elected, Rounds

\* The headers are the same in both instances of Node.
LEMMA SameHeaders == \A c, h : N!HeaderAt(c, h) = U!HeaderAt(c, h)
<1>1. \A data : N!TxsHash(data) = U!TxsHash(data)
  BY DEF N!TxsHash, U!TxsHash
<1>2. N!GenesisHeader = U!GenesisHeader
  BY DEF N!GenesisHeader, U!GenesisHeader, N!NoTxs, U!NoTxs
<1> QED  BY <1>1, <1>2 DEF N!HeaderAt, U!HeaderAt, N!HeaderHash, U!HeaderHash

\* The two instances of Node differ in the outcomes of a vote only.
LEMMA SameActions ==
    ASSUME NEW n \in Nodes, NEW p \in Nodes
    PROVE  /\ N!MempoolSync(n, p) => U!MempoolSync(n, p)
           /\ N!ChainSync(n, p) => U!ChainSync(n, p)
           /\ N!AnswerMissing(n, p) => U!AnswerMissing(n, p)
           /\ N!ReceiveTransactions(n) => U!ReceiveTransactions(n)
           /\ N!AnswerBlock(n, p) => U!AnswerBlock(n, p)
           /\ N!ReceiveBlocks(n) => U!ReceiveBlocks(n)
           /\ N!EndMining(n) => U!EndMining(n)
           /\ N!EndRound(n) => U!EndRound(n)
           /\ N!EndElection(n, candidate[n], cache[n].sig) /\ U!Elected(n, candidate[n], cache[n].sig)
                 => U!EndElection(n, candidate[n], cache[n].sig)
<1>1. N!Running(n) = U!Running(n) /\ N!PhaseOver(n) = U!PhaseOver(n) /\ N!PingerOn(n) = U!PingerOn(n)
    BY DEF N!Running, U!Running, N!PhaseOver, U!PhaseOver, N!PingerOn, U!PingerOn,
         N!Phase, U!Phase
<1>2. N!MempoolSync(n, p) => U!MempoolSync(n, p)
  BY <1>1 DEF N!MempoolSync, U!MempoolSync, N!FindMissing, U!FindMissing, N!Held, U!Held
<1>3. N!ChainSync(n, p) => U!ChainSync(n, p)
  BY <1>1, SameHeaders DEF N!ChainSync, U!ChainSync, N!Behind, U!Behind, N!HeaderOfLast,
                           U!HeaderOfLast
<1>4. N!AnswerMissing(n, p) => U!AnswerMissing(n, p)
    BY DEF N!AnswerMissing, U!AnswerMissing, N!SignedFor, U!SignedFor, N!AddSignature,
         U!AddSignature, N!Held, U!Held
<1>5. N!ReceiveTransactions(n) => U!ReceiveTransactions(n)
    BY DEF N!ReceiveTransactions, U!ReceiveTransactions, N!SyncMempool, U!SyncMempool,
         N!ValidateTransaction, U!ValidateTransaction
<1>6. N!AnswerBlock(n, p) => U!AnswerBlock(n, p)
  BY SameHeaders DEF N!AnswerBlock, U!AnswerBlock, N!Window, U!Window, N!Common, U!Common,
         N!Highest, U!Highest, N!RetryBelow, U!RetryBelow, N!Lowest, U!Lowest
<1>7. N!ReceiveBlocks(n) => U!ReceiveBlocks(n)
  <2>1. \A b : N!VerifyBlock(n, b) = U!VerifyBlock(n, b)
    BY DEF N!VerifyBlock, U!VerifyBlock
  <2>2. \A bs, k : /\ N!StampError(bs, k) = U!StampError(bs, k)
                    /\ N!ParentError(bs, k) = U!ParentError(bs, k)
                    /\ N!Stops(n, bs, k) = U!Stops(n, bs, k)
    BY <2>1 DEF N!StampError, U!StampError, N!ParentError, U!ParentError, N!Hash, U!Hash,
                N!Stops, U!Stops
  <2>3. \A bs : N!VerifyChain(n, bs) = U!VerifyChain(n, bs)
    BY <2>1, <2>2 DEF N!VerifyChain, U!VerifyChain
  <2>4. \A h, bs : N!Insert(n, h, bs) => U!Insert(n, h, bs)
    BY DEF N!Insert, U!Insert, N!SyncedMempool, U!SyncedMempool, N!SyncedPrevious, U!SyncedPrevious,
           N!Discarded, U!Discarded, N!CopyIn, U!CopyIn, N!IdsIn, U!IdsIn, N!Held, U!Held
  <2>5. \A c, h : N!HashAt(c, h) = U!HashAt(c, h)
    BY DEF N!HashAt, U!HashAt, N!Hash, U!Hash, N!GenesisHash, U!GenesisHash
  <2> QED  BY <2>3, <2>4, <2>5 DEF N!ReceiveBlocks, U!ReceiveBlocks
<1>8. N!EndMining(n) => U!EndMining(n)
  BY <1>1 DEF N!EndMining, U!EndMining, N!Held, U!Held
<1>9. N!EndRound(n) => U!EndRound(n)
  BY <1>1 DEF N!EndRound, U!EndRound
<1>10. /\ N!EndElection(n, candidate[n], cache[n].sig) /\ U!Elected(n, candidate[n], cache[n].sig)
          => U!EndElection(n, candidate[n], cache[n].sig)
    BY <1>1 DEF N!EndElection, U!EndElection, N!IsLeader, U!IsLeader, N!CreateBlock,
         U!CreateBlock, N!NewBlock, U!NewBlock, N!BlockData, U!BlockData, N!HashAt,
         U!HashAt, N!Hash, U!Hash, N!GenesisHash, U!GenesisHash, N!RecordWinner,
         U!RecordWinner, N!ClearedMempool, U!ClearedMempool, N!NoTxs, U!NoTxs, N!Held,
         U!Held
<1> QED  BY <1>2, <1>3, <1>4, <1>5, <1>6, <1>7, <1>8, <1>9, <1>10

\* So every step of the network is one of Node with unanimous elections.
LEMMA UnanimousSteps ==
    ASSUME Base, AllAlive => Steady, [Next]_vars
    PROVE  [U!Next]_(U!vars)
<1>0. SystemInv /\ LoopInv /\ VoteInv /\ RequestInv
  BY DEF Base, SystemInv
<1>1. CASE UNCHANGED vars
  BY <1>1 DEF vars, nodeVars, U!vars
<1>2. ASSUME NEW n \in Nodes, NEW t \in Txs, SendTransaction(n, t) PROVE U!Next
  BY <1>2 DEF SendTransaction, N!SendTransaction, N!Running, U!SendTransaction, U!Running, U!Next
<1>3. ASSUME NEW n \in Nodes, Begin(n) PROVE UNCHANGED U!vars
  BY <1>3 DEF Begin, E!Begin, E!lead, E!up, nodeVars, U!vars
<1>4. ASSUME NEW n \in Nodes, NEW p \in Nodes, Ask(n, p) PROVE [U!Next]_(U!vars)
  <2>1. CASE N!MempoolSync(n, p)
    <3>1. U!MempoolSync(n, p)
      BY <2>1, SameActions
    <3> QED  BY <3>1 DEF U!Next
  <2>2. CASE N!ChainSync(n, p)
    <3>1. U!ChainSync(n, p)
      BY <2>2, SameActions
    <3> QED  BY <3>1 DEF U!Next
  <2>3. CASE UNCHANGED <<nodeVars, state, winning, alive, server>>
    BY <2>3 DEF nodeVars, U!vars
  <2> QED  BY <1>4, <2>1, <2>2, <2>3 DEF Ask, Offer
<1>5. ASSUME NEW n \in Nodes, Exchange(n) PROVE U!Next
  <2>1. \/ U!ReceiveTransactions(n) \/ U!ReceiveBlocks(n)
        \/ \E p \in Nodes : U!AnswerMissing(n, p) \/ U!AnswerBlock(n, p)
    BY <1>5, SameActions DEF Exchange
  <2> QED  BY <2>1 DEF U!Exchange, U!Next
<1>6. ASSUME NEW n \in Nodes, Vote(n) \/ Count(n) PROVE UNCHANGED U!vars
  <2>1. UNCHANGED <<nodeVars, state, winning, alive, server>>
    BY <1>0, <1>6, VoteVotes, CountVotes
  <2> QED  BY <2>1 DEF nodeVars, U!vars
<1>7. ASSUME NEW n \in Nodes, RunMining(n) PROVE [U!Next]_(U!vars)
  <2>1. CASE E!After(n, 1)
    <3>1. U!EndMining(n)
      BY <1>7, <2>1, SameActions DEF RunMining
    <3> QED  BY <3>1 DEF U!Next
  <2>2. CASE ~E!After(n, 1)
    <3>1. UNCHANGED <<nodeVars, state, winning, alive, server>>
      BY <1>7, <2>2 DEF RunMining, E!MineWith
    <3> QED  BY <3>1 DEF nodeVars, U!vars
  <2> QED  BY <2>1, <2>2
<1>8. ASSUME NEW n \in Nodes, Close(n) PROVE [U!Next]_(U!vars)
  <2>1. CASE E!After(n, 2)
    <3>1. N!EndElection(n, candidate[n], cache[n].sig)
      BY <1>8, <2>1 DEF Close
    <3>2. Steady
      BY <1>8, Working DEF StepOf
    <3>3. candidate[n] \in Nodes /\ U!Elected(n, candidate[n], cache[n].sig)
      BY <1>8, <3>2, OneOutcome
    <3>4. cache[n].sig \in Nodes
      BY <3>3 DEF U!Elected
    <3>5. U!EndElection(n, candidate[n], cache[n].sig)
      BY <3>1, <3>3, SameActions
    <3> QED  BY <3>3, <3>4, <3>5 DEF U!Next
  <2>2. CASE ~E!After(n, 2)
    <3>1. UNCHANGED <<nodeVars, state, winning, alive, server>>
      BY <1>8, <2>2 DEF Close, E!Close, E!up
    <3> QED  BY <3>1 DEF nodeVars, U!vars
  <2> QED  BY <2>1, <2>2
<1>9. ASSUME NEW n \in Nodes, RunBlock(n) PROVE [U!Next]_(U!vars)
  <2>1. CASE E!Cycled(n) < BlockPeriod
    <3>1. U!EndRound(n)
      BY <1>9, <2>1, SameActions DEF RunBlock
    <3> QED  BY <3>1 DEF U!Next
  <2>2. CASE ~(E!Cycled(n) < BlockPeriod)
    <3>1. UNCHANGED <<nodeVars, winning, alive, server>>
      BY <1>9, <2>2 DEF RunBlock, E!RunBlock, E!up
    <3>2. state' = state
      BY <1>9, <2>2 DEF RunBlock, E!RunBlock
    <3> QED  BY <3>1, <3>2 DEF nodeVars, U!vars
  <2> QED  BY <2>1, <2>2
<1> QED  BY <1>1, <1>2, <1>3, <1>4, <1>5, <1>6, <1>7, <1>8, <1>9 DEF Next, StepOf

\* The loop, the chains, the copies and the scans stay as they are.
LEMMA BaseSteps ==
    ASSUME PromptMesh, Base, AllAlive => Steady, [Next]_vars
    PROVE  Base'
<1>0. SystemInv /\ PairInv /\ CopyInv /\ ScanInv /\ ChainInv /\ Lockstep
      /\ LoopInv /\ RequestInv /\ VoteInv
  BY DEF Base, SystemInv
<1>1. SystemInv' /\ PairInv' /\ CopyInv' /\ ScanInv' /\ Lockstep'
  BY <1>0, SystemSteps, PairStep, CopyStep, ScanStep, LockSteps DEF PromptMesh
<1>2. ChainInv'
  BY <1>0, UnanimousSteps, ChainSteps DEF PromptMesh
<1>3. ASSUME NEW m \in Nodes, pc'[m] # "idle" PROVE AllAlive'
  <2>1. CASE UNCHANGED vars
    BY <1>3, <2>1 DEF vars, voteVars, Base, AllAlive
  <2>2. ASSUME NEW n \in Nodes, StepOf(n) \/ \E t \in Txs : SendTransaction(n, t) PROVE AllAlive'
    <3>1. AllAlive
      BY <2>2, Working
    <3>2. CASE RunMining(n)
      BY <1>0, <1>3, <3>2, MineLoop DEF LoopInv, Turns, SameAt
    <3>3. CASE ~RunMining(n)
      <4>1. alive' = alive
        BY <2>2, <3>3, NoneRaises
      <4> QED  BY <3>1, <4>1 DEF AllAlive
    <3> QED  BY <3>2, <3>3
  <2> QED  BY <2>1, <2>2 DEF Next
<1> QED  BY <1>1, <1>2, <1>3 DEF Base

-----------------------------------------------------------------------------
(* Nodes that have the same *)

\* The parts of the invariant that most proofs need.
LEMMA Parts ==
    ASSUME Base
    PROVE  /\ SystemInv /\ LoopInv /\ VoteInv /\ RequestInv /\ ChainInv /\ Typed /\ VoteTyped
           /\ CopyInv /\ PairInv /\ ScanInv /\ Lockstep
           /\ \A n \in Nodes : /\ Rounds(n) \in Nat /\ Height(n) \in Nat /\ time[n] \in Nat
                               /\ state[n] \in {"MINING", "LEADER", "BLOCK"}
                               /\ state[n] # "BLOCK" => Height(n) = Rounds(n)
                               /\ Height(n) = Rounds(n) \/ Height(n) + 1 = Rounds(n)
                               /\ chain[n] \in Seq(N!Block)
                               /\ mempool[n] \in N!Pool
<1>1. /\ SystemInv /\ LoopInv /\ VoteInv /\ RequestInv /\ ChainInv /\ Typed /\ VoteTyped
      /\ CopyInv /\ PairInv /\ ScanInv /\ Lockstep
  BY DEF Base, SystemInv, LoopInv, VoteInv
<1>2. ASSUME NEW n \in Nodes
      PROVE  /\ Rounds(n) \in Nat /\ Height(n) \in Nat /\ time[n] \in Nat
             /\ state[n] \in {"MINING", "LEADER", "BLOCK"}
             /\ state[n] # "BLOCK" => Height(n) = Rounds(n)
             /\ Height(n) = Rounds(n) \/ Height(n) + 1 = Rounds(n)
             /\ chain[n] \in Seq(N!Block)
             /\ mempool[n] \in N!Pool
  <2>1. Chained(n) /\ Rounds(n) \in Nat /\ Height(n) \in Nat
    BY <1>1, RoundTypes DEF ChainInv
  <2>2. /\ time[n] \in Nat /\ state[n] \in {"MINING", "LEADER", "BLOCK"}
        /\ chain[n] \in Seq(N!Block) /\ mempool[n] \in N!Pool
    BY <1>1 DEF Typed
  <2> QED  BY <2>1, <2>2 DEF Chained, Lags
<1> QED  BY <1>1, <1>2

\* Chains of one height are the same.
LEMMA SameChain ==
    ASSUME LoopInv, ChainInv, NEW n \in Nodes, NEW m \in Nodes, Height(n) = Height(m)
    PROVE  chain[n] = chain[m]
<1>1. Typed
  BY DEF LoopInv
<1>2. /\ DOMAIN chain[n] = 1..Height(n) /\ DOMAIN chain[m] = 1..Height(m)
      /\ chain[n] \in Seq(N!Block) /\ chain[m] \in Seq(N!Block)
  BY <1>1, RoundTypes DEF Typed
<1>3. \A h \in 1..Height(n) : chain[n][h] = chain[m][h]
  BY <1>2 DEF ChainInv, OneHistory
<1>4. Len(chain[n]) = Len(chain[m])
  BY DEF Height
<1>5. \A i \in 1..Len(chain[n]) : chain[n][i] = chain[m][i]
  BY <1>3 DEF Height
<1> QED  BY <1>2, <1>4, <1>5, SeqEqual

\* So nodes with chains of one height wait for the same transactions.
LEMMA SamePast ==
    ASSUME Base, Stocked, NEW n \in Nodes, NEW m \in Nodes, Height(n) = Height(m)
    PROVE  previous[n] = previous[m] /\ Current(n) = Current(m)
<1>1. chain[n] = chain[m]
  BY Parts, SameChain
<1>2. previous[n] = N!IdsIn(chain[n]) /\ previous[m] = N!IdsIn(chain[m])
  BY DEF Stocked, Booked
<1> QED  BY <1>1, <1>2 DEF Current

\* While a node is at work in its MINING phase.
LEMMA MiningAlone ==
    ASSUME Base, NEW n \in Nodes, pc[n] # "idle", state[n] = "MINING", NEW m \in Nodes
    PROVE  /\ Height(m) = Height(n) /\ Rounds(m) = Rounds(n) /\ Into(m) <= Into(n) /\ Into(n) <= Into(m) + 1
           /\ state[m] \in {"MINING", "LEADER"}
           /\ m # n => pc[m] = "idle" /\ request[m] = Nil /\ left[m] = {}
<1>1. LoopInv
  BY Parts
<1>2. /\ Rounds(m) = Rounds(n) /\ state[m] \in {"MINING", "LEADER"}
      /\ Into(m) <= Into(n) /\ Into(n) <= Into(m) + 1
  BY <1>1, MiningTogether
<1>3. m # n => pc[m] = "idle" /\ request[m] = Nil
  BY <1>1, Alone
<1>4. m # n => left[m] = {}
  BY <1>1, <1>3 DEF LoopInv, Pinging
<1>5. Height(m) = Height(n)
  BY <1>2, Parts
<1> QED  BY <1>2, <1>3, <1>4, <1>5

\* What is in a mempool has been sent and is in no block yet.
LEMMA HeldCurrent ==
    ASSUME Base, Stocked, NEW n \in Nodes
    PROVE  /\ N!Held(mempool[n]) \subseteq Current(n) /\ Current(n) \subseteq Txs
           /\ sent \subseteq Txs
           /\ \A t \in N!Held(mempool[n]) : /\ t \in Txs /\ mempool[n][t] \in N!Copy
                                            /\ Has(n, t)
<1>1. Genuine(mempool[n], sent) /\ mempool[n] \in N!Pool
  BY Parts DEF CopyInv, Copies
<1> QED  BY <1>1 DEF Genuine, Stocked, Booked, Current, N!Held, N!Pool, Has

-----------------------------------------------------------------------------
(* A transaction is sent *)

\* It is new to everybody, and all robots are early in one MINING phase.
LEMMA Sends ==
    ASSUME PromptMesh, Base, Stocked, NEW n \in Nodes, NEW t \in Txs, SendTransaction(n, t)
    PROVE  /\ Source[t] = n /\ Dest[t] # n /\ t \notin sent /\ sent' = sent \cup {t}
           /\ mempool' = [mempool EXCEPT ![n][t] = [completed |-> FALSE, sigs |-> <<>>]]
           /\ \A m \in Nodes, u \in Txs :
                 mempool'[m][u] = IF m = n /\ u = t THEN [completed |-> FALSE, sigs |-> <<>>]
                                                    ELSE mempool[m][u]
           /\ [completed |-> FALSE, sigs |-> <<>>] # Nil
           /\ UNCHANGED <<chain, previous, checked, winning, state, request, alive, voteVars, rest, left>>
           /\ \A m \in Nodes : /\ state[m] = "MINING" /\ Rounds(m) = Rounds(n) /\ Height(m) = Height(n)
                               /\ Into(m) <= LastSend + 1 /\ pc[m] = "idle"
                               /\ request[m] = Nil /\ left[m] = {}
                               /\ mempool[m][t] = Nil /\ t \notin previous[m]
<1>1. /\ Source[t] = n /\ t \notin sent /\ sent' = sent \cup {t} /\ Order[turn] = n /\ pc[n] = "idle"
      /\ mempool' = [mempool EXCEPT ![n][t] = [completed |-> FALSE, sigs |-> <<>>]]
      /\ UNCHANGED <<chain, previous, checked, winning, state, request, alive, voteVars, rest, left>>
  BY DEF SendTransaction, N!SendTransaction, E!MyTurn
<1>2. Dest[t] # n
  BY <1>1 DEF PromptMesh
<1>3. [completed |-> FALSE, sigs |-> <<>>] # Nil
  <2>1. [completed |-> FALSE, sigs |-> <<>>] \in N!Copy
    <3>1. <<>> \in Seq(N!Entry)
      OBVIOUS
    <3> QED  BY <3>1 DEF N!Copy
  <2> QED  BY <2>1, RequestAssumption
<1>4. ASSUME NEW m \in Nodes
      PROVE  /\ state[m] = "MINING" /\ Rounds(m) = Rounds(n) /\ Height(m) = Height(n)
             /\ Into(m) <= LastSend + 1 /\ pc[m] = "idle"
             /\ request[m] = Nil /\ left[m] = {}
             /\ mempool[m][t] = Nil /\ t \notin previous[m]
  <2>1. /\ state[m] = "MINING" /\ Rounds(m) = Rounds(n) /\ Into(m) <= LastSend + 1
        /\ state[n] = "MINING"
    BY Parts, SentEarly
  <2>2. Height(m) = Height(n)
    BY <2>1, Parts
  <2>3. pc[m] = "idle" /\ request[m] = Nil /\ left[m] = {}
    <3>1. pc[m] = "idle"
      BY <1>1, Parts, Alone
    <3> QED  BY <3>1, Parts DEF LoopInv, Pinging
  <2>4. mempool[m][t] = Nil
    BY <1>1, HeldCurrent DEF Current, N!Held
  <2>5. t \notin previous[m]
    <3>1. GenuineBlocks(chain[m], sent) /\ previous[m] = N!IdsIn(chain[m])
      BY Parts DEF CopyInv, Copies, Stocked, Booked
    <3> QED  BY <1>1, <3>1 DEF GenuineBlocks, Genuine, N!IdsIn
  <2> QED  BY <2>1, <2>2, <2>3, <2>4, <2>5
<1>5. ASSUME NEW m \in Nodes, NEW u \in Txs
      PROVE  mempool'[m][u] = IF m = n /\ u = t THEN [completed |-> FALSE, sigs |-> <<>>]
                                                ELSE mempool[m][u]
  <2>1. mempool \in [Nodes -> N!Pool]
    BY Parts DEF Typed
  <2>2. mempool[m] \in [Txs -> N!Copy \cup {Nil}] /\ mempool[n] \in [Txs -> N!Copy \cup {Nil}]
    BY <2>1 DEF N!Pool
  <2> QED  BY <1>1, <2>1, <2>2
<1> QED  BY <1>1, <1>2, <1>3, <1>4, <1>5

LEMMA SendStocked ==
    ASSUME PromptMesh, Base, Stocked, NEW n \in Nodes, NEW t \in Txs, SendTransaction(n, t)
    PROVE  Stocked'
<1> DEFINE new == [completed |-> FALSE, sigs |-> <<>>]
<1>1. /\ Source[t] = n /\ Dest[t] # n /\ t \notin sent /\ sent' = sent \cup {t}
      /\ \A m \in Nodes, u \in Txs : mempool'[m][u] = IF m = n /\ u = t THEN new ELSE mempool[m][u]
      /\ new # Nil /\ ~new.completed /\ new.sigs = <<>>
      /\ UNCHANGED <<chain, previous, checked, winning, state, request>>
      /\ \A m \in Nodes : /\ state[m] = "MINING" /\ Height(m) = Height(n)
                          /\ request[m] = Nil /\ mempool[m][t] = Nil /\ t \notin previous[m]
  BY Sends
<1> HIDE DEF new
<1>2. Delivered'
  BY <1>1 DEF Delivered
<1>3. sent' \subseteq Txs
  BY <1>1 DEF Stocked
<1>4. ASSUME NEW m \in Nodes PROVE Booked(m)'
  <2>1. Booked(m)
    BY DEF Stocked
  <2>2. N!Held(mempool[m])' \subseteq N!Held(mempool[m]) \cup {t}
    BY <1>1 DEF N!Held
  <2>3. ASSUME NEW u \in N!Held(mempool[m])' PROVE Path(u, mempool[m][u], m)'
    <3>1. CASE m = n /\ u = t
      BY <1>1, <3>1 DEF Path
    <3>2. CASE ~(m = n /\ u = t)
      <4>1. mempool'[m][u] = mempool[m][u] /\ u \in N!Held(mempool[m])
        BY <1>1, <3>2 DEF N!Held
      <4> QED  BY <2>1, <4>1 DEF Booked, Path, N!ValidateTransaction
    <3> QED  BY <3>1, <3>2
  <2>4. previous'[m] = N!IdsIn(chain[m])'
    BY <1>1, <2>1 DEF Booked, N!IdsIn, N!Held
  <2> QED  BY <1>1, <2>1, <2>2, <2>3, <2>4 DEF Booked
<1>5. ASSUME NEW m \in Nodes PROVE Settled(m)'
  <2>1. ASSUME NEW u \in Current(m)'
        PROVE  /\ Height(Source[u])' = Height(m)' => Has(Source[u], u)'
               /\ Has(Dest[u], u)' /\ Height(Dest[u])' = Height(m)' => Done(Dest[u], u)'
               /\ Done(m, u)' /\ Height(Dest[u])' = Height(m)' => mempool'[Dest[u]][u] = mempool'[m][u]
    <3>0. u \in Txs /\ Source[u] \in Nodes /\ Dest[u] \in Nodes /\ Dest[t] \in Nodes
      BY <1>3, <2>1, SystemAssumption DEF Current
    <3>1. CASE u = t
      BY <1>1, <3>0, <3>1 DEF Has, Done
    <3>2. CASE u # t
      <4>1. \A k \in Nodes : mempool'[k][u] = mempool[k][u] /\ Height(k)' = Height(k)
        BY <1>1, <3>0, <3>2 DEF Height
      <4>2. u \in Current(m)
        BY <1>1, <2>1, <3>2 DEF Current
      <4> QED  BY <3>0, <4>1, <4>2 DEF Stocked, Settled, Has, Done
    <3> QED  BY <3>1, <3>2
  <2> QED  BY <2>1 DEF Settled
<1>6. ASSUME NEW m \in Nodes PROVE Arriving(m)'
  BY <1>1 DEF Arriving
<1>7. (DOMAIN previous = Nodes)'
  BY <1>1 DEF Stocked
<1> QED  BY <1>2, <1>3, <1>4, <1>5, <1>6, <1>7 DEF Stocked

\* The source has it, and all others are going to ask twice.
LEMMA SendMines ==
    ASSUME PromptMesh, Base, Steady, NEW n \in Nodes, NEW t \in Txs, SendTransaction(n, t),
           NEW m \in Nodes
    PROVE  Mines(m)'
<1>0. Stocked /\ Mines(m)
  BY DEF Steady
<1>1. /\ Source[t] = n /\ Dest[t] # n /\ t \notin sent /\ sent' = sent \cup {t}
      /\ \A k \in Nodes, u \in Txs :
            mempool'[k][u] = IF k = n /\ u = t THEN [completed |-> FALSE, sigs |-> <<>>]
                                               ELSE mempool[k][u]
      /\ [completed |-> FALSE, sigs |-> <<>>] # Nil
      /\ UNCHANGED <<previous, winning, state, request, time, pc, rest, left>>
      /\ \A k \in Nodes : /\ request[k] = Nil /\ left[k] = {} /\ mempool[k][t] = Nil /\ pc[k] = "idle"
      /\ Into(m) <= LastSend + 1 /\ state[m] = "MINING"
  BY <1>0, Sends DEF voteVars
<1>2. /\ sent \subseteq Txs /\ Dest[t] \in Nodes /\ Into(m)' = Into(m)
      /\ rest[m]["mempool"] \in 0..SyncInterval /\ SyncInterval \in Nat
      /\ LastSend \in Int /\ Into(m) \in Int
  <2>1. rest[m] \in [{"mempool", "chain"} -> 0..SyncInterval]
    BY Parts DEF Typed
  <2>2. LastSend \in Int
    BY SystemAssumption, Periods DEF LastSend
  <2>3. Into(m) \in Int
    BY Parts, PhaseTimes
  <2> QED  BY <1>0, <1>1, <2>1, <2>2, <2>3, SystemAssumption DEF Stocked, Into, RoundsEnd, Rounds
<1>3. ASSUME NEW k \in Int, Rests(m, k) PROVE Rests(m, k)'
  BY <1>1, <1>2, <1>3 DEF Rests
<1>4. ASSUME NEW u \in Current(m)'
      PROVE  /\ Has(m, u)' \/ Rests(m, LastSend + SyncInterval + 1)'
             /\ Has(Dest[u], u)' => Done(m, u)' \/ Rests(m, BlockPeriod)'
  <2>1. CASE u = t
    <3>1. Rests(m, LastSend + SyncInterval + 1)'
      BY <1>1, <1>2 DEF Rests
    <3>2. ~Has(Dest[u], u)'
      BY <1>1, <1>2, <2>1 DEF Has
    <3> QED  BY <3>1, <3>2
  <2>2. CASE u # t
    <3>1. u \in Current(m) /\ u \in Txs /\ Dest[u] \in Nodes
      BY <1>1, <1>2, <2>2, SystemAssumption DEF Current
    <3>2. \A k \in Nodes : mempool'[k][u] = mempool[k][u]
      BY <1>1, <2>2, <3>1
    <3>3. /\ Has(m, u) \/ Rests(m, LastSend + SyncInterval + 1)
          /\ Has(Dest[u], u) => Done(m, u) \/ Rests(m, BlockPeriod)
      BY <1>0, <1>1, <3>1 DEF Mines
    <3>4. LastSend + SyncInterval + 1 \in Int /\ BlockPeriod \in Int
      BY <1>2, Periods
    <3> QED  BY <1>3, <3>1, <3>2, <3>3, <3>4 DEF Has, Done
  <2> QED  BY <2>1, <2>2
<1> QED  BY <1>4 DEF Mines

-----------------------------------------------------------------------------
(* The mempool exchange *)

\* A step that leaves what was sent, the chains and the mempools as they are.
LEMMA KeepsStocked ==
    ASSUME Stocked, UNCHANGED <<sent, chain, previous, mempool, winning>>,
           \A m \in Nodes : /\ state'[m] = "BLOCK" => state[m] = "BLOCK"
                            /\ checked'[m] \subseteq sent
                            /\ state'[m] = "MINING" => checked'[m] \subseteq previous[m]
                            /\ Arriving(m)'
    PROVE  Stocked'
<1>1. Delivered'
  BY DEF Stocked, Delivered, Height, Rounds
<1>2. ASSUME NEW m \in Nodes PROVE Booked(m)'
  <2>1. Booked(m)
    BY DEF Stocked
  <2> QED  BY <2>1 DEF Booked, Path, N!Held, N!IdsIn, N!ValidateTransaction
<1>3. ASSUME NEW m \in Nodes PROVE Settled(m)'
  <2>1. Settled(m)
    BY DEF Stocked
  <2> QED  BY <2>1 DEF Settled, Current, Has, Done, Height
<1> QED  BY <1>1, <1>2, <1>3 DEF Stocked

LEMMA SameArriving ==
    ASSUME NEW m \in Nodes, Arriving(m), request'[m] = request[m], UNCHANGED <<sent, previous, mempool>>
    PROVE  Arriving(m)'
<1>1. \A t, copy : Path(t, copy, m)' = Path(t, copy, m)
  BY DEF Path, N!ValidateTransaction
<1>2. Current(m)' = Current(m) /\ \A pool : N!Held(pool)' = N!Held(pool)
  BY DEF Current, N!Held
<1> QED  BY <1>1, <1>2 DEF Arriving

\* A step that leaves the exchanges alone too.
LEMMA SameStocked ==
    ASSUME Stocked, UNCHANGED <<sent, chain, previous, mempool, winning, checked, state, request>>
    PROVE  Stocked'
<1>1. ASSUME NEW m \in Nodes PROVE Arriving(m)' /\ Booked(m)
  BY SameArriving DEF Stocked
<1> QED  BY <1>1, KeepsStocked DEF Booked

LEMMA SameMines ==
    ASSUME NEW m \in Nodes, Mines(m), SameAt(m), UNCHANGED <<sent, mempool>>, previous'[m] = previous[m]
    PROVE  Mines(m)'
BY DEF Mines, SameAt, Current, Has, Done, Brings, Completes, Rests, Into, RoundsEnd, Rounds

\* A step that does not touch the vote of n.
SameBallot(n) ==
    /\ mempool'[n] = mempool[n] /\ previous'[n] = previous[n] /\ sent' = sent
    /\ state'[n] = state[n] /\ cache'[n] = cache[n] /\ candidate'[n] = candidate[n]
    /\ recent'[n] = recent[n] /\ votes'[n] = votes[n] /\ asking'[n] = asking[n]
    /\ pc'[n] = pc[n] /\ winning'[n] = winning[n]

LEMMA SameHops ==
    ASSUME NEW n \in Nodes, mempool'[n] = mempool[n], recent'[n] = recent[n]
    PROVE  /\ Hops(n)' = Hops(n) /\ \A s : E!SigValue(n, s)' = E!SigValue(n, s)
           /\ \A w : Best(n, w)' = Best(n, w)
<1>1. Hops(n)' = Hops(n)
  BY DEF Hops, N!Held
<1>2. \A s : E!SigValue(n, s)' = E!SigValue(n, s)
  BY DEF E!SigValue
<1> QED  BY <1>1, <1>2 DEF Best

LEMMA SameBacking ==
    ASSUME NEW n \in Nodes, SameBallot(n), Cached(n), Leads(n), Polls(n), Leaves(n)
    PROVE  Cached(n)' /\ Leads(n)' /\ Polls(n)' /\ Leaves(n)'
<1>1. /\ Hops(n)' = Hops(n) /\ \A s : E!SigValue(n, s)' = E!SigValue(n, s)
      /\ \A w : Best(n, w)' = Best(n, w)
  BY SameHops DEF SameBallot
<1>2. Cached(n)'
  BY <1>1 DEF Cached, SameBallot
<1>3. Leads(n)'
  <2>1. \A t : Done(n, t)' = Done(n, t)
    BY DEF Done, Has, SameBallot
  <2>2. Current(n)' = Current(n)
    BY DEF Current, SameBallot
  <2> QED  BY <1>1, <2>1, <2>2 DEF Leads, SameBallot
<1>4. Polls(n)' /\ Leaves(n)'
  BY DEF Polls, Leaves, Rounds, SameBallot
<1> QED  BY <1>2, <1>3, <1>4

LEMMA SameFollows ==
    ASSUME NEW n \in Nodes, NEW m \in Nodes, Follows(n, m),
           UNCHANGED <<state, candidate, recent, winning>>
    PROVE  Follows(n, m)'
BY DEF Follows, Rounds, E!WithLeader

LEMMA SameAgreed ==
    ASSUME Agreed, UNCHANGED <<mempool, previous, sent, state, cache, candidate, recent, votes, asking,
                               pc, winning>>
    PROVE  Agreed'
<1>1. ASSUME NEW n \in Nodes PROVE Cached(n)' /\ Leads(n)' /\ Polls(n)' /\ Leaves(n)'
  <2>1. Cached(n) /\ Leads(n) /\ Polls(n) /\ Leaves(n) /\ SameBallot(n)
    BY DEF Agreed, SameBallot
  <2> QED  BY <2>1, SameBacking
<1>2. ASSUME NEW n \in Nodes, NEW m \in Nodes PROVE Follows(n, m)'
  BY SameFollows DEF Agreed
<1> QED  BY <1>1, <1>2 DEF Agreed

\* A peer is asked for what it offers.
LEMMA Asks ==
    ASSUME Base, NEW n \in Nodes, NEW p \in Nodes, Ask(n, p)
    PROVE  /\ UNCHANGED <<sent, chain, mempool, previous, checked, winning, state, alive, voteVars>>
           /\ pc[n] = "run" /\ p \in left[n] /\ request[n] = Nil /\ left'[n] = left[n] \ {p}
           /\ \A m \in Nodes \ {n} : SameAt(m)
           /\ request'[n] # Nil => request'[n].kind \in {"missing", "block"}
           /\ state[n] = "MINING" =>
                 \/ N!FindMissing(n, mempool[p]) = {} /\ request'[n] = Nil
                 \/ request'[n] = [kind |-> "missing", peer |-> p, ids |-> N!FindMissing(n, mempool[p])]
<1>1. /\ LoopInv' /\ pc[n] = "run" /\ p \in left[n] /\ request[n] = Nil
      /\ left' = [left EXCEPT ![n] = @ \ {p}]
      /\ UNCHANGED <<chain, mempool, state, winning>>
      /\ \A m \in Nodes \ {n} : SameAt(m)
  BY Parts, AskLoop
<1>2. left'[n] = left[n] \ {p} /\ DOMAIN request = Nodes
  BY <1>1, Parts DEF Typed
<1>3. Offer(n, p) /\ UNCHANGED voteVars
  BY DEF Ask
<1>4. CASE N!MempoolSync(n, p)
  BY <1>1, <1>2, <1>3, <1>4 DEF N!MempoolSync
<1>5. CASE N!ChainSync(n, p)
  BY <1>1, <1>2, <1>3, <1>5 DEF N!ChainSync
<1>6. CASE /\ IF state[n] = "MINING" THEN N!FindMissing(n, mempool[p]) = {} ELSE ~N!Behind(n, p)
           /\ UNCHANGED <<nodeVars, state, winning, alive, server>>
  BY <1>1, <1>2, <1>3, <1>6 DEF nodeVars
<1> QED  BY <1>3, <1>4, <1>5, <1>6 DEF Offer

LEMMA AskSteady ==
    ASSUME Meshed, Base, Steady, NEW n \in Nodes, NEW p \in Nodes, Ask(n, p)
    PROVE  Steady'
<1>0. Stocked /\ Agreed /\ \A m \in Nodes : Mines(m)
  BY DEF Steady
<1>1. /\ UNCHANGED <<sent, chain, mempool, previous, checked, winning, state, voteVars>>
      /\ pc[n] = "run" /\ p \in left[n] /\ request[n] = Nil /\ left'[n] = left[n] \ {p}
      /\ \A m \in Nodes \ {n} : SameAt(m)
      /\ request'[n] # Nil => request'[n].kind \in {"missing", "block"}
      /\ state[n] = "MINING" =>
            \/ N!FindMissing(n, mempool[p]) = {} /\ request'[n] = Nil
            \/ request'[n] = [kind |-> "missing", peer |-> p, ids |-> N!FindMissing(n, mempool[p])]
  BY Asks
<1>2. Stocked'
  <2>1. ASSUME NEW m \in Nodes PROVE Arriving(m)' /\ Booked(m)
    <3>1. Arriving(m) /\ Booked(m)
      BY <1>0 DEF Stocked
    <3>2. CASE m = n
      BY <1>1, <3>1, <3>2 DEF Arriving
    <3>3. CASE m # n
      BY <1>1, <3>1, <3>3, SameArriving DEF SameAt
    <3> QED  BY <3>1, <3>2, <3>3
  <2> QED  BY <1>0, <1>1, <2>1, KeepsStocked DEF Booked
<1>3. Agreed'
  BY <1>0, <1>1, SameAgreed DEF voteVars
<1>4. ASSUME state[n] = "MINING", NEW t \in Current(n)
      PROVE  /\ \/ Has(n, t)
                \/ Into(n) <= LastSend + SyncInterval + 2 /\ (Source[t] \in left'[n] \/ Brings(n, t)')
             /\ Has(Dest[t], t) => Done(n, t) \/ Dest[t] \in left'[n] \/ Completes(n, t)'
  <2>0. /\ t \in Txs /\ Source[t] \in Nodes /\ Dest[t] \in Nodes /\ t \notin previous[n]
        /\ mempool[p] \in N!Pool
    BY <1>0, <1>4, Parts, SystemAssumption DEF Stocked, Current
  <2>1. /\ Has(n, t) \/ (Into(n) <= LastSend + SyncInterval + 2 /\ Source[t] \in left[n])
        /\ Has(Dest[t], t) => Done(n, t) \/ Dest[t] \in left[n]
    BY <1>0, <1>1, <1>4 DEF Mines, Brings, Completes, Rests
  <2>2. /\ Height(Source[t]) = Height(n) /\ Height(Dest[t]) = Height(n)
    BY <1>1, <1>4, <2>0, MiningAlone
  <2>3. Has(Source[t], t) /\ (Has(Dest[t], t) => Done(Dest[t], t))
    BY <1>0, <1>4, <2>2 DEF Stocked, Settled
  <2>4. ASSUME p = Source[t], ~Has(n, t) PROVE Brings(n, t)'
    <3>1. t \in N!FindMissing(n, mempool[p])
      BY <2>0, <2>3, <2>4 DEF N!FindMissing, N!Held, Has
    <3>2. request'[n] = [kind |-> "missing", peer |-> p, ids |-> N!FindMissing(n, mempool[p])]
      BY <1>1, <1>4, <3>1
    <3>3. request'[n] # Nil
      BY <2>0, <3>2, RequestAssumption DEF N!FindMissing, N!Held
    <3> QED  BY <3>1, <3>2, <3>3 DEF Brings
  <2>5. ASSUME p = Dest[t], Has(Dest[t], t), ~Done(n, t) PROVE Completes(n, t)'
    <3>1. t \in N!FindMissing(n, mempool[p]) /\ mempool[p][t].completed
      BY <2>0, <2>3, <2>5 DEF N!FindMissing, N!Held, Has, Done
    <3>2. request'[n] = [kind |-> "missing", peer |-> p, ids |-> N!FindMissing(n, mempool[p])]
      BY <1>1, <1>4, <3>1
    <3>3. request'[n] # Nil
      BY <2>0, <3>2, RequestAssumption DEF N!FindMissing, N!Held
    <3> QED  BY <1>1, <3>1, <3>2, <3>3 DEF Completes
  <2> QED  BY <1>1, <2>1, <2>4, <2>5
<1>5. ASSUME NEW m \in Nodes PROVE Mines(m)'
  <2>1. CASE m # n
    BY <1>0, <1>1, <2>1, SameMines
  <2>2. CASE m = n
    <3>1. Current(n)' = Current(n) /\ Into(n)' = Into(n) /\ pc'[n] = "run"
      BY <1>1 DEF Current, Into, RoundsEnd, Rounds, voteVars
    <3>2. \A k, t : Has(k, t)' = Has(k, t) /\ Done(k, t)' = Done(k, t)
      BY <1>1 DEF Has, Done
    <3> QED  BY <1>1, <1>4, <2>2, <3>1, <3>2 DEF Mines
  <2> QED  BY <2>1, <2>2
<1> QED  BY <1>2, <1>3, <1>5 DEF Steady

\* The copy of a peer, with its signature if it is on its way.
LEMMA SignedPath ==
    ASSUME NEW t \in Txs, NEW c \in N!Copy, NEW p \in Nodes, NEW n \in Nodes, Path(t, c, p)
    PROVE  /\ Path(t, N!SignedFor(c, p, n), n) /\ N!SignedFor(c, p, n) \in N!Copy
           /\ N!SignedFor(c, p, n).completed = c.completed
           /\ c.completed => N!SignedFor(c, p, n) = c
<1>1. c.sigs \in Seq(N!Entry) /\ c.completed \in BOOLEAN /\ Len(c.sigs) \in Nat
      /\ [id |-> p, relayer |-> n] \in N!Entry
  BY DEF N!Copy, N!Entry
<1>2. CASE c.completed
  <2>1. N!SignedFor(c, p, n) = c
    BY <1>2 DEF N!SignedFor
  <2>2. c.sigs # <<>>
    BY <1>2 DEF Path
  <2> QED  BY <1>2, <2>1, <2>2 DEF Path
<1>3. CASE ~c.completed
  <2> DEFINE s == N!SignedFor(c, p, n)
             e == [id |-> p, relayer |-> n]
  <2>1. /\ s \in N!Copy /\ s.completed = FALSE /\ s.sigs = Append(c.sigs, e)
    <3>1. s = [c EXCEPT !.sigs = Append(c.sigs, e)]
      BY <1>3 DEF N!SignedFor, N!AddSignature
    <3>2. Append(c.sigs, e) \in Seq(N!Entry)
      BY <1>1
    <3> QED  BY <1>1, <1>3, <3>1, <3>2 DEF N!Copy
  <2>2. /\ Len(s.sigs) = Len(c.sigs) + 1 /\ s.sigs[Len(c.sigs) + 1] = e
        /\ \A i \in 1..Len(c.sigs) : s.sigs[i] = c.sigs[i]
        /\ s.sigs # <<>>
    BY <1>1, <2>1
  <2>3. e.id = p /\ e.relayer = n
    OBVIOUS
  <2> HIDE DEF s, e
  <2>4. CASE c.sigs = <<>>
    <3>1. p = Source[t] /\ Len(c.sigs) = 0
      BY <2>4 DEF Path
    <3>2. Len(s.sigs) = 1 /\ s.sigs[1] = e
      BY <2>2, <3>1
    <3>3. s.sigs[1].id = Source[t] /\ s.sigs[Len(s.sigs)].relayer = n
      BY <2>3, <3>1, <3>2
    <3>4. N!ValidateTransaction(t, s)
      BY <3>2, <3>3 DEF N!ValidateTransaction
    <3> QED  BY <1>1, <1>3, <2>1, <2>2, <3>3, <3>4 DEF Path, s
  <2>5. CASE c.sigs # <<>>
    <3>1. /\ N!ValidateTransaction(t, c) /\ c.sigs[Len(c.sigs)].relayer = p /\ Len(c.sigs) >= 1
      BY <1>1, <1>3, <2>5 DEF Path
    <3>2. N!ValidateTransaction(t, s)
      <4>1. \A i \in 1..(Len(s.sigs) - 1) : s.sigs[i].relayer = s.sigs[i + 1].id
        <5> SUFFICES ASSUME NEW i \in 1..Len(c.sigs) PROVE s.sigs[i].relayer = s.sigs[i + 1].id
          BY <1>1, <2>2
        <5>1. CASE i = Len(c.sigs)
          BY <1>1, <2>2, <2>3, <3>1, <5>1
        <5>2. CASE i < Len(c.sigs)
          <6>1. c.sigs[i].relayer = c.sigs[i + 1].id
            BY <1>1, <3>1, <5>2 DEF N!ValidateTransaction
          <6>2. i + 1 \in 1..Len(c.sigs)
            BY <1>1, <5>2
          <6> QED  BY <2>2, <6>1, <6>2
        <5> QED  BY <1>1, <5>1, <5>2
      <4>2. s.sigs[1].id = Source[t]
        BY <1>1, <2>2, <3>1 DEF N!ValidateTransaction
      <4> QED  BY <4>1, <4>2 DEF N!ValidateTransaction
    <3>3. s.sigs[Len(s.sigs)].relayer = n
      BY <2>2, <2>3
    <3> QED  BY <1>1, <1>3, <2>1, <2>2, <3>2, <3>3 DEF Path, s
  <2> QED  BY <2>4, <2>5
<1> QED  BY <1>1, <1>2, <1>3

\* What a peer sends to a node that has asked for it.
LEMMA Answering ==
    ASSUME Base, NEW n \in Nodes, NEW p \in Nodes, N!AnswerMissing(n, p)
    PROVE  /\ UNCHANGED <<sent, chain, mempool, previous, checked, winning, state, alive>>
           /\ pc[n] = "run" /\ state[n] = "MINING"
           /\ request[n] # Nil /\ request[n].kind = "missing" /\ request[n].peer = p
           /\ request[n].ids \subseteq N!Held(mempool[p])
           /\ request'[n] # Nil /\ request'[n].kind = "txs"
           /\ N!Held(request'[n].txs) \subseteq request[n].ids
           /\ \A t \in request[n].ids : /\ t \in Txs /\ mempool[p][t] \in N!Copy
                                        /\ request'[n].txs[t] = N!SignedFor(mempool[p][t], p, n)
           /\ \A m \in Nodes \ {n} : request'[m] = request[m]
<1>1. /\ Answered(n) => pc[n] = "run"
      /\ request'[n] \in [kind : {"txs"}, peer : Nodes, txs : N!Pool]
      /\ UNCHANGED <<chain, mempool, alive>>
  BY Parts, MissingAnswered DEF Answered, LoopInv, Pinging
<1>2. /\ UNCHANGED <<sent, previous, checked, winning, state>>
      /\ request[n] # Nil /\ request[n].kind = "missing" /\ request[n].peer = p
      /\ DOMAIN request = Nodes
  BY Parts DEF N!AnswerMissing, Typed
<1>3. pc[n] = "run" /\ state[n] = "MINING"
  <2>1. Asked(n) /\ Pinging(n)
    BY Parts DEF ChainInv, LoopInv
  <2> QED  BY <1>2, <2>1 DEF Asked, Pinging
<1>4. request[n].ids \subseteq N!Held(mempool[p])
  <2>1. Requested(n)
    BY Parts DEF RequestInv
  <2> QED  BY <1>2, <2>1 DEF Requested
<1>5. request'[n] # Nil /\ request'[n].kind = "txs"
  BY <1>1, RequestAssumption
<1>6. request' = [request EXCEPT ![n] =
                    [kind |-> "txs", peer |-> p,
                     txs |-> [t \in Txs |-> IF t \in request[n].ids
                                            THEN N!SignedFor(mempool[p][t], p, n)
                                            ELSE Nil]]]
  BY <1>4 DEF N!AnswerMissing
<1>7. request'[n].txs = [t \in Txs |-> IF t \in request[n].ids
                                       THEN N!SignedFor(mempool[p][t], p, n) ELSE Nil]
  BY <1>2, <1>6
<1>8. N!Held(request'[n].txs) \subseteq request[n].ids
  BY <1>7 DEF N!Held
<1>9. ASSUME NEW t \in request[n].ids
      PROVE  /\ t \in Txs /\ mempool[p][t] \in N!Copy
             /\ request'[n].txs[t] = N!SignedFor(mempool[p][t], p, n)
  <2>1. t \in Txs /\ mempool[p][t] \in N!Copy
    BY <1>4, Parts DEF N!Held, N!Pool
  <2> QED  BY <1>7, <2>1
<1> QED  BY <1>1, <1>2, <1>3, <1>4, <1>5, <1>6, <1>8, <1>9

LEMMA AnswerSteady ==
    ASSUME Base, Steady, NEW n \in Nodes, NEW p \in Nodes, N!AnswerMissing(n, p),
           UNCHANGED <<voteVars, rest, left>>
    PROVE  Steady'
<1>0. Stocked /\ Agreed /\ \A m \in Nodes : Mines(m)
  BY DEF Steady
<1>1. /\ UNCHANGED <<sent, chain, mempool, previous, checked, winning, state, voteVars, rest, left>>
      /\ pc[n] = "run" /\ state[n] = "MINING"
      /\ request[n] # Nil /\ request[n].kind = "missing" /\ request[n].peer = p
      /\ request[n].ids \subseteq N!Held(mempool[p])
      /\ request'[n] # Nil /\ request'[n].kind = "txs"
      /\ N!Held(request'[n].txs) \subseteq request[n].ids
      /\ \A t \in request[n].ids : /\ t \in Txs /\ mempool[p][t] \in N!Copy
                                   /\ request'[n].txs[t] = N!SignedFor(mempool[p][t], p, n)
      /\ \A m \in Nodes \ {n} : request'[m] = request[m]
  BY Answering
<1>2. ASSUME NEW t \in request[n].ids
      PROVE  /\ Path(t, request'[n].txs[t], n) /\ request'[n].txs[t] # Nil
             /\ request'[n].txs[t].completed = mempool[p][t].completed
             /\ mempool[p][t].completed => request'[n].txs[t] = mempool[p][t]
  <2>1. Path(t, mempool[p][t], p)
    BY <1>0, <1>1 DEF Stocked, Booked
  <2> QED  BY <1>1, <2>1, SignedPath, RequestAssumption
<1>3. Stocked'
  <2>1. Arriving(n)'
    <3>1. ASSUME NEW t \in N!Held(request'[n].txs)
          PROVE  /\ Path(t, request'[n].txs[t], n)
                 /\ t \in Current(n) /\ request'[n].txs[t].completed
                       => mempool[Dest[t]][t] = request'[n].txs[t]
      <4>1. t \in request[n].ids /\ t \in Txs /\ Dest[t] \in Nodes
        BY <1>1, <3>1, SystemAssumption
      <4>2. ASSUME t \in Current(n), request'[n].txs[t].completed
            PROVE  mempool[Dest[t]][t] = request'[n].txs[t]
        <5>1. /\ Height(p) = Height(n) /\ Height(Dest[t]) = Height(n)
          BY <1>1, <4>1, MiningAlone
        <5>2. t \in Current(p)
          BY <1>0, <4>2, <5>1, SamePast
        <5>3. Done(p, t)
          BY <1>1, <1>2, <4>1, <4>2 DEF Done, Has, N!Held
        <5>4. mempool[Dest[t]][t] = mempool[p][t]
          BY <1>0, <5>1, <5>2, <5>3 DEF Stocked, Settled
        <5> QED  BY <1>2, <4>1, <4>2, <5>4
      <4> QED  BY <1>2, <4>1, <4>2
    <3>2. N!Held(request[n].txs)' = N!Held(request'[n].txs)
      BY DEF N!Held
    <3>3. \A t, c : Path(t, c, n) => Path(t, c, n)'
      BY DEF Path, N!ValidateTransaction
    <3>4. Current(n)' = Current(n)
      BY <1>1 DEF Current
    <3> QED  BY <1>1, <3>1, <3>2, <3>3, <3>4 DEF Arriving
  <2>2. ASSUME NEW m \in Nodes PROVE Arriving(m)' /\ Booked(m)
    <3>1. Arriving(m) /\ Booked(m)
      BY <1>0 DEF Stocked
    <3>2. CASE m # n
      BY <1>1, <3>1, <3>2, SameArriving
    <3> QED  BY <2>1, <3>1, <3>2
  <2> QED  BY <1>0, <1>1, <2>2, KeepsStocked DEF Booked
<1>4. Agreed'
  BY <1>0, <1>1, SameAgreed DEF voteVars
<1>5. ASSUME NEW m \in Nodes PROVE Mines(m)'
  <2>1. CASE m # n
    BY <1>0, <1>1, <2>1, SameMines DEF SameAt, voteVars
  <2>2. CASE m = n
    <3>1. /\ Current(n)' = Current(n) /\ Into(n)' = Into(n) /\ pc'[n] = "run" /\ state'[n] = "MINING"
      BY <1>1 DEF Current, Into, RoundsEnd, Rounds, voteVars
    <3>2. \A k, t : Has(k, t)' = Has(k, t) /\ Done(k, t)' = Done(k, t)
      BY <1>1 DEF Has, Done
    <3>3. \A t : (Brings(n, t) => Brings(n, t)') /\ (Completes(n, t) => Completes(n, t)')
      BY <1>1, <1>2 DEF Brings, Completes
    <3>4. \A k : ~Rests(n, k)
      BY <1>1 DEF Rests
    <3> QED  BY <1>0, <1>1, <2>2, <3>1, <3>2, <3>3, <3>4 DEF Mines
  <2> QED  BY <2>1, <2>2
<1> QED  BY <1>3, <1>4, <1>5 DEF Steady

\* What a node takes over it lacked, or had without the signatures of its way.
LEMMA Receiving ==
    ASSUME Base, Stocked, NEW n \in Nodes, N!ReceiveTransactions(n)
    PROVE  /\ UNCHANGED <<sent, chain, previous, checked, winning, state, alive>>
           /\ pc[n] = "run" /\ state[n] = "MINING"
           /\ request[n] # Nil /\ request[n].kind = "txs" /\ request'[n] = Nil
           /\ \A m \in Nodes \ {n} : request'[m] = request[m] /\ mempool'[m] = mempool[m]
           /\ \A t \in Txs :
                 IF request[n].txs[t] # Nil /\ t \notin previous[n]
                 THEN /\ ~Done(n, t) /\ Has(n, t)' /\ Path(t, mempool'[n][t], n)
                      /\ mempool'[n][t].completed <=> request[n].txs[t].completed \/ n = Dest[t]
                      /\ n # Dest[t] => mempool'[n][t] = request[n].txs[t]
                 ELSE mempool'[n][t] = mempool[n][t]
<1>1. /\ UNCHANGED <<sent, chain, previous, checked, winning, state, alive>>
      /\ request[n] # Nil /\ request[n].kind = "txs"
      /\ mempool' = [mempool EXCEPT ![n] = N!SyncMempool(n, request[n].txs)]
      /\ request' = [request EXCEPT ![n] = Nil]
  BY DEF N!ReceiveTransactions
<1>2. /\ DOMAIN request = Nodes /\ mempool \in [Nodes -> N!Pool] /\ Pinging(n) /\ Asked(n)
      /\ Requested(n) /\ Sought(n) /\ Arriving(n)
  BY Parts DEF Typed, LoopInv, ChainInv, RequestInv, CopyInv, Copies, Stocked
<1>3. /\ request'[n] = Nil /\ mempool'[n] = N!SyncMempool(n, request[n].txs)
      /\ \A m \in Nodes \ {n} : request'[m] = request[m] /\ mempool'[m] = mempool[m]
  BY <1>1, <1>2
<1>4. pc[n] = "run" /\ state[n] = "MINING"
  BY <1>1, <1>2 DEF Asked, Pinging
<1>5. /\ request[n].txs \in [Txs -> N!Copy \cup {Nil}]
      /\ \A t \in N!Held(request[n].txs) :
            /\ request[n].txs[t].sigs # <<>> /\ Path(t, request[n].txs[t], n) /\ ~Done(n, t)
  BY <1>1, <1>2 DEF Requested, Sought, Arriving, N!Pool, Open, Done, Has
<1>6. ASSUME NEW t \in Txs
      PROVE  IF request[n].txs[t] # Nil /\ t \notin previous[n]
             THEN /\ ~Done(n, t) /\ Has(n, t)' /\ Path(t, mempool'[n][t], n)
                  /\ mempool'[n][t].completed <=> request[n].txs[t].completed \/ n = Dest[t]
                  /\ n # Dest[t] => mempool'[n][t] = request[n].txs[t]
             ELSE mempool'[n][t] = mempool[n][t]
  <2> DEFINE c == request[n].txs[t]
  <2>1. CASE ~(c # Nil /\ t \notin previous[n])
    BY <1>3, <2>1 DEF N!SyncMempool
  <2>2. CASE c # Nil /\ t \notin previous[n]
    <3>1. c \in N!Copy /\ t \in N!Held(request[n].txs)
      BY <1>5, <2>2 DEF N!Held
    <3>2. c.sigs # <<>> /\ Path(t, c, n) /\ ~Done(n, t) /\ N!ValidateTransaction(t, c)
      BY <1>5, <3>1 DEF Path
    <3>3. mempool'[n][t] = IF n = Dest[t] THEN [c EXCEPT !.completed = TRUE] ELSE c
      BY <1>3, <2>2, <3>2 DEF N!SyncMempool
    <3>4. CASE n # Dest[t]
      BY <2>2, <3>2, <3>3, <3>4 DEF Has
    <3>5. CASE n = Dest[t]
      <4> DEFINE d == [c EXCEPT !.completed = TRUE]
      <4>1. d.sigs = c.sigs /\ d.completed = TRUE /\ d \in N!Copy
        BY <3>1 DEF N!Copy
      <4> HIDE DEF d
      <4>2. Path(t, d, n) /\ d # Nil
        BY <3>2, <4>1, RequestAssumption DEF Path, N!ValidateTransaction
      <4>3. mempool'[n][t] = d
        BY <3>3, <3>5 DEF d
      <4> QED  BY <2>2, <3>2, <3>5, <4>1, <4>2, <4>3 DEF Has
    <3> QED  BY <3>4, <3>5
  <2> QED  BY <2>1, <2>2
<1> QED  BY <1>1, <1>3, <1>4, <1>6

LEMMA ReceiveStocked ==
    ASSUME Base, Stocked, NEW n \in Nodes, N!ReceiveTransactions(n)
    PROVE  Stocked'
<1>1. /\ UNCHANGED <<sent, chain, previous, checked, winning, state>>
      /\ pc[n] = "run" /\ state[n] = "MINING"
      /\ request[n] # Nil /\ request[n].kind = "txs" /\ request'[n] = Nil
      /\ \A m \in Nodes \ {n} : request'[m] = request[m] /\ mempool'[m] = mempool[m]
      /\ \A t \in Txs :
            IF request[n].txs[t] # Nil /\ t \notin previous[n]
            THEN /\ ~Done(n, t) /\ Has(n, t)' /\ Path(t, mempool'[n][t], n)
                 /\ mempool'[n][t].completed <=> request[n].txs[t].completed \/ n = Dest[t]
                 /\ n # Dest[t] => mempool'[n][t] = request[n].txs[t]
            ELSE mempool'[n][t] = mempool[n][t]
  BY Receiving
<1>2. Delivered' /\ (sent \subseteq Txs)'
  BY <1>1 DEF Stocked, Delivered, Height, Rounds
<1>3. \A m \in Nodes \ {n} : request[m] = Nil
  BY <1>1, MiningAlone
<1>4. \A m \in Nodes : Arriving(m)'
  BY <1>1, <1>3 DEF Arriving
<1>5. \A t, c, m : Path(t, c, m)' = Path(t, c, m)
  BY DEF Path, N!ValidateTransaction
<1>6. ASSUME NEW m \in Nodes PROVE Booked(m)'
  <2>0. Booked(m) /\ mempool[m] \in N!Pool
    BY Parts DEF Stocked
  <2>1. previous'[m] = N!IdsIn(chain[m])'
    BY <1>1, <2>0 DEF Booked, N!IdsIn, N!Held
  <2>2. N!Held(mempool[m])' = {t \in Txs : mempool'[m][t] # Nil}
    BY DEF N!Held
  <2>3. ASSUME NEW t \in N!Held(mempool[m])'
        PROVE  t \notin previous[m] /\ Path(t, mempool'[m][t], m)
    <3>1. CASE mempool'[m][t] = mempool[m][t]
      BY <2>0, <2>2, <3>1 DEF Booked, N!Held
    <3>2. CASE mempool'[m][t] # mempool[m][t]
      <4>1. m = n /\ t \in Txs
        BY <1>1, <2>2, <3>2
      <4> QED  BY <1>1, <3>2, <4>1
    <3> QED  BY <3>1, <3>2
  <2>4. \A t \in N!Held(mempool[m])' : Path(t, mempool[m][t], m)'
    BY <1>5, <2>3
  <2> QED  BY <1>1, <2>0, <2>1, <2>3, <2>4 DEF Booked
<1>7. ASSUME NEW m \in Nodes PROVE Settled(m)'
  <2>1. ASSUME NEW t \in Current(m)'
        PROVE  /\ Height(Source[t])' = Height(m)' => Has(Source[t], t)'
               /\ Has(Dest[t], t)' /\ Height(Dest[t])' = Height(m)' => Done(Dest[t], t)'
               /\ Done(m, t)' /\ Height(Dest[t])' = Height(m)' => mempool'[Dest[t]][t] = mempool'[m][t]
    <3>1. t \in Current(m) /\ t \in Txs /\ Source[t] \in Nodes /\ Dest[t] \in Nodes
      BY <1>1, <1>2, <2>1, SystemAssumption DEF Current
    <3>2. \A k \in Nodes : Height(k)' = Height(k) /\ Height(k) = Height(n)
      BY <1>1, MiningAlone DEF Height
    <3>3. /\ Has(Source[t], t) /\ (Has(Dest[t], t) => Done(Dest[t], t))
          /\ Done(m, t) => mempool[Dest[t]][t] = mempool[m][t]
      BY <3>1, <3>2 DEF Stocked, Settled
    <3>4. t \in Current(n)
      BY <3>1, <3>2, SamePast
    <3>5. CASE request[n].txs[t] = Nil
      <4>1. \A k \in Nodes : mempool'[k][t] = mempool[k][t]
        BY <1>1, <3>1, <3>5
      <4> QED  BY <3>1, <3>3, <4>1 DEF Has, Done
    <3>6. CASE request[n].txs[t] # Nil
      <4>1. /\ ~Done(n, t) /\ Has(n, t)'
            /\ mempool'[n][t].completed <=> request[n].txs[t].completed \/ n = Dest[t]
            /\ n # Dest[t] => mempool'[n][t] = request[n].txs[t]
        BY <1>1, <3>1, <3>4, <3>6 DEF Current
      <4>2. \A k \in Nodes \ {n} : mempool'[k][t] = mempool[k][t]
        BY <1>1
      <4>3. Has(Source[t], t)'
        BY <3>1, <3>3, <4>1, <4>2 DEF Has
      <4>4. Has(Dest[t], t)' => Done(Dest[t], t)'
        BY <3>1, <3>3, <4>1, <4>2 DEF Has, Done
      <4>5. ASSUME Done(m, t)' PROVE mempool'[Dest[t]][t] = mempool'[m][t]
        <5>1. CASE m = n /\ n # Dest[t]
          <6>1. request[n].txs[t].completed /\ t \in N!Held(request[n].txs)
            BY <3>1, <3>6, <4>1, <4>5, <5>1 DEF Done, N!Held
          <6>2. mempool[Dest[t]][t] = request[n].txs[t]
            BY <1>1, <3>4, <6>1 DEF Stocked, Arriving
          <6> QED  BY <3>1, <4>1, <4>2, <5>1, <6>2
        <5>2. CASE m # n /\ n = Dest[t]
          <6>1. Done(m, t)
            BY <4>2, <4>5, <5>2 DEF Done, Has
          <6>2. Done(n, t)
            BY <3>3, <5>2, <6>1 DEF Done, Has
          <6> QED  BY <4>1, <6>2
        <5>3. CASE m # n /\ n # Dest[t]
          BY <3>1, <3>3, <4>2, <4>5, <5>3 DEF Done, Has
        <5> QED  BY <5>1, <5>2, <5>3
      <4> QED  BY <4>3, <4>4, <4>5
    <3> QED  BY <3>5, <3>6
  <2> QED  BY <2>1 DEF Settled
<1>8. (DOMAIN previous = Nodes)'
  BY <1>1 DEF Stocked
<1> QED  BY <1>2, <1>4, <1>6, <1>7, <1>8 DEF Stocked

\* A destination that gets a transaction leaves the others the time to ask it.
LEMMA ReceiveMines ==
    ASSUME Base, Steady, NEW n \in Nodes, N!ReceiveTransactions(n), UNCHANGED <<voteVars, rest, left>>,
           NEW m \in Nodes
    PROVE  Mines(m)'
<1>0. Stocked /\ Mines(n) /\ Mines(m)
  BY DEF Steady
<1>1. /\ UNCHANGED <<sent, previous, winning, state, time, pc, rest, left>>
      /\ pc[n] = "run" /\ state[n] = "MINING"
      /\ request[n] # Nil /\ request[n].kind = "txs" /\ request'[n] = Nil
      /\ \A k \in Nodes \ {n} : request'[k] = request[k] /\ mempool'[k] = mempool[k]
      /\ \A t \in Txs :
            IF request[n].txs[t] # Nil /\ t \notin previous[n]
            THEN /\ ~Done(n, t) /\ Has(n, t)'
                 /\ mempool'[n][t].completed <=> request[n].txs[t].completed \/ n = Dest[t]
            ELSE mempool'[n][t] = mempool[n][t]
  BY <1>0, Receiving DEF voteVars
<1>2. /\ Current(m)' = Current(m) /\ \A k \in Nodes : Into(k)' = Into(k)
  BY <1>1 DEF Current, Into, RoundsEnd, Rounds
<1>3. ASSUME NEW t \in Current(m), state[m] = "MINING"
      PROVE  /\ \/ Has(m, t)'
                \/ /\ pc'[m] = "run" /\ Into(m) <= LastSend + SyncInterval + 2
                   /\ Source[t] \in left'[m]
                \/ Rests(m, LastSend + SyncInterval + 1)'
             /\ Has(Dest[t], t)' =>
                \/ Done(m, t)'
                \/ pc'[m] = "run" /\ Dest[t] \in left'[m]
                \/ Rests(m, BlockPeriod)'
  <2>0. t \in Txs /\ Dest[t] \in Nodes /\ t \in Current(n) /\ t \notin previous[n]
    <3>1. Current(m) = Current(n)
      <4>1. pc[n] # "idle"
        BY <1>1
      <4>2. Height(m) = Height(n)
        BY <1>1, <4>1, MiningAlone
      <4> QED  BY <1>0, <4>2, SamePast
    <3>2. t \in Txs /\ t \in Current(n) /\ t \notin previous[n]
      BY <1>0, <1>3, <3>1 DEF Stocked, Current
    <3> QED  BY <3>2, SystemAssumption
  <2>1. /\ \/ Has(m, t)
           \/ /\ pc[m] = "run" /\ Into(m) <= LastSend + SyncInterval + 2
              /\ Source[t] \in left[m] \/ Brings(m, t)
           \/ Rests(m, LastSend + SyncInterval + 1)
        /\ Has(Dest[t], t) =>
           \/ Done(m, t)
           \/ pc[m] = "run" /\ (Dest[t] \in left[m] \/ Completes(m, t))
           \/ Rests(m, BlockPeriod)
    BY <1>0, <1>3 DEF Mines
  <2>2. CASE m = n
    <3>1. \A k : ~Rests(n, k)
      BY <1>1 DEF Rests
    <3>2. Has(n, t) \/ Brings(n, t) => Has(n, t)'
      BY <1>1, <2>0 DEF Has, Brings
    <3>3. Done(n, t) \/ Completes(n, t) \/ (n = Dest[t] /\ Has(n, t)') => Done(n, t)'
      <4>1. CASE request[n].txs[t] # Nil
        BY <1>1, <2>0, <4>1 DEF Done, Completes
      <4>2. CASE request[n].txs[t] = Nil
        <5>1. Has(n, t) /\ n = Dest[t] => Done(n, t)
          BY <1>0, <1>3, <2>0, <2>2 DEF Stocked, Settled
        <5> QED  BY <1>1, <2>0, <4>2, <5>1 DEF Has, Done, Completes
      <4> QED  BY <4>1, <4>2
    <3>4. n # Dest[t] /\ Has(Dest[t], t)' => Has(Dest[t], t)
      BY <1>1, <2>0 DEF Has
    <3>5. n = Dest[t] /\ Has(Dest[t], t)' => Has(n, t)'
      BY DEF Has
    <3>6. pc'[n] = pc[n] /\ left'[n] = left[n]
      BY <1>1
    <3>7. Has(n, t)' \/ (pc[n] = "run" /\ Into(n) <= LastSend + SyncInterval + 2 /\ Source[t] \in left[n])
      BY <2>1, <2>2, <3>1, <3>2
    <3>8. ASSUME Has(Dest[t], t)' PROVE Done(n, t)' \/ (pc[n] = "run" /\ Dest[t] \in left[n])
      <4>1. CASE n = Dest[t]
        BY <3>3, <3>5, <3>8, <4>1
      <4>2. CASE n # Dest[t]
        <5>1. Has(Dest[t], t)
          BY <3>4, <3>8, <4>2
        <5>2. \/ Done(n, t)
              \/ pc[n] = "run" /\ (Dest[t] \in left[n] \/ Completes(n, t))
              \/ Rests(n, BlockPeriod)
          BY <2>1, <2>2, <5>1
        <5>3. ~Rests(n, BlockPeriod)
          BY <3>1
        <5> QED  BY <3>3, <5>2, <5>3
      <4> QED  BY <4>1, <4>2
    <3> QED  BY <2>2, <3>6, <3>7, <3>8
  <2>3. CASE m # n
    <3>1. /\ pc[m] = "idle" /\ request[m] = Nil /\ left[m] = {} /\ Into(m) <= Into(n)
      BY <1>1, <2>3, MiningAlone
    <3>2. \A k : Rests(m, k)' = Rests(m, k)
      BY <1>1, <1>2, <2>3 DEF Rests
    <3>3. Has(m, t)' = Has(m, t) /\ Done(m, t)' = Done(m, t)
      BY <1>1, <2>3 DEF Has, Done
    <3>4. CASE n # Dest[t] \/ Has(n, t)
      <4>1. Has(Dest[t], t)' => Has(Dest[t], t)
        BY <1>1, <2>0, <3>4 DEF Has
      <4> QED  BY <1>1, <2>1, <3>1, <3>2, <3>3, <4>1 DEF Completes
    <3>5. CASE n = Dest[t] /\ ~Has(n, t)
      <4>1. Into(n) <= LastSend + SyncInterval + 2
        BY <1>0, <1>1, <2>0, <3>5 DEF Mines, Rests
      <4>2. /\ rest[m]["mempool"] \in 0..SyncInterval /\ SyncInterval \in Nat
            /\ Into(m) \in Int /\ Into(n) \in Int /\ BlockPeriod \in Nat
        <5>1. rest[m] \in [{"mempool", "chain"} -> 0..SyncInterval]
          BY Parts DEF Typed
        <5>2. Into(m) \in Int /\ Into(n) \in Int
          BY Parts, PhaseTimes
        <5> QED  BY <5>1, <5>2, Periods, SystemAssumption
      <4>3. Into(m) + rest[m]["mempool"] <= BlockPeriod
        BY <3>1, <4>1, <4>2 DEF LastSend
      <4>4. Rests(m, BlockPeriod)
        BY <3>1, <4>3 DEF Rests
      <4> QED  BY <1>1, <2>1, <3>1, <3>2, <3>3, <4>4
    <3> QED  BY <3>4, <3>5
  <2> QED  BY <2>2, <2>3
<1> QED  BY <1>1, <1>2, <1>3 DEF Mines

LEMMA ReceiveSteady ==
    ASSUME Base, Steady, NEW n \in Nodes, N!ReceiveTransactions(n), UNCHANGED <<voteVars, rest, left>>
    PROVE  Steady'
<1>0. Stocked /\ Agreed
  BY DEF Steady
<1>1. /\ UNCHANGED <<sent, previous, winning, state, voteVars>> /\ state[n] = "MINING"
      /\ \A k \in Nodes \ {n} : mempool'[k] = mempool[k]
      /\ \A t \in Txs : IF request[n].txs[t] # Nil /\ t \notin previous[n]
                        THEN ~Done(n, t) ELSE mempool'[n][t] = mempool[n][t]
  BY <1>0, Receiving
<1>2. Cached(n)'
  <2>1. \A t \in Txs : Done(n, t) => mempool'[n][t] = mempool[n][t]
    BY <1>1
  <2>2. Hops(n) \subseteq Hops(n)'
    <3> DEFINE S(t, c) == {[id |-> h.id, value |-> Value[<<t, h.id, h.relayer>>]] :
                              h \in {c.sigs[i] : i \in DOMAIN c.sigs}}
               C == {t \in N!Held(mempool[n]) : mempool[n][t].completed}
               D == {t \in N!Held(mempool'[n]) : mempool'[n][t].completed}
    <3>1. C \subseteq D /\ \A t \in C : mempool'[n][t] = mempool[n][t]
      BY <2>1 DEF N!Held, Done, Has
    <3>2. Hops(n) = UNION {S(t, mempool[n][t]) : t \in C}
      BY DEF Hops
    <3>3. Hops(n)' = UNION {S(t, mempool'[n][t]) : t \in D}
      BY DEF Hops, N!Held
    <3> HIDE DEF S, C, D
    <3>4. \A t \in C : S(t, mempool[n][t]) = S(t, mempool'[n][t])
      BY <3>1
    <3> QED  BY <3>1, <3>2, <3>3, <3>4
  <2>3. \A s : E!SigValue(n, s)' = E!SigValue(n, s)
    BY <1>1 DEF E!SigValue, voteVars
  <2> QED  BY <1>0, <1>1, <2>2, <2>3 DEF Agreed, Cached, voteVars
<1>3. Leads(n)' /\ Polls(n)' /\ Leaves(n)'
  <2>1. Polls(n) /\ Leaves(n)
    BY <1>0 DEF Agreed
  <2> QED  BY <1>1, <2>1 DEF Leads, Polls, Leaves, Rounds, voteVars
<1>4. ASSUME NEW m \in Nodes \ {n} PROVE Cached(m)' /\ Leads(m)' /\ Polls(m)' /\ Leaves(m)'
  <2>1. Cached(m) /\ Leads(m) /\ Polls(m) /\ Leaves(m) /\ SameBallot(m)
    BY <1>0, <1>1 DEF Agreed, SameBallot, voteVars
  <2> QED  BY <2>1, SameBacking
<1>5. ASSUME NEW k \in Nodes, NEW m \in Nodes PROVE Follows(k, m)'
  BY <1>0, <1>1, SameFollows DEF Agreed, voteVars
<1>6. Agreed'
  BY <1>2, <1>3, <1>4, <1>5 DEF Agreed
<1> QED  BY <1>0, <1>6, ReceiveStocked, ReceiveMines DEF Steady

\* A peer sends the block that n lacks.
LEMMA AnswerBlockSteady ==
    ASSUME Base, Steady, NEW n \in Nodes, NEW p \in Nodes, N!AnswerBlock(n, p),
           UNCHANGED <<voteVars, rest, left>>
    PROVE  Steady'
<1>0. Stocked /\ Agreed /\ \A m \in Nodes : Mines(m)
  BY DEF Steady
<1>1. /\ UNCHANGED <<sent, chain, mempool, previous, checked, winning, state>>
      /\ state[n] = "BLOCK" /\ DOMAIN request = Nodes
      /\ request' = [request EXCEPT ![n] =
                [kind |-> "blocks", peer |-> p, height |-> Height(n),
                 blocks |-> <<chain[p][Height(n) + 1]>>]]
  BY Parts, BlockAnswered DEF N!AnswerBlock, Lags, Typed
<1>2. Stocked'
  <2>1. ASSUME NEW m \in Nodes PROVE Arriving(m)' /\ Booked(m)
    <3>1. Arriving(m) /\ Booked(m)
      BY <1>0 DEF Stocked
    <3>2. CASE m = n
      BY <1>1, <3>1, <3>2 DEF Arriving
    <3>3. CASE m # n
      BY <1>1, <3>1, <3>3, SameArriving
    <3> QED  BY <3>1, <3>2, <3>3
  <2> QED  BY <1>0, <1>1, <2>1, KeepsStocked DEF Booked
<1>3. Agreed'
  BY <1>0, <1>1, SameAgreed DEF voteVars
<1>4. ASSUME NEW m \in Nodes PROVE Mines(m)'
  <2>1. CASE m = n
    BY <1>1, <2>1 DEF Mines
  <2>2. CASE m # n
    BY <1>0, <1>1, <2>2, SameMines DEF SameAt, voteVars
  <2> QED  BY <2>1, <2>2
<1> QED  BY <1>2, <1>3, <1>4 DEF Steady

-----------------------------------------------------------------------------
(* The block of a round *)

LEMMA IdsAppend ==
    ASSUME NEW c \in Seq(N!Block), NEW b \in N!Block
    PROVE  N!IdsIn(Append(c, b)) = N!IdsIn(c) \cup N!Held(b.data)
<1>1. Len(c) \in Nat /\ DOMAIN c = 1..Len(c) /\ DOMAIN Append(c, b) = 1..(Len(c) + 1)
      /\ \A i \in 1..Len(c) : Append(c, b)[i] = c[i]
      /\ Append(c, b)[Len(c) + 1] = b
  OBVIOUS
<1>2. ASSUME NEW t \in N!IdsIn(Append(c, b)) PROVE t \in N!IdsIn(c) \cup N!Held(b.data)
  <2>1. PICK i \in DOMAIN Append(c, b) : t \in N!Held(Append(c, b)[i].data)
    BY <1>2 DEF N!IdsIn
  <2>2. CASE i = Len(c) + 1
    BY <1>1, <2>1, <2>2
  <2>3. CASE i # Len(c) + 1
    <3>1. i \in DOMAIN c /\ Append(c, b)[i] = c[i]
      BY <1>1, <2>3
    <3> QED  BY <2>1, <3>1 DEF N!IdsIn
  <2> QED  BY <2>2, <2>3
<1>3. ASSUME NEW t \in N!IdsIn(c) PROVE t \in N!IdsIn(Append(c, b))
  <2>1. PICK i \in DOMAIN c : t \in N!Held(c[i].data)
    BY <1>3 DEF N!IdsIn
  <2>2. i \in DOMAIN Append(c, b) /\ Append(c, b)[i] = c[i]
    BY <1>1
  <2> QED  BY <2>1, <2>2 DEF N!IdsIn
<1>4. ASSUME NEW t \in N!Held(b.data) PROVE t \in N!IdsIn(Append(c, b))
  <2>1. Len(c) + 1 \in DOMAIN Append(c, b)
    BY <1>1
  <2> QED  BY <1>1, <1>4, <2>1 DEF N!IdsIn
<1> QED  BY <1>2, <1>3, <1>4

\* The chain of n has become one with all that was sent, and its mempool has
\* lost some.
Gains(n) ==
    /\ UNCHANGED <<sent, checked>> /\ state'[n] = "BLOCK" /\ DOMAIN previous' = Nodes
    /\ previous'[n] = N!IdsIn(chain[n])' /\ sent \subseteq previous'[n]
    /\ \A t \in Txs : mempool'[n][t] # Nil => mempool'[n][t] = mempool[n][t] /\ t \notin previous'[n]
    /\ Height(n)' = Rounds(n)'
    /\ \A m \in Nodes \ {n} :
          /\ chain'[m] = chain[m] /\ mempool'[m] = mempool[m] /\ previous'[m] = previous[m]
          /\ winning'[m] = winning[m] /\ state'[m] = state[m]
          /\ Height(m) = Rounds(n)' => sent \subseteq previous[m]
    /\ \A m \in Nodes : request'[m] = Nil

LEMMA GainStocked ==
    ASSUME Stocked, NEW n \in Nodes, Gains(n)
    PROVE  Stocked'
<1>1. \A m \in Nodes \ {n} : Height(m)' = Height(m) /\ Rounds(m)' = Rounds(m) /\ Current(m)' = Current(m)
  BY DEF Gains, Height, Rounds, Current
<1>2. Current(n)' = {} /\ sent' = sent /\ Height(n)' = Rounds(n)'
  BY DEF Gains, Current
<1>3. Delivered'
  <2>1. ASSUME NEW m \in Nodes, NEW k \in Nodes, state'[k] = "BLOCK", Height(m)' = Rounds(k)'
        PROVE  sent \subseteq previous'[m]
    <3>1. CASE m = n
      BY <3>1 DEF Gains
    <3>2. CASE m # n /\ k = n
      BY <1>1, <2>1, <3>2 DEF Gains
    <3>3. CASE m # n /\ k # n
      <4>1. state[k] = "BLOCK" /\ Height(m) = Rounds(k) /\ previous'[m] = previous[m]
        BY <1>1, <2>1, <3>3 DEF Gains
      <4> QED  BY <4>1 DEF Stocked, Delivered
    <3> QED  BY <3>1, <3>2, <3>3
  <2> QED  BY <1>2, <2>1 DEF Delivered
<1>4. \A t, c, m : Path(t, c, m)' = Path(t, c, m)
  BY DEF Path, N!ValidateTransaction
<1>5. ASSUME NEW m \in Nodes PROVE Booked(m)'
  <2>0. Booked(m)
    BY DEF Stocked
  <2>1. previous'[m] = N!IdsIn(chain[m])'
    <3>1. CASE m = n
      BY <3>1 DEF Gains
    <3>2. CASE m # n
      BY <2>0, <3>2 DEF Gains, Booked, N!IdsIn, N!Held
    <3> QED  BY <3>1, <3>2
  <2>2. ASSUME NEW t \in N!Held(mempool[m])'
        PROVE  t \notin previous'[m] /\ mempool'[m][t] = mempool[m][t] /\ t \in N!Held(mempool[m])
    <3>1. CASE m = n
      BY <2>2, <3>1 DEF Gains, N!Held
    <3>2. CASE m # n
      BY <2>0, <2>2, <3>2 DEF Gains, N!Held, Booked
    <3> QED  BY <3>1, <3>2
  <2>3. \A t \in N!Held(mempool[m])' : Path(t, mempool[m][t], m)'
    BY <1>4, <2>0, <2>2 DEF Booked
  <2>4. checked'[m] \subseteq sent' /\ (state'[m] = "MINING" => checked'[m] \subseteq previous'[m])
    BY <2>0 DEF Gains, Booked
  <2> QED  BY <2>1, <2>2, <2>3, <2>4 DEF Booked
<1>6. ASSUME NEW m \in Nodes PROVE Settled(m)'
  <2>1. ASSUME NEW t \in Current(m)'
        PROVE  /\ Height(Source[t])' = Height(m)' => Has(Source[t], t)'
               /\ Has(Dest[t], t)' /\ Height(Dest[t])' = Height(m)' => Done(Dest[t], t)'
               /\ Done(m, t)' /\ Height(Dest[t])' = Height(m)' => mempool'[Dest[t]][t] = mempool'[m][t]
    <3>1. m # n /\ t \in Current(m) /\ t \in Txs /\ Source[t] \in Nodes /\ Dest[t] \in Nodes
      BY <1>1, <1>2, <2>1, SystemAssumption DEF Stocked, Current
    <3>2. Height(m)' # Height(n)'
      BY <1>1, <1>2, <3>1 DEF Gains, Current
    <3>3. \A k \in Nodes \ {n} : mempool'[k] = mempool[k]
      BY DEF Gains
    <3>4. /\ Height(Source[t]) = Height(m) => Has(Source[t], t)
          /\ Has(Dest[t], t) /\ Height(Dest[t]) = Height(m) => Done(Dest[t], t)
          /\ Done(m, t) /\ Height(Dest[t]) = Height(m) => mempool[Dest[t]][t] = mempool[m][t]
      BY <3>1 DEF Stocked, Settled
    <3>5. Height(Source[t])' = Height(m)' => Has(Source[t], t)'
      <4>1. CASE Source[t] = n
        BY <3>2, <4>1 DEF Height
      <4>2. CASE Source[t] # n
        BY <1>1, <3>1, <3>3, <3>4, <4>2 DEF Has
      <4> QED  BY <4>1, <4>2
    <3>6. /\ Has(Dest[t], t)' /\ Height(Dest[t])' = Height(m)' => Done(Dest[t], t)'
          /\ Done(m, t)' /\ Height(Dest[t])' = Height(m)' => mempool'[Dest[t]][t] = mempool'[m][t]
      <4>1. CASE Dest[t] = n
        BY <3>2, <4>1 DEF Height
      <4>2. CASE Dest[t] # n
        BY <1>1, <3>1, <3>3, <3>4, <4>2 DEF Has, Done
      <4> QED  BY <4>1, <4>2
    <3> QED  BY <3>5, <3>6
  <2> QED  BY <2>1 DEF Settled
<1>7. \A m \in Nodes : Arriving(m)'
  BY DEF Gains, Arriving
<1>8. (sent \subseteq Txs)' /\ (DOMAIN previous = Nodes)'
  BY <1>2 DEF Stocked, Gains
<1> QED  BY <1>3, <1>5, <1>6, <1>7, <1>8 DEF Stocked

\* A node that lags gets the block of its round.
LEMMA TakeGains ==
    ASSUME Base, Stocked, NEW n \in Nodes, N!ReceiveBlocks(n)
    PROVE  Gains(n) /\ UNCHANGED <<winning, state, alive>> /\ state[n] = "BLOCK"
<1>1. PICK p \in Nodes : Takes(n, p) /\ N!Insert(n, Height(n), <<chain[p][Height(n) + 1]>>)
  BY Parts, BlockInserted
<1> DEFINE b == chain[p][Height(n) + 1]
<1>2. /\ UNCHANGED <<sent, checked, winning, state>> /\ request[n] # Nil
      /\ request' = [request EXCEPT ![n] = Nil]
  BY DEF N!ReceiveBlocks
<1>3. /\ state[n] = "BLOCK" /\ Height(n) + 1 = Rounds(n) /\ Height(p) = Height(n) + 1 /\ p # n
      /\ Height(n) \in Nat /\ chain \in [Nodes -> Seq(N!Block)] /\ mempool \in [Nodes -> N!Pool]
      /\ DOMAIN request = Nodes
  <2>1. Lags(n) /\ Height(p) = Height(n) + 1
    BY <1>1 DEF Takes
  <2>2. state[n] = "BLOCK" /\ Height(n) + 1 = Rounds(n) /\ Height(n) \in Nat
    BY <2>1, Parts, Lagging
  <2>3. p # n
    BY <2>1, <2>2
  <2> QED  BY <2>1, <2>2, <2>3, Parts DEF Typed
<1>4. /\ chain[n] \in Seq(N!Block) /\ chain[p] \in Seq(N!Block) /\ b \in N!Block
      /\ chain'[n] = Append(chain[n], b) /\ Len(chain[n]) = Height(n) /\ Len(chain[p]) = Height(n) + 1
      /\ \A m \in Nodes \ {n} : chain'[m] = chain[m]
  BY <1>1, <1>3 DEF Takes, Height
<1> HIDE DEF b
<1>5. chain'[n] = chain[p]
  <2>1. \A i \in 1..Height(n) : chain[n][i] = chain[p][i]
    <3>1. DOMAIN chain[n] = 1..Height(n) /\ DOMAIN chain[p] = 1..(Height(n) + 1)
      BY <1>3, <1>4
    <3>2. OneHistory
      BY Parts DEF ChainInv
    <3> QED  BY <1>3, <3>1, <3>2 DEF OneHistory
  <2>2. /\ Append(chain[n], b) \in Seq(N!Block) /\ Len(Append(chain[n], b)) = Len(chain[p])
        /\ \A i \in 1..Len(Append(chain[n], b)) : Append(chain[n], b)[i] = chain[p][i]
    <3>1. /\ Append(chain[n], b) \in Seq(N!Block) /\ Len(Append(chain[n], b)) = Height(n) + 1
          /\ Append(chain[n], b)[Height(n) + 1] = b
          /\ \A i \in 1..Height(n) : Append(chain[n], b)[i] = chain[n][i]
      BY <1>4
    <3>2. b = chain[p][Height(n) + 1]
      BY DEF b
    <3> QED  BY <1>3, <1>4, <2>1, <3>1, <3>2
  <2>3. Append(chain[n], b) = chain[p]
    BY <1>4, <2>2, SeqEqual
  <2> QED  BY <1>4, <2>3
<1>6. previous[p] = N!IdsIn(chain[p]) /\ sent \subseteq previous[p] /\ previous[n] = N!IdsIn(chain[n])
      /\ N!Held(mempool[n]) \cap previous[n] = {}
  BY <1>3 DEF Stocked, Delivered, Booked
<1>7. N!IdsIn(chain[p]) = N!IdsIn(chain[n]) \cup N!Held(b.data)
  BY <1>4, <1>5, IdsAppend
<1>8. N!Discarded(n, Height(n)) = <<>>
  BY <1>4 DEF N!Discarded
<1>9. N!IdsIn(<<>>) = {}
  BY DEF N!IdsIn
<1>10. N!IdsIn(<<b>>) = N!Held(b.data)
  BY DEF N!IdsIn
<1>11. /\ previous' = [previous EXCEPT ![n] = N!SyncedPrevious(n, Height(n), <<b>>)]
       /\ mempool' = [mempool EXCEPT ![n] = N!SyncedMempool(n, Height(n), <<b>>)]
  BY <1>1 DEF N!Insert, b
<1>12. N!SyncedPrevious(n, Height(n), <<b>>) = N!IdsIn(chain[p])
  BY <1>6, <1>7, <1>8, <1>9, <1>10 DEF N!SyncedPrevious
<1>13. \A t \in Txs : N!SyncedMempool(n, Height(n), <<b>>)[t]
                         = IF t \in N!Held(b.data) THEN Nil ELSE mempool[n][t]
  BY <1>8, <1>9, <1>10 DEF N!SyncedMempool
<1>14. DOMAIN previous = Nodes /\ DOMAIN previous' = Nodes
  BY <1>11 DEF Stocked
<1>15. /\ previous'[n] = N!IdsIn(chain[p])
       /\ \A t \in Txs : mempool'[n][t] = IF t \in N!Held(b.data) THEN Nil ELSE mempool[n][t]
       /\ \A m \in Nodes \ {n} : previous'[m] = previous[m] /\ mempool'[m] = mempool[m]
  BY <1>3, <1>11, <1>12, <1>13, <1>14
<1>16. \A t \in Txs : mempool'[n][t] # Nil => mempool'[n][t] = mempool[n][t] /\ t \notin previous'[n]
  BY <1>6, <1>7, <1>15 DEF N!Held
<1>17. N!IdsIn(chain[n])' = N!IdsIn(chain[p])
  BY <1>5 DEF N!IdsIn, N!Held
<1>18. Height(n)' = Rounds(n)' /\ Rounds(n)' = Rounds(n)
  BY <1>2, <1>3, <1>4, <1>5 DEF Height, Rounds
<1>19. \A m \in Nodes \ {n} : Height(m) = Rounds(n) => sent \subseteq previous[m]
  BY <1>3 DEF Stocked, Delivered
<1>20. \A m \in Nodes : request'[m] = Nil
  <2>1. \A m \in Nodes \ {n} : request[m] = Nil
    BY <1>2, Parts, Alone
  <2> QED  BY <1>2, <1>3, <2>1
<1>21. alive' = alive
  BY Parts, BlockInserted
<1> QED  BY <1>2, <1>3, <1>4, <1>6, <1>14, <1>15, <1>16, <1>17, <1>18, <1>19, <1>20, <1>21 DEF Gains

LEMMA TakeSteady ==
    ASSUME Base, Steady, NEW n \in Nodes, N!ReceiveBlocks(n), UNCHANGED <<voteVars, rest, left>>
    PROVE  Steady'
<1>0. Stocked /\ Agreed /\ \A m \in Nodes : Mines(m)
  BY DEF Steady
<1>1. Gains(n) /\ UNCHANGED <<winning, state, voteVars, rest, left>> /\ state[n] = "BLOCK"
  BY <1>0, TakeGains
<1>2. Stocked'
  BY <1>0, <1>1, GainStocked
<1>3. ASSUME NEW m \in Nodes PROVE Mines(m)'
  <2>1. ASSUME m # n, state[m] = "MINING" PROVE Current(m)' = {}
    <3>1. pc[n] # "idle"
      BY Parts DEF N!ReceiveBlocks, LoopInv, Pinging
    <3>2. Rounds(m) = Rounds(n) /\ Height(m) = Rounds(m)
      BY <1>1, <2>1, <3>1, Parts, Together
    <3>3. Rounds(n)' = Rounds(n)
      BY <1>1 DEF Rounds
    <3> QED  BY <1>1, <2>1, <3>2, <3>3 DEF Gains, Current
  <2> QED  BY <1>1, <2>1 DEF Mines
<1>4. Cached(n)' /\ Leads(n)' /\ Polls(n)' /\ Leaves(n)'
  <2>1. Polls(n) /\ Leaves(n)
    BY <1>0 DEF Agreed
  <2> QED  BY <1>1, <2>1 DEF Cached, Leads, Polls, Leaves, Rounds, voteVars
<1>5. ASSUME NEW m \in Nodes \ {n} PROVE Cached(m)' /\ Leads(m)' /\ Polls(m)' /\ Leaves(m)'
  <2>1. Cached(m) /\ Leads(m) /\ Polls(m) /\ Leaves(m) /\ SameBallot(m)
    BY <1>0, <1>1 DEF Agreed, SameBallot, voteVars, Gains
  <2> QED  BY <2>1, SameBacking
<1>6. ASSUME NEW k \in Nodes, NEW m \in Nodes PROVE Follows(k, m)'
  BY <1>0, <1>1, SameFollows DEF Agreed, voteVars
<1>7. Agreed'
  BY <1>4, <1>5, <1>6 DEF Agreed
<1> QED  BY <1>2, <1>3, <1>7 DEF Steady

\* What a node that ends the vote leaves as it is.
LEMMA Closing ==
    ASSUME Base, Steady, NEW n \in Nodes, Close(n)
    PROVE  /\ pc[n] = "close" /\ pc'[n] = "idle" /\ state[n] = "LEADER" /\ request[n] = Nil
           /\ UNCHANGED <<sent, checked, request, alive, time, rest, left, candidate, cache, votes, asking>>
           /\ \A m \in Nodes \ {n} : /\ SameAt(m) /\ recent'[m] = recent[m]
                                     /\ chain'[m] = chain[m] /\ mempool'[m] = mempool[m]
                                     /\ previous'[m] = previous[m]
           /\ \/ UNCHANGED <<state, winning, chain, mempool, previous, recent>>
              \/ /\ state'[n] = "BLOCK" /\ candidate[n] \in Nodes
                 /\ winning'[n] = Append(winning[n], candidate[n]) /\ Rounds(n)' = Rounds(n) + 1
                 /\ winning'[n][Rounds(n) + 1] = candidate[n]
                 /\ recent'[n] = E!WithLeader(recent[n], candidate[n])
                 /\ \/ candidate[n] = n /\ N!CreateBlock(n)
                    \/ candidate[n] # n /\ UNCHANGED <<chain, previous, mempool>>
<1>1. /\ pc[n] = "close" /\ pc' = [pc EXCEPT ![n] = "idle"]
      /\ UNCHANGED <<alive, candidate, cache, votes, asking>>
  BY DEF Close, E!Close, E!Done, E!up
<1>2. /\ pc'[n] = "idle" /\ state[n] = "LEADER" /\ request[n] = Nil
      /\ UNCHANGED <<time, rest, left, request>>
      /\ \A m \in Nodes \ {n} : SameAt(m)
      /\ \/ UNCHANGED <<state, winning, chain, mempool>>
         \/ /\ state'[n] = "BLOCK" /\ E!After(n, 2)
            /\ cache[n].sig \in Nodes /\ Closes(n, cache[n].sig)
  BY Parts, CloseLoop
<1>3. UNCHANGED <<sent, checked>>
  BY DEF Close, N!EndElection, nodeVars
<1>4. candidate[n] \in Nodes /\ cache[n].sig = candidate[n]
  BY <1>1, <1>2, Candidate
<1>5. /\ DOMAIN recent = Nodes /\ DOMAIN state = Nodes /\ DOMAIN chain = Nodes /\ DOMAIN mempool = Nodes
      /\ DOMAIN previous = Nodes
  BY Parts DEF VoteTyped, Typed, Steady, Stocked
<1>6. CASE ~E!After(n, 2)
  <2>1. UNCHANGED <<state, winning, chain, mempool, previous, recent>>
    BY <1>6 DEF Close, E!Close, nodeVars
  <2> QED  BY <1>1, <1>2, <1>3, <2>1
<1>7. CASE E!After(n, 2)
  <2>1. /\ state' = [state EXCEPT ![n] = "BLOCK"]
        /\ recent' = [recent EXCEPT ![n] = E!WithLeader(@, candidate[n])]
    BY <1>7 DEF Close, E!Close
  <2>2. \/ candidate[n] = n /\ N!CreateBlock(n)
        \/ candidate[n] # n /\ UNCHANGED <<chain, previous, mempool>>
    BY <1>7 DEF Close, N!EndElection, N!IsLeader
  <2>3. state'[n] = "BLOCK" /\ state'[n] # state[n]
    BY <1>2, <1>5, <2>1
  <2>4. Closes(n, candidate[n])
    BY <1>2, <1>4, <2>3
  <2>5. /\ winning'[n] = Append(winning[n], candidate[n]) /\ Rounds(n)' = Rounds(n) + 1
        /\ winning'[n][Rounds(n) + 1] = candidate[n]
    BY <1>4, <2>4, Parts, RecordTypes
  <2>6. \A m \in Nodes \ {n} : chain'[m] = chain[m] /\ mempool'[m] = mempool[m] /\ previous'[m] = previous[m]
    BY <1>5, <2>2 DEF N!CreateBlock
  <2>7. /\ recent'[n] = E!WithLeader(recent[n], candidate[n])
        /\ \A m \in Nodes \ {n} : recent'[m] = recent[m]
    BY <1>5, <2>1
  <2> QED  BY <1>1, <1>2, <1>3, <1>4, <2>2, <2>3, <2>5, <2>6, <2>7
<1> QED  BY <1>6, <1>7

\* The block of the leader has all that was sent.
LEMMA LeaderGains ==
    ASSUME Base, Steady, NEW n \in Nodes, Close(n), state'[n] = "BLOCK", candidate[n] = n
    PROVE  /\ Gains(n)
           /\ \E b \in N!Block : /\ b.data = mempool[n] /\ b.miner = n
                                 /\ chain'[n] = Append(chain[n], b)
<1>0. Stocked /\ Agreed /\ Booked(n) /\ Leads(n)
  BY DEF Steady, Stocked, Agreed
<1>1. /\ pc[n] = "close" /\ state[n] = "LEADER" /\ request[n] = Nil
      /\ UNCHANGED <<sent, checked, request>>
      /\ \A m \in Nodes \ {n} : /\ SameAt(m) /\ chain'[m] = chain[m] /\ mempool'[m] = mempool[m]
                                /\ previous'[m] = previous[m]
      /\ Rounds(n)' = Rounds(n) + 1 /\ N!CreateBlock(n)
  BY Closing
<1>2. PICK nonce \in Nonces :
         /\ chain' = [chain EXCEPT ![n] = Append(@, N!NewBlock(n, nonce))]
         /\ previous' = [previous EXCEPT ![n] = @ \cup N!Held(N!BlockData(n))]
         /\ mempool' = [mempool EXCEPT ![n] = N!NoTxs]
  BY <1>1 DEF N!CreateBlock, N!ClearedMempool
<1> DEFINE b == N!NewBlock(n, nonce)
<1>3. /\ b \in N!Block /\ b.miner = n /\ b.data = N!BlockData(n)
  BY Parts, BlockMade
<1>4. /\ DOMAIN chain = Nodes /\ DOMAIN mempool = Nodes /\ DOMAIN previous = Nodes
      /\ chain[n] \in Seq(N!Block) /\ mempool[n] \in [Txs -> N!Copy \cup {Nil}]
  BY <1>0, Parts DEF Typed, Stocked, N!Pool
<1>5. b.data = mempool[n]
  <2>1. \A t \in Txs : t \in previous[n] => mempool[n][t] = Nil
    BY <1>0 DEF Booked, N!Held
  <2> QED  BY <1>3, <1>4, <2>1 DEF N!BlockData
<1>6. /\ chain'[n] = Append(chain[n], b) /\ previous'[n] = previous[n] \cup N!Held(mempool[n])
      /\ \A t \in Txs : mempool'[n][t] = Nil
      /\ DOMAIN previous' = Nodes
  BY <1>2, <1>3, <1>4, <1>5 DEF N!NoTxs
<1> HIDE DEF b
<1>7. previous'[n] = N!IdsIn(chain[n])'
  <2>1. previous'[n] = N!IdsIn(Append(chain[n], b))
    BY <1>0, <1>3, <1>4, <1>5, <1>6, IdsAppend DEF Booked
  <2>2. N!IdsIn(chain[n])' = N!IdsIn(Append(chain[n], b))
    BY <1>6 DEF N!IdsIn, N!Held
  <2> QED  BY <2>1, <2>2
<1>8. sent \subseteq previous'[n]
  <2>1. \A t \in Current(n) : t \in Txs /\ mempool[n][t] # Nil
    BY <1>0, <1>1 DEF Leads, Done, Has, Current, Stocked
  <2> QED  BY <1>6, <2>1 DEF Current, N!Held
<1>9. Height(n)' = Rounds(n)'
  <2>1. Height(n) = Rounds(n) /\ Len(Append(chain[n], b)) = Len(chain[n]) + 1
    BY <1>1, <1>4, Parts
  <2> QED  BY <1>1, <1>6, <2>1 DEF Height
<1>10. ASSUME NEW m \in Nodes \ {n}, Height(m) = Rounds(n)' PROVE sent \subseteq previous[m]
  <2>1. Rounds(m) = Rounds(n) + 1 /\ state[m] = "BLOCK"
    <3>1. \/ Rounds(m) = Rounds(n) /\ state[m] = "LEADER"
          \/ Rounds(m) = Rounds(n) + 1 /\ state[m] = "BLOCK"
      BY <1>1, Parts, LeadingTogether
    <3>2. Height(m) # Rounds(n)
      BY <1>1, <1>10, Parts
    <3> QED  BY <3>1, <3>2, Parts
  <2> QED  BY <1>0, <1>1, <1>10, <2>1 DEF Stocked, Delivered
<1>11. \A m \in Nodes : request'[m] = Nil
  <2>1. pc[n] # "idle"
    BY <1>1
  <2> QED  BY <1>1, <2>1, Parts, Alone
<1>12. Gains(n)
  BY <1>1, <1>6, <1>7, <1>8, <1>9, <1>10, <1>11 DEF Gains, SameAt
<1> QED  BY <1>3, <1>5, <1>6, <1>12 DEF b

\* A node that is not the leader begins to lag.
LEMMA LagStocked ==
    ASSUME Base, Steady, NEW n \in Nodes, Close(n), state'[n] = "BLOCK", candidate[n] # n,
           state'[n] # state[n]
    PROVE  Stocked'
<1>0. Stocked
  BY DEF Steady
<1>1. /\ pc[n] = "close" /\ state[n] = "LEADER"
      /\ UNCHANGED <<sent, checked, request, chain, previous, mempool>>
      /\ \A m \in Nodes \ {n} : SameAt(m)
      /\ Rounds(n)' = Rounds(n) + 1
  BY Closing
<1>2. \A m \in Nodes : Height(m)' = Height(m)
  BY <1>1 DEF Height
<1>3. Delivered'
  <2>1. ASSUME NEW m \in Nodes, NEW k \in Nodes, state'[k] = "BLOCK", Height(m)' = Rounds(k)'
        PROVE  sent \subseteq previous[m]
    <3>1. CASE k = n
      <4>1. Height(m) = Rounds(n) + 1 /\ m # n
        BY <1>1, <1>2, <2>1, <3>1, Parts
      <4>2. Rounds(m) = Rounds(n) + 1 /\ state[m] = "BLOCK"
        <5>1. \/ Rounds(m) = Rounds(n) /\ state[m] = "LEADER"
              \/ Rounds(m) = Rounds(n) + 1 /\ state[m] = "BLOCK"
          BY <1>1, Parts, LeadingTogether
        <5> QED  BY <4>1, <5>1, Parts
      <4> QED  BY <1>0, <4>1, <4>2 DEF Stocked, Delivered
    <3>2. CASE k # n
      <4>1. state[k] = "BLOCK" /\ Height(m) = Rounds(k)
        BY <1>1, <1>2, <2>1, <3>2 DEF SameAt, Rounds
      <4> QED  BY <1>0, <4>1 DEF Stocked, Delivered
    <3> QED  BY <3>1, <3>2
  <2> QED  BY <1>1, <2>1 DEF Delivered
<1>4. ASSUME NEW m \in Nodes PROVE Booked(m)'
  <2>1. Booked(m) /\ (state'[m] = "MINING" => state[m] = "MINING")
    BY <1>0, <1>1 DEF Stocked, SameAt
  <2>2. N!IdsIn(chain[m])' = N!IdsIn(chain[m]) /\ N!Held(mempool[m])' = N!Held(mempool[m])
    BY <1>1 DEF N!IdsIn, N!Held
  <2>3. \A t \in N!Held(mempool[m]) : Path(t, mempool[m][t], m)
    BY <2>1 DEF Booked
  <2>4. \A t \in N!Held(mempool'[m]) : Path(t, mempool[m][t], m)'
    BY <1>1, <2>3 DEF Path, N!Held, N!ValidateTransaction
  <2> QED  BY <1>1, <2>1, <2>2, <2>4 DEF Booked, N!Held
<1>5. ASSUME NEW m \in Nodes PROVE Settled(m)'
  <2>1. Settled(m)
    BY <1>0 DEF Stocked
  <2> QED  BY <1>1, <2>1 DEF Settled, Current, Has, Done, Height
<1>6. ASSUME NEW m \in Nodes PROVE Arriving(m)'
  BY <1>0, <1>1, SameArriving DEF Stocked
<1> QED  BY <1>0, <1>1, <1>3, <1>4, <1>5, <1>6 DEF Stocked

LEMMA CloseAgreed ==
    ASSUME Base, Steady, NEW n \in Nodes, Close(n)
    PROVE  Agreed'
<1>0. Agreed
  BY DEF Steady
<1>1. /\ pc[n] = "close" /\ pc'[n] = "idle" /\ state[n] = "LEADER"
      /\ UNCHANGED <<sent, candidate, cache, votes, asking>>
      /\ \A m \in Nodes \ {n} : /\ SameAt(m) /\ recent'[m] = recent[m]
                                /\ mempool'[m] = mempool[m] /\ previous'[m] = previous[m]
      /\ \/ UNCHANGED <<state, winning, chain, mempool, previous, recent>>
         \/ /\ state'[n] = "BLOCK" /\ candidate[n] \in Nodes
            /\ Rounds(n)' = Rounds(n) + 1 /\ winning'[n][Rounds(n) + 1] = candidate[n]
            /\ recent'[n] = E!WithLeader(recent[n], candidate[n])
  BY Closing
<1>2. ASSUME NEW m \in Nodes \ {n} PROVE Cached(m)' /\ Leads(m)' /\ Polls(m)' /\ Leaves(m)'
  <2>1. Cached(m) /\ Leads(m) /\ Polls(m) /\ Leaves(m) /\ SameBallot(m)
    BY <1>0, <1>1 DEF Agreed, SameBallot, SameAt
  <2> QED  BY <2>1, SameBacking
<1>3. Polls(n) /\ Leads(n)
  BY <1>0 DEF Agreed
<1>4. Polls(n)'
  BY <1>1, <1>3 DEF Polls
<1>5. CASE UNCHANGED <<state, winning, chain, mempool, previous, recent>>
  <2>1. Cached(n)' /\ Leaves(n)'
    BY <1>1, <1>5 DEF Cached, Leaves
  <2>2. Leads(n)'
    <3>1. \A w : Best(n, w)' = Best(n, w)
      BY <1>5, SameHops
    <3>2. \A t : Done(n, t)' = Done(n, t)
      BY <1>5 DEF Done, Has
    <3>3. Current(n)' = Current(n)
      BY <1>1, <1>5 DEF Current
    <3> QED  BY <1>1, <1>3, <1>5, <3>1, <3>2, <3>3 DEF Leads
  <2>3. ASSUME NEW k \in Nodes, NEW m \in Nodes PROVE Follows(k, m)'
    BY <1>0, <1>1, <1>5, SameFollows DEF Agreed
  <2> QED  BY <1>2, <1>4, <2>1, <2>2, <2>3 DEF Agreed
<1>6. CASE /\ state'[n] = "BLOCK" /\ candidate[n] \in Nodes
           /\ Rounds(n)' = Rounds(n) + 1 /\ winning'[n][Rounds(n) + 1] = candidate[n]
           /\ recent'[n] = E!WithLeader(recent[n], candidate[n])
  <2>1. Cached(n)' /\ Leads(n)' /\ Leaves(n)'
    BY <1>1, <1>6 DEF Cached, Leads, Leaves
  <2>2. ASSUME NEW k \in Nodes, NEW m \in Nodes PROVE Follows(k, m)'
    <3>0. /\ \A o \in Nodes \ {n} : /\ Rounds(o)' = Rounds(o) /\ recent'[o] = recent[o]
                                    /\ winning'[o] = winning[o] /\ state'[o] = state[o]
          /\ Rounds(n) \in Nat /\ Rounds(k) \in Nat /\ Rounds(m) \in Nat
      BY <1>1, Parts DEF SameAt, Rounds
    <3>1. \A o \in Nodes : \/ Rounds(o) = Rounds(n) /\ state[o] = "LEADER"
                           \/ Rounds(o) = Rounds(n) + 1 /\ state[o] = "BLOCK" /\ o # n
      BY <1>1, Parts, LeadingTogether
    <3>2. Follows(k, m) /\ Follows(n, m) /\ Follows(k, n)
      BY <1>0 DEF Agreed
    <3>3. CASE k = n /\ m = n
      BY <1>6, <3>0, <3>3 DEF Follows
    <3>4. CASE k = n /\ m # n
      <4>1. CASE Rounds(m) = Rounds(n)
        BY <1>6, <3>0, <3>4, <4>1 DEF Follows
      <4>2. CASE Rounds(m) = Rounds(n) + 1
        <5>1. recent[m] = E!WithLeader(recent[n], candidate[n]) /\ state[m] = "BLOCK"
          BY <3>0, <3>1, <3>2, <3>4, <4>2 DEF Follows
        <5> QED  BY <1>6, <3>0, <3>4, <4>2, <5>1 DEF Follows
      <4> QED  BY <3>1, <4>1, <4>2
    <3>5. CASE k # n /\ m = n
      <4>1. CASE Rounds(k) = Rounds(n)
        <5>1. recent[k] = recent[n] /\ candidate[k] = candidate[n]
          BY <1>1, <3>0, <3>1, <3>2, <3>5, <4>1 DEF Follows
        <5>2. E!WithLeader(recent[k], candidate[k])' = E!WithLeader(recent[k], candidate[k])
          BY <1>1, <3>0, <3>5 DEF E!WithLeader
        <5> QED  BY <1>1, <1>6, <3>0, <3>5, <4>1, <5>1, <5>2 DEF Follows
      <4>2. CASE Rounds(k) = Rounds(n) + 1
        <5>1. recent[k] = E!WithLeader(recent[n], candidate[n]) /\ state[k] = "BLOCK"
          <6>1. Follows(n, k)
            BY <1>0 DEF Agreed
          <6> QED  BY <3>0, <3>1, <3>5, <4>2, <6>1 DEF Follows
        <5> QED  BY <1>6, <3>0, <3>5, <4>2, <5>1 DEF Follows
      <4> QED  BY <3>1, <4>1, <4>2
    <3>6. CASE k # n /\ m # n
      <4>1. E!WithLeader(recent[k], candidate[k])' = E!WithLeader(recent[k], candidate[k])
        BY <1>1, <3>0, <3>6 DEF E!WithLeader
      <4> QED  BY <1>1, <3>0, <3>2, <3>6, <4>1 DEF Follows
    <3> QED  BY <3>3, <3>4, <3>5, <3>6
  <2> QED  BY <1>2, <1>4, <2>1, <2>2 DEF Agreed
<1> QED  BY <1>1, <1>5, <1>6

LEMMA CloseSteady ==
    ASSUME Base, Steady, NEW n \in Nodes, Close(n)
    PROVE  Steady'
<1>0. Stocked /\ \A m \in Nodes : Mines(m)
  BY DEF Steady
<1>1. /\ pc[n] = "close" /\ state[n] = "LEADER"
      /\ UNCHANGED <<sent, checked, request>>
      /\ \A m \in Nodes \ {n} : SameAt(m)
      /\ \/ UNCHANGED <<state, winning, chain, mempool, previous>>
         \/ state'[n] = "BLOCK"
  BY Closing
<1>2. Stocked'
  <2>1. CASE UNCHANGED <<state, winning, chain, mempool, previous>>
    BY <1>0, <1>1, <2>1, SameStocked
  <2>2. CASE state'[n] = "BLOCK" /\ candidate[n] = n
    BY <1>0, <2>2, LeaderGains, GainStocked
  <2>3. CASE state'[n] = "BLOCK" /\ candidate[n] # n
    BY <1>1, <2>3, LagStocked
  <2> QED  BY <1>1, <2>1, <2>2, <2>3
<1>3. ASSUME NEW m \in Nodes PROVE Mines(m)'
  <2>1. state[m] # "MINING"
    BY <1>1, Parts, LeadingTogether
  <2>2. state'[m] # "MINING"
    BY <1>1, <2>1 DEF SameAt
  <2> QED  BY <2>2 DEF Mines
<1> QED  BY <1>2, <1>3, CloseAgreed DEF Steady

-----------------------------------------------------------------------------
(* Sending, and the beginning of a step *)

LEMMA SendSteady ==
    ASSUME PromptMesh, Base, Steady, NEW n \in Nodes, NEW t \in Txs, SendTransaction(n, t)
    PROVE  Steady'
<1>0. Stocked /\ Agreed
  BY DEF Steady
<1>1. /\ \A m \in Nodes, u \in Txs :
            mempool'[m][u] = IF m = n /\ u = t THEN [completed |-> FALSE, sigs |-> <<>>]
                                               ELSE mempool[m][u]
      /\ UNCHANGED <<state, cache, candidate, recent, votes, asking, pc, winning>>
      /\ \A m \in Nodes : state[m] = "MINING" /\ mempool[m][t] = Nil
  BY <1>0, Sends DEF voteVars
<1>2. ASSUME NEW m \in Nodes PROVE Cached(m)' /\ Leads(m)' /\ Polls(m)' /\ Leaves(m)'
  <2>1. Cached(m) /\ Polls(m)
    BY <1>0 DEF Agreed
  <2>2. {u \in N!Held(mempool[m]) : mempool[m][u].completed}'
           = {u \in N!Held(mempool[m]) : mempool[m][u].completed}
    BY <1>1 DEF N!Held
  <2>3. \A u \in {v \in N!Held(mempool[m]) : mempool[m][v].completed} :
           mempool'[m][u] = mempool[m][u]
    BY <1>1 DEF N!Held
  <2>4. Hops(m)' = Hops(m)
    <3> DEFINE C == {u \in N!Held(mempool[m]) : mempool[m][u].completed}
               S(u, c) == {[id |-> h.id, value |-> Value[<<u, h.id, h.relayer>>]] :
                              h \in {c.sigs[i] : i \in DOMAIN c.sigs}}
    <3>1. Hops(m) = UNION {S(u, mempool[m][u]) : u \in C}
      BY DEF Hops
    <3>2. Hops(m)' = UNION {S(u, mempool'[m][u]) : u \in C'}
      BY DEF Hops
    <3>3. C' = C
      BY <2>2
    <3>4. \A u \in C : S(u, mempool'[m][u]) = S(u, mempool[m][u])
      BY <2>3
    <3> HIDE DEF C, S
    <3>5. UNION {S(u, mempool'[m][u]) : u \in C} = UNION {S(u, mempool[m][u]) : u \in C}
      BY <3>4
    <3> QED  BY <3>1, <3>2, <3>3, <3>5
  <2>5. \A s : E!SigValue(m, s)' = E!SigValue(m, s)
    BY <1>1 DEF E!SigValue
  <2>6. Cached(m)'
    BY <1>1, <2>1, <2>4, <2>5 DEF Cached
  <2> QED  BY <1>1, <2>1, <2>6 DEF Leads, Polls, Leaves
<1>3. ASSUME NEW k \in Nodes, NEW m \in Nodes PROVE Follows(k, m)'
  BY <1>0, <1>1, SameFollows DEF Agreed
<1>4. Agreed'
  BY <1>2, <1>3 DEF Agreed
<1> QED  BY <1>0, <1>4, SendStocked, SendMines DEF Steady

\* The number of peers.
LEMMA Neighbours ==
    ASSUME PromptMesh, NEW n \in Nodes
    PROVE  Cardinality(Peers[n]) = NumNeighbours /\ IsFiniteSet(Peers[n]) /\ NumNeighbours \in Nat
<1>1. IsFiniteSet(Nodes) /\ Peers[n] = Nodes \ {n} /\ NumNeighbours = Cardinality(Nodes) - 1
  BY DEF PromptMesh, Meshed, OncePerPass
<1>2. Cardinality(Nodes \ {n}) = Cardinality(Nodes) - 1 /\ IsFiniteSet(Nodes \ {n})
  BY <1>1, FS_RemoveElement
<1>3. NumNeighbours \in Nat
  BY SystemAssumption
<1> QED  BY <1>1, <1>2, <1>3

\* Who rests goes on resting, or asks everybody.
LEMMA BeginMines ==
    ASSUME PromptMesh, Base, Steady, NEW n \in Nodes, Begin(n), state[n] = "MINING"
    PROVE  Mines(n)'
<1>0. Stocked /\ Mines(n)
  BY DEF Steady
<1>1. /\ Starts(n) /\ pc[n] = "idle" /\ pc'[n] # "idle" /\ time'[n] = time[n] + 1
      /\ UNCHANGED <<sent, chain, previous, mempool, request, state, winning>>
  BY Parts, BeginLoop DEF Begin, nodeVars
<1>2. left[n] = {} /\ request[n] = Nil /\ on[n] = {"mempool"}
  BY <1>1, Parts DEF LoopInv, Pinging
<1>3. pc'[n] = "run"
  BY <1>2, Parts DEF Begin, E!Begin, E!Goto, Typed
<1>4. /\ rest[n]["mempool"] \in 0..SyncInterval /\ SyncInterval \in Nat /\ Into(n) \in Int
      /\ Into(n)' = Into(n) + 1
      /\ left'[n] = IF rest[n]["mempool"] = 0 THEN Nodes \ {n} ELSE {}
      /\ rest[n]["mempool"] > 0 => rest'[n]["mempool"] = rest[n]["mempool"] - 1
      /\ LastSend \in Int /\ BlockPeriod \in Nat
  <2>1. /\ rest \in [Nodes -> [{"mempool", "chain"} -> 0..SyncInterval]] /\ DOMAIN left = Nodes
        /\ Syncing(n) = {"mempool"}
    BY <1>2, Parts DEF Typed, Syncing
  <2>2. rest[n] \in [{"mempool", "chain"} -> 0..SyncInterval]
    BY <2>1
  <2>3. left'[n] = IF rest[n]["mempool"] = 0 THEN Nodes \ {n} ELSE {}
    BY <1>1, <2>1 DEF Starts, PromptMesh, Meshed
  <2>4. rest[n]["mempool"] > 0 => rest'[n]["mempool"] = rest[n]["mempool"] - 1
    BY <1>1, <2>1, <2>2 DEF Starts
  <2>5. Into(n) \in Int /\ RoundsEnd(n)' = RoundsEnd(n) /\ time[n] \in Nat /\ RoundsEnd(n) \in Nat
    BY <1>1, Parts, PhaseTimes DEF RoundsEnd, Rounds
  <2>6. Into(n)' = Into(n) + 1
    BY <1>1, <2>5 DEF Into
  <2>7. LastSend \in Int /\ BlockPeriod \in Nat
    BY SystemAssumption, Periods DEF LastSend
  <2> QED  BY <2>2, <2>3, <2>4, <2>5, <2>6, <2>7, SystemAssumption
<1>5. ASSUME NEW t \in Current(n), NEW k \in Int, Rests(n, k)
      PROVE  \/ Into(n)' <= k + 1 /\ left'[n] = Nodes \ {n}
             \/ Rests(n, k)'
  <2>1. Into(n) + rest[n]["mempool"] <= k
    BY <1>5 DEF Rests
  <2>2. CASE rest[n]["mempool"] = 0
    BY <1>4, <2>1, <2>2
  <2>3. CASE rest[n]["mempool"] > 0
    <3>1. Into(n)' + rest'[n]["mempool"] <= k
      BY <1>4, <2>1, <2>3
    <3> QED  BY <1>1, <1>2, <1>4, <2>3, <3>1 DEF Rests
  <2> QED  BY <1>4, <2>2, <2>3
<1>6. ASSUME NEW t \in Current(n)
      PROVE  /\ \/ Has(n, t)
                \/ Into(n)' <= LastSend + SyncInterval + 2 /\ Source[t] \in left'[n]
                \/ Rests(n, LastSend + SyncInterval + 1)'
             /\ Has(Dest[t], t) => Done(n, t) \/ Dest[t] \in left'[n] \/ Rests(n, BlockPeriod)'
  <2>1. t \in Txs /\ Source[t] \in Nodes /\ Dest[t] \in Nodes
    BY <1>0, SystemAssumption DEF Stocked, Current
  <2>2. /\ Has(n, t) \/ Rests(n, LastSend + SyncInterval + 1)
        /\ Has(Dest[t], t) => Done(n, t) \/ Rests(n, BlockPeriod)
    BY <1>0, <1>1, <1>2, <1>6 DEF Mines, Brings, Completes
  <2>3. /\ Source[t] = n => Has(n, t)
        /\ Dest[t] = n /\ Has(Dest[t], t) => Done(n, t)
    BY <1>0, <1>6 DEF Stocked, Settled
  <2>4. \/ Has(n, t)
        \/ Into(n)' <= LastSend + SyncInterval + 2 /\ left'[n] = Nodes \ {n}
        \/ Rests(n, LastSend + SyncInterval + 1)'
    <3>1. LastSend + SyncInterval + 1 \in Int /\ LastSend + SyncInterval + 1 + 1 = LastSend + SyncInterval + 2
      BY <1>4
    <3> QED  BY <1>5, <1>6, <2>2, <3>1
  <2>5. Has(Dest[t], t) => Done(n, t) \/ left'[n] = Nodes \ {n} \/ Rests(n, BlockPeriod)'
    BY <1>4, <1>5, <1>6, <2>2
  <2> QED  BY <2>1, <2>3, <2>4, <2>5
<1>7. Current(n)' = Current(n) /\ \A k, t : Has(k, t)' = Has(k, t) /\ Done(k, t)' = Done(k, t)
  BY <1>1 DEF Current, Has, Done
<1> QED  BY <1>1, <1>3, <1>6, <1>7 DEF Mines, Has, Done

LEMMA BeginSteady ==
    ASSUME PromptMesh, Base, Steady, NEW n \in Nodes, Begin(n)
    PROVE  Steady'
<1>0. Stocked /\ Agreed /\ \A m \in Nodes : Mines(m)
  BY DEF Steady
<1>1. /\ pc[n] = "idle" /\ pc'[n] # "idle"
      /\ UNCHANGED <<sent, chain, previous, mempool, winning, checked, state, request>>
      /\ UNCHANGED <<cache, candidate, recent, votes>>
      /\ \A m \in Nodes \ {n} : SameAt(m)
  BY Parts, BeginLoop DEF Begin, nodeVars, E!Begin, E!lead
<1>2. Stocked'
  BY <1>0, <1>1, SameStocked
<1>3. ASSUME NEW m \in Nodes PROVE Mines(m)'
  <2>1. CASE m = n /\ state[n] = "MINING"
    BY <2>1, BeginMines
  <2>2. CASE m = n /\ state[n] # "MINING"
    BY <1>1, <2>2 DEF Mines
  <2>3. CASE m # n
    BY <1>0, <1>1, <2>3, SameMines
  <2> QED  BY <2>1, <2>2, <2>3
<1>4. \A m \in Nodes \ {n} : asking'[m] = asking[m]
  BY Parts DEF Begin, E!Begin, VoteTyped
<1>5. ASSUME NEW m \in Nodes PROVE Cached(m)' /\ Leads(m)' /\ Polls(m)' /\ Leaves(m)'
  <2>0. Cached(m) /\ Leads(m) /\ Polls(m) /\ Leaves(m)
    BY <1>0 DEF Agreed
  <2>1. CASE m # n
    <3>1. SameBallot(m)
      BY <1>1, <1>4, <2>1 DEF SameBallot, SameAt
    <3> QED  BY <2>0, <3>1, SameBacking
  <2>2. CASE m = n
    <3>1. \A w : Best(n, w)' = Best(n, w)
      BY <1>1, SameHops
    <3>2. Hops(n)' = Hops(n) /\ \A s : E!SigValue(n, s)' = E!SigValue(n, s)
      BY <1>1, SameHops
    <3>3. Cached(n)'
      BY <1>1, <2>0, <2>2, <3>2 DEF Cached
    <3>4. Leads(n)'
      <4>1. Current(n)' = Current(n) /\ \A t : Done(n, t)' = Done(n, t)
        BY <1>1 DEF Current, Done, Has
      <4> QED  BY <1>1, <2>0, <2>2, <3>1, <4>1 DEF Leads
    <3>5. Leaves(n)'
      BY <1>1, <2>0, <2>2 DEF Leaves, Rounds
    <3>6. Polls(n)'
      <4>1. votes[n] = <<>> /\ Len(votes[n]) = 0 /\ votes'[n] = <<>>
        BY <1>1, <2>0, <2>2 DEF Polls
      <4>2. pc'[n] = "ask" => asking'[n] = Peers[n]
        BY <1>1, Parts DEF Begin, E!Begin, E!Goto, VoteTyped, Typed
      <4>3. pc'[n] = "ask" => Len(votes'[n]) + Cardinality(asking'[n]) = NumNeighbours
        BY <4>1, <4>2, Neighbours
      <4> QED  BY <4>1, <4>3 DEF Polls
    <3> QED  BY <2>2, <3>3, <3>4, <3>5, <3>6
  <2> QED  BY <2>1, <2>2
<1>6. ASSUME NEW k \in Nodes, NEW m \in Nodes PROVE Follows(k, m)'
  BY <1>0, <1>1, SameFollows DEF Agreed
<1>7. Agreed'
  BY <1>5, <1>6 DEF Agreed
<1> QED  BY <1>2, <1>3, <1>7 DEF Steady

-----------------------------------------------------------------------------
(* The vote *)

\* A step of the LEADER phase that leaves the candidate alone.
LEMMA PollSteady ==
    ASSUME Base, Steady, NEW n \in Nodes, state[n] = "LEADER",
           UNCHANGED <<sent, chain, previous, mempool, winning, checked, state, request>>,
           UNCHANGED <<candidate, recent>>,
           \A m \in Nodes \ {n} : /\ SameAt(m) /\ cache'[m] = cache[m]
                                  /\ votes'[m] = votes[m] /\ asking'[m] = asking[m],
           Polls(n)'
    PROVE  Steady'
<1>0. Stocked /\ Agreed /\ \A m \in Nodes : Mines(m)
  BY DEF Steady
<1>1. Stocked'
  BY <1>0, SameStocked
<1>2. ASSUME NEW m \in Nodes PROVE Mines(m)'
  <2>1. CASE m = n
    BY <2>1 DEF Mines
  <2>2. CASE m # n
    BY <1>0, <2>2, SameMines
  <2> QED  BY <2>1, <2>2
<1>3. ASSUME NEW m \in Nodes PROVE Cached(m)' /\ Leads(m)' /\ Polls(m)' /\ Leaves(m)'
  <2>0. Cached(m) /\ Leads(m) /\ Polls(m) /\ Leaves(m)
    BY <1>0 DEF Agreed
  <2>1. CASE m # n
    <3>1. SameBallot(m)
      BY <2>1 DEF SameBallot, SameAt
    <3> QED  BY <2>0, <3>1, SameBacking
  <2>2. CASE m = n
    <3>1. \A w : Best(n, w)' = Best(n, w)
      BY SameHops
    <3>2. Leads(n)'
      <4>1. Current(n)' = Current(n) /\ \A t : Done(n, t)' = Done(n, t)
        BY DEF Current, Done, Has
      <4> QED  BY <2>0, <2>2, <3>1, <4>1 DEF Leads
    <3>3. Cached(n)' /\ Leaves(n)'
      BY DEF Cached, Leaves
    <3> QED  BY <2>2, <3>2, <3>3
  <2> QED  BY <2>1, <2>2
<1>4. ASSUME NEW k \in Nodes, NEW m \in Nodes PROVE Follows(k, m)'
  BY <1>0, SameFollows DEF Agreed
<1>5. Agreed'
  BY <1>3, <1>4 DEF Agreed
<1> QED  BY <1>1, <1>2, <1>5 DEF Steady

\* A peer that answers has the same candidate.
LEMMA SameVotes ==
    ASSUME Base, Agreed, NEW n \in Nodes, pc[n] = "ask", NEW p \in Nodes, cache[p].sig # Nil
    PROVE  candidate[p] = candidate[n]
<1>1. state[n] = "LEADER"
  BY Parts DEF LoopInv, Pinging
<1>2. \/ Rounds(p) = Rounds(n) /\ state[p] = "LEADER"
      \/ Rounds(p) = Rounds(n) + 1 /\ state[p] = "BLOCK" /\ p # n
  BY <1>1, Parts, LeadingTogether
<1>3. Follows(n, p) /\ Leaves(p)
  BY DEF Agreed
<1>4. CASE Rounds(p) = Rounds(n) /\ state[p] = "LEADER"
  BY <1>1, <1>3, <1>4 DEF Follows
<1>5. CASE Rounds(p) = Rounds(n) + 1 /\ state[p] = "BLOCK"
  <2>1. candidate[p] = winning[p][Rounds(p)]
    BY <1>3, <1>5 DEF Leaves
  <2>2. winning[p][Rounds(p)] = candidate[n]
    BY <1>3, <1>5 DEF Follows
  <2> QED  BY <2>1, <2>2
<1> QED  BY <1>2, <1>4, <1>5

LEMMA VoteSteady ==
    ASSUME PromptMesh, Base, Steady, NEW n \in Nodes, Vote(n)
    PROVE  Steady'
<1>0. /\ Agreed /\ Polls(n) /\ VoteTyped /\ LoopInv /\ VoteInv /\ InHand(n) /\ Paired(n)
      /\ DOMAIN pc = Nodes
  BY Parts DEF Steady, Agreed, VoteInv, PairInv, Typed
<1>1. UNCHANGED <<sent, chain, previous, mempool, winning, checked, state, request, alive>>
      /\ \A m \in Nodes \ {n} : SameAt(m)
  BY <1>0, VoteVotes, VoteLoop DEF nodeVars
<1>2. /\ pc[n] = "ask" /\ UNCHANGED <<candidate, recent, cache>>
      /\ \/ UNCHANGED <<pc, votes, asking>>
         \/ /\ E!GetVote(n) /\ UNCHANGED pc
            /\ cache[reply[n].peer].sig # Nil /\ reply[n] # E!NoReply
            /\ votes' = [votes EXCEPT ![n] =
                            Append(@, [vote |-> reply[n].vote, sig |-> cache[reply[n].peer].sig])]
            /\ asking' = [asking EXCEPT ![n] = @ \ {reply[n].peer}]
         \/ asking[n] = {} /\ pc' = [pc EXCEPT ![n] = "run"] /\ UNCHANGED <<votes, asking>>
  <2>1. ASSUME NEW p \in Nodes, E!AskVote(n, p)
        PROVE  pc[n] = "ask" /\ UNCHANGED <<pc, candidate, recent, cache, votes, asking>>
    BY <2>1 DEF E!AskVote, E!step, E!lead
  <2>2. ASSUME E!GetVote(n)
        PROVE  /\ pc[n] = "ask" /\ UNCHANGED <<pc, candidate, recent, cache>>
               /\ cache[reply[n].peer].sig # Nil /\ reply[n] # E!NoReply
               /\ votes' = [votes EXCEPT ![n] =
                               Append(@, [vote |-> reply[n].vote, sig |-> cache[reply[n].peer].sig])]
               /\ asking' = [asking EXCEPT ![n] = @ \ {reply[n].peer}]
    <3>1. pc[n] = "ask" /\ reply[n] # E!NoReply /\ UNCHANGED <<pc, candidate, recent, cache>>
      BY <1>0, <2>2 DEF E!GetVote, E!step, InHand
    <3>2. cache[reply[n].peer].sig # Nil
      <4>1. /\ reply[n].peer \in Nodes /\ alive[reply[n].peer]
        BY <1>0, <2>2, <3>1 DEF InHand, VoteTyped, E!GetVote, E!MyTurn
      <4>2. Voting(reply[n].peer) /\ Signed(reply[n].peer)
        BY <1>0, <3>1, <4>1, AllVoting DEF VoteInv
      <4> QED  BY <4>1, <4>2, SystemAssumption DEF Signed
    <3> QED  BY <2>2, <3>1, <3>2 DEF E!GetVote
  <2>3. ASSUME E!VotesIn(n)
        PROVE  /\ pc[n] = "ask" /\ asking[n] = {} /\ pc' = [pc EXCEPT ![n] = "run"]
               /\ UNCHANGED <<candidate, recent, cache, votes, asking>>
    BY <2>3 DEF E!VotesIn, E!Goto, E!lead
  <2> QED  BY <2>1, <2>2, <2>3 DEF Vote
<1>3. state[n] = "LEADER"
  BY <1>0, <1>2 DEF LoopInv, Pinging
<1>4. CASE UNCHANGED <<pc, votes, asking>>
  <2>1. Polls(n)'
    BY <1>0, <1>1, <1>2, <1>4 DEF Polls
  <2> QED  BY <1>1, <1>2, <1>3, <1>4, <2>1, PollSteady
<1>5. CASE /\ E!GetVote(n) /\ UNCHANGED pc
           /\ cache[reply[n].peer].sig # Nil /\ reply[n] # E!NoReply
           /\ votes' = [votes EXCEPT ![n] =
                           Append(@, [vote |-> reply[n].vote, sig |-> cache[reply[n].peer].sig])]
           /\ asking' = [asking EXCEPT ![n] = @ \ {reply[n].peer}]
  <2> DEFINE p == reply[n].peer
             v == [vote |-> reply[n].vote, sig |-> cache[p].sig]
  <2>1. p \in Nodes /\ p \in asking[n] /\ v.vote = candidate[p] /\ cache[p].sig # Nil
    BY <1>0, <1>5 DEF InHand, Paired, VoteTyped
  <2>2. v.vote = candidate[n]
    BY <1>0, <1>2, <2>1, SameVotes
  <2>3. votes'[n] = Append(votes[n], v) /\ asking'[n] = asking[n] \ {p} /\ asking[n] \subseteq Nodes
        /\ votes[n] \in Seq([vote : Id, sig : Nodes])
        /\ \A m \in Nodes \ {n} : votes'[m] = votes[m] /\ asking'[m] = asking[m]
    BY <1>0, <1>5 DEF VoteTyped
  <2> HIDE DEF p, v
  <2>4. /\ Len(votes'[n]) = Len(votes[n]) + 1 /\ Len(votes[n]) \in Nat
        /\ \A i \in DOMAIN votes'[n] : votes'[n][i] = v \/ (i \in DOMAIN votes[n] /\ votes'[n][i] = votes[n][i])
    BY <2>3
  <2>5. Cardinality(asking'[n]) = Cardinality(asking[n]) - 1 /\ Cardinality(asking[n]) \in Nat
    <3>1. IsFiniteSet(asking[n])
      <4>1. IsFiniteSet(Nodes)
        BY DEF PromptMesh, OncePerPass
      <4> QED  BY <2>3, <4>1, FS_Subset
    <3>2. Cardinality(asking[n] \ {p}) = Cardinality(asking[n]) - 1
      BY <2>1, <3>1, FS_RemoveElement
    <3> QED  BY <2>3, <3>1, <3>2, FS_CardinalityType
  <2>6. Len(votes'[n]) + Cardinality(asking'[n]) = NumNeighbours
    <3>1. Len(votes[n]) + Cardinality(asking[n]) = NumNeighbours
      BY <1>0, <1>2 DEF Polls
    <3> QED  BY <2>4, <2>5, <3>1
  <2>7. \A i \in DOMAIN votes'[n] : votes'[n][i].vote = candidate[n]
    BY <1>0, <2>2, <2>4 DEF Polls
  <2>8. Polls(n)'
    BY <1>1, <1>2, <1>3, <1>5, <2>6, <2>7 DEF Polls
  <2> QED  BY <1>1, <1>2, <1>3, <2>3, <2>8, PollSteady
<1>6. CASE asking[n] = {} /\ pc' = [pc EXCEPT ![n] = "run"] /\ UNCHANGED <<votes, asking>>
  <2>1. Len(votes[n]) = NumNeighbours
    <3>1. Len(votes[n]) + Cardinality(asking[n]) = NumNeighbours
      BY <1>0, <1>2 DEF Polls
    <3>2. Cardinality(asking[n]) = 0 /\ Len(votes[n]) \in Nat
      BY <1>0, <1>6, FS_EmptySet DEF VoteTyped
    <3> QED  BY <3>1, <3>2
  <2>2. pc'[n] = "run"
    BY <1>0, <1>6
  <2>3. Polls(n)'
    BY <1>0, <1>1, <1>2, <1>3, <1>6, <2>1, <2>2 DEF Polls
  <2> QED  BY <1>1, <1>2, <1>3, <1>6, <2>3, PollSteady
<1> QED  BY <1>2, <1>4, <1>5, <1>6

\* Votes for one candidate elect it.
LEMMA OneFavourite ==
    ASSUME VoteTyped, NEW n \in Nodes, Len(votes[n]) = NumNeighbours,
           \A i \in DOMAIN votes[n] : votes[n][i].vote = candidate[n]
    PROVE  E!Favourite(n) = candidate[n] /\ E!Majority(n, E!Favourite(n))
<1>1. /\ Len(votes[n]) \in Nat /\ Len(votes[n]) > 0 /\ DOMAIN votes[n] = 1..Len(votes[n])
  <2>1. NumNeighbours \in Nat \ {0}
    BY SystemAssumption
  <2>2. votes[n] \in Seq([vote : Id, sig : Nodes])
    BY DEF VoteTyped
  <2> QED  BY <2>1, <2>2
<1>2. E!Favourite(n) = candidate[n]
  <2>1. E!Favourite(n) \in E!Named(n)
    BY <1>1, FavouriteNamed
  <2> QED  BY <2>1 DEF E!Named
<1>3. E!VotesFor(n, E!Favourite(n)) = 1..Len(votes[n])
  BY <1>1, <1>2 DEF E!VotesFor
<1>4. E!Cardinality(E!VotesFor(n, E!Favourite(n))) = NumNeighbours
  BY <1>1, <1>3, SameCardinality, FS_Interval
<1>5. NumNeighbours > NumNeighbours \div 2
  <2>1. \A k \in Nat \ {0} : k > k \div 2
    OBVIOUS
  <2> QED  BY <2>1, SystemAssumption
<1> QED  BY <1>2, <1>4, <1>5 DEF E!Majority

LEMMA CountSteady ==
    ASSUME Base, Steady, NEW n \in Nodes, Count(n)
    PROVE  Steady'
<1>0. Agreed /\ Polls(n) /\ VoteTyped /\ LoopInv /\ VoteInv /\ DOMAIN pc = Nodes
  BY Parts DEF Steady, Agreed, Typed
<1>1. UNCHANGED <<sent, chain, previous, mempool, winning, checked, state, request>>
      /\ \A m \in Nodes \ {n} : SameAt(m)
  BY <1>0, CountVotes, VoteLoop DEF nodeVars
<1>2. state[n] = "LEADER"
  BY <1>0 DEF Count, E!Tally, E!Adopt, LoopInv, Pinging
<1>3. CASE E!Tally(n)
  <2>1. UNCHANGED <<cache, recent, asking>> /\ pc[n] = "run" /\ Len(votes[n]) \in {0, NumNeighbours}
    BY <1>0, <1>3 DEF E!Tally, E!pings, Polls
  <2>2. CASE E!Complete(n)
    <3>1. E!Favourite(n) = candidate[n] /\ E!Majority(n, E!Favourite(n))
      BY <1>0, <2>2, OneFavourite DEF Polls, E!Complete
    <3>2. candidate' = [candidate EXCEPT ![n] = E!Favourite(n)] /\ pc' = [pc EXCEPT ![n] = "adopt"]
          /\ votes' = votes
      BY <1>3, <2>2, <3>1 DEF E!Tally, E!Goto
    <3>3. candidate' = candidate /\ pc'[n] = "adopt"
      BY <1>0, <3>1, <3>2 DEF VoteTyped
    <3>4. Polls(n)'
      BY <1>0, <1>1, <1>2, <3>2, <3>3 DEF Polls
    <3> QED  BY <1>1, <1>2, <2>1, <3>2, <3>3, <3>4, PollSteady
  <2>3. CASE ~E!Complete(n)
    <3>1. UNCHANGED <<votes, candidate>> /\ pc' = [pc EXCEPT ![n] = "close"]
      BY <1>3, <2>3 DEF E!Tally, E!Goto
    <3>2. votes[n] = <<>>
      <4>1. Len(votes[n]) = 0 /\ votes[n] \in Seq([vote : Id, sig : Nodes])
        BY <1>0, <2>1, <2>3 DEF E!Complete, VoteTyped
      <4> QED  BY <4>1
    <3>3. pc'[n] = "close"
      BY <1>0, <3>1
    <3>4. Polls(n)'
      BY <1>0, <1>1, <1>2, <3>1, <3>2, <3>3 DEF Polls
    <3> QED  BY <1>1, <1>2, <2>1, <3>1, <3>4, PollSteady
  <2> QED  BY <2>2, <2>3
<1>4. CASE E!Adopt(n)
  <2>1. /\ UNCHANGED <<candidate, recent, asking>> /\ pc' = [pc EXCEPT ![n] = "close"]
        /\ votes' = [votes EXCEPT ![n] = <<>>] /\ cache' = [cache EXCEPT ![n] = E!Adopted(n, candidate[n])]
    BY <1>4 DEF E!Adopt, E!Goto, E!pings
  <2>2. votes'[n] = <<>> /\ pc'[n] = "close"
        /\ \A m \in Nodes \ {n} : votes'[m] = votes[m] /\ cache'[m] = cache[m]
    BY <1>0, <2>1 DEF VoteTyped
  <2>3. Polls(n)'
    BY <2>2 DEF Polls
  <2> QED  BY <1>1, <1>2, <2>1, <2>2, <2>3, PollSteady
<1> QED  BY <1>3, <1>4 DEF Count

-----------------------------------------------------------------------------
(* The end of a round *)

\* Who goes on to the next round has all that has been sent on its chain.
LEMMA RoundDelivered ==
    ASSUME Base, Base', Stocked, NEW n \in Nodes, RunBlock(n), state'[n] = "MINING"
    PROVE  sent \subseteq previous[n]
<1>1. state[n] = "BLOCK" /\ UNCHANGED <<chain, winning>>
  BY Parts, BlockLoop
<1>2. Height(n)' = Rounds(n)'
  <2>1. ChainInv'
    BY DEF Base
  <2>2. Chained(n)'
    BY <2>1 DEF ChainInv
  <2> QED  BY <2>2 DEF Chained, Lags
<1>3. Height(n) = Rounds(n)
  BY <1>1, <1>2 DEF Height, Rounds
<1> QED  BY <1>1, <1>3 DEF Stocked, Delivered

LEMMA RunBlockSteady ==
    ASSUME Base, Base', Steady, NEW n \in Nodes, RunBlock(n)
    PROVE  Steady'
<1>0. Stocked /\ Agreed /\ \A m \in Nodes : Mines(m)
  BY DEF Steady
<1>1. /\ pc[n] = "run" /\ pc'[n] = "idle" /\ state[n] = "BLOCK"
      /\ state' = state \/ state'[n] = "MINING"
      /\ UNCHANGED <<sent, chain, previous, mempool, winning, checked, request>>
      /\ UNCHANGED <<votes, recent, asking>>
      /\ \A m \in Nodes \ {n} : /\ SameAt(m) /\ cache'[m] = cache[m] /\ candidate'[m] = candidate[m]
      /\ cache'[n].sig = Nil /\ candidate'[n] = Nil
  <2>1. /\ pc'[n] = "idle" /\ state[n] = "BLOCK"
        /\ state' = state \/ state'[n] = "MINING"
        /\ UNCHANGED <<chain, mempool, winning, request>>
        /\ \A m \in Nodes \ {n} : SameAt(m)
    BY Parts, BlockLoop
  <2>2. /\ UNCHANGED <<sent, previous, checked, votes, recent, asking>> /\ pc[n] = "run"
        /\ cache' = [cache EXCEPT ![n] = [val |-> Inf, sig |-> Nil]]
        /\ candidate' = [candidate EXCEPT ![n] = Nil]
    BY DEF RunBlock, E!RunBlock, E!ResetCache, E!NoSignature, N!EndRound, nodeVars
  <2>3. DOMAIN cache = Nodes /\ DOMAIN candidate = Nodes
    BY Parts DEF VoteTyped
  <2> QED  BY <2>1, <2>2, <2>3
<1>2. state'[n] \in {"BLOCK", "MINING"} /\ \A m \in Nodes \ {n} : state'[m] = state[m]
  BY <1>1 DEF SameAt
<1>3. state'[n] = "MINING" => sent \subseteq previous[n]
  BY <1>0, RoundDelivered
<1>4. Stocked'
  <2>1. ASSUME NEW m \in Nodes
        PROVE  /\ state'[m] = "BLOCK" => state[m] = "BLOCK"
               /\ checked'[m] \subseteq sent
               /\ state'[m] = "MINING" => checked'[m] \subseteq previous[m]
               /\ Arriving(m)'
    <3>1. Booked(m) /\ Arriving(m)
      BY <1>0 DEF Stocked
    <3>2. Arriving(m)'
      BY <1>1, <3>1, SameArriving
    <3>3. state'[m] = "MINING" => checked[m] \subseteq previous[m]
      BY <1>1, <1>2, <1>3, <3>1 DEF Booked
    <3> QED  BY <1>1, <1>2, <3>1, <3>2, <3>3 DEF Booked
  <2> QED  BY <1>0, <1>1, <2>1, KeepsStocked
<1>5. ASSUME NEW m \in Nodes PROVE Mines(m)'
  <2>1. CASE m # n
    BY <1>0, <1>1, <2>1, SameMines
  <2>2. CASE m = n
    <3>1. state'[n] = "MINING" => Current(n)' = {}
      BY <1>1, <1>3 DEF Current
    <3> QED  BY <2>2, <3>1 DEF Mines
  <2> QED  BY <2>1, <2>2
<1>6. ASSUME NEW m \in Nodes PROVE Cached(m)' /\ Leads(m)' /\ Polls(m)' /\ Leaves(m)'
  <2>0. Cached(m) /\ Leads(m) /\ Polls(m) /\ Leaves(m)
    BY <1>0 DEF Agreed
  <2>1. CASE m # n
    <3>1. SameBallot(m)
      BY <1>1, <2>1 DEF SameBallot, SameAt
    <3> QED  BY <2>0, <3>1, SameBacking
  <2>2. CASE m = n
    <3>1. votes[n] = <<>>
      BY <1>1, <2>0, <2>2 DEF Polls
    <3>2. Polls(n)'
      BY <1>1, <3>1 DEF Polls
    <3> QED  BY <1>1, <1>2, <2>2, <3>2 DEF Cached, Leads, Leaves
  <2> QED  BY <2>1, <2>2
<1>7. ASSUME NEW k \in Nodes, NEW m \in Nodes PROVE Follows(k, m)'
  <2>0. Follows(k, m) /\ Rounds(k)' = Rounds(k) /\ Rounds(m)' = Rounds(m)
        /\ Rounds(k) \in Nat
    BY <1>0, <1>1, Parts DEF Agreed, Rounds
  <2>1. CASE k # n /\ m # n
    BY <1>1, <1>2, <2>0, <2>1 DEF Follows, E!WithLeader
  <2>2. CASE k = n \/ m = n
    <3>1. ~(state'[k] = "LEADER" /\ state'[m] = "LEADER")
      BY <1>2, <2>2
    <3>2. ASSUME Rounds(m) = Rounds(k) + 1 PROVE k # n
      BY <1>1, <2>0, <3>2, Parts, Apart
    <3>3. candidate'[k] = candidate[k] \/ k = n
      BY <1>1
    <3> QED  BY <1>1, <2>0, <3>1, <3>2, <3>3 DEF Follows, E!WithLeader
  <2> QED  BY <2>1, <2>2
<1>8. Agreed'
  BY <1>6, <1>7 DEF Agreed
<1> QED  BY <1>4, <1>5, <1>8 DEF Steady

-----------------------------------------------------------------------------
(* One lowest signature *)

\* A signature counts its value doubled a few times.
LEMMA Penalty ==
    ASSUME VoteTyped, NEW n \in Nodes, Scanned(n), NEW s
    PROVE  \E k \in 0..MaxRecentLeaders : E!SigValue(n, s) = s.value * 2 ^ k
<1> DEFINE times == {i \in DOMAIN recent[n] : recent[n][i] = s.id}
<1>1. times \subseteq 1..Len(recent[n]) /\ Len(recent[n]) \in Nat /\ Len(recent[n]) <= MaxRecentLeaders
  BY DEF VoteTyped, Scanned
<1>2. E!SigValue(n, s) = s.value * 2 ^ Cardinality(times)
  BY SameCardinality DEF E!SigValue
<1> HIDE DEF times
<1>3. Cardinality(times) \in 0..MaxRecentLeaders
  <2>1. IsFiniteSet(1..Len(recent[n])) /\ Cardinality(1..Len(recent[n])) = Len(recent[n])
    BY <1>1, FS_Interval
  <2>2. IsFiniteSet(times) /\ Cardinality(times) <= Len(recent[n]) /\ Cardinality(times) \in Nat
    BY <1>1, <2>1, FS_Subset, FS_CardinalityType
  <2> QED  BY <1>1, <2>2, SystemAssumption
<1> QED  BY <1>2, <1>3

\* Signatures of two robots are never both the lowest.
LEMMA OneLowest ==
    ASSUME PromptMesh, Base, NEW n \in Nodes, NEW w, NEW v, Best(n, w), Best(n, v)
    PROVE  w = v
<1>0. VoteTyped /\ Typed /\ Scanned(n)
  BY Parts DEF ScanInv
<1>1. PICK s \in Hops(n) : s.id = w /\ \A u \in Hops(n) : E!SigValue(n, s) <= E!SigValue(n, u)
  BY DEF Best
<1>2. PICK r \in Hops(n) : r.id = v /\ \A u \in Hops(n) : E!SigValue(n, r) <= E!SigValue(n, u)
  BY DEF Best
<1>3. ASSUME NEW u \in Hops(n)
      PROVE  /\ E!SigValue(n, u) \in Nat
             /\ \E h \in Txs \X Nodes \X Nodes : h[2] = u.id /\ u.value = Value[h]
  <2>1. u \in [id : Nodes, value : Nat]
    BY <1>0, HopTypes
  <2>2. PICK t \in N!Held(mempool[n]) :
           \E i \in DOMAIN mempool[n][t].sigs :
              LET h == mempool[n][t].sigs[i]
              IN  /\ h \in N!Entry /\ u = [id |-> h.id, value |-> Value[<<t, h.id, h.relayer>>]]
                  /\ <<t, h.id, h.relayer>> \in Txs \X Nodes \X Nodes
    BY <1>0, HopTypes
  <2>3. PICK i \in DOMAIN mempool[n][t].sigs :
           LET h == mempool[n][t].sigs[i]
           IN  /\ h \in N!Entry /\ u = [id |-> h.id, value |-> Value[<<t, h.id, h.relayer>>]]
               /\ <<t, h.id, h.relayer>> \in Txs \X Nodes \X Nodes
    BY <2>2
  <2> DEFINE e == mempool[n][t].sigs[i]
             g == <<t, e.id, e.relayer>>
  <2>4. u = [id |-> e.id, value |-> Value[g]] /\ g \in Txs \X Nodes \X Nodes /\ g[2] = e.id
    BY <2>3
  <2> HIDE DEF e, g
  <2>5. g[2] = u.id /\ u.value = Value[g]
    BY <2>4
  <2> QED  BY <1>0, <2>1, <2>4, <2>5, SigValueNat
<1>4. E!SigValue(n, s) = E!SigValue(n, r)
  <2>1. E!SigValue(n, s) <= E!SigValue(n, r) /\ E!SigValue(n, r) <= E!SigValue(n, s)
    BY <1>1, <1>2
  <2>2. E!SigValue(n, s) \in Nat /\ E!SigValue(n, r) \in Nat
    BY <1>3
  <2> QED  BY <2>1, <2>2
<1>5. PICK h \in Txs \X Nodes \X Nodes : h[2] = s.id /\ s.value = Value[h]
  BY <1>3
<1>6. PICK g \in Txs \X Nodes \X Nodes : g[2] = r.id /\ r.value = Value[g]
  BY <1>3
<1>7. PICK j \in 0..MaxRecentLeaders : E!SigValue(n, s) = s.value * 2 ^ j
  BY <1>0, Penalty
<1>8. PICK k \in 0..MaxRecentLeaders : E!SigValue(n, r) = r.value * 2 ^ k
  BY <1>0, Penalty
<1>9. Value[h] * 2 ^ j = Value[g] * 2 ^ k
  BY <1>4, <1>5, <1>6, <1>7, <1>8
<1>10. h[2] = g[2]
  BY <1>9 DEF PromptMesh, Distinct
<1> QED  BY <1>1, <1>2, <1>5, <1>6, <1>10

\* Nodes that have the completed copies of all that was sent since the last
\* block have the same ones.
LEMMA SameCopy ==
    ASSUME Base, Stocked, NEW n \in Nodes, NEW m \in Nodes, Height(n) = Height(m),
           \A t \in Current(n) : Done(n, t) /\ Done(m, t) /\ Height(Dest[t]) = Height(n)
    PROVE  Hops(n) = Hops(m)
<1>1. Current(n) = Current(m)
  BY SamePast
<1>2. ASSUME NEW t \in Current(n) PROVE mempool[n][t] = mempool[m][t] /\ t \in Txs
  <2>1. Settled(n) /\ Settled(m) /\ Done(n, t) /\ Done(m, t)
        /\ Height(Dest[t]) = Height(n) /\ Height(Dest[t]) = Height(m)
    BY DEF Stocked
  <2>2. mempool[Dest[t]][t] = mempool[n][t]
    BY <2>1 DEF Settled
  <2>3. mempool[Dest[t]][t] = mempool[m][t]
    BY <1>1, <2>1 DEF Settled
  <2> QED  BY <2>2, <2>3, HeldCurrent
<1> DEFINE S(u, c) == {[id |-> h.id, value |-> Value[<<u, h.id, h.relayer>>]] :
                          h \in {c.sigs[i] : i \in DOMAIN c.sigs}}
           C(k) == {u \in N!Held(mempool[k]) : mempool[k][u].completed}
<1>3. C(n) = Current(n) /\ C(m) = Current(n)
  <2>1. N!Held(mempool[n]) \subseteq Current(n) /\ N!Held(mempool[m]) \subseteq Current(n)
    BY <1>1, HeldCurrent
  <2> QED  BY <1>2, <2>1 DEF Done, Has, N!Held
<1>4. Hops(n) = UNION {S(u, mempool[n][u]) : u \in C(n)} /\ Hops(m) = UNION {S(u, mempool[m][u]) : u \in C(m)}
  BY DEF Hops
<1> HIDE DEF S, C
<1>5. \A u \in Current(n) : S(u, mempool[n][u]) = S(u, mempool[m][u])
  BY <1>2
<1>6. UNION {S(u, mempool[n][u]) : u \in Current(n)} = UNION {S(u, mempool[m][u]) : u \in Current(n)}
  BY <1>5
<1> QED  BY <1>3, <1>4, <1>6

-----------------------------------------------------------------------------
(* The scan of the mempool, and the end of the MINING phase *)

LEMMA Scanning ==
    ASSUME Base, NEW n \in Nodes, RunMining(n)
    PROVE  /\ pc[n] = "run" /\ pc'[n] = "idle" /\ state[n] = "MINING" /\ left[n] = {} /\ request[n] = Nil
           /\ UNCHANGED <<time, sent, chain, previous, mempool, winning, request, rest, left>>
           /\ UNCHANGED <<votes, recent, asking>>
           /\ \A m \in Nodes \ {n} : /\ SameAt(m) /\ cache'[m] = cache[m]
                                     /\ candidate'[m] = candidate[m] /\ checked'[m] = checked[m]
                                     /\ alive'[m] = alive[m]
           /\ cache'[n] = E!Lowest(n, Fresh(n))
           /\ \/ UNCHANGED <<state, candidate, alive, checked>>
              \/ /\ Into(n) = BlockPeriod + 1 /\ state'[n] = "LEADER"
                 /\ checked'[n] = checked[n] \cup Unchecked(n)
                 /\ cache'[n].sig = Nil => ~alive'[n]
                 /\ cache'[n].sig # Nil => candidate'[n] = cache'[n].sig /\ alive' = alive
<1>1. /\ pc[n] = "run" /\ pc'[n] = "idle" /\ state[n] = "MINING" /\ left[n] = {} /\ request[n] = Nil
      /\ UNCHANGED <<time, chain, mempool, winning, request, rest, left>>
      /\ \A m \in Nodes \ {n} : SameAt(m)
  BY Parts, MineLoop DEF RunMining, E!MineWith, PingersDone
<1>2. /\ DOMAIN cache = Nodes /\ DOMAIN candidate = Nodes /\ DOMAIN checked = Nodes
      /\ DOMAIN alive = Nodes /\ DOMAIN state = Nodes
  BY Parts DEF VoteTyped, Typed, ScanInv
<1>3. /\ cache' = [cache EXCEPT ![n] = E!Lowest(n, Fresh(n))]
      /\ UNCHANGED <<votes, recent, asking, sent, previous>>
  BY DEF RunMining, E!MineWith, N!EndMining, nodeVars
<1>4. cache'[n] = E!Lowest(n, Fresh(n)) /\ \A m \in Nodes \ {n} : cache'[m] = cache[m]
  BY <1>2, <1>3
<1>5. CASE ~E!After(n, 1)
  <2>1. UNCHANGED <<state, candidate, alive, checked>>
    BY <1>5 DEF RunMining, E!MineWith, nodeVars
  <2> QED  BY <1>1, <1>3, <1>4, <2>1
<1>6. CASE E!After(n, 1)
  <2>1. /\ state' = [state EXCEPT ![n] = "LEADER"] /\ checked' = [checked EXCEPT ![n] = @ \cup Unchecked(n)]
        /\ IF cache'[n].sig = Nil
           THEN alive' = [alive EXCEPT ![n] = FALSE] /\ UNCHANGED candidate
           ELSE candidate' = [candidate EXCEPT ![n] = cache'[n].sig] /\ UNCHANGED alive
    BY <1>6 DEF RunMining, E!MineWith, N!EndMining, Unchecked
  <2>2. Into(n) = BlockPeriod + 1
    <3>1. E!Cycled(n) = Into(n) /\ 1 <= Into(n) /\ Into(n) <= BlockPeriod + 1 /\ Into(n) \in Int
      BY <1>1, Parts, Due, PhaseTimes DEF LoopInv, Into
    <3>2. E!Cycled(n) > 1 * BlockPeriod
      BY <1>6 DEF E!After
    <3> QED  BY <3>1, <3>2, Periods
  <2>3. /\ state'[n] = "LEADER" /\ checked'[n] = checked[n] \cup Unchecked(n)
        /\ cache'[n].sig = Nil => ~alive'[n]
        /\ cache'[n].sig # Nil => candidate'[n] = cache'[n].sig /\ alive' = alive
        /\ \A m \in Nodes \ {n} : checked'[m] = checked[m] /\ candidate'[m] = candidate[m]
                                  /\ alive'[m] = alive[m]
    BY <1>2, <2>1
  <2> QED  BY <1>1, <1>3, <1>4, <2>2, <2>3
<1> QED  BY <1>5, <1>6

\* In its MINING phase a node has not checked any transaction that waits for
\* a block.
LEMMA FreshHops ==
    ASSUME Stocked, NEW n \in Nodes, state[n] = "MINING"
    PROVE  Fresh(n) = Hops(n)
<1>1. N!Held(mempool[n]) \cap checked[n] = {}
  BY DEF Stocked, Booked
<1>2. {u \in N!Held(mempool[n]) : mempool[n][u].completed /\ u \notin checked[n]}
         = {u \in N!Held(mempool[n]) : mempool[n][u].completed}
  BY <1>1
<1> QED  BY <1>2 DEF Fresh, Hops

\* The scans so far leave the lowest signature.
LEMMA ScanLowest ==
    ASSUME Base, NEW n \in Nodes, Cached(n), state[n] = "MINING", E!Lowest(n, Hops(n)).sig # Nil
    PROVE  \E s \in Hops(n) : /\ s.id = E!Lowest(n, Hops(n)).sig
                              /\ E!SigValue(n, s) = E!Lowest(n, Hops(n)).val
                              /\ \A u \in Hops(n) : E!SigValue(n, s) <= E!SigValue(n, u)
<1> DEFINE found == Hops(n)
           values == {E!SigValue(n, s) : s \in found}
           low == CHOOSE s \in found : \A t \in found : E!SigValue(n, s) <= E!SigValue(n, t)
<1>1. \A s \in found : E!SigValue(n, s) \in Nat
  BY Parts, HopTypes, SigValueNat
<1>2. CASE found = {}
  <2>1. E!Lowest(n, found) = cache[n]
    BY <1>2 DEF E!Lowest
  <2> QED  BY <1>2, <2>1 DEF Cached
<1>3. CASE found # {}
  <2>1. values \in SUBSET Nat /\ values # {}
    BY <1>1, <1>3
  <2>2. \E x \in values : \A y \in values : x <= y
    BY <2>1, Least
  <2>3. low \in found /\ \A t \in found : E!SigValue(n, low) <= E!SigValue(n, t)
    BY <2>2
  <2>4. E!Lowest(n, found) = IF E!SigValue(n, low) < cache[n].val
                             THEN [val |-> E!SigValue(n, low), sig |-> low.id] ELSE cache[n]
    BY <1>3 DEF E!Lowest
  <2> HIDE DEF low
  <2>5. CASE E!SigValue(n, low) < cache[n].val
    BY <2>3, <2>4, <2>5
  <2>6. CASE ~(E!SigValue(n, low) < cache[n].val)
    <3>1. PICK s \in found : s.id = cache[n].sig /\ E!SigValue(n, s) = cache[n].val
      BY <2>4, <2>6 DEF Cached
    <3>2. E!SigValue(n, s) <= E!SigValue(n, low)
      BY <1>1, <2>3, <2>6, <3>1
    <3>3. \A u \in found : E!SigValue(n, s) <= E!SigValue(n, u)
      <4>1. \A u \in found : /\ E!SigValue(n, s) \in Nat /\ E!SigValue(n, low) \in Nat
                             /\ E!SigValue(n, u) \in Nat /\ E!SigValue(n, low) <= E!SigValue(n, u)
        BY <1>1, <2>3
      <4> QED  BY <3>2, <4>1
    <3> QED  BY <2>4, <2>6, <3>1, <3>3
  <2> QED  BY <2>5, <2>6
<1> QED  BY <1>2, <1>3

\* When the phase ends, the pinger has brought the completed copies of all that
\* was sent.
LEMMA AllDone ==
    ASSUME PromptMesh, Base, Steady, NEW n \in Nodes, RunMining(n), Into(n) = BlockPeriod + 1,
           NEW t \in Current(n)
    PROVE  Done(n, t)
<1>0. Stocked /\ Agreed /\ \A m \in Nodes : Mines(m)
  BY DEF Steady
<1>1. pc[n] = "run" /\ state[n] = "MINING" /\ left[n] = {} /\ request[n] = Nil
  BY Scanning
<1>2. t \in Txs /\ Dest[t] \in Nodes
  BY <1>0, SystemAssumption DEF Stocked, Current
<1>3. LastSend = BlockPeriod - 2 * (SyncInterval + 1) /\ SyncInterval \in Nat /\ BlockPeriod \in Nat
  BY SystemAssumption, Periods DEF LastSend
<1>4. ASSUME NEW m \in Nodes, Into(m) >= BlockPeriod PROVE ~Rests(m, LastSend + SyncInterval + 1)
  <2>1. rest[m] \in [{"mempool", "chain"} -> 0..SyncInterval] /\ Into(m) \in Int
    BY Parts, PhaseTimes DEF Typed
  <2>2. rest[m]["mempool"] \in Nat
    BY <2>1
  <2>3. LastSend + SyncInterval + 1 < BlockPeriod /\ LastSend + SyncInterval + 1 \in Int
    BY <1>3
  <2> QED  BY <1>3, <1>4, <2>1, <2>2, <2>3 DEF Rests
<1>5. ~Rests(n, BlockPeriod)
  <2>1. rest[n] \in [{"mempool", "chain"} -> 0..SyncInterval]
    BY Parts DEF Typed
  <2>2. rest[n]["mempool"] \in Nat
    BY <2>1
  <2> QED  BY <1>3, <2>2 DEF Rests
<1>6. Has(Dest[t], t)
  <2> DEFINE d == Dest[t]
  <2>1. /\ Height(d) = Height(n) /\ state[d] \in {"MINING", "LEADER"} /\ Into(n) <= Into(d) + 1
        /\ d # n => pc[d] = "idle" /\ request[d] = Nil /\ left[d] = {}
    BY <1>1, <1>2, MiningAlone
  <2>2. t \in Current(d)
    BY <1>0, <1>2, <2>1, SamePast
  <2>3. Into(d) \in Int /\ Into(d) >= BlockPeriod
    <3>1. Into(d) \in Int
      BY <1>2, Parts, PhaseTimes
    <3> HIDE DEF d
    <3> QED  BY <1>3, <2>1, <3>1
  <2>4. ~Rests(d, LastSend + SyncInterval + 1)
    BY <1>2, <1>4, <2>3
  <2> HIDE DEF d
  <2>5. CASE state[d] = "LEADER"
    BY <1>0, <1>2, <2>2, <2>5 DEF Agreed, Leads, Done, d
  <2>6. CASE state[d] = "MINING"
    <3>1. d \in Nodes
      BY <1>2 DEF d
    <3>2. Mines(d) /\ request[d] = Nil
      BY <1>0, <1>1, <2>1, <3>1
    <3>3. ~Brings(d, t)
      BY <3>2 DEF Brings
    <3>4. Source[t] \notin left[d]
      BY <1>1, <2>1
    <3>5. Has(d, t)
      BY <2>2, <2>4, <2>6, <3>2, <3>3, <3>4 DEF Mines
    <3> QED  BY <3>5 DEF d
  <2> QED  BY <2>1, <2>5, <2>6
<1> QED  BY <1>0, <1>1, <1>5, <1>6 DEF Mines, Completes

LEMMA MineSteady ==
    ASSUME PromptMesh, Base, Steady, NEW n \in Nodes, RunMining(n), AllAlive'
    PROVE  Steady'
<1>0. Stocked /\ Agreed /\ \A m \in Nodes : Mines(m)
  BY DEF Steady
<1>1. /\ pc[n] = "run" /\ pc'[n] = "idle" /\ state[n] = "MINING" /\ left[n] = {} /\ request[n] = Nil
      /\ UNCHANGED <<time, sent, chain, previous, mempool, winning, request, rest, left>>
      /\ UNCHANGED <<votes, recent, asking>>
      /\ \A m \in Nodes \ {n} : /\ SameAt(m) /\ cache'[m] = cache[m]
                                /\ candidate'[m] = candidate[m] /\ checked'[m] = checked[m]
      /\ cache'[n] = E!Lowest(n, Hops(n))
      /\ \/ UNCHANGED <<state, candidate, checked>>
         \/ /\ Into(n) = BlockPeriod + 1 /\ state'[n] = "LEADER"
            /\ checked'[n] = checked[n] \cup Unchecked(n)
            /\ cache'[n].sig # Nil /\ candidate'[n] = cache'[n].sig
  <2>1. state[n] = "MINING" /\ alive'[n]
    BY Scanning DEF AllAlive
  <2>2. cache'[n] = E!Lowest(n, Hops(n))
    BY <1>0, <2>1, Scanning, FreshHops
  <2> QED  BY <2>1, <2>2, Scanning
<1>2. \A m \in Nodes : Rounds(m) = Rounds(n) /\ Height(m) = Height(n) /\ state[m] \in {"MINING", "LEADER"}
  BY <1>1, MiningAlone
<1>3. \A m \in Nodes \ {n} : state'[m] = state[m]
  BY <1>1 DEF SameAt
<1>4. Stocked'
  <2>1. ASSUME NEW m \in Nodes
        PROVE  /\ state'[m] = "BLOCK" => state[m] = "BLOCK"
               /\ checked'[m] \subseteq sent
               /\ state'[m] = "MINING" => checked'[m] \subseteq previous[m]
               /\ Arriving(m)'
    <3>1. Booked(m) /\ Arriving(m)
      BY <1>0 DEF Stocked
    <3>2. Arriving(m)'
      BY <1>1, <3>1, SameArriving
    <3>3. Unchecked(n) \subseteq sent
      BY <1>0, HeldCurrent DEF Unchecked, Current
    <3> QED  BY <1>1, <1>3, <3>1, <3>2, <3>3 DEF Booked
  <2> QED  BY <1>0, <1>1, <2>1, KeepsStocked
<1>5. ASSUME NEW m \in Nodes PROVE Mines(m)'
  <2>1. CASE m # n
    BY <1>0, <1>1, <2>1, SameMines
  <2>2. CASE m = n
    <3>1. ASSUME state'[n] = "MINING", NEW t \in Current(n)
          PROVE  /\ Has(n, t) \/ Rests(n, LastSend + SyncInterval + 1)
                 /\ Has(Dest[t], t) => Done(n, t) \/ Rests(n, BlockPeriod)
      BY <1>0, <1>1, <3>1 DEF Mines, Brings, Completes
    <3>2. /\ Current(n)' = Current(n)
          /\ \A k, t : Has(k, t)' = Has(k, t) /\ Done(k, t)' = Done(k, t)
          /\ \A k : Rests(n, k)' = Rests(n, k)
      BY <1>1 DEF Current, Has, Done, Rests, Into, RoundsEnd, Rounds
    <3> QED  BY <2>2, <3>1, <3>2 DEF Mines, Has, Done
  <2> QED  BY <2>1, <2>2
<1>6. Hops(n)' = Hops(n) /\ (\A s : E!SigValue(n, s)' = E!SigValue(n, s))
      /\ \A w : Best(n, w)' = Best(n, w)
  BY <1>1, SameHops
<1>7. cache'[n].sig # Nil =>
         \E s \in Hops(n) : /\ s.id = cache'[n].sig /\ E!SigValue(n, s) = cache'[n].val
                            /\ \A u \in Hops(n) : E!SigValue(n, s) <= E!SigValue(n, u)
  BY <1>0, <1>1, ScanLowest DEF Agreed
<1>8. state'[n] = "LEADER" => (\A t \in Current(n) : Done(n, t)) /\ Best(n, candidate'[n])
  BY <1>1, <1>7, AllDone DEF Best
<1>9. ASSUME NEW m \in Nodes PROVE Cached(m)' /\ Leads(m)' /\ Polls(m)' /\ Leaves(m)'
  <2>0. Cached(m) /\ Leads(m) /\ Polls(m) /\ Leaves(m)
    BY <1>0 DEF Agreed
  <2>1. CASE m # n
    <3>1. SameBallot(m)
      BY <1>1, <2>1 DEF SameBallot, SameAt
    <3> QED  BY <2>0, <3>1, SameBacking
  <2>2. CASE m = n
    <3>1. Cached(n)'
      BY <1>6, <1>7 DEF Cached
    <3>2. Leads(n)'
      <4>1. Current(n)' = Current(n) /\ \A t : Done(n, t)' = Done(n, t)
        BY <1>1 DEF Current, Done, Has
      <4> QED  BY <1>6, <1>8, <4>1 DEF Leads
    <3>3. votes[n] = <<>>
      BY <1>1, <2>0, <2>2 DEF Polls
    <3>4. Polls(n)'
      BY <1>1, <3>3 DEF Polls
    <3>5. Leaves(n)'
      BY <1>1 DEF Leaves
    <3> QED  BY <2>2, <3>1, <3>2, <3>4, <3>5
  <2> QED  BY <2>1, <2>2
<1>10. ASSUME state'[n] = "LEADER", NEW m \in Nodes \ {n}, state[m] = "LEADER"
       PROVE  candidate'[n] = candidate[m]
  <2>1. Leads(m) /\ Follows(n, m)
    BY <1>0 DEF Agreed
  <2>2. /\ Current(m) = Current(n) /\ recent[m] = recent[n]
        /\ \A t \in Current(n) : Done(n, t) /\ Done(m, t) /\ Height(Dest[t]) = Height(n)
    <3>1. Current(m) = Current(n)
      BY <1>0, <1>2, SamePast
    <3>2. \A t \in Current(n) : Dest[t] \in Nodes
      BY <1>0, SystemAssumption DEF Stocked, Current
    <3>3. recent[m] = recent[n]
      BY <1>2, <2>1 DEF Follows
    <3> QED  BY <1>2, <1>8, <1>10, <2>1, <3>1, <3>2, <3>3 DEF Leads
  <2>3. Hops(n) = Hops(m)
    BY <1>0, <1>2, <2>2, SameCopy
  <2>4. \A s : E!SigValue(n, s) = E!SigValue(m, s)
    BY <2>2 DEF E!SigValue
  <2>5. Best(n, candidate[m])
    <3>1. Best(m, candidate[m])
      BY <1>10, <2>1 DEF Leads
    <3> QED  BY <2>3, <2>4, <3>1 DEF Best
  <2> QED  BY <1>8, <1>10, <2>5, OneLowest
<1>11. ASSUME NEW k \in Nodes, NEW m \in Nodes PROVE Follows(k, m)'
  <2>1. Follows(k, m) /\ Rounds(k)' = Rounds(n) /\ Rounds(m)' = Rounds(n) /\ Rounds(n) \in Nat
    BY <1>0, <1>1, <1>2, Parts DEF Agreed, Rounds
  <2>2. recent'[k] = recent'[m]
    BY <1>1, <1>2, <2>1 DEF Follows
  <2>3. state'[k] = "LEADER" /\ state'[m] = "LEADER" => candidate'[k] = candidate'[m]
    BY <1>1, <1>2, <1>3, <1>10, <2>1 DEF Follows
  <2> QED  BY <2>1, <2>2, <2>3 DEF Follows
<1>12. Agreed'
  BY <1>9, <1>11 DEF Agreed
<1> QED  BY <1>4, <1>5, <1>12 DEF Steady

-----------------------------------------------------------------------------
(* Robots that have raised, and leaders *)

\* At the end of a MINING phase without a signature that it has not counted,
\* a robot has all that was sent on its chain.
LEMMA StoppedStep ==
    ASSUME PromptMesh, Base, AllAlive => Steady, Stopped, [Next]_vars
    PROVE  Stopped'
<1>1. CASE UNCHANGED vars
  BY <1>1 DEF vars, nodeVars, Stopped
<1>2. ASSUME NEW n \in Nodes, StepOf(n) \/ \E t \in Txs : SendTransaction(n, t) PROVE Stopped'
  <2>0. AllAlive /\ Steady
    BY <1>2, Working
  <2>1. CASE ~RunMining(n)
    BY <1>2, <2>0, <2>1, NoneRaises DEF Stopped, AllAlive
  <2>2. CASE RunMining(n)
    <3>1. ASSUME ~alive'[n], NEW t \in Current(n) PROVE FALSE
      <4>1. state[n] = "MINING" /\ Into(n) = BlockPeriod + 1 /\ E!Lowest(n, Fresh(n)).sig = Nil
        BY <2>0, <2>2, <3>1, Scanning DEF AllAlive
      <4>2. Unchecked(n) = {}
        BY <4>1, Parts, FindsSignature
      <4>3. Done(n, t) /\ t \in Txs
        BY <2>0, <2>2, <4>1, AllDone DEF Steady, Stocked, Current
      <4>4. t \in checked[n]
        BY <4>2, <4>3 DEF Unchecked, Done, Has, N!Held
      <4> QED  BY <2>0, <3>1, <4>1, <4>4 DEF Steady, Stocked, Booked, Current
    <3>2. UNCHANGED <<sent, previous>> /\ \A m \in Nodes \ {n} : alive'[m]
      BY <2>0, <2>2, Scanning DEF AllAlive
    <3>3. ~alive'[n] => sent \subseteq previous[n]
      BY <3>1 DEF Current
    <3> QED  BY <3>2, <3>3 DEF Stopped
  <2> QED  BY <2>1, <2>2
<1> QED  BY <1>1, <1>2 DEF Next

\* The miner of the block signed a hop of a completed transaction in it.
Relayed(b) == \E t \in N!Held(b.data) :
                 /\ b.data[t].completed
                 /\ \E i \in DOMAIN b.data[t].sigs : b.data[t].sigs[i].id = b.miner

\* The lowest signature is of a transaction in the mempool, which becomes the
\* block.
LEMMA LeaderSigned ==
    ASSUME Base, Steady, NEW n \in Nodes, Close(n), state'[n] = "BLOCK", candidate[n] = n
    PROVE  \E b \in N!Block : chain'[n] = Append(chain[n], b) /\ Relayed(b)
<1>1. PICK b \in N!Block : /\ b.data = mempool[n] /\ b.miner = n
                           /\ chain'[n] = Append(chain[n], b)
  BY LeaderGains
<1>2. state[n] = "LEADER"
  BY Closing
<1>3. PICK s \in Hops(n) : s.id = n
  BY <1>2 DEF Steady, Agreed, Leads, Best
<1>4. PICK t \in N!Held(mempool[n]) :
         /\ mempool[n][t].completed
         /\ \E i \in DOMAIN mempool[n][t].sigs :
               LET h == mempool[n][t].sigs[i]
               IN  s = [id |-> h.id, value |-> Value[<<t, h.id, h.relayer>>]]
  BY Parts, HopTypes
<1>5. \E i \in DOMAIN mempool[n][t].sigs : mempool[n][t].sigs[i].id = n
  BY <1>3, <1>4
<1>6. Relayed(b)
  BY <1>1, <1>4, <1>5 DEF Relayed
<1> QED  BY <1>1, <1>6

LEMMA RelayedStep ==
    ASSUME PromptMesh, Base, AllAlive => Steady, LeaderRelayed, [Next]_vars
    PROVE  LeaderRelayed'
<1>0. \A m \in Nodes : \A h \in DOMAIN chain[m] : Relayed(chain[m][h])
  BY DEF LeaderRelayed, Relayed
<1>1. CASE chain' = chain
  BY <1>1 DEF LeaderRelayed, N!Held
<1>2. ASSUME NEW n \in Nodes, NEW b, chain'[n] = Append(chain[n], b), chain[n] \in Seq(N!Block),
             b \in N!Block, Relayed(b), \A m \in Nodes \ {n} : chain'[m] = chain[m]
      PROVE  LeaderRelayed'
  <2>1. ASSUME NEW m \in Nodes, NEW h \in DOMAIN chain'[m] PROVE Relayed(chain'[m][h])
    <3>1. CASE m # n
      BY <1>0, <1>2, <2>1, <3>1
    <3>2. CASE m = n
      <4>1. Append(chain[n], b)[h] = b \/ (h \in DOMAIN chain[n] /\ Append(chain[n], b)[h] = chain[n][h])
        BY <1>2, <2>1, <3>2
      <4> QED  BY <1>0, <1>2, <3>2, <4>1
    <3> QED  BY <3>1, <3>2
  <2> QED  BY <2>1 DEF LeaderRelayed, Relayed, N!Held
<1>3. ASSUME NEW n \in Nodes, Close(n) PROVE LeaderRelayed'
  <2>0. Steady
    BY <1>3, Working DEF StepOf
  <2>1. /\ \A m \in Nodes \ {n} : chain'[m] = chain[m]
        /\ \/ chain' = chain
           \/ state'[n] = "BLOCK" /\ candidate[n] = n
    BY <1>3, <2>0, Closing
  <2>2. CASE state'[n] = "BLOCK" /\ candidate[n] = n
    <3>1. PICK b \in N!Block : chain'[n] = Append(chain[n], b) /\ Relayed(b)
      BY <1>3, <2>0, <2>2, LeaderSigned
    <3>2. chain[n] \in Seq(N!Block)
      BY Parts DEF Typed
    <3> QED  BY <1>2, <2>1, <3>1, <3>2
  <2> QED  BY <1>1, <2>1, <2>2
<1>4. ASSUME NEW n \in Nodes, N!ReceiveBlocks(n) PROVE LeaderRelayed'
  <2>1. PICK p \in Nodes : Takes(n, p)
    BY <1>4, Parts, BlockTaken
  <2> DEFINE b == chain[p][Height(n) + 1]
  <2>2. /\ chain'[n] = Append(chain[n], b) /\ chain[n] \in Seq(N!Block)
        /\ \A m \in Nodes \ {n} : chain'[m] = chain[m]
        /\ b \in N!Block /\ Relayed(b)
    <3>1. /\ chain \in [Nodes -> Seq(N!Block)] /\ chain[p] \in Seq(N!Block)
          /\ Height(p) = Height(n) + 1 /\ Height(n) \in Nat /\ Height(p) = Len(chain[p])
      BY <2>1, Parts DEF Takes, Typed, Height
    <3>2. Height(n) + 1 \in DOMAIN chain[p]
      BY <3>1
    <3> QED  BY <1>0, <2>1, <3>1, <3>2 DEF Takes
  <2> HIDE DEF b
  <2> QED  BY <1>2, <2>2
<1>5. ASSUME NEW n \in Nodes, StepOf(n) \/ \E t \in Txs : SendTransaction(n, t),
             ~Close(n), ~N!ReceiveBlocks(n)
      PROVE  chain' = chain
  <2>1. CASE Vote(n) \/ Count(n)
    BY <2>1, Parts, VoteVotes, CountVotes DEF nodeVars
  <2>2. CASE RunMining(n)
    BY <2>2, Scanning
  <2>3. CASE RunBlock(n)
    BY <2>3, Parts, BlockLoop
  <2>4. CASE Begin(n) \/ \E t \in Txs : SendTransaction(n, t)
    BY <2>4 DEF Begin, SendTransaction, N!SendTransaction, nodeVars
  <2>5. CASE Exchange(n) \/ \E p \in Nodes : Ask(n, p)
    BY <1>5, <2>5 DEF Exchange, N!ReceiveTransactions, N!AnswerMissing, N!AnswerBlock, Ask, Offer,
                      N!MempoolSync, N!ChainSync, nodeVars
  <2> QED  BY <1>5, <2>1, <2>2, <2>3, <2>4, <2>5 DEF StepOf
<1>6. CASE UNCHANGED vars
  BY <1>1, <1>6 DEF vars, nodeVars
<1> QED  BY <1>1, <1>3, <1>4, <1>5, <1>6 DEF Next

-----------------------------------------------------------------------------
(* The invariant holds *)

LEMMA PromptStarts ==
    ASSUME PromptMesh, Init
    PROVE  PromptInv
<1>1. /\ time = [n \in Nodes |-> 0] /\ pc = [n \in Nodes |-> "idle"] /\ turn = 1
      /\ state = [n \in Nodes |-> "MINING"] /\ alive = [n \in Nodes |-> TRUE]
      /\ chain = [n \in Nodes |-> <<>>] /\ mempool = [n \in Nodes |-> [t \in Txs |-> Nil]]
      /\ previous = [n \in Nodes |-> {}] /\ sent = {} /\ checked = [n \in Nodes |-> {}]
      /\ winning = [n \in Nodes |-> <<>>] /\ request = [n \in Nodes |-> Nil]
      /\ cache = [n \in Nodes |-> [val |-> Inf, sig |-> Nil]] /\ votes = [n \in Nodes |-> <<>>]
      /\ recent = [n \in Nodes |-> <<>>]
  BY DEF Init, N!Init, E!Init, N!NoTxs, E!NoSignature
<1>2. SystemInv /\ PairInv /\ CopyInv /\ ScanInv /\ ChainInv
  BY AgreementStarts, Starting
<1>3. Lockstep
  <2>1. Cardinality(Nodes) \in Nat /\ NumNeighbours \in Nat \ {0} /\ NumNeighbours = Cardinality(Nodes) - 1
        /\ DOMAIN Order = 1..Cardinality(Nodes) /\ \A i \in DOMAIN Order : Order[i] \in Nodes
    BY SystemAssumption, FS_CardinalityType DEF PromptMesh, OncePerPass
  <2>2. turn \in DOMAIN Order
    BY <1>1, <2>1
  <2>3. \A i \in DOMAIN Order : time[Order[i]] = 0 /\ Ahead(i) = IF i < 1 THEN 1 ELSE 0
    BY <1>1, <2>1 DEF Ahead
  <2>4. \A i \in DOMAIN Order : ~(i < 1)
    BY <2>1
  <2> QED  BY <2>2, <2>3, <2>4 DEF Lockstep
<1>4. Base
  BY <1>1, <1>2, <1>3 DEF Base
<1>5. Stocked
  <2>1. \A n \in Nodes : N!Held(mempool[n]) = {} /\ N!IdsIn(chain[n]) = {}
    BY <1>1 DEF N!Held, N!IdsIn
  <2>2. \A n \in Nodes : Booked(n) /\ Settled(n) /\ Arriving(n)
    BY <1>1, <2>1 DEF Booked, Settled, Arriving, Current
  <2> QED  BY <1>1, <2>2 DEF Stocked, Delivered
<1>6. Agreed
  <2>1. \A n \in Nodes : Cached(n) /\ Leads(n) /\ Polls(n) /\ Leaves(n)
    BY <1>1 DEF Cached, Leads, Polls, Leaves
  <2>2. \A n \in Nodes : Rounds(n) = 0
    BY <1>1 DEF Rounds
  <2>3. \A n, m \in Nodes : Follows(n, m)
    BY <1>1, <2>2 DEF Follows
  <2> QED  BY <2>1, <2>3 DEF Agreed
<1>7. \A n \in Nodes : Mines(n)
  BY <1>1 DEF Mines, Current
<1>8. Stopped /\ LeaderRelayed
  BY <1>1 DEF Stopped, LeaderRelayed
<1> QED  BY <1>4, <1>5, <1>6, <1>7, <1>8 DEF PromptInv, Steady

LEMMA SteadyStep ==
    ASSUME PromptMesh, Base, Base', AllAlive => Steady, [Next]_vars, AllAlive'
    PROVE  Steady'
<1>1. CASE UNCHANGED vars
  <2>1. UNCHANGED <<nodeVars, voteVars, state, winning, alive, rest, left>>
    BY <1>1 DEF vars
  <2>2. Stocked /\ Agreed /\ \A m \in Nodes : Mines(m)
    BY <2>1 DEF Steady, AllAlive
  <2>3. \A m \in Nodes : SameAt(m)
    BY <2>1 DEF SameAt, nodeVars, voteVars
  <2>4. Stocked'
    BY <2>1, <2>2, SameStocked DEF nodeVars
  <2>5. Agreed'
    BY <2>1, <2>2, SameAgreed DEF nodeVars, voteVars
  <2>6. \A m \in Nodes : Mines(m)'
    BY <2>1, <2>2, <2>3, SameMines DEF nodeVars
  <2> QED  BY <2>4, <2>5, <2>6 DEF Steady
<1>2. ASSUME NEW n \in Nodes, StepOf(n) \/ \E t \in Txs : SendTransaction(n, t) PROVE Steady'
  <2>0. Steady /\ Meshed
    BY <1>2, Working DEF PromptMesh
  <2>1. CASE \E t \in Txs : SendTransaction(n, t)
    BY <2>0, <2>1, SendSteady
  <2>2. CASE Begin(n)
    BY <2>0, <2>2, BeginSteady
  <2>3. CASE \E p \in Nodes : Ask(n, p)
    BY <2>0, <2>3, AskSteady
  <2>4. CASE Exchange(n)
    <3>1. UNCHANGED <<voteVars, rest, left>>
      BY <2>4 DEF Exchange
    <3>2. ASSUME NEW p \in Nodes, N!AnswerMissing(n, p) \/ N!AnswerBlock(n, p) PROVE Steady'
      BY <2>0, <3>1, <3>2, AnswerSteady, AnswerBlockSteady
    <3> QED  BY <2>0, <2>4, <3>1, <3>2, ReceiveSteady, TakeSteady DEF Exchange
  <2>5. CASE Vote(n)
    BY <2>0, <2>5, VoteSteady
  <2>6. CASE RunMining(n)
    BY <2>0, <2>6, MineSteady
  <2>7. CASE Count(n)
    BY <2>0, <2>7, CountSteady
  <2>8. CASE Close(n)
    BY <2>0, <2>8, CloseSteady
  <2>9. CASE RunBlock(n)
    BY <2>0, <2>9, RunBlockSteady
  <2> QED  BY <1>2, <2>1, <2>2, <2>3, <2>4, <2>5, <2>6, <2>7, <2>8, <2>9 DEF StepOf
<1> QED  BY <1>1, <1>2 DEF Next

LEMMA PromptSteps ==
    ASSUME PromptMesh, PromptInv, [Next]_vars
    PROVE  PromptInv'
<1>0. Base /\ (AllAlive => Steady) /\ Stopped /\ LeaderRelayed
  BY DEF PromptInv
<1>1. Base'
  BY <1>0, BaseSteps
<1>2. AllAlive' => Steady'
  BY <1>0, <1>1, SteadyStep
<1>3. Stopped' /\ LeaderRelayed'
  BY <1>0, StoppedStep, RelayedStep
<1> QED  BY <1>1, <1>2, <1>3 DEF PromptInv

\* A node that goes on to the next round has all that was sent on its chain.
LEMMA DeliveredStep ==
    ASSUME PromptMesh, PromptInv, PromptInv', [Next]_vars
    PROVE  \A n \in Nodes : state[n] = "BLOCK" /\ state'[n] = "MINING" => sent \cap Prompt \subseteq previous[n]
<1> SUFFICES ASSUME NEW n \in Nodes, state[n] = "BLOCK", state'[n] = "MINING"
             PROVE  sent \subseteq previous[n]
  OBVIOUS
<1>0. Base /\ (AllAlive => Steady) /\ Base'
  BY DEF PromptInv
<1>1. PICK m \in Nodes : StepOf(m) \/ \E t \in Txs : SendTransaction(m, t)
  BY DEF Next, vars
<1>2. CASE RunBlock(m)
  <2>1. Steady
    BY <1>0, <1>2, Working DEF StepOf
  <2>2. m = n
    <3>1. \A k \in Nodes \ {m} : state'[k] = state[k]
      BY <1>0, <1>2, Parts, BlockLoop DEF SameAt
    <3> QED  BY <3>1
  <2> QED  BY <1>0, <1>2, <2>1, <2>2, RoundDelivered DEF Steady
<1>3. CASE RunMining(m)
  BY <1>0, <1>3, Scanning DEF SameAt
<1>4. CASE Close(m)
  <2>1. Steady
    BY <1>0, <1>4, Working DEF StepOf
  <2> QED  BY <1>0, <1>4, <2>1, Closing DEF SameAt
<1>5. CASE Vote(m) \/ Count(m)
  BY <1>0, <1>5, Parts, VoteVotes, CountVotes
<1>6. CASE Begin(m) \/ \E t \in Txs : SendTransaction(m, t)
  BY <1>6 DEF Begin, E!Begin, E!lead, SendTransaction, N!SendTransaction
<1>7. CASE Exchange(m) \/ \E p \in Nodes : Ask(m, p)
  BY <1>7 DEF Exchange, N!ReceiveTransactions, N!ReceiveBlocks, N!AnswerMissing, N!AnswerBlock, Ask, Offer,
              N!MempoolSync, N!ChainSync
<1> QED  BY <1>1, <1>2, <1>3, <1>4, <1>5, <1>6, <1>7 DEF StepOf

-----------------------------------------------------------------------------
(* What a prompt network promises *)

\* Robots in range of each other that send early enough: the loop, what each
\* node has on its chain and in its mempool, and what it votes for are as the
\* invariant says, for any number of rounds.
THEOREM AlwaysPrompt == PromptMesh => (Spec => []PromptInv)
<1> SUFFICES ASSUME PromptMesh PROVE Spec => []PromptInv
  OBVIOUS
<1>1. Init => PromptInv
  BY PromptStarts
<1>2. PromptInv /\ [Next]_vars => PromptInv'
  BY PromptSteps
<1> QED  BY <1>1, <1>2, PTL DEF Spec

\* Every vote, computed by each node from what the mempool exchange has brought
\* to it, has the outcome of all other nodes: what module Node assumes of an
\* election when it is Unanimous is what LowestLast does.
THEOREM PromptImplementsNode == PromptMesh => (Spec => ImplementsNode)
<1> SUFFICES ASSUME PromptMesh PROVE Spec => ImplementsNode
  OBVIOUS
<1>1. Init => PromptInv /\ U!Init
  <2>1. Init => U!Init
    BY DEF Init, N!Init, U!Init, N!NoTxs, U!NoTxs
  <2> QED  BY <2>1, PromptStarts
<1>2. PromptInv /\ [Next]_vars => PromptInv' /\ [U!Next]_(U!vars)
  <2> SUFFICES ASSUME PromptInv, [Next]_vars PROVE PromptInv' /\ [U!Next]_(U!vars)
    OBVIOUS
  <2>1. Base /\ (AllAlive => Steady)
    BY DEF PromptInv
  <2> QED  BY <2>1, PromptSteps, UnanimousSteps
<1> QED  BY <1>1, <1>2, PTL DEF Spec, ImplementsNode, U!Spec

\* No two robots of a prompt network ever hold different blocks at a height.
THEOREM PromptNoFork == PromptMesh => (Spec => []NoFork)
<1>1. PromptInv => NoFork
  BY Parts, Prefixes DEF PromptInv
<1> QED  BY <1>1, AlwaysPrompt, PTL

\* verify_block finds the leader of a block at the index of its height.
THEOREM PromptWinnerPerBlock == PromptMesh => (Spec => []WinnerPerBlock)
<1>1. PromptInv => WinnerPerBlock
  BY Parts, Indexed DEF PromptInv
<1> QED  BY <1>1, AlwaysPrompt, PTL

\* A node that leaves the BLOCK phase has a block for every round so far.
THEOREM PromptSynchronised == PromptMesh => (Spec => []Synchronised)
<1>1. PromptInv => Synchronised
  BY Parts DEF PromptInv, Synchronised, Height, Rounds
<1> QED  BY <1>1, AlwaysPrompt, PTL

\* Proof of Relay itself: whoever creates a block has signed a hop of a
\* completed transaction that is in the very block.
THEOREM PromptLeaderRelayed == PromptMesh => (Spec => []LeaderRelayed)
<1>1. PromptInv => LeaderRelayed
  BY DEF PromptInv
<1> QED  BY <1>1, AlwaysPrompt, PTL

\* The exception behind a MINING phase without a new signature stops the loop
\* only if all that was sent is on the chain of the robot that raises.
THEOREM PromptOnlyIdleRoundsStop == PromptMesh => (Spec => []OnlyIdleRoundsStop)
<1>1. PromptInv => OnlyIdleRoundsStop
  BY DEF PromptInv, Stopped, OnlyIdleRoundsStop
<1> QED  BY <1>1, AlwaysPrompt, PTL

\* What was sent in a round is on the chain of every robot at its end.
THEOREM PromptRoundDelivers == PromptMesh => (Spec => RoundDelivers)
<1> SUFFICES ASSUME PromptMesh PROVE Spec => RoundDelivers
  OBVIOUS
<1>1. PromptInv /\ PromptInv' /\ [Next]_vars
         => [\A n \in Nodes : state[n] = "BLOCK" /\ state'[n] = "MINING"
                                 => sent \cap Prompt \subseteq previous[n]]_vars
  BY DeliveredStep
<1> QED  BY <1>1, AlwaysPrompt, PTL DEF Spec, RoundDelivers
=============================================================================
