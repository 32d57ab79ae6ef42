---------------------------- MODULE SystemProofs ----------------------------
(***************************************************************************)
(* Proofs about PoRSystem. For any robots and ranges, periods and values   *)
(* of signatures: the network implements module Node, no server thread     *)
(* ends, and Election and Node agree on every step. For robots in range    *)
(* of each other and periods that leave the chain pinger the time to ask   *)
(* once: unanimous votes lead to one chain.                                *)
(***************************************************************************)
EXTENDS PoRSystem, FiniteSetTheorems, WellFoundedInduction, SequenceTheorems, TLAPS

\* Every robot is in range of every other one, and the BLOCK phase is longer
\* than the pause of the chain pinger.
Meshed == /\ \A n \in Nodes : Peers[n] = Nodes \ {n}
          /\ SyncInterval + 1 < BlockPeriod

-----------------------------------------------------------------------------
(* The invariant: the loop *)

Cycle == 3 * BlockPeriod

\* The rounds that n has elected a leader in, and when they end.
Rounds(n) == Len(winning[n])
RoundsEnd(n) == Cycle * Rounds(n)

Typed ==
    /\ time \in [Nodes -> Nat]
    /\ pc \in [Nodes -> {"idle", "ask", "run", "adopt", "close"}]
    /\ state \in [Nodes -> {"MINING", "LEADER", "BLOCK"}]
    /\ winning \in [Nodes -> Seq(Nodes)]
    /\ on \in [Nodes -> SUBSET {"mempool", "vote", "chain"}]
    /\ rest \in [Nodes -> [{"mempool", "chain"} -> 0..SyncInterval]]
    /\ left \in [Nodes -> SUBSET Nodes]
    /\ chain \in [Nodes -> Seq(N!Block)]
    /\ mempool \in [Nodes -> N!Pool]
    /\ DOMAIN request = Nodes

\* The loop is at one node; nobody is ahead of it, or more than a step behind.
Turns ==
    \A n, m \in Nodes :
        /\ time[n] <= time[m] + 1
        /\ pc[n] # "idle" => Order[turn] = n
        /\ pc[n] # "idle" /\ m # n => pc[m] = "idle" /\ time[m] <= time[n]

\* Each phase is left in the step in which it ends. A node that is at work is
\* one step further than it was when it entered its phase.
OnTime(n) ==
    LET done == IF pc[n] = "idle" THEN 0 ELSE 1
        into == time[n] - RoundsEnd(n)
    IN  /\ state[n] = "MINING" => done <= into /\ into <= BlockPeriod + done
        /\ state[n] = "LEADER" => /\ BlockPeriod + 1 + done <= into
                                  /\ into <= 2 * BlockPeriod + done
        /\ state[n] = "BLOCK" => /\ 1 + done <= into + BlockPeriod
                                 /\ into < done /\ Rounds(n) > 0

\* The pinger of the phase is on, and only in a step of it there are peers to
\* ask or an exchange.
Pinging(n) ==
    /\ state[n] = "MINING" => on[n] = {"mempool"}
    /\ state[n] = "LEADER" => on[n] \subseteq {"vote"}
    /\ state[n] = "BLOCK" => on[n] = {"chain"}
    /\ pc[n] \in {"ask", "adopt", "close"} => state[n] = "LEADER"
    /\ left[n] # {} \/ request[n] # Nil => pc[n] = "run" /\ state[n] # "LEADER"
    /\ left[n] \subseteq Peers[n]

LoopInv == Typed /\ Turns /\ \A n \in Nodes : OnTime(n) /\ Pinging(n)

-----------------------------------------------------------------------------
(* The invariant: the vote *)

Id == Nodes \cup {Nil}

VoteTyped ==
    /\ candidate \in [Nodes -> Id]
    /\ cache \in [Nodes -> [val : Nat \cup Id, sig : Id]]
    /\ votes \in [Nodes -> Seq([vote : Id, sig : Nodes])]
    /\ recent \in [Nodes -> Seq(Id)]
    /\ asking \in [Nodes -> SUBSET Nodes]
    /\ DOMAIN reply = Nodes /\ DOMAIN alive = Nodes

\* What n has in hand while it collects and counts votes.
InHand(n) ==
    /\ reply[n] # E!NoReply => /\ pc[n] = "ask"
                               /\ reply[n].peer \in asking[n] /\ reply[n].vote \in Id
    /\ pc[n] = "adopt" => candidate[n] \in E!Named(n)

\* From the end of its MINING phase to its first step of the BLOCK phase a node
\* has a signature to vote for.
Voting(n) ==
    \/ state[n] = "LEADER"
    \/ state[n] = "BLOCK" /\ pc[n] = "idle" /\ time[n] = RoundsEnd(n) - BlockPeriod + 1
Signed(n) == alive[n] /\ Voting(n) => cache[n].sig \in Nodes

VoteInv == VoteTyped /\ \A n \in Nodes : InHand(n) /\ Signed(n)

-----------------------------------------------------------------------------
(* The invariant: the exchanges *)

\* What a node waits for while it is in an exchange. What it misses is what the
\* peer has, and blocks go on top of one of its own.
Requested(n) ==
    \/ request[n] = Nil
    \/ /\ request[n] \in [kind : {"missing"}, peer : Nodes, ids : SUBSET Txs]
       /\ request[n].ids \subseteq N!Held(mempool[request[n].peer])
    \/ request[n] \in [kind : {"txs"}, peer : Nodes, txs : N!Pool]
    \/ request[n] \in [kind : {"block"}, peer : Nodes, below : 1..(Len(chain[n]) + 1)]
    \/ request[n] \in [kind : {"blocks"}, peer : Nodes, height : 0..Len(chain[n]),
                       blocks : Seq(N!Block)]

RequestInv == \A n \in Nodes : Requested(n)

\* What holds of every network in one loop, whatever the votes come to.
SystemInv == LoopInv /\ VoteInv /\ RequestInv

-----------------------------------------------------------------------------
(* The invariant: the chains *)

Height(n) == Len(chain[n])

\* A node that waits for the block of its round.
Lags(n) == state[n] = "BLOCK" /\ Height(n) < Rounds(n)

\* The blocks of a chain are those of the leaders, each on top of the one below
\* it and stamped in the round of its height. The leader has it too.
Stacked(n) ==
    \A h \in DOMAIN chain[n] :
        /\ chain[n][h].miner = winning[n][h] /\ chain[n][h].height = h
        /\ chain[n][h].parent = N!HashAt(chain[n], h - 1) /\ chain[n][h].stamp = h
        /\ h <= Height(winning[n][h])

\* A chain has a block for each round, but for the last one while n lags.
Chained(n) ==
    /\ Height(n) = Rounds(n) \/ (Lags(n) /\ Height(n) + 1 = Rounds(n) /\ winning[n][Rounds(n)] # n)
    /\ Stacked(n)

\* Two nodes record one leader and have one block per round.
OneHistory ==
    \A n, m \in Nodes :
        /\ \A h \in DOMAIN winning[n] \cap DOMAIN winning[m] : winning[n][h] = winning[m][h]
        /\ \A h \in DOMAIN chain[n] \cap DOMAIN chain[m] : chain[n][h] = chain[m][h]

\* What a node that lags asks for is the block that it lacks, and is on top of
\* the chain of the peer.
Asked(n) ==
    request[n] # Nil =>
        \/ /\ state[n] = "MINING" /\ request[n].kind \in {"missing", "txs"}
        \/ /\ Lags(n) /\ request[n].peer \in Nodes /\ request[n].peer # n
           /\ Height(request[n].peer) = Height(n) + 1
           /\ \/ request[n].kind = "block" /\ request[n].below = Height(n) + 1
              \/ /\ request[n].kind = "blocks" /\ request[n].height = Height(n)
                 /\ request[n].blocks = <<chain[request[n].peer][Height(n) + 1]>>

\* A node that lags has not finished asking: since the phase began no more
\* time has passed than the pinger has slept.
Elapsed(n) == time[n] - RoundsEnd(n) + BlockPeriod - 1
Catching(n) ==
    Lags(n) => \/ pc[n] # "idle" /\ (winning[n][Rounds(n)] \in left[n] \/ request[n] # Nil)
               \/ left[n] = {} /\ rest[n]["chain"] + Elapsed(n) <= SyncInterval

ChainInv == OneHistory /\ \A n \in Nodes : Chained(n) /\ Asked(n) /\ Catching(n)

-----------------------------------------------------------------------------
(* Times *)

LEMMA Periods == BlockPeriod \in Nat /\ BlockPeriod >= 2 /\ Cycle = 3 * BlockPeriod /\ Cycle \in Nat
BY SystemAssumption DEF Cycle

\* One round more is one cycle more.
LEMMA NextRound ==
    ASSUME NEW r \in Nat
    PROVE  Cycle * r \in Nat /\ Cycle * (r + 1) = Cycle * r + Cycle
<1>1. \A c \in Nat : c * r \in Nat /\ c * (r + 1) = c * r + c
  OBVIOUS
<1> QED  BY <1>1, Periods

\* A later round ends a cycle later at least.
LEMMA LaterRound ==
    ASSUME NEW r \in Nat, NEW q \in Nat, q < r
    PROVE  Cycle * q + Cycle <= Cycle * r
<1>1. \A c, k \in Nat : c * (q + 1 + k) = c * q + c + c * k /\ c * k \in Nat
  OBVIOUS
<1>2. r - q - 1 \in Nat /\ r = q + 1 + (r - q - 1)
  OBVIOUS
<1>3. Cycle * r = Cycle * q + Cycle + Cycle * (r - q - 1) /\ Cycle * (r - q - 1) \in Nat
  BY <1>1, <1>2, Periods
<1> QED  BY <1>3, NextRound, Periods

LEMMA WithinCycle ==
    ASSUME NEW r \in Nat, NEW c \in Nat, c < Cycle
    PROVE  (Cycle * r + c) % Cycle = c
<1>1. \A k, q, d \in Nat : d < k => (k * q + d) % k = d
  OBVIOUS
<1> QED  BY <1>1, Periods

LEMMA RoundTypes ==
    ASSUME Typed, NEW n \in Nodes
    PROVE  /\ Rounds(n) \in Nat /\ RoundsEnd(n) \in Nat /\ time[n] \in Nat /\ Height(n) \in Nat
           /\ DOMAIN winning[n] = 1..Rounds(n) /\ DOMAIN chain[n] = 1..Height(n)
           /\ \A h \in 1..Rounds(n) : winning[n][h] \in Nodes
           /\ \A h \in 1..Height(n) : chain[n][h] \in N!Block
<1>1. winning[n] \in Seq(Nodes) /\ chain[n] \in Seq(N!Block) /\ time[n] \in Nat
  BY DEF Typed
<1>2. Rounds(n) \in Nat /\ Height(n) \in Nat
  BY <1>1 DEF Rounds, Height
<1>3. RoundsEnd(n) \in Nat
  BY <1>2, NextRound DEF RoundsEnd
<1> QED  BY <1>1, <1>2, <1>3 DEF Rounds, Height

\* When a node at work is how far within its cycle.
LEMMA Due ==
    ASSUME Typed, NEW n \in Nodes, OnTime(n), pc[n] # "idle"
    PROVE  LET into == time[n] - RoundsEnd(n)
           IN  /\ state[n] = "MINING" => E!Cycled(n) = into /\ 1 <= into /\ into <= BlockPeriod + 1
               /\ state[n] = "LEADER" => /\ E!Cycled(n) = into /\ BlockPeriod + 2 <= into
                                         /\ into <= 2 * BlockPeriod + 1
               /\ state[n] = "BLOCK" => \/ into = 0 /\ E!Cycled(n) = 0
                                        \/ /\ 2 <= into + BlockPeriod /\ into < 0
                                           /\ E!Cycled(n) = into + Cycle
<1> DEFINE into == time[n] - RoundsEnd(n)
<1>1. /\ Rounds(n) \in Nat /\ RoundsEnd(n) \in Nat /\ time[n] \in Nat /\ into \in Int
      /\ E!Cycled(n) = time[n] % Cycle /\ RoundsEnd(n) = Cycle * Rounds(n)
  BY RoundTypes DEF E!Cycled, E!Cycle, Cycle, RoundsEnd
<1>2. ASSUME into \in 0..(Cycle - 1) PROVE E!Cycled(n) = into
  <2>1. time[n] = Cycle * Rounds(n) + into
    BY <1>1
  <2>2. into \in Nat /\ into < Cycle
    BY <1>1, <1>2, Periods
  <2> HIDE DEF into
  <2> QED  BY <1>1, <2>1, <2>2, WithinCycle
<1>3. ASSUME into < 0, 2 <= into + BlockPeriod, Rounds(n) > 0 PROVE E!Cycled(n) = into + Cycle
  <2>1. Rounds(n) - 1 \in Nat /\ Rounds(n) = (Rounds(n) - 1) + 1
    BY <1>1, <1>3
  <2>2. Cycle * Rounds(n) = Cycle * (Rounds(n) - 1) + Cycle /\ Cycle * (Rounds(n) - 1) \in Nat
    BY <2>1, NextRound
  <2>3. into + Cycle \in Nat /\ into + Cycle < Cycle
    BY <1>1, <1>3, Periods
  <2>4. time[n] = Cycle * (Rounds(n) - 1) + (into + Cycle)
    BY <1>1, <2>2, Periods
  <2> HIDE DEF into
  <2> QED  BY <1>1, <2>1, <2>3, <2>4, WithinCycle
<1>4. /\ state[n] = "MINING" => 1 <= into /\ into <= BlockPeriod + 1
      /\ state[n] = "LEADER" => BlockPeriod + 2 <= into /\ into <= 2 * BlockPeriod + 1
      /\ state[n] = "BLOCK" => 2 <= into + BlockPeriod /\ into < 1 /\ Rounds(n) > 0
  BY <1>1, Periods DEF OnTime
<1> HIDE DEF into
<1>5. CASE state[n] = "MINING"
  BY <1>1, <1>2, <1>4, <1>5, Periods DEF into
<1>6. CASE state[n] = "LEADER"
  BY <1>1, <1>2, <1>4, <1>6, Periods DEF into
<1>7. CASE state[n] = "BLOCK"
  <2>1. CASE into = 0
    BY <1>1, <1>2, <1>7, <2>1, Periods DEF into
  <2>2. CASE into < 0
    BY <1>1, <1>3, <1>4, <1>7, <2>2 DEF into
  <2> QED  BY <1>1, <1>4, <1>7, <2>1, <2>2
<1> QED  BY <1>5, <1>6, <1>7 DEF into

-----------------------------------------------------------------------------
(* The loop *)

\* What OnTime and Pinging say of a node is about these variables only.
SameAt(m) ==
    /\ time'[m] = time[m] /\ pc'[m] = pc[m] /\ state'[m] = state[m]
    /\ winning'[m] = winning[m] /\ on'[m] = on[m] /\ left'[m] = left[m]
    /\ request'[m] = request[m] /\ rest'[m] = rest[m]

LEMMA OneNode ==
    ASSUME LoopInv, NEW n \in Nodes, Typed', Turns', \A m \in Nodes \ {n} : SameAt(m),
           OnTime(n)', Pinging(n)'
    PROVE  LoopInv'
<1>1. ASSUME NEW m \in Nodes, m # n
      PROVE  OnTime(m)' /\ Pinging(m)'
  BY <1>1 DEF SameAt, OnTime, Pinging, LoopInv, Rounds, RoundsEnd
<1> QED  BY <1>1 DEF LoopInv

\* The node at work goes on.
LEMMA WorksOn ==
    ASSUME LoopInv, NEW n \in Nodes, pc[n] # "idle", time' = time, turn' = turn,
           pc' = pc \/ \E label : label # "idle" /\ pc' = [pc EXCEPT ![n] = label]
    PROVE  Turns' /\ pc'[n] # "idle"
<1>1. /\ DOMAIN pc = Nodes /\ Order[turn] = n /\ \A m \in Nodes \ {n} : pc[m] = "idle"
      /\ \A m, o \in Nodes : time[m] <= time[o] + 1
      /\ \A m \in Nodes \ {n} : time[m] <= time[n]
  BY DEF LoopInv, Typed, Turns
<1>2. pc'[n] # "idle" /\ \A m \in Nodes \ {n} : pc'[m] = "idle"
  BY <1>1
<1> QED  BY <1>1, <1>2 DEF Turns

\* The node at work is done.
LEMMA WorkDone ==
    ASSUME LoopInv, NEW n \in Nodes, pc[n] # "idle", time' = time, pc' = [pc EXCEPT ![n] = "idle"]
    PROVE  Turns' /\ pc'[n] = "idle"
<1>1. /\ DOMAIN pc = Nodes /\ \A m \in Nodes \ {n} : pc[m] = "idle"
      /\ \A m, o \in Nodes : time[m] <= time[o] + 1
  BY DEF LoopInv, Typed, Turns
<1>2. \A m \in Nodes : pc'[m] = "idle"
  BY <1>1
<1> QED  BY <1>1, <1>2 DEF Turns

\* A node at work takes the turn.
LEMMA WorkBegins ==
    ASSUME LoopInv, NEW n \in Nodes, pc[n] = "idle", Order[turn] = n, turn' = turn,
           \A m \in Nodes : time[n] < time[m] + 1, time' = [time EXCEPT ![n] = @ + 1],
           NEW label, label # "idle", pc' = [pc EXCEPT ![n] = label]
    PROVE  Turns' /\ pc'[n] = label
<1>1. /\ DOMAIN pc = Nodes /\ time \in [Nodes -> Nat] /\ \A m \in Nodes : pc[m] = "idle"
      /\ \A m, o \in Nodes : time[m] <= time[o] + 1
  BY DEF LoopInv, Typed, Turns
<1>2. pc'[n] = label /\ \A m \in Nodes \ {n} : pc'[m] = "idle"
  BY <1>1
<1>3. \A m \in Nodes : time[m] \in Nat /\ time[n] <= time[m] /\ time[m] <= time[n] + 1
  BY <1>1
<1>4. time'[n] = time[n] + 1 /\ \A m \in Nodes \ {n} : time'[m] = time[m]
  BY <1>1
<1>5. ASSUME NEW m \in Nodes, NEW o \in Nodes PROVE time'[m] <= time'[o] + 1
  BY <1>1, <1>3, <1>4
<1>6. ASSUME NEW m \in Nodes, m # n PROVE time'[m] <= time'[n]
  BY <1>3, <1>4, <1>6
<1> QED  BY <1>2, <1>5, <1>6 DEF Turns

-----------------------------------------------------------------------------
(* The loop, action by action *)

\* A step of n ends nothing and starts no phase.
Quiet(n) ==
    /\ UNCHANGED <<time, turn, state, winning>>
    /\ pc' = pc \/ (\E label \in {"ask", "run", "adopt", "close"} : pc' = [pc EXCEPT ![n] = label])

\* The pingers of n in a step that starts no phase.
LEMMA QuietLoop ==
    ASSUME LoopInv, NEW n \in Nodes, pc[n] # "idle", Quiet(n), Typed',
           \A m \in Nodes \ {n} : SameAt(m), Pinging(n)'
    PROVE  LoopInv'
<1>1. Turns' /\ pc'[n] # "idle"
  BY WorksOn DEF Quiet
<1>2. OnTime(n)'
  BY <1>1 DEF Quiet, OnTime, Rounds, RoundsEnd, LoopInv
<1> QED  BY <1>1, <1>2, OneNode

LEMMA SendLoop ==
    ASSUME LoopInv, NEW n \in Nodes, NEW t \in Txs, SendTransaction(n, t)
    PROVE  LoopInv'
<1>1. /\ UNCHANGED <<time, pc, turn, on, rest, left, chain, winning, state, request>>
      /\ mempool' = [mempool EXCEPT ![n][t] = [completed |-> FALSE, sigs |-> <<>>]]
  BY DEF SendTransaction, N!SendTransaction, voteVars
<1>2. mempool' \in [Nodes -> N!Pool]
  <2>1. [completed |-> FALSE, sigs |-> <<>>] \in N!Copy
    BY DEF N!Copy
  <2>2. mempool \in [Nodes -> N!Pool]
    BY DEF LoopInv, Typed
  <2> QED  BY <1>1, <2>1, <2>2 DEF N!Pool
<1>3. Typed'
  BY <1>1, <1>2 DEF LoopInv, Typed
<1>4. \A m \in Nodes : SameAt(m)
  BY <1>1 DEF SameAt
<1>5. Turns' /\ OnTime(n)' /\ Pinging(n)'
  BY <1>1 DEF LoopInv, Turns, OnTime, Pinging, Rounds, RoundsEnd
<1> QED  BY <1>3, <1>4, <1>5, OneNode

\* What the timer and the pinger do at the beginning of a step.
Starts(n) ==
    /\ left' = [left EXCEPT ![n] = IF \E k \in Syncing(n) : rest[n][k] = 0 THEN Peers[n] ELSE {}]
    /\ rest' = [rest EXCEPT ![n] = [k \in DOMAIN @ |->
                   IF k \in Syncing(n) /\ @[k] > 0 THEN @[k] - 1 ELSE @[k]]]

LEMMA BeginLoop ==
    ASSUME LoopInv, NEW n \in Nodes, Begin(n)
    PROVE  /\ LoopInv' /\ Starts(n) /\ pc[n] = "idle" /\ pc'[n] # "idle" /\ time'[n] = time[n] + 1
           /\ UNCHANGED <<chain, mempool, request, state, winning>>
           /\ \A m \in Nodes \ {n} : SameAt(m)
<1>1. /\ Order[turn] = n /\ turn' = turn /\ pc[n] = "idle"
      /\ \A m \in Nodes : time[n] < time[m] + 1
      /\ time' = [time EXCEPT ![n] = @ + 1]
      /\ UNCHANGED <<state, winning, on, nodeVars>> /\ Starts(n)
      /\ \/ "vote" \in on[n] /\ pc' = [pc EXCEPT ![n] = "ask"]
         \/ pc' = [pc EXCEPT ![n] = "run"]
  BY DEF Begin, E!Begin, E!MyTurn, E!Goto, E!lead, Starts
<1>2. /\ time \in [Nodes -> Nat] /\ pc \in [Nodes -> {"idle", "ask", "run", "adopt", "close"}]
      /\ left \in [Nodes -> SUBSET Nodes] /\ rest \in [Nodes -> [{"mempool", "chain"} -> 0..SyncInterval]]
      /\ Peers[n] \subseteq Nodes /\ SyncInterval \in Nat
  BY SystemAssumption DEF LoopInv, Typed
<1>3. PICK label \in {"ask", "run"} : /\ pc' = [pc EXCEPT ![n] = label]
                                      /\ label = "ask" => "vote" \in on[n]
  BY <1>1
<1>4. Turns' /\ pc'[n] = label
  BY <1>1, <1>3, WorkBegins
<1>5. time'[n] = time[n] + 1 /\ time' \in [Nodes -> Nat]
  BY <1>1, <1>2
<1>6. Typed'
  <2>1. left' \in [Nodes -> SUBSET Nodes]
    BY <1>1, <1>2 DEF Starts
  <2>2. rest' \in [Nodes -> [{"mempool", "chain"} -> 0..SyncInterval]]
    <3> DEFINE slept == [k \in DOMAIN rest[n] |->
                   IF k \in Syncing(n) /\ rest[n][k] > 0 THEN rest[n][k] - 1 ELSE rest[n][k]]
    <3>1. rest[n] \in [{"mempool", "chain"} -> 0..SyncInterval]
      BY <1>2
    <3>2. slept \in [{"mempool", "chain"} -> 0..SyncInterval]
      BY <1>2, <3>1
    <3>3. rest' = [rest EXCEPT ![n] = slept]
      BY <1>1 DEF Starts
    <3> HIDE DEF slept
    <3> QED  BY <1>2, <3>2, <3>3
  <2>3. pc' \in [Nodes -> {"idle", "ask", "run", "adopt", "close"}]
    BY <1>2, <1>3
  <2> QED  BY <1>1, <1>5, <2>1, <2>2, <2>3 DEF LoopInv, Typed, nodeVars
<1>7. \A m \in Nodes \ {n} : SameAt(m)
  BY <1>1, <1>2, <1>3 DEF SameAt, Starts, nodeVars
<1>8. OnTime(n) /\ Pinging(n) /\ RoundsEnd(n) \in Nat /\ Rounds(n) \in Nat /\ time[n] \in Nat
  BY RoundTypes DEF LoopInv
<1>9. OnTime(n)'
  <2>1. RoundsEnd(n)' = RoundsEnd(n) /\ Rounds(n)' = Rounds(n) /\ state'[n] = state[n]
    BY <1>1 DEF RoundsEnd, Rounds
  <2> QED  BY <1>1, <1>3, <1>4, <1>5, <1>8, <2>1, Periods DEF OnTime
<1>10. Pinging(n)'
  <2>1. state[n] # "LEADER" => "vote" \notin on[n]
    BY <1>8 DEF Pinging, LoopInv, Typed
  <2>2. state[n] = "LEADER" => Syncing(n) = {}
    BY <1>8 DEF Pinging, Syncing
  <2>3. left'[n] # {} => state[n] # "LEADER" /\ left'[n] = Peers[n]
    BY <1>1, <1>2, <2>2 DEF Starts
  <2>4. request[n] = Nil
    BY <1>1, <1>8 DEF Pinging
  <2>5. state[n] \in {"MINING", "LEADER", "BLOCK"}
    BY DEF LoopInv, Typed
  <2> QED  BY <1>1, <1>3, <1>4, <1>8, <2>1, <2>3, <2>4, <2>5 DEF Pinging, nodeVars
<1> QED  BY <1>1, <1>3, <1>4, <1>5, <1>6, <1>7, <1>9, <1>10, OneNode DEF nodeVars

\* The next peer is asked, or an answer of it comes.
LEMMA AskLoop ==
    ASSUME LoopInv, NEW n \in Nodes, NEW p \in Nodes, Ask(n, p)
    PROVE  /\ LoopInv' /\ pc[n] = "run" /\ p \in left[n] /\ request[n] = Nil
           /\ left' = [left EXCEPT ![n] = @ \ {p}]
           /\ left[n] # {p} => rest' = rest
           /\ UNCHANGED <<time, pc, turn, chain, mempool, state, winning>>
           /\ \A m \in Nodes \ {n} : SameAt(m)
<1>1. /\ pc[n] = "run" /\ p \in left[n] /\ request[n] = Nil
      /\ left' = [left EXCEPT ![n] = @ \ {p}]
      /\ rest' = IF left[n] = {p}
                 THEN [rest EXCEPT ![n] = [k \in DOMAIN @ |->
                          IF k \in Syncing(n) THEN SyncInterval ELSE @[k]]]
                 ELSE rest
      /\ UNCHANGED <<time, pc, turn, on>>
  BY DEF Ask, voteVars
<1>2. /\ UNCHANGED <<chain, mempool, state, winning>>
      /\ request' = request \/ \E q : request' = [request EXCEPT ![n] = q]
  BY DEF Ask, Offer, N!MempoolSync, N!ChainSync, nodeVars
<1>3. DOMAIN request = Nodes /\ left \in [Nodes -> SUBSET Nodes] /\ SyncInterval \in Nat
      /\ rest \in [Nodes -> [{"mempool", "chain"} -> 0..SyncInterval]]
  BY SystemAssumption DEF LoopInv, Typed
<1>4. Typed'
  <2>1. rest' \in [Nodes -> [{"mempool", "chain"} -> 0..SyncInterval]]
    <3> DEFINE slept == [k \in DOMAIN rest[n] |-> IF k \in Syncing(n) THEN SyncInterval ELSE rest[n][k]]
    <3>1. slept \in [{"mempool", "chain"} -> 0..SyncInterval]
      BY <1>3
    <3>2. rest' = rest \/ rest' = [rest EXCEPT ![n] = slept]
      BY <1>1
    <3> HIDE DEF slept
    <3> QED  BY <1>3, <3>1, <3>2
  <2>2. left' \in [Nodes -> SUBSET Nodes] /\ DOMAIN request' = Nodes
    BY <1>1, <1>2, <1>3
  <2> QED  BY <1>1, <1>2, <2>1, <2>2 DEF LoopInv, Typed
<1>5. \A m \in Nodes \ {n} : SameAt(m)
  BY <1>1, <1>2, <1>3 DEF SameAt
<1>6. Pinging(n)'
  <2>1. Pinging(n)
    BY DEF LoopInv
  <2> QED  BY <1>1, <1>2, <1>3, <2>1 DEF Pinging
<1> QED  BY <1>1, <1>2, <1>4, <1>5, <1>6, QuietLoop DEF Quiet

\* Votes are collected and counted.
LEMMA VoteLoop ==
    ASSUME LoopInv, NEW n \in Nodes, Vote(n) \/ Count(n)
    PROVE  /\ LoopInv' /\ (pc'[n] = "idle" <=> pc[n] = "idle")
           /\ UNCHANGED <<time, chain, mempool, state, winning, request, rest, left>>
           /\ \A m \in Nodes \ {n} : SameAt(m)
<1>1. /\ UNCHANGED <<time, turn, chain, mempool, state, winning, request, rest, left>>
      /\ \/ pc' = pc /\ (on' = on \/ on' = [on EXCEPT ![n] = @ \ {"vote"}])
         \/ /\ pc[n] \in {"ask", "run", "adopt"} /\ on' = on
            /\ \E label \in {"run", "adopt", "close"} :
                  pc' = [pc EXCEPT ![n] = label] /\ (label # "run" => state[n] = "LEADER")
  <2>1. CASE Vote(n)
    <3>1. CASE \E p \in Nodes : E!AskVote(n, p)
      BY <2>1, <3>1 DEF Vote, E!AskVote, E!step, E!lead, nodeVars
    <3>2. CASE E!GetVote(n)
      BY <2>1, <3>2 DEF Vote, E!GetVote, E!step, nodeVars
    <3>3. CASE E!VotesIn(n)
      BY <2>1, <3>3 DEF Vote, E!VotesIn, E!Goto, E!lead, nodeVars
    <3> QED  BY <2>1, <3>1, <3>2, <3>3 DEF Vote
  <2>2. CASE Count(n)
    <3>1. CASE E!Tally(n)
      BY <2>2, <3>1 DEF Count, E!Tally, E!Goto, E!pings, nodeVars
    <3>2. CASE E!Adopt(n)
      <4>1. pc[n] = "adopt" => state[n] = "LEADER"
        BY DEF LoopInv, Pinging
      <4> QED  BY <2>2, <3>2, <4>1 DEF Count, E!Adopt, E!Goto, E!pings, nodeVars
    <3> QED  BY <2>2, <3>1, <3>2 DEF Count
  <2> QED  BY <2>1, <2>2
<1>2. /\ pc \in [Nodes -> {"idle", "ask", "run", "adopt", "close"}]
      /\ on \in [Nodes -> SUBSET {"mempool", "vote", "chain"}]
  BY DEF LoopInv, Typed
<1>3. Typed'
  <2>1. /\ pc' \in [Nodes -> {"idle", "ask", "run", "adopt", "close"}]
        /\ on' \in [Nodes -> SUBSET {"mempool", "vote", "chain"}]
    BY <1>1, <1>2
  <2> QED  BY <1>1, <2>1 DEF LoopInv, Typed
<1>4. \A m \in Nodes \ {n} : SameAt(m)
  BY <1>1, <1>2 DEF SameAt
<1>5. Pinging(n)'
  <2>1. Pinging(n)
    BY DEF LoopInv
  <2>2. CASE pc' = pc /\ (on' = on \/ on' = [on EXCEPT ![n] = @ \ {"vote"}])
    BY <1>1, <1>2, <2>1, <2>2 DEF Pinging
  <2>3. CASE pc'[n] \in {"run", "adopt", "close"} /\ pc[n] # "idle" /\ on' = on
    <3>1. pc'[n] # "run" => state[n] = "LEADER"
      BY <1>1, <1>2, <2>3, <2>1 DEF Pinging
    <3> QED  BY <1>1, <2>1, <2>3, <3>1 DEF Pinging
  <2> QED  BY <1>1, <1>2, <2>2, <2>3
<1>6. CASE pc[n] # "idle"
  <2>1. Turns' /\ pc'[n] # "idle" /\ LoopInv'
    BY <1>1, <1>3, <1>4, <1>5, <1>6, WorksOn, QuietLoop DEF Quiet
  <2> QED  BY <1>1, <1>4, <1>6, <2>1
<1>7. CASE pc[n] = "idle"
  <2>1. pc' = pc
    BY <1>1, <1>7
  <2>2. Turns' /\ OnTime(n)'
    BY <1>1, <2>1 DEF LoopInv, Turns, OnTime, Rounds, RoundsEnd
  <2> QED  BY <1>1, <1>3, <1>4, <1>5, <2>1, <2>2, OneNode
<1> QED  BY <1>6, <1>7

\* The scan of the mempool, and the end of the MINING phase.
LEMMA MineLoop ==
    ASSUME LoopInv, NEW n \in Nodes, RunMining(n)
    PROVE  /\ LoopInv' /\ pc[n] # "idle" /\ pc'[n] = "idle" /\ state[n] = "MINING"
           /\ state'[n] \in {"MINING", "LEADER"} /\ request[n] = Nil
           /\ UNCHANGED <<time, chain, mempool, winning, request, rest, left>>
           /\ \A m \in Nodes \ {n} : SameAt(m)
<1>1. /\ left[n] = {} /\ request[n] = Nil /\ pc[n] = "run" /\ state[n] = "MINING"
      /\ pc' = [pc EXCEPT ![n] = "idle"]
      /\ UNCHANGED <<time, chain, mempool, winning, request, rest, left>>
      /\ \/ /\ ~E!After(n, 1) /\ UNCHANGED <<state, on>>
         \/ /\ E!After(n, 1) /\ state' = [state EXCEPT ![n] = "LEADER"]
            /\ \/ on' = [on EXCEPT ![n] = @ \ {"mempool"}]
               \/ on' = [on EXCEPT ![n] = (on[n] \ {"mempool"}) \cup {"vote"}]
  BY DEF RunMining, PingersDone, E!MineWith, E!Done, E!Switched, N!EndMining, nodeVars
<1>2. /\ pc \in [Nodes -> {"idle", "ask", "run", "adopt", "close"}]
      /\ on \in [Nodes -> SUBSET {"mempool", "vote", "chain"}]
      /\ state \in [Nodes -> {"MINING", "LEADER", "BLOCK"}]
      /\ Rounds(n) \in Nat /\ RoundsEnd(n) \in Nat /\ time[n] \in Nat
  BY RoundTypes DEF LoopInv, Typed
<1>3. Turns' /\ pc'[n] = "idle"
  BY <1>1, WorkDone
<1>4. Typed'
  <2>1. /\ pc' \in [Nodes -> {"idle", "ask", "run", "adopt", "close"}]
        /\ on' \in [Nodes -> SUBSET {"mempool", "vote", "chain"}]
        /\ state' \in [Nodes -> {"MINING", "LEADER", "BLOCK"}]
    BY <1>1, <1>2
  <2> QED  BY <1>1, <2>1 DEF LoopInv, Typed
<1>5. \A m \in Nodes \ {n} : SameAt(m)
  BY <1>1, <1>2 DEF SameAt
<1>6. OnTime(n) /\ Pinging(n) /\ Typed
  BY DEF LoopInv
<1>7. E!Cycled(n) = time[n] - RoundsEnd(n) /\ 1 <= E!Cycled(n) /\ E!Cycled(n) <= BlockPeriod + 1
  BY <1>1, <1>6, Due
<1>8. E!After(n, 1) <=> E!Cycled(n) = BlockPeriod + 1
  BY <1>2, <1>7, Periods DEF E!After
<1>9. OnTime(n)'
  <2>1. RoundsEnd(n)' = RoundsEnd(n) /\ Rounds(n)' = Rounds(n) /\ time'[n] = time[n]
    BY <1>1 DEF RoundsEnd, Rounds
  <2>2. CASE state'[n] = "MINING" /\ ~E!After(n, 1)
    BY <1>2, <1>3, <1>7, <1>8, <2>1, <2>2, Periods DEF OnTime
  <2>3. CASE state'[n] = "LEADER" /\ E!After(n, 1)
    BY <1>2, <1>3, <1>7, <1>8, <2>1, <2>3, Periods DEF OnTime
  <2> QED  BY <1>1, <1>2, <2>2, <2>3
<1>10. Pinging(n)'
  <2>1. left'[n] = {} /\ request'[n] = Nil
    BY <1>1
  <2>2. CASE state'[n] = "MINING" /\ on'[n] = on[n]
    BY <1>1, <1>3, <1>6, <2>1, <2>2 DEF Pinging
  <2>3. CASE state'[n] = "LEADER" /\ on'[n] \subseteq (on[n] \ {"mempool"}) \cup {"vote"}
    BY <1>1, <1>3, <1>6, <2>1, <2>3 DEF Pinging
  <2> QED  BY <1>1, <1>2, <2>2, <2>3
<1>11. state'[n] \in {"MINING", "LEADER"}
  BY <1>1, <1>2
<1> QED  BY <1>1, <1>3, <1>4, <1>5, <1>9, <1>10, <1>11, OneNode

\* The end of the BLOCK phase, when the cycle ends.
LEMMA BlockLoop ==
    ASSUME LoopInv, NEW n \in Nodes, RunBlock(n)
    PROVE  /\ LoopInv' /\ pc[n] # "idle" /\ pc'[n] = "idle" /\ state[n] = "BLOCK"
           /\ left[n] = {} /\ request[n] = Nil
           /\ \/ state' = state
              \/ state'[n] = "MINING" /\ time[n] = RoundsEnd(n)
           /\ UNCHANGED <<time, chain, mempool, winning, request, rest, left>>
           /\ \A m \in Nodes \ {n} : SameAt(m)
<1>1. /\ left[n] = {} /\ request[n] = Nil /\ pc[n] = "run" /\ state[n] = "BLOCK"
      /\ pc' = [pc EXCEPT ![n] = "idle"]
      /\ UNCHANGED <<time, chain, mempool, winning, request, rest, left>>
      /\ \/ /\ E!Cycled(n) >= BlockPeriod /\ UNCHANGED <<state, on>>
         \/ /\ E!Cycled(n) < BlockPeriod /\ state' = [state EXCEPT ![n] = "MINING"]
            /\ on' = [on EXCEPT ![n] = (on[n] \ {"chain"}) \cup {"mempool"}]
  BY DEF RunBlock, PingersDone, E!RunBlock, E!Done, E!Switched, N!EndRound, nodeVars
<1>2. /\ pc \in [Nodes -> {"idle", "ask", "run", "adopt", "close"}]
      /\ on \in [Nodes -> SUBSET {"mempool", "vote", "chain"}]
      /\ state \in [Nodes -> {"MINING", "LEADER", "BLOCK"}]
      /\ Rounds(n) \in Nat /\ RoundsEnd(n) \in Nat /\ time[n] \in Nat
  BY RoundTypes DEF LoopInv, Typed
<1>3. Turns' /\ pc'[n] = "idle"
  BY <1>1, WorkDone
<1>4. Typed'
  <2>1. /\ pc' \in [Nodes -> {"idle", "ask", "run", "adopt", "close"}]
        /\ on' \in [Nodes -> SUBSET {"mempool", "vote", "chain"}]
        /\ state' \in [Nodes -> {"MINING", "LEADER", "BLOCK"}]
    BY <1>1, <1>2
  <2> QED  BY <1>1, <2>1 DEF LoopInv, Typed
<1>5. \A m \in Nodes \ {n} : SameAt(m)
  BY <1>1, <1>2 DEF SameAt
<1>6. OnTime(n) /\ Pinging(n) /\ Typed
  BY DEF LoopInv
<1> DEFINE into == time[n] - RoundsEnd(n)
<1>7. \/ into = 0 /\ E!Cycled(n) = 0
      \/ 2 <= into + BlockPeriod /\ into < 0 /\ E!Cycled(n) = into + Cycle
  BY <1>1, <1>6, Due
<1>8. E!Cycled(n) < BlockPeriod <=> into = 0
  BY <1>2, <1>7, Periods
<1>9. Rounds(n) > 0
  BY <1>1, <1>6 DEF OnTime
<1>10. OnTime(n)'
  <2>1. RoundsEnd(n)' = RoundsEnd(n) /\ Rounds(n)' = Rounds(n) /\ time'[n] = time[n]
    BY <1>1 DEF RoundsEnd, Rounds
  <2>2. CASE state'[n] = "BLOCK" /\ ~(E!Cycled(n) < BlockPeriod)
    BY <1>2, <1>3, <1>7, <1>8, <1>9, <2>1, <2>2, Periods DEF OnTime
  <2>3. CASE state'[n] = "MINING" /\ E!Cycled(n) < BlockPeriod
    BY <1>2, <1>3, <1>8, <2>1, <2>3, Periods DEF OnTime
  <2>4. E!Cycled(n) >= BlockPeriod <=> ~(E!Cycled(n) < BlockPeriod)
    BY <1>2, <1>7, Periods
  <2> QED  BY <1>1, <1>2, <2>2, <2>3, <2>4
<1>11. Pinging(n)'
  <2>1. left'[n] = {} /\ request'[n] = Nil
    BY <1>1
  <2>2. CASE state'[n] = "BLOCK" /\ on'[n] = on[n]
    BY <1>1, <1>3, <1>6, <2>1, <2>2 DEF Pinging
  <2>3. CASE state'[n] = "MINING" /\ on'[n] = (on[n] \ {"chain"}) \cup {"mempool"}
    BY <1>1, <1>3, <1>6, <2>1, <2>3 DEF Pinging
  <2> QED  BY <1>1, <1>2, <2>2, <2>3
<1>12. state' = state \/ (state'[n] = "MINING" /\ time[n] = RoundsEnd(n))
  BY <1>1, <1>2, <1>8
<1> QED  BY <1>1, <1>3, <1>4, <1>5, <1>10, <1>11, <1>12, OneNode

-----------------------------------------------------------------------------
(* The vote *)

\* Every set of natural numbers that is not empty has a least one.
LEMMA Least ==
    ASSUME NEW S \in SUBSET Nat, S # {}
    PROVE  \E x \in S : \A y \in S : x <= y
<1>1. PICK x \in S : \A y \in S : ~(<<y, x>> \in OpToRel(<, Nat))
  BY WFMin, NatLessThanWellFounded
<1>2. \A y \in S : ~(y < x)
  BY <1>1 DEF OpToRel
<1> QED  BY <1>2

\* Module Election counts with the operator of FiniteSets.
LEMMA SameCardinality == ASSUME NEW S PROVE E!Cardinality(S) = Cardinality(S)
BY DEF E!Cardinality, Cardinality

LEMMA Elements ==
    ASSUME NEW S, NEW s \in Seq(S)
    PROVE  Len(s) \in Nat /\ DOMAIN s = 1..Len(s) /\ \A i \in 1..Len(s) : s[i] \in S
OBVIOUS

\* The first vote for a candidate that somebody has named.
LEMMA FirstVoteFor ==
    ASSUME VoteTyped, NEW n \in Nodes, NEW w \in E!Named(n)
    PROVE  /\ E!FirstVote(n, w) \in DOMAIN votes[n] /\ E!FirstVote(n, w) \in Nat
           /\ w \in Id /\ votes[n][E!FirstVote(n, w)].sig \in Nodes
           /\ votes[n][E!FirstVote(n, w)].vote = w
           /\ Cardinality(E!VotesFor(n, w)) \in 0..Len(votes[n])
<1>1. /\ DOMAIN votes[n] = 1..Len(votes[n]) /\ Len(votes[n]) \in Nat
      /\ \A i \in 1..Len(votes[n]) : votes[n][i].vote \in Id /\ votes[n][i].sig \in Nodes
  <2>1. votes[n] \in Seq([vote : Id, sig : Nodes])
    BY DEF VoteTyped
  <2>2. \A i \in 1..Len(votes[n]) : votes[n][i] \in [vote : Id, sig : Nodes]
    BY <2>1, Elements
  <2> QED  BY <2>1, <2>2
<1>2. /\ E!VotesFor(n, w) \subseteq 1..Len(votes[n]) /\ E!VotesFor(n, w) # {}
      /\ \A i \in E!VotesFor(n, w) : votes[n][i].vote = w
  BY <1>1 DEF E!VotesFor, E!Named
<1>3. \E i \in E!VotesFor(n, w) : \A j \in E!VotesFor(n, w) : i <= j
  BY <1>1, <1>2, Least
<1>4. E!FirstVote(n, w) \in E!VotesFor(n, w)
  BY <1>3 DEF E!FirstVote
<1>5. Cardinality(E!VotesFor(n, w)) \in 0..Len(votes[n])
  <2>1. IsFiniteSet(1..Len(votes[n])) /\ Cardinality(1..Len(votes[n])) = Len(votes[n])
    BY <1>1, FS_Interval
  <2>2. IsFiniteSet(E!VotesFor(n, w)) /\ Cardinality(E!VotesFor(n, w)) <= Len(votes[n])
    BY <1>2, <2>1, FS_Subset
  <2> QED  BY <1>1, <2>2, FS_CardinalityType
<1> QED  BY <1>1, <1>2, <1>4, <1>5

\* The favourite is somebody's candidate.
LEMMA FavouriteNamed ==
    ASSUME VoteTyped, NEW n \in Nodes, Len(votes[n]) > 0
    PROVE  E!Favourite(n) \in E!Named(n)
<1> DEFINE card(w) == Cardinality(E!VotesFor(n, w))
           missing == {Len(votes[n]) - card(w) : w \in E!Named(n)}
<1>1. E!Named(n) # {} /\ Len(votes[n]) \in Nat
  <2>1. Len(votes[n]) \in Nat /\ 1 \in DOMAIN votes[n]
    BY DEF VoteTyped
  <2> QED  BY <2>1 DEF E!Named
<1>2. \A w \in E!Named(n) : card(w) \in 0..Len(votes[n]) /\ E!FirstVote(n, w) \in Nat
  BY FirstVoteFor
<1> HIDE DEF card
<1>3. \E x \in missing : \A y \in missing : x <= y
  <2>1. missing \in SUBSET Nat /\ missing # {}
    BY <1>1, <1>2
  <2> QED  BY <2>1, Least
<1>4. PICK u \in E!Named(n) : \A v \in E!Named(n) : card(u) >= card(v)
  <2>1. PICK u \in E!Named(n) : \A v \in E!Named(n) :
                Len(votes[n]) - card(u) <= Len(votes[n]) - card(v)
    BY <1>3
  <2>2. ASSUME NEW v \in E!Named(n) PROVE card(u) >= card(v)
    <3>1. card(u) \in Int /\ card(v) \in Int /\ Len(votes[n]) \in Int
      BY <1>1, <1>2
    <3>2. Len(votes[n]) - card(u) <= Len(votes[n]) - card(v)
      BY <2>1
    <3> QED  BY <3>1, <3>2
  <2> QED  BY <2>2
<1> DEFINE best   == {w \in E!Named(n) : card(w) = card(u)}
           firsts == {E!FirstVote(n, w) : w \in best}
<1>5. \E x \in firsts : \A y \in firsts : x <= y
  <2>1. firsts \in SUBSET Nat /\ firsts # {}
    BY <1>2, <1>4
  <2> QED  BY <2>1, Least
<1>6. PICK w \in best : \A v \in best : E!FirstVote(n, w) <= E!FirstVote(n, v)
  BY <1>5
<1>7. \A v \in E!Named(n) : \/ card(w) > card(v)
                            \/ card(w) = card(v) /\ E!FirstVote(n, w) <= E!FirstVote(n, v)
  BY <1>2, <1>4, <1>6
<1>8. \E x \in E!Named(n) : \A v \in E!Named(n) :
            \/ card(x) > card(v)
            \/ card(x) = card(v) /\ E!FirstVote(n, x) <= E!FirstVote(n, v)
  BY <1>6, <1>7
<1>9. \E x \in E!Named(n) : \A v \in E!Named(n) :
            \/ E!Cardinality(E!VotesFor(n, x)) > E!Cardinality(E!VotesFor(n, v))
            \/ /\ E!Cardinality(E!VotesFor(n, x)) = E!Cardinality(E!VotesFor(n, v))
               /\ E!FirstVote(n, x) <= E!FirstVote(n, v)
  BY <1>8, SameCardinality DEF card
<1> QED  BY <1>9, Zenon DEF E!Favourite

\* The signatures that a scan finds.
LEMMA FreshSignatures ==
    ASSUME Typed, NEW n \in Nodes
    PROVE  Fresh(n) \subseteq [id : Nodes, value : Nat]
<1> SUFFICES ASSUME NEW sig \in Fresh(n) PROVE sig \in [id : Nodes, value : Nat]
  OBVIOUS
<1>0. PICK t \in N!Held(mempool[n]) :
         sig \in {[id |-> h.id, value |-> Value[<<t, h.id, h.relayer>>]] :
                     h \in {mempool[n][t].sigs[i] : i \in DOMAIN mempool[n][t].sigs}}
  BY DEF Fresh
<1> PICK i \in DOMAIN mempool[n][t].sigs :
        LET h == mempool[n][t].sigs[i]
        IN  sig = [id |-> h.id, value |-> Value[<<t, h.id, h.relayer>>]]
  BY <1>0
<1> DEFINE h == mempool[n][t].sigs[i]
<1>1. t \in Txs /\ mempool[n][t] \in N!Copy
  BY DEF Typed, N!Held, N!Pool
<1>2. h \in N!Entry
  BY <1>1 DEF N!Copy
<1>3. h.id \in Nodes /\ <<t, h.id, h.relayer>> \in Txs \X Nodes \X Nodes
  BY <1>1, <1>2 DEF N!Entry
<1> HIDE DEF h
<1>4. Value[<<t, h.id, h.relayer>>] \in Nat
  BY <1>3, SystemAssumption
<1> QED  BY <1>3, <1>4 DEF h

\* The value of a signature is a number, whatever the penalty.
LEMMA SigValueNat ==
    ASSUME VoteTyped, NEW n \in Nodes, NEW sig \in [id : Nodes, value : Nat]
    PROVE  E!SigValue(n, sig) \in Nat
<1> DEFINE times == {i \in DOMAIN recent[n] : recent[n][i] = sig.id}
<1>1. times \subseteq 1..Len(recent[n]) /\ Len(recent[n]) \in Nat
  BY DEF VoteTyped
<1> HIDE DEF times
<1>2. IsFiniteSet(times)
  <2>1. IsFiniteSet(1..Len(recent[n]))
    BY <1>1, FS_Interval
  <2> QED  BY <1>1, <2>1, FS_Subset
<1>3. 2 ^ Cardinality(times) \in Nat
  <2>1. IsFiniteSet(SUBSET times) /\ Cardinality(SUBSET times) = 2 ^ Cardinality(times)
    BY <1>2, FS_SUBSET
  <2>2. Cardinality(SUBSET times) \in Nat
    BY <2>1, FS_CardinalityType
  <2> QED  BY <2>1, <2>2
<1>4. sig.value * 2 ^ Cardinality(times) \in Nat
  <2>1. \A a, b \in Nat : a * b \in Nat
    OBVIOUS
  <2>2. sig.value \in Nat
    OBVIOUS
  <2> QED  BY <1>3, <2>1, <2>2
<1>5. E!SigValue(n, sig) = sig.value * 2 ^ Cardinality(times)
  BY SameCardinality DEF E!SigValue, times
<1> QED  BY <1>4, <1>5

\* A scan leaves a number and the signature of a node, or the cache as it was.
LEMMA LowestTyped ==
    ASSUME VoteTyped, NEW n \in Nodes, NEW found \in SUBSET [id : Nodes, value : Nat]
    PROVE  E!Lowest(n, found) \in [val : Nat \cup Id, sig : Id]
<1>1. cache[n] \in [val : Nat \cup Id, sig : Id]
  BY DEF VoteTyped
<1>2. CASE found = {}
  BY <1>1, <1>2 DEF E!Lowest
<1>3. CASE found # {}
  <2> DEFINE values == {E!SigValue(n, s) : s \in found}
             low == CHOOSE s \in found : \A t \in found : E!SigValue(n, s) <= E!SigValue(n, t)
  <2>1. \A s \in found : E!SigValue(n, s) \in Nat
    BY SigValueNat
  <2>2. \E x \in values : \A y \in values : x <= y
    <3>1. values \in SUBSET Nat /\ values # {}
      BY <1>3, <2>1
    <3> QED  BY <3>1, Least
  <2>3. \E s \in found : \A t \in found : E!SigValue(n, s) <= E!SigValue(n, t)
    BY <2>2
  <2>4. low \in found
    BY <2>3
  <2>5. E!Lowest(n, found) = IF E!SigValue(n, low) < cache[n].val
                             THEN [val |-> E!SigValue(n, low), sig |-> low.id] ELSE cache[n]
    BY <1>3 DEF E!Lowest
  <2>6. low.id \in Nodes /\ E!SigValue(n, low) \in Nat
    BY <2>1, <2>4
  <2> HIDE DEF low
  <2> QED  BY <1>1, <2>5, <2>6 DEF Id
<1> QED  BY <1>2, <1>3

\* While a node asks for votes, every other one is in the phase or has just
\* left it.
LEMMA AllVoting ==
    ASSUME LoopInv, NEW n \in Nodes, pc[n] = "ask", NEW p \in Nodes
    PROVE  Voting(p)
<1>1. state[n] = "LEADER" /\ OnTime(n)
  BY DEF LoopInv, Pinging
<1>2. CASE p = n
  BY <1>1, <1>2 DEF Voting
<1>3. CASE p # n
  <2> DEFINE r == Rounds(n)
             q == Rounds(p)
  <2>1. /\ pc[p] = "idle" /\ time[p] <= time[n] /\ time[n] <= time[p] + 1
        /\ OnTime(p) /\ state[p] \in {"MINING", "LEADER", "BLOCK"}
    BY <1>3 DEF LoopInv, Turns, Typed
  <2>2. /\ r \in Nat /\ q \in Nat /\ time[n] \in Nat /\ time[p] \in Nat
        /\ Cycle * r \in Nat /\ Cycle * q \in Nat
        /\ RoundsEnd(n) = Cycle * r /\ RoundsEnd(p) = Cycle * q
    BY RoundTypes, NextRound DEF LoopInv, RoundsEnd
  <2>3. /\ Cycle * r + BlockPeriod + 2 <= time[n] /\ time[n] <= Cycle * r + 2 * BlockPeriod + 1
    BY <1>1, <2>2, Periods DEF OnTime
  <2>4. /\ state[p] = "MINING" => Cycle * q <= time[p] /\ time[p] <= Cycle * q + BlockPeriod
        /\ state[p] = "LEADER" => /\ Cycle * q + BlockPeriod + 1 <= time[p]
                                  /\ time[p] <= Cycle * q + 2 * BlockPeriod
        /\ state[p] = "BLOCK" => /\ Cycle * q - BlockPeriod + 1 <= time[p]
                                 /\ time[p] < Cycle * q
    BY <2>1, <2>2, Periods DEF OnTime
  <2>5. /\ q < r => Cycle * q + Cycle <= Cycle * r
        /\ r < q => Cycle * r + Cycle <= Cycle * q
    BY <2>2, LaterRound
  <2> HIDE DEF r, q
  <2>6. CASE q < r
    BY <2>6, <2>1, <2>2, <2>3, <2>4, <2>5, Periods
  <2>7. CASE q = r
    BY <2>7, <2>1, <2>2, <2>3, <2>4, Periods DEF Voting
  <2>8. CASE r < q
    BY <2>8, <2>1, <2>2, <2>3, <2>4, <2>5, Periods DEF Voting
  <2> QED  BY <2>2, <2>6, <2>7, <2>8
<1> QED  BY <1>2, <1>3

-----------------------------------------------------------------------------
(* The end of the vote *)

\* The node n records s as the leader of its round, and may create a block.
Closes(n, s) ==
    /\ winning' = [winning EXCEPT ![n] = Append(@, s)]
    /\ chain' = chain \/ \E b \in N!Block : chain' = [chain EXCEPT ![n] = Append(@, b)]
    /\ mempool' \in [Nodes -> N!Pool]

\* It creates the block of the round if it is the leader, and everybody has the
\* same leader.
Records(n, s) ==
    /\ Closes(n, s)
    /\ \A m \in Nodes : Rounds(m) > Rounds(n) => winning[m][Rounds(n) + 1] = s
    /\ IF s = n
       THEN \E b \in N!Block :
               /\ b.height = Height(n) + 1 /\ b.parent = N!HashAt(chain[n], Height(n)) /\ b.miner = n
               /\ b.stamp = Rounds(n) + 1
               /\ chain' = [chain EXCEPT ![n] = Append(@, b)]
       ELSE chain' = chain

\* The block that a leader makes.
LEMMA BlockMade ==
    ASSUME LoopInv, NEW n \in Nodes, NEW nonce \in Nonces
    PROVE  LET b == N!NewBlock(n, nonce)
           IN  /\ b \in N!Block /\ b.height = Height(n) + 1 /\ b.data = N!BlockData(n)
               /\ b.parent = N!HashAt(chain[n], Height(n)) /\ b.miner = n
               /\ b.stamp = Rounds(n) + 1
<1> DEFINE b == N!NewBlock(n, nonce)
<1>1. /\ b = [height |-> Height(n) + 1, parent |-> N!HashAt(chain[n], Height(n)),
              data |-> N!BlockData(n), miner |-> n, stamp |-> Rounds(n) + 1, nonce |-> nonce]
      /\ Height(n) \in Nat /\ Rounds(n) \in Nat
  BY RoundTypes DEF LoopInv, N!NewBlock, Height, Rounds
<1>2. N!BlockData(n) \in N!Pool
  <2>1. mempool[n] \in [Txs -> N!Copy \cup {Nil}]
    BY DEF LoopInv, Typed, N!Pool
  <2> QED  BY <2>1 DEF N!BlockData, N!Pool
<1>3. N!HashAt(chain[n], Height(n)) \in (Nodes \cup {Nil}) \X Nat
  <2>1. CASE Height(n) = 0
    BY <2>1 DEF N!HashAt, N!GenesisHash
  <2>2. CASE Height(n) # 0
    <3>1. chain[n][Height(n)] \in N!Block
      BY <1>1, <2>2, RoundTypes DEF LoopInv
    <3> QED  BY <2>2, <3>1 DEF N!HashAt, N!Hash, N!Block
  <2> QED  BY <2>1, <2>2
<1>4. b \in N!Block
  BY <1>1, <1>2, <1>3 DEF N!Block
<1>5. /\ b.height = Height(n) + 1 /\ b.parent = N!HashAt(chain[n], Height(n)) /\ b.miner = n
      /\ b.data = N!BlockData(n) /\ b.stamp = Rounds(n) + 1
  BY <1>1
<1> QED  BY <1>4, <1>5

\* When all elections of a round have one outcome.
LEMMA Elects ==
    ASSUME LoopInv, NEW n \in Nodes, Close(n), E!After(n, 2), [U!Next]_(U!vars)
    PROVE  \E s \in Nodes : Records(n, s)
<1>1. state[n] = "LEADER" /\ state' = [state EXCEPT ![n] = "BLOCK"] /\ DOMAIN state = Nodes
  BY DEF Close, N!EndElection, LoopInv, Typed
<1>2. state'[n] = "BLOCK" /\ state' # state
  BY <1>1
<1>3. U!Next
  BY <1>2 DEF U!vars
<1>4. PICK k \in Nodes, w \in Nodes \cup {Nil}, s \in Nodes : U!EndElection(k, w, s)
  <2>1. PICK k \in Nodes :
          \/ \E t \in Txs : U!SendTransaction(k, t)
          \/ \E p \in Nodes : U!MempoolSync(k, p) \/ U!ChainSync(k, p) \/ U!VoteFails(k, p)
          \/ U!EndMining(k)
          \/ \E w \in Nodes \cup {Nil}, s \in Nodes : U!EndElection(k, w, s)
          \/ U!EndRound(k)
          \/ U!Exchange(k)
          \/ U!LinkFails(k) \/ U!ServerRaces(k)
    BY <1>3 DEF U!Next
  <2>2. ~ \E t \in Txs : U!SendTransaction(k, t)
    BY <1>2 DEF U!SendTransaction
  <2>3. ~ \E p \in Nodes : U!MempoolSync(k, p) \/ U!ChainSync(k, p) \/ U!VoteFails(k, p)
    BY <1>2 DEF U!MempoolSync, U!ChainSync, U!VoteFails
  <2>4. ~U!EndMining(k)
    <3> SUFFICES ASSUME state' = [state EXCEPT ![k] = "LEADER"] PROVE FALSE
      BY DEF U!EndMining
    <3> QED  BY <1>1, <1>2
  <2>5. ~U!EndRound(k)
    <3> SUFFICES ASSUME state' = [state EXCEPT ![k] = "MINING"] PROVE FALSE
      BY DEF U!EndRound
    <3> QED  BY <1>1, <1>2
  <2>6. ~U!Exchange(k)
    BY <1>2 DEF U!Exchange, U!ReceiveTransactions, U!ReceiveBlocks, U!AnswerMissing,
                U!AnswerBlock, U!DeadServer
  <2>7. ~(U!LinkFails(k) \/ U!ServerRaces(k))
    BY <1>2 DEF U!LinkFails, U!ServerRaces
  <2> QED  BY <2>1, <2>2, <2>3, <2>4, <2>5, <2>6, <2>7
<1>5. /\ state' = [state EXCEPT ![k] = "BLOCK"] /\ state[k] = "LEADER" /\ U!Elected(k, w, s)
      /\ \/ U!IsLeader(k, w) /\ U!CreateBlock(k)
         \/ ~U!IsLeader(k, w) /\ UNCHANGED <<chain, previous, mempool>>
      /\ winning' = U!RecordWinner(k, w, s)
  BY <1>4 DEF U!EndElection
<1>6. k = n
  BY <1>1, <1>5
<1>7. w = s /\ \A m \in Nodes : Rounds(m) > Rounds(n) => winning[m][Rounds(n) + 1] = s
  BY <1>5, <1>6 DEF U!Elected, Rounds
<1>8. winning' = [winning EXCEPT ![n] = Append(@, s)]
  BY <1>5, <1>6 DEF U!RecordWinner
<1>9. \/ /\ s = n
         /\ \E nonce \in Nonces : chain' = [chain EXCEPT ![n] = Append(@, U!NewBlock(n, nonce))]
         /\ mempool' = [mempool EXCEPT ![n] = [t \in Txs |-> Nil]]
      \/ s # n /\ chain' = chain /\ mempool' = mempool
  BY <1>5, <1>6, <1>7 DEF U!IsLeader, U!CreateBlock, U!ClearedMempool, U!NoTxs
<1>10. mempool' \in [Nodes -> N!Pool]
  <2>1. [t \in Txs |-> Nil] \in N!Pool /\ mempool \in [Nodes -> N!Pool]
    BY DEF N!Pool, LoopInv, Typed
  <2> QED  BY <1>9, <2>1
<1>11. s = n => \E b \in N!Block :
            /\ b.height = Height(n) + 1 /\ b.parent = N!HashAt(chain[n], Height(n)) /\ b.miner = n
            /\ b.stamp = Rounds(n) + 1
            /\ chain' = [chain EXCEPT ![n] = Append(@, b)]
  <2>1. \A nonce \in Nonces : U!NewBlock(n, nonce) = N!NewBlock(n, nonce)
    BY DEF U!NewBlock, N!NewBlock, U!BlockData, N!BlockData, U!HashAt, N!HashAt,
           U!GenesisHash, N!GenesisHash, U!Hash, N!Hash
  <2> QED  BY <1>9, <2>1, BlockMade
<1>12. Records(n, s)
  BY <1>7, <1>8, <1>9, <1>10, <1>11 DEF Records, Closes
<1> QED  BY <1>12

\* What is recorded keeps its types.
LEMMA RecordTypes ==
    ASSUME LoopInv, NEW n \in Nodes, NEW s \in Nodes, Closes(n, s)
    PROVE  /\ winning' \in [Nodes -> Seq(Nodes)] /\ chain' \in [Nodes -> Seq(N!Block)]
           /\ \A m \in Nodes \ {n} : winning'[m] = winning[m] /\ chain'[m] = chain[m]
           /\ winning'[n] = Append(winning[n], s) /\ Rounds(n)' = Rounds(n) + 1
           /\ winning'[n][Rounds(n) + 1] = s
           /\ \A h \in 1..Rounds(n) : winning'[n][h] = winning[n][h]
<1>1. winning \in [Nodes -> Seq(Nodes)] /\ chain \in [Nodes -> Seq(N!Block)]
  BY DEF LoopInv, Typed
<1>2. /\ winning' = [winning EXCEPT ![n] = Append(@, s)]
      /\ chain' = chain \/ \E b \in N!Block : chain' = [chain EXCEPT ![n] = Append(@, b)]
  BY DEF Closes
<1>3. winning[n] \in Seq(Nodes) /\ winning'[n] = Append(winning[n], s)
  BY <1>1, <1>2
<1>4. /\ Append(winning[n], s) \in Seq(Nodes) /\ Len(Append(winning[n], s)) = Len(winning[n]) + 1
      /\ Append(winning[n], s)[Len(winning[n]) + 1] = s
      /\ \A h \in 1..Len(winning[n]) : Append(winning[n], s)[h] = winning[n][h]
  BY <1>3
<1>5. winning' \in [Nodes -> Seq(Nodes)]
  BY <1>1, <1>2, <1>4
<1>6. chain' \in [Nodes -> Seq(N!Block)]
  <2>1. \A b \in N!Block : Append(chain[n], b) \in Seq(N!Block)
    BY <1>1
  <2> QED  BY <1>1, <1>2, <2>1
<1>7. \A m \in Nodes \ {n} : winning'[m] = winning[m] /\ chain'[m] = chain[m]
  BY <1>1, <1>2
<1> QED  BY <1>3, <1>4, <1>5, <1>6, <1>7 DEF Rounds

\* What a node does that ends the vote.
LEMMA VoteEnds ==
    ASSUME LoopInv, NEW n \in Nodes, Close(n), E!After(n, 2)
    PROVE  Closes(n, cache[n].sig)
<1>1. /\ \/ N!CreateBlock(n)
         \/ UNCHANGED <<chain, previous, mempool>>
      /\ winning' = [winning EXCEPT ![n] = Append(@, cache[n].sig)]
  BY DEF Close, N!EndElection, N!RecordWinner
<1>2. mempool \in [Nodes -> N!Pool] /\ [t \in Txs |-> Nil] \in N!Pool
  BY DEF LoopInv, Typed, N!Pool
<1>3. CASE N!CreateBlock(n)
  <2>1. /\ \E nonce \in Nonces : chain' = [chain EXCEPT ![n] = Append(@, N!NewBlock(n, nonce))]
        /\ mempool' = [mempool EXCEPT ![n] = [t \in Txs |-> Nil]]
    BY <1>3 DEF N!CreateBlock, N!ClearedMempool, N!NoTxs
  <2> QED  BY <1>1, <1>2, <2>1, BlockMade DEF Closes
<1> QED  BY <1>1, <1>2, <1>3 DEF Closes

LEMMA CloseLoop ==
    ASSUME LoopInv, VoteInv, NEW n \in Nodes, Close(n)
    PROVE  /\ LoopInv' /\ pc[n] # "idle" /\ pc'[n] = "idle" /\ state[n] = "LEADER"
           /\ left[n] = {} /\ request[n] = Nil
           /\ UNCHANGED <<time, rest, left, request>>
           /\ \A m \in Nodes \ {n} : SameAt(m)
           /\ \/ UNCHANGED <<state, winning, chain, mempool>>
              \/ /\ state'[n] = "BLOCK" /\ time[n] = RoundsEnd(n) + 2 * BlockPeriod + 1
                 /\ E!After(n, 2) /\ cache[n].sig \in Nodes /\ Closes(n, cache[n].sig)
<1>1. /\ pc[n] = "close" /\ pc' = [pc EXCEPT ![n] = "idle"] /\ UNCHANGED <<time, rest, left>>
      /\ \/ /\ E!After(n, 2) /\ state' = [state EXCEPT ![n] = "BLOCK"]
            /\ on' = [on EXCEPT ![n] = (on[n] \ {"vote"}) \cup {"chain"}]
         \/ /\ ~E!After(n, 2) /\ UNCHANGED <<state, winning, on, chain, mempool>>
      /\ request' = request
  BY DEF Close, E!Close, E!Done, E!Switched, N!EndElection, nodeVars
<1>2. /\ pc \in [Nodes -> {"idle", "ask", "run", "adopt", "close"}]
      /\ on \in [Nodes -> SUBSET {"mempool", "vote", "chain"}]
      /\ state \in [Nodes -> {"MINING", "LEADER", "BLOCK"}]
      /\ Rounds(n) \in Nat /\ RoundsEnd(n) \in Nat /\ time[n] \in Nat
  BY RoundTypes DEF LoopInv, Typed
<1>3. Turns' /\ pc'[n] = "idle"
  BY <1>1, WorkDone
<1>4. OnTime(n) /\ Pinging(n) /\ Typed
  BY DEF LoopInv
<1>5. state[n] = "LEADER" /\ left[n] = {} /\ request[n] = Nil
  BY <1>1, <1>4 DEF Pinging
<1>6. /\ E!Cycled(n) = time[n] - RoundsEnd(n) /\ BlockPeriod + 2 <= E!Cycled(n)
      /\ E!Cycled(n) <= 2 * BlockPeriod + 1
  BY <1>1, <1>4, <1>5, Due
<1>7. E!After(n, 2) <=> E!Cycled(n) = 2 * BlockPeriod + 1
  BY <1>2, <1>6, Periods DEF E!After
<1>8. \/ UNCHANGED <<state, winning, chain, mempool>> /\ on' = on /\ ~E!After(n, 2)
      \/ /\ state'[n] = "BLOCK" /\ E!After(n, 2)
         /\ cache[n].sig \in Nodes /\ Closes(n, cache[n].sig)
  <2>1. alive[n]
    BY DEF Close, E!Close, E!MyTurn
  <2>2. cache[n].sig \in Nodes
    BY <1>5, <2>1 DEF VoteInv, Signed, Voting
  <2> QED  BY <1>1, <1>2, <2>2, VoteEnds
<1>9. /\ winning' \in [Nodes -> Seq(Nodes)] /\ chain' \in [Nodes -> Seq(N!Block)]
      /\ mempool' \in [Nodes -> N!Pool]
      /\ \A m \in Nodes \ {n} : winning'[m] = winning[m]
      /\ state'[n] = "BLOCK" => Rounds(n)' = Rounds(n) + 1
  <2>1. CASE UNCHANGED <<state, winning, chain, mempool>>
    BY <1>5, <2>1 DEF LoopInv, Typed
  <2>2. CASE cache[n].sig \in Nodes /\ Closes(n, cache[n].sig)
    BY <2>2, RecordTypes DEF Closes
  <2> QED  BY <1>8, <2>1, <2>2
<1>10. Typed'
  <2>1. /\ pc' \in [Nodes -> {"idle", "ask", "run", "adopt", "close"}]
        /\ on' \in [Nodes -> SUBSET {"mempool", "vote", "chain"}]
        /\ state' \in [Nodes -> {"MINING", "LEADER", "BLOCK"}]
    BY <1>1, <1>2
  <2> QED  BY <1>1, <1>9, <2>1 DEF LoopInv, Typed
<1>11. \A m \in Nodes \ {n} : SameAt(m)
  BY <1>1, <1>2, <1>9 DEF SameAt
<1>12. OnTime(n)'
  <2>1. CASE state'[n] = "LEADER" /\ ~E!After(n, 2) /\ winning' = winning
    <3>1. RoundsEnd(n)' = RoundsEnd(n) /\ Rounds(n)' = Rounds(n) /\ time'[n] = time[n]
      BY <1>1, <2>1 DEF RoundsEnd, Rounds
    <3> QED  BY <1>2, <1>3, <1>6, <1>7, <2>1, <3>1, Periods DEF OnTime
  <2>2. CASE state'[n] = "BLOCK" /\ E!After(n, 2)
    <3>1. Rounds(n)' = Rounds(n) + 1 /\ time'[n] = time[n]
      BY <1>1, <1>9, <2>2
    <3>2. RoundsEnd(n)' = RoundsEnd(n) + Cycle
      BY <1>2, <3>1, NextRound, Periods DEF RoundsEnd
    <3> QED  BY <1>2, <1>3, <1>6, <1>7, <2>2, <3>1, <3>2, Periods DEF OnTime
  <2> QED  BY <1>5, <1>8, <2>1, <2>2
<1>13. Pinging(n)'
  <2>1. left'[n] = {} /\ request'[n] = Nil
    BY <1>1, <1>5
  <2>2. CASE state'[n] = "LEADER" /\ on'[n] = on[n]
    BY <1>3, <1>4, <1>5, <2>1, <2>2 DEF Pinging
  <2>3. CASE state'[n] = "BLOCK" /\ on'[n] = (on[n] \ {"vote"}) \cup {"chain"}
    BY <1>3, <1>4, <1>5, <2>1, <2>3 DEF Pinging
  <2> QED  BY <1>1, <1>2, <1>5, <2>2, <2>3
<1>14. E!After(n, 2) => time[n] = RoundsEnd(n) + 2 * BlockPeriod + 1
  BY <1>2, <1>6, <1>7, Periods
<1> QED  BY <1>1, <1>3, <1>5, <1>8, <1>10, <1>11, <1>12, <1>13, <1>14, OneNode

-----------------------------------------------------------------------------
(* The vote, action by action *)

\* What InHand and Signed say of a node is about these variables only.
SameVote(m) ==
    /\ time'[m] = time[m] /\ pc'[m] = pc[m] /\ state'[m] = state[m] /\ winning'[m] = winning[m]
    /\ candidate'[m] = candidate[m] /\ cache'[m] = cache[m] /\ votes'[m] = votes[m]
    /\ asking'[m] = asking[m] /\ reply'[m] = reply[m] /\ (alive'[m] => alive[m])

LEMMA FrameVote ==
    ASSUME NEW m \in Nodes, SameVote(m), InHand(m), Signed(m)
    PROVE  InHand(m)' /\ Signed(m)'
<1>1. E!Named(m)' = E!Named(m)
  BY DEF E!Named, SameVote
<1>2. InHand(m)'
  BY <1>1 DEF InHand, SameVote, E!NoReply
<1>3. Voting(m)' <=> Voting(m)
  BY DEF Voting, RoundsEnd, Rounds, SameVote
<1>4. Signed(m)'
  BY <1>3 DEF Signed, SameVote
<1> QED  BY <1>2, <1>4

LEMMA OneVoter ==
    ASSUME VoteInv, NEW n \in Nodes, VoteTyped', \A m \in Nodes \ {n} : SameVote(m),
           InHand(n)', Signed(n)'
    PROVE  VoteInv'
BY FrameVote DEF VoteInv

\* A step that leaves the vote alone.
LEMMA NoVote ==
    ASSUME VoteInv, UNCHANGED <<voteVars, state, winning>>, DOMAIN alive' = Nodes,
           \A m \in Nodes : alive'[m] => alive[m]
    PROVE  VoteInv'
<1>1. UNCHANGED <<time, pc, candidate, cache, votes, recent, asking, reply>>
  BY DEF voteVars
<1>2. VoteTyped'
  BY <1>1 DEF VoteInv, VoteTyped
<1>3. \A m \in Nodes : SameVote(m)
  BY <1>1 DEF SameVote
<1> QED  BY <1>2, <1>3, FrameVote DEF VoteInv

LEMMA BeginVotes ==
    ASSUME LoopInv, VoteInv, NEW n \in Nodes, Begin(n)
    PROVE  VoteInv'
<1>1. /\ pc[n] = "idle" /\ time' = [time EXCEPT ![n] = @ + 1]
      /\ UNCHANGED <<state, candidate, cache, votes, recent, winning, reply, alive>>
      /\ \/ asking' = [asking EXCEPT ![n] = Peers[n]] /\ pc' = [pc EXCEPT ![n] = "ask"]
         \/ asking' = asking /\ pc' = [pc EXCEPT ![n] = "run"]
  BY DEF Begin, E!Begin, E!Goto, E!lead, E!up
<1>2. /\ DOMAIN pc = Nodes /\ DOMAIN time = Nodes /\ asking \in [Nodes -> SUBSET Nodes]
      /\ Peers[n] \subseteq Nodes
  BY SystemAssumption DEF LoopInv, Typed, VoteInv, VoteTyped
<1>3. VoteTyped'
  <2>1. asking' \in [Nodes -> SUBSET Nodes]
    BY <1>1, <1>2
  <2> QED  BY <1>1, <2>1 DEF VoteInv, VoteTyped
<1>4. \A m \in Nodes \ {n} : SameVote(m)
  BY <1>1, <1>2 DEF SameVote
<1>5. pc'[n] \in {"ask", "run"}
  BY <1>1, <1>2
<1>6. InHand(n)'
  <2>1. reply[n] = E!NoReply
    BY <1>1 DEF VoteInv, InHand
  <2> QED  BY <1>1, <1>5, <2>1 DEF InHand, E!NoReply
<1>7. Signed(n)'
  <2>1. Voting(n)' => Voting(n)
    BY <1>1, <1>5 DEF Voting
  <2> QED  BY <1>1, <2>1 DEF VoteInv, Signed
<1> QED  BY <1>3, <1>4, <1>6, <1>7, OneVoter

\* A vote is fetched, or all have come in. No request for one fails.
LEMMA VoteVotes ==
    ASSUME LoopInv, VoteInv, NEW n \in Nodes, Vote(n)
    PROVE  VoteInv' /\ UNCHANGED <<nodeVars, state, winning, alive, server>>
<1>0. VoteTyped /\ InHand(n) /\ Signed(n) /\ DOMAIN pc = Nodes
  BY DEF VoteInv, LoopInv, Typed
<1>1. ASSUME NEW p \in Nodes, E!AskVote(n, p)
      PROVE  VoteInv' /\ UNCHANGED <<nodeVars, state, winning, alive, server>>
  <2>1. /\ pc[n] = "ask" /\ p \in asking[n]
        /\ reply' = [reply EXCEPT ![n] = [peer |-> p, vote |-> candidate[p]]]
        /\ UNCHANGED <<time, pc, state, candidate, cache, votes, recent, winning, asking, alive, server>>
    BY <1>1 DEF E!AskVote, E!step, E!lead, E!up
  <2>2. candidate[p] \in Id /\ DOMAIN reply = Nodes
    BY <1>0 DEF VoteTyped
  <2>3. VoteTyped'
    BY <1>0, <2>1 DEF VoteTyped
  <2>4. \A m \in Nodes \ {n} : SameVote(m)
    BY <2>1, <2>2 DEF SameVote
  <2>5. InHand(n)'
    <3>1. reply'[n] = [peer |-> p, vote |-> candidate[p]]
      BY <2>1, <2>2
    <3> QED  BY <2>1, <2>2, <3>1 DEF InHand
  <2>6. Signed(n)'
    BY <1>0, <2>1 DEF Signed, Voting, RoundsEnd, Rounds
  <2> QED  BY <2>1, <2>3, <2>4, <2>5, <2>6, OneVoter DEF Vote
<1>2. ASSUME E!GetVote(n)
      PROVE  VoteInv' /\ UNCHANGED <<nodeVars, state, winning, alive, server>>
  <2> DEFINE p == reply[n].peer
             vote == [vote |-> reply[n].vote, sig |-> cache[p].sig]
  <2>1. pc[n] = "ask" /\ p \in asking[n] /\ reply[n].vote \in Id /\ p \in Nodes
    BY <1>0, <1>2 DEF E!GetVote, InHand, VoteTyped
  <2>2. alive[p]
    BY <1>2, <2>1 DEF E!GetVote, E!MyTurn
  <2>3. cache[p].sig \in Nodes /\ cache[p].sig # Nil
    BY <2>1, <2>2, AllVoting, SystemAssumption DEF VoteInv, Signed
  <2>4. /\ votes' = [votes EXCEPT ![n] = Append(@, vote)]
        /\ asking' = [asking EXCEPT ![n] = @ \ {p}]
        /\ reply' = [reply EXCEPT ![n] = E!NoReply]
        /\ UNCHANGED <<time, pc, state, candidate, cache, recent, winning, alive, server>>
    BY <1>2, <2>3 DEF E!GetVote, E!up, E!step
  <2>5. vote \in [vote : Id, sig : Nodes]
    BY <2>1, <2>3
  <2> HIDE DEF p, vote
  <2>6. VoteTyped'
    <3>1. Append(votes[n], vote) \in Seq([vote : Id, sig : Nodes])
      <4>1. votes[n] \in Seq([vote : Id, sig : Nodes])
        BY <1>0 DEF VoteTyped
      <4> QED  BY <2>5, <4>1
    <3>2. votes' \in [Nodes -> Seq([vote : Id, sig : Nodes])]
      BY <1>0, <2>4, <3>1 DEF VoteTyped
    <3>3. asking' \in [Nodes -> SUBSET Nodes] /\ DOMAIN reply' = Nodes
      BY <1>0, <2>4 DEF VoteTyped
    <3> QED  BY <1>0, <2>4, <3>2, <3>3 DEF VoteTyped
  <2>7. \A m \in Nodes \ {n} : SameVote(m)
    BY <1>0, <2>4 DEF SameVote, VoteTyped
  <2>8. InHand(n)'
    <3>1. reply'[n] = E!NoReply /\ pc'[n] = "ask"
      BY <1>0, <2>1, <2>4 DEF VoteTyped
    <3> QED  BY <3>1 DEF InHand, E!NoReply
  <2>9. Signed(n)'
    BY <1>0, <2>4 DEF Signed, Voting, RoundsEnd, Rounds
  <2> QED  BY <2>4, <2>6, <2>7, <2>8, <2>9, OneVoter DEF Vote
<1>3. ASSUME E!VotesIn(n)
      PROVE  VoteInv' /\ UNCHANGED <<nodeVars, state, winning, alive, server>>
  <2>1. /\ asking[n] = {} /\ pc[n] = "ask" /\ pc' = [pc EXCEPT ![n] = "run"]
        /\ UNCHANGED <<time, state, candidate, cache, votes, recent, winning, asking, reply, alive, server>>
    BY <1>3 DEF E!VotesIn, E!Goto, E!lead, E!up
  <2>2. VoteTyped'
    BY <1>0, <2>1 DEF VoteTyped
  <2>3. \A m \in Nodes \ {n} : SameVote(m)
    BY <1>0, <2>1 DEF SameVote
  <2>4. pc'[n] = "run" /\ reply[n] = E!NoReply
    BY <1>0, <2>1 DEF InHand
  <2>5. InHand(n)'
    BY <2>1, <2>4 DEF InHand, E!NoReply
  <2>6. Signed(n)'
    BY <1>0, <2>1, <2>4 DEF Signed, Voting, RoundsEnd, Rounds
  <2> QED  BY <2>1, <2>2, <2>3, <2>5, <2>6, OneVoter DEF Vote
<1>4. UNCHANGED nodeVars
  BY DEF Vote
<1> QED  BY <1>1, <1>2, <1>3, <1>4 DEF Vote

\* The scan, and the end of the MINING phase: without a signature a node raises.
LEMMA MineVotes ==
    ASSUME LoopInv, VoteInv, NEW n \in Nodes, RunMining(n)
    PROVE  VoteInv'
<1>0. /\ VoteTyped /\ InHand(n) /\ DOMAIN pc = Nodes /\ DOMAIN state = Nodes /\ Typed
      /\ state[n] = "MINING"
  BY DEF VoteInv, LoopInv, Typed, RunMining, E!MineWith
<1> DEFINE low == E!Lowest(n, Fresh(n))
<1>1. /\ pc[n] = "run" /\ pc' = [pc EXCEPT ![n] = "idle"]
      /\ cache' = [cache EXCEPT ![n] = low]
      /\ \/ state' = state /\ UNCHANGED <<candidate, alive>>
         \/ /\ state' = [state EXCEPT ![n] = "LEADER"]
            /\ \/ low.sig = Nil /\ alive' = [alive EXCEPT ![n] = FALSE] /\ UNCHANGED candidate
               \/ low.sig # Nil /\ candidate' = [candidate EXCEPT ![n] = low.sig] /\ UNCHANGED alive
      /\ UNCHANGED <<time, votes, recent, winning, asking, reply>>
  <2>1. /\ pc[n] = "run" /\ pc' = [pc EXCEPT ![n] = "idle"]
        /\ cache' = [cache EXCEPT ![n] = low]
        /\ UNCHANGED <<time, votes, recent, winning, asking, reply>>
        /\ \/ UNCHANGED <<state, candidate, alive>>
           \/ /\ state' = [state EXCEPT ![n] = "LEADER"]
              /\ IF cache'[n].sig = Nil
                 THEN alive' = [alive EXCEPT ![n] = FALSE] /\ UNCHANGED candidate
                 ELSE candidate' = [candidate EXCEPT ![n] = cache'[n].sig] /\ UNCHANGED alive
    BY DEF RunMining, E!MineWith, E!Done
  <2>2. cache'[n] = low
    BY <1>0, <2>1 DEF VoteTyped
  <2> HIDE DEF low
  <2> QED  BY <2>1, <2>2
<1>2. low \in [val : Nat \cup Id, sig : Id]
  BY <1>0, FreshSignatures, LowestTyped
<1> HIDE DEF low
<1>3. low.sig \in Id /\ (low.sig # Nil => low.sig \in Nodes)
  BY <1>2 DEF Id
<1>4. VoteTyped'
  <2>1. cache' \in [Nodes -> [val : Nat \cup Id, sig : Id]]
    BY <1>0, <1>1, <1>2 DEF VoteTyped
  <2>2. candidate' \in [Nodes -> Id]
    BY <1>0, <1>1, <1>3 DEF VoteTyped
  <2>3. DOMAIN alive' = Nodes
    BY <1>0, <1>1 DEF VoteTyped
  <2> QED  BY <1>0, <1>1, <2>1, <2>2, <2>3 DEF VoteTyped
<1>5. \A m \in Nodes \ {n} : SameVote(m)
  BY <1>0, <1>1 DEF SameVote, VoteTyped
<1>6. pc'[n] = "idle" /\ cache'[n] = low
  BY <1>0, <1>1 DEF VoteTyped
<1>7. InHand(n)'
  <2>1. reply[n] = E!NoReply
    BY <1>0, <1>1 DEF InHand
  <2> QED  BY <1>1, <1>6, <2>1 DEF InHand, E!NoReply
<1>8. Signed(n)'
  <2>1. CASE state' = state
    BY <1>0, <2>1 DEF Signed, Voting
  <2>2. CASE low.sig = Nil /\ alive' = [alive EXCEPT ![n] = FALSE]
    BY <1>0, <2>2 DEF Signed, VoteTyped
  <2>3. CASE low.sig # Nil
    BY <1>3, <1>6, <2>3 DEF Signed
  <2> QED  BY <1>1, <2>1, <2>2, <2>3
<1> QED  BY <1>4, <1>5, <1>7, <1>8, OneVoter

\* Votes are counted and the outcome is adopted.
LEMMA CountVotes ==
    ASSUME LoopInv, VoteInv, NEW n \in Nodes, Count(n)
    PROVE  VoteInv' /\ UNCHANGED <<nodeVars, state, winning, alive, server>>
<1>0. VoteTyped /\ InHand(n) /\ Signed(n) /\ DOMAIN pc = Nodes
  BY DEF VoteInv, LoopInv, Typed
<1>1. CASE E!Tally(n)
  <2>1. /\ pc[n] = "run" /\ state[n] = "LEADER"
        /\ \/ /\ Len(votes[n]) = NumNeighbours /\ votes' = votes
              /\ candidate' = [candidate EXCEPT ![n] = E!Favourite(n)]
              /\ pc' = [pc EXCEPT ![n] = "adopt"]
           \/ /\ votes' = votes \/ votes' = [votes EXCEPT ![n] = <<>>]
              /\ candidate' = candidate /\ pc' = [pc EXCEPT ![n] = "close"]
        /\ UNCHANGED <<time, state, cache, recent, winning, asking, reply, alive, server>>
    BY <1>1 DEF E!Tally, E!Complete, E!Goto, E!pings, E!up
  <2>2. Len(votes[n]) = NumNeighbours => E!Favourite(n) \in E!Named(n) /\ E!Favourite(n) \in Id
    <3>1. Len(votes[n]) = NumNeighbours => Len(votes[n]) > 0
      BY SystemAssumption
    <3> QED  BY <1>0, <3>1, FavouriteNamed, FirstVoteFor
  <2>3. VoteTyped'
    <3>1. <<>> \in Seq([vote : Id, sig : Nodes])
      OBVIOUS
    <3>2. votes' \in [Nodes -> Seq([vote : Id, sig : Nodes])] /\ candidate' \in [Nodes -> Id]
      <4>1. votes \in [Nodes -> Seq([vote : Id, sig : Nodes])] /\ candidate \in [Nodes -> Id]
        BY <1>0 DEF VoteTyped
      <4>2. votes' \in [Nodes -> Seq([vote : Id, sig : Nodes])]
        <5>1. votes' = votes \/ votes' = [votes EXCEPT ![n] = <<>>]
          BY <2>1
        <5> QED  BY <3>1, <4>1, <5>1
      <4>3. candidate' \in [Nodes -> Id]
        <5>1. candidate' = candidate \/ \E w \in Id : candidate' = [candidate EXCEPT ![n] = w]
          BY <2>1, <2>2
        <5> QED  BY <4>1, <5>1
      <4> QED  BY <4>2, <4>3
    <3> QED  BY <1>0, <2>1, <3>2 DEF VoteTyped
  <2>4. \A m \in Nodes \ {n} : SameVote(m)
    BY <1>0, <2>1 DEF SameVote, VoteTyped
  <2>5. InHand(n)'
    <3>1. reply'[n] = E!NoReply
      BY <1>0, <2>1 DEF InHand
    <3>2. CASE pc' = [pc EXCEPT ![n] = "close"]
      <4>1. pc'[n] = "close"
        BY <1>0, <3>2
      <4> QED  BY <3>1, <4>1 DEF InHand, E!NoReply
    <3>3. CASE /\ Len(votes[n]) = NumNeighbours /\ votes' = votes
               /\ candidate' = [candidate EXCEPT ![n] = E!Favourite(n)]
      <4>1. E!Named(n)' = E!Named(n)
        BY <3>3 DEF E!Named
      <4>2. candidate'[n] = E!Favourite(n)
        BY <1>0, <3>3 DEF VoteTyped
      <4> QED  BY <2>2, <3>1, <3>3, <4>1, <4>2 DEF InHand, E!NoReply
    <3> QED  BY <2>1, <3>2, <3>3
  <2>6. Signed(n)'
    BY <1>0, <2>1 DEF Signed, Voting
  <2> QED  BY <2>1, <2>3, <2>4, <2>5, <2>6, OneVoter DEF Count
<1>2. CASE E!Adopt(n)
  <2> DEFINE new == [val |-> candidate[n], sig |-> votes[n][E!FirstVote(n, candidate[n])].sig]
  <2>1. /\ pc[n] = "adopt" /\ pc' = [pc EXCEPT ![n] = "close"]
        /\ cache' = [cache EXCEPT ![n] = new] /\ votes' = [votes EXCEPT ![n] = <<>>]
        /\ UNCHANGED <<time, state, candidate, recent, winning, asking, reply, alive, server>>
    BY <1>2 DEF E!Adopt, E!Adopted, E!Goto, E!pings, E!up
  <2>2. candidate[n] \in E!Named(n)
    BY <1>0, <2>1 DEF InHand
  <2>3. new \in [val : Nat \cup Id, sig : Id] /\ new.sig \in Nodes
    BY <1>0, <2>2, FirstVoteFor DEF Id
  <2> HIDE DEF new
  <2>4. VoteTyped'
    <3>1. <<>> \in Seq([vote : Id, sig : Nodes])
      OBVIOUS
    <3>2. /\ votes' \in [Nodes -> Seq([vote : Id, sig : Nodes])]
          /\ cache' \in [Nodes -> [val : Nat \cup Id, sig : Id]]
      BY <1>0, <2>1, <2>3, <3>1 DEF VoteTyped
    <3> QED  BY <1>0, <2>1, <3>2 DEF VoteTyped
  <2>5. \A m \in Nodes \ {n} : SameVote(m)
    BY <1>0, <2>1 DEF SameVote, VoteTyped
  <2>6. pc'[n] = "close" /\ cache'[n] = new /\ reply'[n] = E!NoReply
    BY <1>0, <2>1 DEF VoteTyped, InHand
  <2>7. InHand(n)'
    BY <2>6 DEF InHand, E!NoReply
  <2>8. Signed(n)'
    BY <2>3, <2>6 DEF Signed
  <2> QED  BY <2>1, <2>4, <2>5, <2>7, <2>8, OneVoter DEF Count
<1> QED  BY <1>1, <1>2 DEF Count

LEMMA CloseVotes ==
    ASSUME LoopInv, VoteInv, NEW n \in Nodes, Close(n)
    PROVE  VoteInv'
<1>0. VoteTyped /\ InHand(n) /\ Signed(n) /\ DOMAIN pc = Nodes /\ DOMAIN state = Nodes
      /\ DOMAIN winning = Nodes
  BY DEF VoteInv, LoopInv, Typed
<1>1. /\ pc[n] = "close" /\ pc' = [pc EXCEPT ![n] = "idle"] /\ alive[n]
      /\ \/ UNCHANGED <<state, recent, winning>>
         \/ /\ state' = [state EXCEPT ![n] = "BLOCK"]
            /\ recent' = [recent EXCEPT ![n] = E!WithLeader(recent[n], candidate[n])]
            /\ winning' = [winning EXCEPT ![n] = Append(@, cache[n].sig)]
      /\ UNCHANGED <<time, candidate, cache, votes, asking, reply, alive>>
  BY DEF Close, E!Close, E!Done, E!MyTurn, E!up
<1>2. E!WithLeader(recent[n], candidate[n]) \in Seq(Id)
  <2> DEFINE leaders == recent[n]
             kept == IF Len(leaders) = MaxRecentLeaders THEN Tail(leaders) ELSE leaders
  <2>1. leaders \in Seq(Id) /\ candidate[n] \in Id
    BY <1>0 DEF VoteTyped
  <2>2. Len(leaders) = MaxRecentLeaders => leaders # <<>>
    BY <2>1, SystemAssumption
  <2> HIDE DEF leaders
  <2>3. kept \in Seq(Id)
    BY <2>1, <2>2
  <2> HIDE DEF kept
  <2>4. Append(kept, candidate[n]) \in Seq(Id)
    BY <2>1, <2>3
  <2> QED  BY <2>4 DEF E!WithLeader, kept, leaders
<1>3. VoteTyped'
  <2>1. recent' \in [Nodes -> Seq(Id)]
    <3>1. recent \in [Nodes -> Seq(Id)]
      BY <1>0 DEF VoteTyped
    <3>2. recent' = recent \/ recent' = [recent EXCEPT ![n] = E!WithLeader(recent[n], candidate[n])]
      BY <1>1
    <3> QED  BY <1>2, <3>1, <3>2
  <2> QED  BY <1>0, <1>1, <2>1 DEF VoteTyped
<1>4. \A m \in Nodes \ {n} : SameVote(m)
  BY <1>0, <1>1 DEF SameVote
<1>5. pc'[n] = "idle" /\ reply'[n] = E!NoReply
  BY <1>0, <1>1 DEF InHand
<1>6. InHand(n)'
  BY <1>5 DEF InHand, E!NoReply
<1>7. cache'[n].sig \in Nodes
  <2>1. state[n] = "LEADER"
    BY <1>1 DEF LoopInv, Pinging
  <2> QED  BY <1>0, <1>1, <2>1 DEF Signed, Voting
<1> QED  BY <1>3, <1>4, <1>6, <1>7, OneVoter DEF Signed

LEMMA BlockVotes ==
    ASSUME LoopInv, VoteInv, NEW n \in Nodes, RunBlock(n)
    PROVE  VoteInv'
<1>0. /\ VoteTyped /\ InHand(n) /\ DOMAIN pc = Nodes /\ DOMAIN state = Nodes /\ Typed
      /\ OnTime(n) /\ Nil \in Id /\ Inf \in Nat
  BY SystemAssumption DEF VoteInv, LoopInv, Typed, Id
<1>1. /\ pc[n] = "run" /\ state[n] = "BLOCK" /\ pc' = [pc EXCEPT ![n] = "idle"]
      /\ cache' = [cache EXCEPT ![n] = [val |-> Inf, sig |-> Nil]]
      /\ candidate' = [candidate EXCEPT ![n] = Nil]
      /\ state' = state \/ state' = [state EXCEPT ![n] = "MINING"]
      /\ UNCHANGED <<time, votes, recent, winning, asking, reply, alive>>
  BY DEF RunBlock, E!RunBlock, E!Done, E!ResetCache, E!NoSignature, E!up
<1>2. VoteTyped'
  <2>1. [val |-> Inf, sig |-> Nil] \in [val : Nat \cup Id, sig : Id]
    BY <1>0
  <2>2. cache' \in [Nodes -> [val : Nat \cup Id, sig : Id]] /\ candidate' \in [Nodes -> Id]
    BY <1>0, <1>1, <2>1 DEF VoteTyped
  <2> QED  BY <1>0, <1>1, <2>2 DEF VoteTyped
<1>3. \A m \in Nodes \ {n} : SameVote(m)
  BY <1>0, <1>1 DEF SameVote, VoteTyped
<1>4. pc'[n] = "idle" /\ reply'[n] = E!NoReply
  BY <1>0, <1>1 DEF InHand
<1>5. InHand(n)'
  BY <1>4 DEF InHand, E!NoReply
<1>6. ~Voting(n)'
  <2>1. /\ state'[n] \in {"BLOCK", "MINING"} /\ time'[n] = time[n] /\ RoundsEnd(n)' = RoundsEnd(n)
    BY <1>0, <1>1 DEF RoundsEnd, Rounds
  <2>2. time[n] \in Nat /\ RoundsEnd(n) \in Nat /\ time[n] - RoundsEnd(n) + BlockPeriod >= 2
    BY <1>0, <1>1, RoundTypes, Periods DEF OnTime
  <2>3. ~(time[n] = RoundsEnd(n) - BlockPeriod + 1)
    BY <2>2, Periods
  <2> QED  BY <2>1, <2>3 DEF Voting
<1> QED  BY <1>2, <1>3, <1>5, <1>6, OneVoter DEF Signed

-----------------------------------------------------------------------------
(* The exchanges *)

\* While a node has the turn nobody else is in an exchange.
LEMMA Alone ==
    ASSUME LoopInv, NEW n \in Nodes, Order[turn] = n \/ pc[n] # "idle" \/ request[n] # Nil
    PROVE  \A m \in Nodes \ {n} : request[m] = Nil /\ pc[m] = "idle"
<1>1. Order[turn] = n
  BY DEF LoopInv, Turns, Pinging
<1>2. ASSUME NEW m \in Nodes \ {n} PROVE request[m] = Nil /\ pc[m] = "idle"
  <2>1. pc[m] = "idle"
    BY <1>1 DEF LoopInv, Turns
  <2> QED  BY <2>1 DEF LoopInv, Pinging
<1> QED  BY <1>2

\* So a step of a node that has the turn is about its own request only.
LEMMA OneRequest ==
    ASSUME LoopInv, NEW n \in Nodes, Order[turn] = n \/ pc[n] # "idle" \/ request[n] # Nil,
           \A m \in Nodes \ {n} : request'[m] = request[m], Requested(n)'
    PROVE  RequestInv'
<1>1. ASSUME NEW m \in Nodes \ {n} PROVE Requested(m)'
  BY <1>1, Alone DEF Requested
<1> QED  BY <1>1 DEF RequestInv

\* The node at work leaves the requests, the chains and the mempools alone.
LEMMA SameRequests ==
    ASSUME RequestInv, UNCHANGED <<request, chain, mempool>>
    PROVE  RequestInv'
BY DEF RequestInv, Requested, N!Held

\* What the node at work gets from its peer: all of this happens while nobody
\* else moves.
Answered(n) ==
    /\ request[n] # Nil
    /\ UNCHANGED <<time, pc, turn, on, rest, left, winning, state>>
    /\ DOMAIN request' = Nodes /\ \A m \in Nodes \ {n} : request'[m] = request[m]

LEMMA AnsweredLoop ==
    ASSUME LoopInv, NEW n \in Nodes, Answered(n),
           chain' \in [Nodes -> Seq(N!Block)], mempool' \in [Nodes -> N!Pool]
    PROVE  LoopInv' /\ pc[n] = "run" /\ \A m \in Nodes \ {n} : SameAt(m)
<1>1. pc[n] = "run" /\ state[n] # "LEADER"
  BY DEF LoopInv, Pinging, Answered
<1>2. Typed'
  BY DEF LoopInv, Typed, Answered
<1>3. \A m \in Nodes \ {n} : SameAt(m)
  BY DEF SameAt, Answered
<1>4. Pinging(n)'
  BY <1>1 DEF LoopInv, Pinging, Answered
<1> QED  BY <1>1, <1>2, <1>3, <1>4, QuietLoop DEF Quiet, Answered

\* What every answer to n is.
LEMMA Answers ==
    ASSUME LoopInv, RequestInv, NEW n \in Nodes, Exchange(n)
    PROVE  /\ Answered(n) /\ UNCHANGED <<sent, checked>>
           /\ request' = [request EXCEPT ![n] = request'[n]]
           /\ Requested(n) /\ chain \in [Nodes -> Seq(N!Block)] /\ mempool \in [Nodes -> N!Pool]
<1>1. /\ Requested(n) /\ chain \in [Nodes -> Seq(N!Block)] /\ mempool \in [Nodes -> N!Pool]
      /\ DOMAIN request = Nodes
  BY DEF LoopInv, Typed, RequestInv
<1>2. /\ UNCHANGED <<time, pc, turn, on, rest, left, winning, state, sent, checked>>
      /\ request[n] # Nil
      /\ \E q : request' = [request EXCEPT ![n] = q]
  BY DEF Exchange, N!ReceiveTransactions, N!ReceiveBlocks, N!AnswerMissing, N!AnswerBlock, voteVars
<1> QED  BY <1>1, <1>2 DEF Answered

\* The peer has what it has offered, so that no server thread ends.
LEMMA MissingAnswered ==
    ASSUME LoopInv, RequestInv, NEW n \in Nodes, NEW p \in Nodes, N!AnswerMissing(n, p)
    PROVE  /\ request'[n] \in [kind : {"txs"}, peer : Nodes, txs : N!Pool]
           /\ UNCHANGED <<chain, mempool, alive, server>>
<1> DEFINE ids == request[n].ids
           txs == [t \in Txs |-> IF t \in ids THEN N!SignedFor(mempool[p][t], p, n) ELSE Nil]
<1>1. /\ request[n] # Nil /\ request[n].kind = "missing" /\ request[n].peer = p
      /\ Requested(n) /\ DOMAIN request = Nodes /\ mempool[p] \in [Txs -> N!Copy \cup {Nil}]
  BY DEF N!AnswerMissing, LoopInv, Typed, RequestInv, N!Pool
<1>2. ids \subseteq N!Held(mempool[p])
  BY <1>1 DEF Requested
<1>3. /\ request' = [request EXCEPT ![n] = [kind |-> "txs", peer |-> p, txs |-> txs]]
      /\ UNCHANGED <<chain, mempool, alive, server>>
  BY <1>2 DEF N!AnswerMissing
<1>4. txs \in N!Pool
  <2>1. \A t \in ids : t \in Txs /\ mempool[p][t] \in N!Copy
    BY <1>1, <1>2 DEF N!Held
  <2>2. \A c \in N!Copy : N!SignedFor(c, p, n) \in N!Copy
    <3> SUFFICES ASSUME NEW c \in N!Copy PROVE N!SignedFor(c, p, n) \in N!Copy
      OBVIOUS
    <3>1. [id |-> p, relayer |-> n] \in N!Entry
      BY DEF N!Entry
    <3>2. c.sigs \in Seq(N!Entry) /\ c.completed \in BOOLEAN
      BY DEF N!Copy
    <3>3. Append(c.sigs, [id |-> p, relayer |-> n]) \in Seq(N!Entry)
      BY <3>1, <3>2
    <3> QED  BY <3>2, <3>3 DEF N!SignedFor, N!AddSignature, N!Copy
  <2>3. \A t \in Txs : txs[t] \in N!Copy \cup {Nil}
    BY <2>1, <2>2
  <2> QED  BY <2>3 DEF N!Pool
<1> HIDE DEF txs
<1> QED  BY <1>1, <1>3, <1>4

\* The mempool keeps copies of transactions, with signatures of robots.
LEMMA TransactionsReceived ==
    ASSUME LoopInv, RequestInv, NEW n \in Nodes, N!ReceiveTransactions(n)
    PROVE  /\ request'[n] = Nil /\ mempool' \in [Nodes -> N!Pool]
           /\ UNCHANGED <<chain, alive, server>>
<1> DEFINE txs == request[n].txs
<1>1. /\ request[n] # Nil /\ request[n].kind = "txs" /\ Requested(n) /\ DOMAIN request = Nodes
      /\ mempool \in [Nodes -> N!Pool]
      /\ mempool' = [mempool EXCEPT ![n] = N!SyncMempool(n, txs)]
      /\ request' = [request EXCEPT ![n] = Nil] /\ UNCHANGED <<chain, alive, server>>
  BY DEF N!ReceiveTransactions, LoopInv, Typed, RequestInv
<1>2. txs \in [Txs -> N!Copy \cup {Nil}] /\ mempool[n] \in [Txs -> N!Copy \cup {Nil}]
  BY <1>1 DEF Requested, N!Pool
<1>3. \A c \in N!Copy : [c EXCEPT !.completed = TRUE] \in N!Copy
  BY DEF N!Copy
<1> HIDE DEF txs
<1>4. N!SyncMempool(n, txs) \in [Txs -> N!Copy \cup {Nil}]
  BY <1>2, <1>3 DEF N!SyncMempool
<1> QED  BY <1>1, <1>4 DEF N!Pool

\* The window of hashes ends below the height that n asks from, and the
\* genesis block is common to all.
LEMMA WindowOf ==
    ASSUME LoopInv, NEW n \in Nodes, NEW p \in Nodes, NEW below \in 1..(Len(chain[n]) + 1)
    PROVE  LET heights == N!Window(n, below)
               common  == N!Common(n, p, heights)
           IN  /\ heights \subseteq 0..(below - 1) /\ heights # {}
               /\ N!Lowest(heights) \in heights
               /\ common \subseteq heights
               /\ common # {} => N!Highest(common) \in common
               /\ common = {} => 0 \notin heights
<1> DEFINE heights == N!Window(n, below)
           common  == N!Common(n, p, heights)
<1>1. /\ Len(chain[n]) \in Nat /\ Len(chain[p]) \in Nat /\ HashWindow \in Nat \ {0}
      /\ below \in Nat /\ below - 1 \in Nat
  BY SystemAssumption DEF LoopInv, Typed
<1>2. heights \subseteq 0..(below - 1) /\ below - 1 \in heights
  BY <1>1 DEF N!Window
<1>3. common \subseteq heights /\ (0 \in heights => 0 \in common)
  <2>1. N!HeaderAt(chain[n], 0) = N!HeaderAt(chain[p], 0)
    BY DEF N!HeaderAt
  <2> QED  BY <1>1, <2>1 DEF N!Common
<1> HIDE DEF heights, common
<1>4. N!Lowest(heights) \in heights
  <2>1. heights \in SUBSET Nat
    BY <1>1, <1>2
  <2>2. \E h \in heights : \A i \in heights : h <= i
    BY <1>2, <2>1, Least
  <2> QED  BY <2>2 DEF N!Lowest
<1>5. common # {} => N!Highest(common) \in common
  <2> SUFFICES ASSUME common # {} PROVE N!Highest(common) \in common
    OBVIOUS
  <2> DEFINE above == {below - 1 - h : h \in common}
  <2>1. \A h \in common : h \in 0..(below - 1)
    BY <1>2, <1>3
  <2>2. above \in SUBSET Nat /\ above # {}
    BY <1>1, <2>1
  <2>3. \E x \in above : \A y \in above : x <= y
    BY <2>2, Least
  <2>4. PICK h \in common : \A i \in common : below - 1 - h <= below - 1 - i
    BY <2>3
  <2>5. ASSUME NEW i \in common PROVE i <= h
    <3>1. below - 1 - h <= below - 1 - i /\ i \in Int /\ h \in Int /\ below \in Int
      BY <1>1, <2>1, <2>4
    <3> QED  BY <3>1
  <2> QED  BY <2>5 DEF N!Highest
<1> QED  BY <1>2, <1>3, <1>4, <1>5 DEF heights, common

\* The blocks that the peer sends go on top of one that n has.
LEMMA BlocksAnswered ==
    ASSUME LoopInv, RequestInv, NEW n \in Nodes, NEW p \in Nodes, N!AnswerBlock(n, p)
    PROVE  Requested(n)' /\ UNCHANGED <<chain, mempool, alive, server>>
<1> DEFINE heights == N!Window(n, request[n].below)
           common  == N!Common(n, p, heights)
<1>1. /\ request[n] # Nil /\ request[n].kind = "block" /\ request[n].peer = p
      /\ Requested(n) /\ DOMAIN request = Nodes /\ UNCHANGED <<chain, mempool, alive, server>>
      /\ chain[p] \in Seq(N!Block) /\ Len(chain[n]) \in Nat
  BY DEF N!AnswerBlock, LoopInv, Typed, RequestInv
<1>2. request[n] \in [kind : {"block"}, peer : Nodes, below : 1..(Len(chain[n]) + 1)]
  BY <1>1 DEF Requested
<1>3. request[n].below \in 1..(Len(chain[n]) + 1)
  BY <1>2
<1>4. /\ heights \subseteq 0..(request[n].below - 1) /\ N!Lowest(heights) \in heights
      /\ common \subseteq heights /\ (common # {} => N!Highest(common) \in common)
      /\ (common = {} => 0 \notin heights)
  BY <1>3, WindowOf
<1>5. \/ request' = [request EXCEPT ![n] = Nil]
      \/ common = {} /\ request' = [request EXCEPT ![n].below = N!Lowest(heights)]
      \/ common # {} /\ request' = [request EXCEPT ![n] =
              [kind |-> "blocks", peer |-> p, height |-> N!Highest(common),
               blocks |-> SubSeq(chain[p], N!Highest(common) + 1, Len(chain[p]))]]
  BY DEF N!AnswerBlock, N!RetryBelow
<1> HIDE DEF heights, common
<1>6. CASE request' = [request EXCEPT ![n] = Nil]
  BY <1>1, <1>6 DEF Requested
<1>7. CASE common = {} /\ request' = [request EXCEPT ![n].below = N!Lowest(heights)]
  <2> DEFINE below == N!Lowest(heights)
  <2>1. below \in 1..(Len(chain[n]) + 1)
    <3>1. below \in 0..(request[n].below - 1) /\ below # 0
      BY <1>4, <1>7
    <3> HIDE DEF below
    <3> QED  BY <1>1, <1>3, <3>1
  <2>2. request'[n] = [request[n] EXCEPT !.below = below]
    BY <1>1, <1>7
  <2> HIDE DEF below
  <2>3. request'[n] \in [kind : {"block"}, peer : Nodes, below : 1..(Len(chain[n]) + 1)]
    BY <1>2, <2>1, <2>2
  <2> QED  BY <1>1, <2>3 DEF Requested
<1>8. CASE common # {} /\ request' = [request EXCEPT ![n] =
              [kind |-> "blocks", peer |-> p, height |-> N!Highest(common),
               blocks |-> SubSeq(chain[p], N!Highest(common) + 1, Len(chain[p]))]]
  <2> DEFINE h == N!Highest(common)
             bs == SubSeq(chain[p], h + 1, Len(chain[p]))
  <2>1. h \in 0..Len(chain[n])
    <3>1. h \in 0..(request[n].below - 1)
      BY <1>4, <1>8
    <3> HIDE DEF h
    <3> QED  BY <1>1, <1>3, <3>1
  <2>2. request'[n] = [kind |-> "blocks", peer |-> p, height |-> h, blocks |-> bs]
    BY <1>1, <1>8
  <2> HIDE DEF h
  <2>3. bs \in Seq(N!Block)
    BY <1>1, <2>1
  <2> HIDE DEF bs
  <2>4. request'[n] \in [kind : {"blocks"}, peer : Nodes, height : 0..Len(chain[n]), blocks : Seq(N!Block)]
    BY <2>1, <2>2, <2>3
  <2> QED  BY <1>1, <2>4 DEF Requested
<1> QED  BY <1>1, <1>5, <1>6, <1>7, <1>8

\* A copy from the blocks that have one.
LEMMA CopyFromBlocks ==
    ASSUME NEW bs \in Seq(N!Block), NEW t \in N!IdsIn(bs)
    PROVE  t \in Txs /\ N!CopyIn(bs, t) \in N!Copy
<1>1. \A i \in DOMAIN bs : bs[i].data \in [Txs -> N!Copy \cup {Nil}]
  <2>1. \A i \in DOMAIN bs : bs[i] \in N!Block
    OBVIOUS
  <2> QED  BY <2>1 DEF N!Block, N!Pool
<1>2. PICK j \in DOMAIN bs : t \in N!Held(bs[j].data)
  BY DEF N!IdsIn
<1>3. t \in Txs /\ bs[j].data[t] # Nil
  BY <1>2 DEF N!Held
<1> DEFINE i == CHOOSE k \in DOMAIN bs : bs[k].data[t] # Nil
<1>4. i \in DOMAIN bs /\ bs[i].data[t] # Nil
  BY <1>3
<1>5. bs[i].data[t] \in N!Copy
  BY <1>1, <1>3, <1>4
<1> QED  BY <1>3, <1>5 DEF N!CopyIn

\* Chain and mempool after sync_chain.
LEMMA BlocksReceived ==
    ASSUME LoopInv, RequestInv, NEW n \in Nodes, N!ReceiveBlocks(n)
    PROVE  /\ request'[n] = Nil /\ chain' \in [Nodes -> Seq(N!Block)]
           /\ mempool' \in [Nodes -> N!Pool] /\ server' = server
<1> DEFINE h  == request[n].height
           bs == request[n].blocks
<1>1. /\ request[n] # Nil /\ request[n].kind = "blocks" /\ Requested(n) /\ DOMAIN request = Nodes
      /\ chain \in [Nodes -> Seq(N!Block)] /\ mempool \in [Nodes -> N!Pool]
      /\ request' = [request EXCEPT ![n] = Nil] /\ server' = server
      /\ N!Insert(n, h, bs) \/ UNCHANGED <<chain, mempool>>
  BY DEF N!ReceiveBlocks, LoopInv, Typed, RequestInv
<1>2. h \in 0..Len(chain[n]) /\ bs \in Seq(N!Block) /\ chain[n] \in Seq(N!Block)
  BY <1>1 DEF Requested
<1> HIDE DEF h, bs
<1>3. SubSeq(chain[n], 1, h) \o bs \in Seq(N!Block) /\ N!Discarded(n, h) \in Seq(N!Block)
  <2>1. SubSeq(chain[n], 1, h) \in Seq(N!Block) /\ N!Discarded(n, h) \in Seq(N!Block)
    BY <1>2 DEF N!Discarded
  <2> QED  BY <1>2, <2>1
<1>4. N!SyncedMempool(n, h, bs) \in [Txs -> N!Copy \cup {Nil}]
  <2>1. mempool[n] \in [Txs -> N!Copy \cup {Nil}]
    BY <1>1 DEF N!Pool
  <2>2. \A t \in Txs : t \in N!IdsIn(N!Discarded(n, h)) => N!CopyIn(N!Discarded(n, h), t) \in N!Copy
    BY <1>3, CopyFromBlocks
  <2> QED  BY <2>1, <2>2 DEF N!SyncedMempool
<1>5. CASE N!Insert(n, h, bs)
  BY <1>1, <1>3, <1>4, <1>5 DEF N!Insert, N!Pool
<1> QED  BY <1>1, <1>5

\* An exchange keeps the loop going and ends no server thread.
LEMMA ExchangeLoop ==
    ASSUME LoopInv, RequestInv, NEW n \in Nodes, Exchange(n)
    PROVE  LoopInv' /\ RequestInv' /\ server' = server
<1>1. /\ chain' \in [Nodes -> Seq(N!Block)] /\ mempool' \in [Nodes -> N!Pool] /\ server' = server
      /\ Requested(n)'
  <2>0. chain \in [Nodes -> Seq(N!Block)] /\ mempool \in [Nodes -> N!Pool]
    BY DEF LoopInv, Typed
  <2>1. CASE N!ReceiveTransactions(n)
    BY <2>0, <2>1, TransactionsReceived DEF Requested
  <2>2. CASE N!ReceiveBlocks(n)
    BY <2>2, BlocksReceived DEF Requested
  <2>3. ASSUME NEW p \in Nodes, N!AnswerMissing(n, p)
        PROVE  /\ chain' \in [Nodes -> Seq(N!Block)] /\ mempool' \in [Nodes -> N!Pool]
               /\ server' = server /\ Requested(n)'
    BY <2>0, <2>3, MissingAnswered DEF Requested
  <2>4. ASSUME NEW p \in Nodes, N!AnswerBlock(n, p)
        PROVE  /\ chain' \in [Nodes -> Seq(N!Block)] /\ mempool' \in [Nodes -> N!Pool]
               /\ server' = server /\ Requested(n)'
    BY <2>0, <2>4, BlocksAnswered
  <2> QED  BY <2>1, <2>2, <2>3, <2>4 DEF Exchange
<1>2. Answered(n)
  BY Answers
<1>3. LoopInv'
  BY <1>1, <1>2, AnsweredLoop
<1>4. RequestInv'
  BY <1>1, <1>2, OneRequest DEF Answered
<1> QED  BY <1>1, <1>3, <1>4

\* A new request is for what the peer has offered.
LEMMA AskRequests ==
    ASSUME LoopInv, RequestInv, NEW n \in Nodes, NEW p \in Nodes, Ask(n, p)
    PROVE  RequestInv' /\ server' = server
<1>1. /\ DOMAIN request = Nodes /\ Len(chain[n]) \in Nat /\ Requested(n)
  BY DEF LoopInv, Typed, RequestInv
<1>2. pc[n] = "run" /\ UNCHANGED <<chain, mempool, server>>
  BY DEF Ask, Offer, N!MempoolSync, N!ChainSync, nodeVars
<1>3. \/ request' = request
      \/ request' = [request EXCEPT ![n] =
             [kind |-> "missing", peer |-> p, ids |-> N!FindMissing(n, mempool[p])]]
      \/ request' = [request EXCEPT ![n] = [kind |-> "block", peer |-> p, below |-> Len(chain[n]) + 1]]
  BY DEF Ask, Offer, N!MempoolSync, N!ChainSync, nodeVars
<1>4. CASE request' = request
  BY <1>2, <1>4, SameRequests
<1>5. CASE request' = [request EXCEPT ![n] =
             [kind |-> "missing", peer |-> p, ids |-> N!FindMissing(n, mempool[p])]]
  <2>1. N!FindMissing(n, mempool[p]) \subseteq N!Held(mempool[p]) /\ N!Held(mempool[p]) \subseteq Txs
    BY DEF N!FindMissing, N!Held
  <2>2. request'[n] = [kind |-> "missing", peer |-> p, ids |-> N!FindMissing(n, mempool[p])]
    BY <1>1, <1>5
  <2>3. N!Held(mempool[p])' = N!Held(mempool[p])
    BY <1>2 DEF N!Held
  <2>4. Requested(n)'
    BY <1>2, <2>1, <2>2, <2>3 DEF Requested
  <2> QED  BY <1>2, <1>5, <2>4, OneRequest
<1>6. CASE request' = [request EXCEPT ![n] = [kind |-> "block", peer |-> p, below |-> Len(chain[n]) + 1]]
  <2>1. request'[n] \in [kind : {"block"}, peer : Nodes, below : 1..(Len(chain[n]) + 1)]
    BY <1>1, <1>6
  <2>2. Requested(n)'
    BY <1>2, <2>1 DEF Requested
  <2> QED  BY <1>2, <1>6, <2>2, OneRequest
<1> QED  BY <1>2, <1>3, <1>4, <1>5, <1>6

-----------------------------------------------------------------------------
(* The chains *)

\* Where a node at work in its BLOCK phase stands, the others are in that phase
\* or have just left it.
LEMMA Together ==
    ASSUME LoopInv, NEW n \in Nodes, pc[n] # "idle", state[n] = "BLOCK", NEW m \in Nodes
    PROVE  Rounds(m) = Rounds(n) /\ state[m] # "LEADER"
<1> DEFINE r == Rounds(n)
           q == Rounds(m)
<1>1. CASE m = n
  BY <1>1
<1>2. CASE m # n
  <2>1. /\ pc[m] = "idle" /\ time[m] <= time[n] /\ time[n] <= time[m] + 1
        /\ OnTime(n) /\ OnTime(m) /\ state[m] \in {"MINING", "LEADER", "BLOCK"}
    BY <1>2 DEF LoopInv, Turns, Typed
  <2>2. /\ r \in Nat /\ q \in Nat /\ time[n] \in Nat /\ time[m] \in Nat
        /\ Cycle * r \in Nat /\ Cycle * q \in Nat
        /\ RoundsEnd(n) = Cycle * r /\ RoundsEnd(m) = Cycle * q
    BY RoundTypes, NextRound DEF LoopInv, RoundsEnd
  <2>3. /\ Cycle * r - BlockPeriod + 2 <= time[n] /\ time[n] <= Cycle * r /\ r > 0
    BY <2>1, <2>2, Periods DEF OnTime
  <2>4. /\ state[m] = "MINING" => Cycle * q <= time[m] /\ time[m] <= Cycle * q + BlockPeriod
        /\ state[m] = "LEADER" => /\ Cycle * q + BlockPeriod + 1 <= time[m]
                                  /\ time[m] <= Cycle * q + 2 * BlockPeriod
        /\ state[m] = "BLOCK" => /\ Cycle * q - BlockPeriod + 1 <= time[m]
                                 /\ time[m] < Cycle * q
    BY <2>1, <2>2, Periods DEF OnTime
  <2>5. /\ q < r => Cycle * q + Cycle <= Cycle * r
        /\ r < q => Cycle * r + Cycle <= Cycle * q
    BY <2>2, LaterRound
  <2> HIDE DEF r, q
  <2>6. q = r
    <3>1. ASSUME q < r PROVE FALSE
      BY <3>1, <2>1, <2>2, <2>3, <2>4, <2>5, Periods
    <3>2. ASSUME r < q PROVE FALSE
      BY <3>2, <2>1, <2>2, <2>3, <2>4, <2>5, Periods
    <3> QED  BY <2>2, <3>1, <3>2
  <2>7. state[m] # "LEADER"
    BY <2>1, <2>2, <2>3, <2>4, <2>6, Periods
  <2> QED  BY <2>6, <2>7 DEF r, q
<1> QED  BY <1>1, <1>2

\* A chain that stays as it is, while others grow and winners are recorded.
LEMMA StillStacked ==
    ASSUME Typed, NEW n \in Nodes, Stacked(n), chain'[n] = chain[n], Height(n) <= Rounds(n),
           \A m \in Nodes : Len(chain'[m]) \in Nat /\ Len(chain[m]) <= Len(chain'[m]),
           \A h \in 1..Rounds(n) : winning'[n][h] = winning[n][h]
    PROVE  Stacked(n)'
<1>1. ASSUME NEW h \in DOMAIN chain[n]
      PROVE  /\ chain[n][h].miner = winning'[n][h] /\ chain[n][h].height = h
             /\ chain[n][h].parent = N!HashAt(chain[n], h - 1) /\ chain[n][h].stamp = h
             /\ h <= Len(chain'[winning'[n][h]])
  <2>1. /\ h \in 1..Rounds(n) /\ winning[n][h] \in Nodes /\ winning'[n][h] = winning[n][h]
    <3>1. /\ Rounds(n) \in Nat /\ Height(n) \in Nat /\ DOMAIN chain[n] = 1..Height(n)
          /\ \A i \in 1..Rounds(n) : winning[n][i] \in Nodes
      BY RoundTypes
    <3>2. h \in 1..Rounds(n)
      BY <3>1
    <3> QED  BY <3>1, <3>2
  <2>2. /\ chain[n][h].miner = winning[n][h] /\ chain[n][h].height = h
        /\ chain[n][h].parent = N!HashAt(chain[n], h - 1) /\ chain[n][h].stamp = h
        /\ h <= Len(chain[winning[n][h]])
    BY DEF Stacked, Height
  <2> DEFINE w == winning[n][h]
  <2>3. /\ Len(chain[w]) \in Nat /\ Len(chain'[w]) \in Nat /\ Len(chain[w]) <= Len(chain'[w])
        /\ h \in Nat
    BY <2>1, RoundTypes DEF Height
  <2>4. h <= Len(chain[w])
    BY <2>2
  <2> HIDE DEF w
  <2>5. h <= Len(chain'[w])
    BY <2>3, <2>4
  <2> QED  BY <2>1, <2>2, <2>5 DEF w
<1> QED  BY <1>1 DEF Stacked, Height, N!HashAt, N!Hash, N!GenesisHash

\* A chain that a block of its winner is put on.
LEMMA GrowsStacked ==
    ASSUME Typed, NEW n \in Nodes, Stacked(n), Height(n) <= Rounds(n), NEW b \in N!Block,
           chain'[n] = Append(chain[n], b), winning'[n] \in Seq(Nodes),
           \A m \in Nodes : Len(chain'[m]) \in Nat /\ Len(chain[m]) <= Len(chain'[m]),
           \A h \in 1..Rounds(n) : winning'[n][h] = winning[n][h],
           b.height = Height(n) + 1, b.parent = N!HashAt(chain[n], Height(n)),
           b.stamp = Height(n) + 1, b.miner = winning'[n][Height(n) + 1],
           Height(n) + 1 <= Len(chain'[winning'[n][Height(n) + 1]])
    PROVE  Stacked(n)'
<1>1. /\ Height(n) \in Nat /\ Rounds(n) \in Nat /\ DOMAIN chain[n] = 1..Height(n)
      /\ chain[n] \in Seq(N!Block)
  BY RoundTypes DEF Typed
<1>2. /\ DOMAIN chain'[n] = 1..(Height(n) + 1) /\ chain'[n][Height(n) + 1] = b
      /\ \A h \in 1..Height(n) : chain'[n][h] = chain[n][h]
  BY <1>1 DEF Height
<1>3. \A h \in 0..Height(n) : N!HashAt(chain'[n], h) = N!HashAt(chain[n], h)
  <2> SUFFICES ASSUME NEW h \in 0..Height(n)
               PROVE  N!HashAt(chain'[n], h) = N!HashAt(chain[n], h)
    OBVIOUS
  <2>1. h # 0 => chain'[n][h] = chain[n][h]
    BY <1>1, <1>2
  <2> QED  BY <2>1 DEF N!HashAt
<1>4. ASSUME NEW h \in DOMAIN chain'[n]
      PROVE  /\ chain'[n][h].miner = winning'[n][h] /\ chain'[n][h].height = h
             /\ chain'[n][h].parent = N!HashAt(chain'[n], h - 1) /\ chain'[n][h].stamp = h
             /\ h <= Len(chain'[winning'[n][h]])
  <2>1. CASE h \in 1..Height(n)
    <3>1. /\ chain'[n][h] = chain[n][h] /\ h - 1 \in 0..Height(n) /\ h \in DOMAIN chain[n]
          /\ h \in 1..Rounds(n) /\ h \in Nat
      BY <1>1, <1>2, <2>1
    <3>2. /\ chain[n][h].miner = winning[n][h] /\ chain[n][h].height = h
          /\ chain[n][h].parent = N!HashAt(chain[n], h - 1) /\ chain[n][h].stamp = h
          /\ h <= Len(chain[winning[n][h]])
      BY <3>1 DEF Stacked, Height
    <3>3. winning[n][h] \in Nodes /\ winning'[n][h] = winning[n][h]
      BY <3>1, RoundTypes
    <3> DEFINE w == winning[n][h]
    <3>4. /\ Len(chain[w]) \in Nat /\ Len(chain'[w]) \in Nat /\ Len(chain[w]) <= Len(chain'[w])
      BY <3>3, RoundTypes DEF Height
    <3>5. h <= Len(chain[w])
      BY <3>2
    <3> HIDE DEF w
    <3>6. h <= Len(chain'[w])
      BY <3>1, <3>4, <3>5
    <3> QED  BY <1>3, <3>1, <3>2, <3>3, <3>6 DEF w
  <2>2. CASE h = Height(n) + 1
    <3>1. h - 1 = Height(n) /\ Height(n) \in 0..Height(n)
      BY <1>1, <2>2
    <3> QED  BY <1>2, <1>3, <2>2, <3>1
  <2> QED  BY <1>1, <1>2, <1>4, <2>1, <2>2
<1> QED  BY <1>4 DEF Stacked, Height, N!HashAt, N!Hash, N!GenesisHash

\* A block that every chain as high as its own has too.
LEMMA OneBlockMore ==
    ASSUME Typed, OneHistory, NEW n \in Nodes, NEW b \in N!Block,
           chain' = [chain EXCEPT ![n] = Append(@, b)],
           \A m \in Nodes \ {n} : Height(n) < Height(m) => chain[m][Height(n) + 1] = b
    PROVE  \A m, o \in Nodes : \A h \in DOMAIN chain'[m] \cap DOMAIN chain'[o] :
               chain'[m][h] = chain'[o][h]
<1>1. /\ chain \in [Nodes -> Seq(N!Block)]
      /\ \A m \in Nodes : Height(m) \in Nat /\ DOMAIN chain[m] = 1..Height(m)
  BY RoundTypes DEF Typed
<1>2. /\ chain'[n] = Append(chain[n], b) /\ chain[n] \in Seq(N!Block)
      /\ \A m \in Nodes \ {n} : chain'[m] = chain[m]
  BY <1>1
<1>3. /\ DOMAIN chain'[n] = 1..(Height(n) + 1) /\ chain'[n][Height(n) + 1] = b
      /\ \A h \in 1..Height(n) : chain'[n][h] = chain[n][h]
  BY <1>1, <1>2 DEF Height
<1>4. \A m, o \in Nodes : \A h \in DOMAIN chain[m] \cap DOMAIN chain[o] : chain[m][h] = chain[o][h]
  BY DEF OneHistory
<1>5. ASSUME NEW m \in Nodes \ {n}, NEW h \in DOMAIN chain'[n] \cap DOMAIN chain'[m]
      PROVE  chain'[n][h] = chain'[m][h]
  <2>1. CASE h \in 1..Height(n)
    BY <1>1, <1>2, <1>3, <1>4, <1>5, <2>1
  <2>2. CASE h = Height(n) + 1
    BY <1>1, <1>2, <1>3, <1>5, <2>2
  <2> QED  BY <1>1, <1>3, <1>5, <2>1, <2>2
<1>6. ASSUME NEW m \in Nodes, NEW o \in Nodes, NEW h \in DOMAIN chain'[m] \cap DOMAIN chain'[o]
      PROVE  chain'[m][h] = chain'[o][h]
  <2>1. CASE m = n /\ o # n
    BY <1>5, <1>6, <2>1
  <2>2. CASE o = n /\ m # n
    <3>1. chain'[n][h] = chain'[m][h]
      BY <1>5, <1>6, <2>2
    <3> QED  BY <2>2, <3>1
  <2>3. CASE m # n /\ o # n
    BY <1>2, <1>4, <1>6, <2>3
  <2> QED  BY <2>1, <2>2, <2>3
<1> QED  BY <1>6

LEMMA SameChains ==
    ASSUME LoopInv, ChainInv, NEW n \in Nodes, UNCHANGED <<chain, winning, state>>,
           \A m \in Nodes \ {n} : SameAt(m), Asked(n)', Catching(n)'
    PROVE  ChainInv'
<1>1. OneHistory'
  BY DEF ChainInv, OneHistory
<1>2. ASSUME NEW m \in Nodes PROVE Chained(m)'
  BY DEF ChainInv, Chained, Stacked, Lags, Height, Rounds, N!HashAt, N!Hash, N!GenesisHash
<1>3. ASSUME NEW m \in Nodes, m # n PROVE Asked(m)' /\ Catching(m)'
  <2>1. SameAt(m) /\ Asked(m) /\ Catching(m)
    BY <1>3 DEF ChainInv
  <2>2. /\ Lags(m)' = Lags(m) /\ Rounds(m)' = Rounds(m) /\ Elapsed(m)' = Elapsed(m)
        /\ \A o : Height(o)' = Height(o)
    BY <2>1 DEF Lags, Height, Rounds, Elapsed, RoundsEnd, SameAt
  <2>3. Asked(m)'
    BY <2>1, <2>2 DEF Asked, SameAt
  <2>4. Catching(m)'
    BY <2>1, <2>2 DEF Catching, SameAt
  <2> QED  BY <2>3, <2>4
<1> QED  BY <1>1, <1>2, <1>3 DEF ChainInv

\* Nothing of this is about votes or transactions that are sent.
LEMMA SendChains ==
    ASSUME LoopInv, ChainInv, NEW n \in Nodes, NEW t \in Txs, SendTransaction(n, t)
    PROVE  ChainInv'
<1>1. UNCHANGED <<time, pc, on, rest, left, chain, winning, state, request>>
  BY DEF SendTransaction, N!SendTransaction, voteVars
<1>2. \A m \in Nodes \ {n} : SameAt(m)
  BY <1>1 DEF SameAt
<1>3. Asked(n)' /\ Catching(n)'
  BY <1>1 DEF ChainInv, Asked, Catching, Lags, Height, Rounds, Elapsed, RoundsEnd
<1> QED  BY <1>1, <1>2, <1>3, SameChains

LEMMA VoteChains ==
    ASSUME LoopInv, ChainInv, NEW n \in Nodes, Vote(n) \/ Count(n)
    PROVE  ChainInv'
<1>1. /\ pc'[n] = "idle" <=> pc[n] = "idle"
      /\ UNCHANGED <<time, chain, state, winning, request, rest, left>>
      /\ \A m \in Nodes \ {n} : SameAt(m)
  BY VoteLoop
<1>2. Asked(n)'
  BY <1>1 DEF ChainInv, Asked, Lags, Height, Rounds
<1>3. Catching(n)'
  BY <1>1 DEF ChainInv, Catching, Lags, Height, Rounds, Elapsed, RoundsEnd
<1> QED  BY <1>1, <1>2, <1>3, SameChains

\* The leader of its round is not a node that lags.
LEMMA Lagging ==
    ASSUME LoopInv, ChainInv, NEW n \in Nodes, Lags(n)
    PROVE  /\ state[n] = "BLOCK" /\ Height(n) + 1 = Rounds(n)
           /\ winning[n][Rounds(n)] \in Nodes \ {n} /\ Rounds(n) \in DOMAIN winning[n]
<1>1. Chained(n) /\ Rounds(n) \in Nat /\ Height(n) \in Nat
  BY RoundTypes DEF LoopInv, ChainInv
<1>2. /\ state[n] = "BLOCK" /\ Height(n) + 1 = Rounds(n) /\ winning[n][Rounds(n)] # n
  BY <1>1 DEF Chained, Lags
<1>3. Rounds(n) \in 1..Rounds(n)
  BY <1>1, <1>2
<1> QED  BY <1>2, <1>3, RoundTypes DEF LoopInv

LEMMA BeginChains ==
    ASSUME Meshed, LoopInv, ChainInv, NEW n \in Nodes, Begin(n)
    PROVE  ChainInv'
<1>1. /\ Starts(n) /\ pc[n] = "idle" /\ pc'[n] # "idle" /\ time'[n] = time[n] + 1
      /\ UNCHANGED <<chain, request, state, winning>> /\ LoopInv'
      /\ \A m \in Nodes \ {n} : SameAt(m)
  BY BeginLoop
<1>2. Asked(n)'
  BY <1>1 DEF ChainInv, Asked, Lags, Height, Rounds
<1>3. Catching(n)'
  <2> SUFFICES ASSUME Lags(n) PROVE Catching(n)'
    BY <1>1 DEF Catching, Lags, Height, Rounds
  <2>1. /\ state[n] = "BLOCK" /\ winning[n][Rounds(n)] \in Nodes \ {n}
    BY Lagging
  <2>2. rest[n]["chain"] + Elapsed(n) <= SyncInterval
    BY <1>1 DEF ChainInv, Catching
  <2>3. /\ rest \in [Nodes -> [{"mempool", "chain"} -> 0..SyncInterval]]
        /\ left \in [Nodes -> SUBSET Nodes] /\ SyncInterval \in Nat
        /\ on[n] = {"chain"} /\ time[n] \in Nat /\ RoundsEnd(n) \in Nat
    BY <2>1, RoundTypes, SystemAssumption DEF LoopInv, Typed, Pinging
  <2>4. Syncing(n) = {"chain"}
    BY <2>3 DEF Syncing
  <2>5. rest[n] \in [{"mempool", "chain"} -> 0..SyncInterval] /\ rest[n]["chain"] \in Nat
    BY <2>3
  <2>6. CASE rest[n]["chain"] = 0
    <3>1. left'[n] = Peers[n]
      BY <1>1, <2>3, <2>4, <2>6 DEF Starts
    <3>2. winning[n][Rounds(n)] \in left'[n]
      BY <2>1, <3>1 DEF Meshed
    <3> QED  BY <1>1, <3>2 DEF Catching, Rounds
  <2>7. CASE rest[n]["chain"] > 0
    <3>1. left'[n] = {}
      BY <1>1, <2>3, <2>4, <2>7 DEF Starts
    <3>2. rest'[n]["chain"] = rest[n]["chain"] - 1
      <4>1. rest'[n] = [k \in DOMAIN rest[n] |->
                   IF k \in Syncing(n) /\ rest[n][k] > 0 THEN rest[n][k] - 1 ELSE rest[n][k]]
        BY <1>1, <2>3 DEF Starts
      <4>2. "chain" \in DOMAIN rest[n] /\ "chain" \in Syncing(n)
        BY <2>4, <2>5
      <4> QED  BY <4>1, <4>2, <2>7
    <3>3. Elapsed(n)' = Elapsed(n) + 1 /\ Elapsed(n) \in Int
      <4>1. RoundsEnd(n)' = RoundsEnd(n)
        BY <1>1 DEF RoundsEnd, Rounds
      <4> QED  BY <1>1, <2>3, <4>1, Periods DEF Elapsed
    <3>4. rest'[n]["chain"] + Elapsed(n)' <= SyncInterval
      BY <2>2, <2>3, <2>5, <3>2, <3>3
    <3> QED  BY <3>1, <3>4 DEF Catching
  <2> QED  BY <2>5, <2>6, <2>7
<1> QED  BY <1>1, <1>2, <1>3, SameChains

\* The last blocks of two chains of different lengths were stamped in different
\* rounds, so their headers differ.
LEMMA HigherDiffers ==
    ASSUME LoopInv, ChainInv, NEW n \in Nodes, NEW p \in Nodes, Height(n) < Height(p)
    PROVE  N!HeaderOfLast(n) # N!HeaderOfLast(p)
<1>1. ASSUME NEW m \in Nodes PROVE N!HeaderOfLast(m)[3] = Height(m) /\ Height(m) \in Nat
  <2>1. Height(m) \in Nat /\ DOMAIN chain[m] = 1..Height(m) /\ Stacked(m)
    BY RoundTypes DEF LoopInv, ChainInv, Chained
  <2>2. CASE Height(m) = 0
    <3>1. N!HeaderOfLast(m) = N!GenesisHeader
      BY <2>2 DEF N!HeaderOfLast, N!HeaderAt, Height
    <3> QED  BY <2>1, <2>2, <3>1 DEF N!GenesisHeader
  <2>3. CASE Height(m) # 0
    <3>1. N!HeaderOfLast(m) = N!HeaderHash(chain[m][Height(m)])
      BY <2>3 DEF N!HeaderOfLast, N!HeaderAt, Height
    <3>2. chain[m][Height(m)].stamp = Height(m)
      BY <2>1, <2>3 DEF Stacked
    <3> QED  BY <2>1, <3>1, <3>2 DEF N!HeaderHash
  <2> QED  BY <2>2, <2>3
<1> QED  BY <1>1

\* Among the peers that a node which lags asks is the leader, who has the block.
LEMMA AskChains ==
    ASSUME LoopInv, ChainInv, NEW n \in Nodes, NEW p \in Nodes, Ask(n, p)
    PROVE  ChainInv'
<1>1. /\ LoopInv' /\ pc[n] = "run" /\ p \in left[n] /\ request[n] = Nil
      /\ left' = [left EXCEPT ![n] = @ \ {p}]
      /\ UNCHANGED <<time, pc, chain, state, winning>>
      /\ \A m \in Nodes \ {n} : SameAt(m)
  BY AskLoop
<1>2. DOMAIN request = Nodes /\ left \in [Nodes -> SUBSET Nodes]
      /\ state[n] \in {"MINING", "LEADER", "BLOCK"}
      /\ Height(n) \in Nat /\ Height(p) \in Nat /\ Rounds(n) \in Nat /\ Rounds(p) \in Nat
  BY RoundTypes DEF LoopInv, Typed
<1> DEFINE blocks == [kind |-> "block", peer |-> p, below |-> Height(n) + 1]
<1>3. \/ /\ state[n] = "MINING"
         /\ request' = request \/ \E ids :
                request' = [request EXCEPT ![n] = [kind |-> "missing", peer |-> p, ids |-> ids]]
      \/ /\ state[n] = "BLOCK" /\ p # n /\ Height(n) < Height(p)
         /\ request' = [request EXCEPT ![n] = blocks]
      \/ /\ state[n] = "BLOCK" /\ ~(Height(n) < Height(p)) /\ request' = request
  <2>1. state[n] # "LEADER"
    BY <1>1 DEF LoopInv, Pinging
  <2>2. CASE N!MempoolSync(n, p)
    BY <2>2 DEF N!MempoolSync
  <2>3. CASE N!ChainSync(n, p)
    BY <2>3 DEF N!ChainSync, N!Behind, Height
  <2>4. CASE ~N!MempoolSync(n, p) /\ ~N!ChainSync(n, p)
    BY <1>2, <2>1, <2>4, HigherDiffers DEF Ask, Offer, N!Behind, Height, nodeVars
  <2> QED  BY <2>2, <2>3, <2>4
<1>4. CASE state[n] = "MINING"
  <2>1. Asked(n)'
    BY <1>1, <1>2, <1>3, <1>4 DEF Asked
  <2>2. Catching(n)'
    BY <1>1, <1>4 DEF Catching, Lags
  <2> QED  BY <1>1, <2>1, <2>2, SameChains
<1>5. CASE state[n] = "BLOCK"
  <2>1. Rounds(p) = Rounds(n) /\ state[p] # "LEADER"
    BY <1>1, <1>5, Together
  <2>2. Height(p) <= Rounds(p)
    BY <1>2 DEF ChainInv, Chained
  <2>3. Asked(n)'
    <3>1. CASE request' = request
      BY <1>1, <3>1 DEF Asked
    <3>2. CASE Height(n) < Height(p) /\ p # n /\ request' = [request EXCEPT ![n] = blocks]
      <4>1. Lags(n) /\ Height(p) = Height(n) + 1
        <5>1. Lags(n)
          BY <1>2, <1>5, <2>1, <2>2, <3>2 DEF Lags
        <5> QED  BY <1>2, <2>1, <2>2, <3>2, <5>1, Lagging
      <4>2. request'[n] = blocks
        BY <1>2, <3>2
      <4>3. request'[n].kind = "block" /\ request'[n].peer = p /\ request'[n].below = Height(n) + 1
        BY <4>2
      <4>4. Lags(n)' /\ Height(p)' = Height(n)' + 1 /\ Height(n)' = Height(n)
        BY <1>1, <4>1 DEF Lags, Height, Rounds
      <4> HIDE DEF blocks
      <4> QED  BY <3>2, <4>3, <4>4 DEF Asked
    <3> QED  BY <1>3, <1>5, <3>1, <3>2
  <2>4. Catching(n)'
    <3> SUFFICES ASSUME Lags(n) PROVE Catching(n)'
      BY <1>1 DEF Catching, Lags, Height, Rounds
    <3> DEFINE l == winning[n][Rounds(n)]
    <3>1. Height(n) + 1 = Rounds(n) /\ l \in Nodes \ {n} /\ Rounds(n) \in DOMAIN winning[n]
      BY Lagging
    <3>2. l \in left[n]
      BY <1>1 DEF ChainInv, Catching
    <3>3. CASE p # l
      BY <1>1, <1>2, <3>2, <3>3 DEF Catching, Rounds
    <3>4. CASE p = l
      <4>1. winning[l][Rounds(l)] = l
        <5>1. Rounds(l) = Rounds(n) /\ Rounds(n) \in DOMAIN winning[l]
          BY <1>2, <2>1, <3>1, <3>4, RoundTypes DEF LoopInv
        <5> QED  BY <3>1, <5>1 DEF ChainInv, OneHistory
      <4>2. Height(l) = Rounds(l)
        BY <3>1, <4>1 DEF ChainInv, Chained
      <4>3. Height(n) < Height(p)
        BY <1>2, <2>1, <3>1, <3>4, <4>2
      <4>4. request'[n] = blocks
        BY <1>2, <1>3, <1>5, <4>3
      <4>5. request'[n] # Nil
        <5>1. blocks \in [kind : {"block"}, peer : Nodes, below : Nat]
          BY <1>2
        <5> QED  BY <4>4, <5>1, RequestAssumption
      <4> QED  BY <1>1, <4>5 DEF Catching
    <3> QED  BY <3>3, <3>4
  <2> QED  BY <1>1, <2>3, <2>4, SameChains
<1> QED  BY <1>3, <1>4, <1>5

-----------------------------------------------------------------------------
(* Exchanges *)

\* The copies of the mempool exchange.
LEMMA TransactionsExchange ==
    ASSUME LoopInv, RequestInv, ChainInv, NEW n \in Nodes, Exchange(n),
           N!ReceiveTransactions(n) \/ \E p \in Nodes : N!AnswerMissing(n, p)
    PROVE  ChainInv'
<1>1. /\ request[n] # Nil /\ request[n].kind \in {"missing", "txs"}
      /\ UNCHANGED <<chain, winning, state>>
  BY DEF N!ReceiveTransactions, N!AnswerMissing
<1>2. state[n] = "MINING"
  BY <1>1 DEF ChainInv, Asked
<1>3. Answered(n)
  BY Answers
<1>4. request'[n] = Nil \/ request'[n].kind = "txs"
  BY TransactionsReceived, MissingAnswered
<1>5. \A m \in Nodes \ {n} : SameAt(m)
  BY <1>3 DEF SameAt, Answered
<1>6. Asked(n)'
  BY <1>1, <1>2, <1>4 DEF Asked
<1>7. Catching(n)'
  BY <1>1, <1>2 DEF Catching, Lags
<1> QED  BY <1>1, <1>5, <1>6, <1>7, SameChains

LEMMA JustOne ==
    ASSUME NEW S, NEW s \in Seq(S), NEW k \in 1..Len(s)
    PROVE  SubSeq(s, k, k) = <<s[k]>>
<1>1. k \in Int /\ k \in k..Len(s) /\ k + 1 \in Int /\ k < k + 1
  OBVIOUS
<1>2. s[k] \in S /\ \A i \in k..k : s[i] \in S
  OBVIOUS
<1>3. SubSeq(s, k, k) = <<s[k]>> \o SubSeq(s, k + 1, k)
  BY <1>1, <1>2, SubSeqRecursiveFirst
<1>4. SubSeq(s, k + 1, k) = <<>>
  BY <1>1, SubSeqEmpty
<1>5. <<s[k]>> \o <<>> = <<s[k]>>
  <2>1. <<s[k]>> \in Seq(S)
    BY <1>2
  <2> QED  BY <2>1, ConcatEmptySeq
<1> QED  BY <1>3, <1>4, <1>5

\* The peer finds the last block of the node that lags, and sends the one on
\* top of it.
LEMMA BlockAnswered ==
    ASSUME LoopInv, ChainInv, NEW n \in Nodes, NEW p \in Nodes, N!AnswerBlock(n, p)
    PROVE  /\ Lags(n) /\ request[n].peer = p
           /\ request' = [request EXCEPT ![n] =
                [kind |-> "blocks", peer |-> p, height |-> Height(n),
                 blocks |-> <<chain[p][Height(n) + 1]>>]]
<1> DEFINE l == Height(n)
           heights == N!Window(n, request[n].below)
           common == N!Common(n, p, heights)
<1>1. request[n] # Nil /\ request[n].kind = "block" /\ request[n].peer = p
  BY DEF N!AnswerBlock
<1>2. /\ Lags(n) /\ request[n].below = l + 1 /\ Height(p) = l + 1
  BY <1>1 DEF ChainInv, Asked
<1>3. l \in Nat /\ HashWindow \in Nat \ {0} /\ chain[n] \in Seq(N!Block) /\ chain[p] \in Seq(N!Block)
  BY RoundTypes, SystemAssumption DEF LoopInv, Typed
<1>4. heights \subseteq 0..l /\ l \in heights
  BY <1>2, <1>3 DEF N!Window
<1>5. \A S \in SUBSET (0..l) : l \in S => N!Highest(S) = l
  <2> SUFFICES ASSUME NEW S \in SUBSET (0..l), l \in S PROVE N!Highest(S) = l
    OBVIOUS
  <2>1. \A h \in S : h \in 0..l
    OBVIOUS
  <2>2. \A i \in S : i <= l
    BY <1>3, <2>1
  <2>3. \A h \in S : (\A i \in S : i <= h) => h = l
    BY <1>3, <2>1
  <2> HIDE DEF l
  <2> QED  BY <2>2, <2>3 DEF N!Highest
<1>6. N!HeaderAt(chain[n], l) = N!HeaderAt(chain[p], l)
  <2>1. CASE l = 0
    BY <2>1 DEF N!HeaderAt
  <2>2. CASE l # 0
    <3>1. l \in DOMAIN chain[n] /\ l \in DOMAIN chain[p]
      BY <1>2, <1>3, <2>2, RoundTypes DEF LoopInv
    <3>2. chain[n][l] = chain[p][l]
      BY <3>1 DEF ChainInv, OneHistory
    <3> QED  BY <3>2 DEF N!HeaderAt
  <2> QED  BY <2>1, <2>2
<1>7. common \subseteq heights /\ l \in common
  BY <1>2, <1>3, <1>4, <1>6 DEF N!Common, Height
<1>8. N!Highest(heights) = l /\ N!Highest(common) = l /\ Len(chain[p]) = l + 1 /\ common # {}
  BY <1>2, <1>4, <1>5, <1>7 DEF Height
<1>9. request' = [request EXCEPT ![n] =
          [kind |-> "blocks", peer |-> p, height |-> l, blocks |-> SubSeq(chain[p], l + 1, l + 1)]]
  <2>1. ~(l > Len(chain[p])) /\ ~(common = {})
    BY <1>3, <1>8
  <2> HIDE DEF heights, common, l
  <2>2. \/ N!Highest(heights) > Len(chain[p])
        \/ common = {}
        \/ request' = [request EXCEPT ![n] =
              [kind |-> "blocks", peer |-> p, height |-> N!Highest(common),
               blocks |-> SubSeq(chain[p], N!Highest(common) + 1, Len(chain[p]))]]
    BY DEF N!AnswerBlock, heights, common
  <2> QED  BY <1>8, <2>1, <2>2
<1>10. SubSeq(chain[p], l + 1, l + 1) = <<chain[p][l + 1]>>
  <2>1. l + 1 \in 1..Len(chain[p])
    BY <1>3, <1>8
  <2> QED  BY <1>3, <2>1, JustOne
<1> QED  BY <1>1, <1>2, <1>9, <1>10

LEMMA AnswerChains ==
    ASSUME LoopInv, ChainInv, NEW n \in Nodes, NEW p \in Nodes, N!AnswerBlock(n, p),
           UNCHANGED <<voteVars, rest, left>>
    PROVE  LoopInv' /\ ChainInv'
<1> DEFINE blocks == [kind |-> "blocks", peer |-> p, height |-> Height(n),
                      blocks |-> <<chain[p][Height(n) + 1]>>]
<1>1. Lags(n) /\ request[n].peer = p /\ request[n] # Nil /\ request' = [request EXCEPT ![n] = blocks]
  BY BlockAnswered DEF N!AnswerBlock
<1>2. UNCHANGED <<chain, mempool, winning, state>> /\ DOMAIN request = Nodes
  BY DEF N!AnswerBlock, LoopInv, Typed
<1>3. request'[n] = blocks /\ p # n /\ Height(p) = Height(n) + 1 /\ Height(n) \in Nat
  BY <1>1, <1>2, RoundTypes DEF ChainInv, Asked, Lags, LoopInv
<1>4. blocks # Nil
  <2>1. Height(n) + 1 \in 1..Height(p)
    BY <1>3
  <2>2. chain[p][Height(n) + 1] \in N!Block
    BY <2>1, RoundTypes DEF LoopInv
  <2>3. blocks \in [kind : {"blocks"}, peer : Nodes, height : Nat, blocks : Seq(N!Block)]
    BY <1>3, <2>2
  <2> QED  BY <2>3, RequestAssumption
<1>5. Answered(n)
  BY <1>1, <1>2 DEF Answered, voteVars
<1>6. LoopInv' /\ pc[n] = "run" /\ \A m \in Nodes \ {n} : SameAt(m)
  BY <1>2, <1>5, AnsweredLoop DEF LoopInv, Typed
<1>7. Lags(n)' /\ Height(p)' = Height(n)' + 1 /\ Height(n)' = Height(n) /\ chain' = chain
  BY <1>1, <1>2, <1>3 DEF Lags, Height, Rounds
<1>8. /\ request'[n].kind = "blocks" /\ request'[n].peer = p /\ request'[n].height = Height(n)
      /\ request'[n].blocks = <<chain[p][Height(n) + 1]>>
  BY <1>3
<1> HIDE DEF blocks
<1>9. Asked(n)'
  BY <1>3, <1>7, <1>8 DEF Asked
<1>10. Catching(n)'
  BY <1>3, <1>4, <1>5, <1>6 DEF Catching, Answered
<1> QED  BY <1>2, <1>6, <1>9, <1>10, SameChains

\* A node that lags takes the block: it is the leader's, and it fits.
Takes(n, p) ==
    /\ Lags(n) /\ request[n].peer = p /\ p \in Nodes /\ Height(p) = Height(n) + 1
    /\ chain' = [chain EXCEPT ![n] = Append(@, chain[p][Height(n) + 1])]
    /\ mempool' \in [Nodes -> N!Pool]
    /\ UNCHANGED <<winning, state>>
    /\ request' = [request EXCEPT ![n] = Nil]

LEMMA BlockTaken ==
    ASSUME LoopInv, ChainInv, NEW n \in Nodes, N!ReceiveBlocks(n)
    PROVE  \E p \in Nodes : Takes(n, p)
<1> DEFINE p == request[n].peer
           l == Height(n)
           b == chain[p][l + 1]
<1>1. /\ request[n] # Nil /\ request[n].kind = "blocks"
      /\ request' = [request EXCEPT ![n] = Nil] /\ UNCHANGED <<winning, state>>
  BY DEF N!ReceiveBlocks
<1>2. /\ Lags(n) /\ p \in Nodes /\ Height(p) = l + 1
      /\ request[n].height = l /\ request[n].blocks = <<b>>
  BY <1>1 DEF ChainInv, Asked
<1>3. /\ l \in Nat /\ l + 1 = Rounds(n) /\ Rounds(n) \in DOMAIN winning[n]
      /\ chain[n] \in Seq(N!Block) /\ l + 1 \in DOMAIN chain[p] /\ l + 1 \in DOMAIN winning[p]
      /\ b \in N!Block
  <2>1. /\ l \in Nat /\ DOMAIN chain[p] = 1..Height(p) /\ DOMAIN winning[p] = 1..Rounds(p)
        /\ Rounds(p) \in Nat /\ \A h \in 1..Height(p) : chain[p][h] \in N!Block
    BY <1>2, RoundTypes DEF LoopInv
  <2>2. Height(p) <= Rounds(p)
    BY <1>2, <2>1 DEF ChainInv, Chained
  <2>3. l + 1 \in 1..Height(p) /\ l + 1 \in 1..Rounds(p)
    BY <1>2, <2>1, <2>2
  <2>4. l + 1 = Rounds(n) /\ Rounds(n) \in DOMAIN winning[n] /\ chain[n] \in Seq(N!Block)
    BY <1>2, Lagging DEF LoopInv, Typed
  <2> QED  BY <2>1, <2>3, <2>4
<1>4. /\ b.height = l + 1 /\ b.miner = winning[n][l + 1]
      /\ b.parent = N!HashAt(chain[n], l)
  <2>1. /\ b.height = l + 1 /\ b.miner = winning[p][l + 1]
        /\ b.parent = N!HashAt(chain[p], l)
    BY <1>2, <1>3 DEF ChainInv, Chained, Stacked
  <2>2. winning[p][l + 1] = winning[n][l + 1]
    BY <1>2, <1>3 DEF ChainInv, OneHistory
  <2>3. N!HashAt(chain[p], l) = N!HashAt(chain[n], l)
    <3>1. CASE l = 0
      BY <3>1 DEF N!HashAt
    <3>2. CASE l # 0
      <4>1. l \in DOMAIN chain[n] /\ l \in DOMAIN chain[p]
        BY <1>2, <1>3, <3>2, RoundTypes DEF LoopInv
      <4>2. chain[n][l] = chain[p][l]
        BY <1>2, <4>1 DEF ChainInv, OneHistory
      <4> QED  BY <4>2 DEF N!HashAt
    <3> QED  BY <3>1, <3>2
  <2> QED  BY <2>1, <2>2, <2>3
<1>5. N!VerifyChain(n, <<b>>) = "valid"
  <2>1. N!VerifyBlock(n, b)
    BY <1>3, <1>4 DEF N!VerifyBlock, Rounds
  <2>2. <<b>>[1] = b /\ Len(<<b>>) = 1
    OBVIOUS
  <2> HIDE DEF b
  <2> QED  BY <2>1, <2>2 DEF N!VerifyChain
<1>6. N!Insert(n, l, <<b>>)
  <2>1. <<b>> # <<>> /\ <<b>>[1].parent = N!HashAt(chain[n], l)
    BY <1>4
  <2> HIDE DEF b, l
  <2> QED  BY <1>2, <1>5, <2>1 DEF N!ReceiveBlocks
<1>7. chain' = [chain EXCEPT ![n] = Append(@, b)]
  <2>1. chain' = [chain EXCEPT ![n] = SubSeq(@, 1, l) \o <<b>>]
    BY <1>6 DEF N!Insert
  <2>2. SubSeq(chain[n], 1, l) = chain[n]
    BY <1>3, SubSeqFull DEF Height
  <2>3. chain[n] \o <<b>> = Append(chain[n], b)
    BY <1>3
  <2> HIDE DEF b, l
  <2> QED  BY <2>1, <2>2, <2>3
<1>8. mempool' \in [Nodes -> N!Pool]
  <2>1. N!Discarded(n, l) = <<>>
    <3>1. l + 1 \in Int /\ l \in Int /\ l < l + 1
      BY <1>3
    <3> QED  BY <3>1, SubSeqEmpty DEF N!Discarded, Height
  <2>2. N!IdsIn(<<>>) = {}
    BY DEF N!IdsIn
  <2>3. mempool \in [Nodes -> [Txs -> N!Copy \cup {Nil}]]
    BY DEF LoopInv, Typed, N!Pool
  <2>4. N!SyncedMempool(n, l, <<b>>) \in [Txs -> N!Copy \cup {Nil}]
    <3> HIDE DEF b, l
    <3> QED  BY <2>1, <2>2, <2>3 DEF N!SyncedMempool
  <2>5. mempool' = [mempool EXCEPT ![n] = N!SyncedMempool(n, l, <<b>>)]
    BY <1>6 DEF N!Insert
  <2> HIDE DEF b, l
  <2> QED  BY <2>3, <2>4, <2>5 DEF N!Pool
<1>9. Takes(n, p)
  BY <1>1, <1>2, <1>7, <1>8 DEF Takes
<1> QED  BY <1>2, <1>9

\* A node that has taken the block does not lag, and has the block of its peer.
LEMMA TakeChains ==
    ASSUME LoopInv, ChainInv, NEW n \in Nodes, N!ReceiveBlocks(n),
           UNCHANGED <<voteVars, rest, left>>
    PROVE  LoopInv' /\ ChainInv'
<1>1. PICK p \in Nodes : Takes(n, p)
  BY BlockTaken
<1> DEFINE b == chain[p][Height(n) + 1]
<1>2. /\ Lags(n) /\ Height(p) = Height(n) + 1 /\ chain' = [chain EXCEPT ![n] = Append(@, b)]
      /\ mempool' \in [Nodes -> N!Pool] /\ UNCHANGED <<winning, state>>
      /\ request' = [request EXCEPT ![n] = Nil] /\ request[n] # Nil
  BY <1>1 DEF Takes, N!ReceiveBlocks
<1>3. /\ Height(n) \in Nat /\ Rounds(n) \in Nat /\ Height(n) + 1 = Rounds(n) /\ state[n] = "BLOCK"
      /\ DOMAIN request = Nodes /\ chain \in [Nodes -> Seq(N!Block)] /\ b \in N!Block
  <2>1. Height(n) \in Nat /\ Height(n) + 1 \in 1..Height(p)
    BY <1>2, RoundTypes DEF LoopInv
  <2>2. b \in N!Block
    BY <2>1, RoundTypes DEF LoopInv
  <2> QED  BY <1>2, <2>2, Lagging, RoundTypes DEF LoopInv, Typed
<1> HIDE DEF b
<1>4. /\ chain'[n] = Append(chain[n], b) /\ Height(n)' = Height(n) + 1
      /\ chain'[n][Height(n) + 1] = b /\ DOMAIN chain'[n] = 1..(Height(n) + 1)
      /\ \A h \in 1..Height(n) : chain'[n][h] = chain[n][h]
      /\ \A m \in Nodes \ {n} : chain'[m] = chain[m] /\ Height(m)' = Height(m)
      /\ chain' \in [Nodes -> Seq(N!Block)]
  <2>1. chain'[n] = Append(chain[n], b) /\ chain[n] \in Seq(N!Block)
    BY <1>2, <1>3
  <2>2. /\ Append(chain[n], b) \in Seq(N!Block) /\ Len(Append(chain[n], b)) = Len(chain[n]) + 1
        /\ Append(chain[n], b)[Len(chain[n]) + 1] = b
        /\ \A h \in 1..Len(chain[n]) : Append(chain[n], b)[h] = chain[n][h]
    BY <1>3, <2>1
  <2>3. \A m \in Nodes \ {n} : chain'[m] = chain[m]
    BY <1>2, <1>3
  <2>4. chain' \in [Nodes -> Seq(N!Block)]
    BY <1>2, <1>3, <2>2
  <2> QED  BY <2>1, <2>2, <2>3, <2>4 DEF Height
<1>5. Answered(n)
  BY <1>2, <1>3 DEF Answered, voteVars
<1>6. LoopInv' /\ pc[n] = "run" /\ \A m \in Nodes \ {n} : SameAt(m)
  BY <1>2, <1>4, <1>5, AnsweredLoop
<1>7. \A m \in Nodes : /\ DOMAIN chain[m] = 1..Height(m) /\ Height(m) \in Nat
                       /\ Rounds(m)' = Rounds(m) /\ Rounds(m) \in Nat /\ Height(m) <= Rounds(m)
                       /\ DOMAIN winning[m] = 1..Rounds(m)
                       /\ \A h \in 1..Rounds(m) : winning[m][h] \in Nodes
                       /\ winning[m] \in Seq(Nodes)
  <2> TAKE m \in Nodes
  <2>1. Chained(m) /\ Height(m) \in Nat /\ Rounds(m) \in Nat
    BY RoundTypes DEF LoopInv, ChainInv
  <2>2. Height(m) <= Rounds(m)
    BY <2>1 DEF Chained
  <2>3. winning[m] \in Seq(Nodes) /\ Rounds(m)' = Rounds(m)
    BY <1>2 DEF LoopInv, Typed, Rounds
  <2> QED  BY <2>1, <2>2, <2>3, RoundTypes DEF LoopInv
<1>8. \A m \in Nodes : Len(chain'[m]) \in Nat /\ Len(chain[m]) <= Len(chain'[m])
  <2> TAKE m \in Nodes
  <2>1. Height(m) \in Nat /\ (m = n \/ m # n)
    BY <1>7
  <2> QED  BY <1>4, <2>1 DEF Height
<1>9. OneHistory'
  <2>1. \A m \in Nodes \ {n} : Height(n) < Height(m) => chain[m][Height(n) + 1] = b
    <3> TAKE m \in Nodes \ {n}
    <3> SUFFICES ASSUME Height(n) < Height(m) PROVE chain[m][Height(n) + 1] = b
      OBVIOUS
    <3>1. Height(n) + 1 \in DOMAIN chain[p] /\ Height(n) + 1 \in DOMAIN chain[m]
      BY <1>2, <1>7
    <3> QED  BY <3>1 DEF ChainInv, OneHistory, b
  <2>2. \A m, o \in Nodes : \A h \in DOMAIN chain'[m] \cap DOMAIN chain'[o] :
            chain'[m][h] = chain'[o][h]
    BY <1>2, <1>3, <2>1, OneBlockMore DEF LoopInv, ChainInv
  <2> QED  BY <1>2, <2>2 DEF ChainInv, OneHistory
<1>10. ASSUME NEW m \in Nodes PROVE Chained(m)'
  <2>1. Chained(m) /\ Stacked(m)
    BY DEF ChainInv, Chained
  <2>2. CASE m # n
    <3>1. chain'[m] = chain[m] /\ winning'[m] = winning[m] /\ state'[m] = state[m]
      BY <1>2, <1>4, <2>2
    <3>2. Height(m)' = Height(m) /\ Rounds(m)' = Rounds(m) /\ Lags(m)' = Lags(m)
      BY <1>7, <3>1 DEF Height, Lags
    <3>3. Stacked(m)'
      BY <1>7, <1>8, <2>1, <3>1, StillStacked DEF LoopInv
    <3> QED  BY <2>1, <3>1, <3>2, <3>3 DEF Chained
  <2>3. CASE m = n
    <3>1. /\ b.miner = winning[p][Height(n) + 1] /\ b.height = Height(n) + 1
          /\ b.parent = N!HashAt(chain[p], Height(n)) /\ b.stamp = Height(n) + 1
          /\ Height(n) + 1 <= Len(chain[winning[p][Height(n) + 1]])
      <4>1. Height(n) + 1 \in DOMAIN chain[p] /\ Stacked(p)
        BY <1>2, <1>3, <1>7 DEF ChainInv, Chained
      <4>2. Height(n) + 1 - 1 = Height(n)
        BY <1>3
      <4> QED  BY <4>1, <4>2 DEF Stacked, b, Height
    <3>2. Height(n) + 1 \in DOMAIN winning[p] /\ Height(n) + 1 \in DOMAIN winning[n]
      BY <1>2, <1>3, <1>7
    <3>3. winning[p][Height(n) + 1] = winning[n][Height(n) + 1] /\ winning[n][Height(n) + 1] \in Nodes
      BY <1>7, <3>2 DEF ChainInv, OneHistory
    <3>4. Height(n) + 1 <= Len(chain'[winning'[n][Height(n) + 1]])
      <4> DEFINE w == winning[n][Height(n) + 1]
      <4>1. /\ Len(chain[w]) \in Nat /\ Len(chain'[w]) \in Nat /\ Len(chain[w]) <= Len(chain'[w])
            /\ Height(n) + 1 <= Len(chain[w])
        BY <1>7, <1>8, <3>1, <3>3 DEF Height
      <4> HIDE DEF w
      <4>2. Height(n) + 1 <= Len(chain'[w])
        BY <1>3, <4>1
      <4> QED  BY <1>2, <4>2 DEF w
    <3>5. N!HashAt(chain[p], Height(n)) = N!HashAt(chain[n], Height(n))
      <4>1. CASE Height(n) = 0
        BY <4>1 DEF N!HashAt
      <4>2. CASE Height(n) # 0
        <5>1. Height(n) \in DOMAIN chain[n] /\ Height(n) \in DOMAIN chain[p]
          BY <1>2, <1>3, <1>7, <4>2
        <5>2. chain[n][Height(n)] = chain[p][Height(n)]
          BY <5>1 DEF ChainInv, OneHistory
        <5> QED  BY <5>2 DEF N!HashAt
      <4> QED  BY <4>1, <4>2
    <3>6. Stacked(n)'
      <4>1. /\ winning'[n] \in Seq(Nodes) /\ Height(n) <= Rounds(n) /\ Stacked(n)
            /\ \A h \in 1..Rounds(n) : winning'[n][h] = winning[n][h]
            /\ b.miner = winning'[n][Height(n) + 1] /\ b.parent = N!HashAt(chain[n], Height(n))
            /\ b.stamp = Height(n) + 1
        BY <1>2, <1>7, <2>1, <2>3, <3>1, <3>3, <3>5
      <4> QED  BY <1>3, <1>4, <1>8, <3>1, <3>4, <4>1, GrowsStacked DEF LoopInv
    <3>7. Height(n)' = Rounds(n)'
      BY <1>3, <1>4, <1>7
    <3> QED  BY <2>3, <3>6, <3>7 DEF Chained
  <2> QED  BY <2>2, <2>3
<1>11. ASSUME NEW m \in Nodes PROVE Asked(m)' /\ Catching(m)'
  <2>1. CASE m = n
    <3>1. request'[n] = Nil /\ Height(n)' = Rounds(n)'
      BY <1>2, <1>3, <1>4, <1>7
    <3>2. ~Lags(n)'
      BY <1>3, <1>4, <1>7, <3>1 DEF Lags
    <3> QED  BY <2>1, <3>1, <3>2 DEF Asked, Catching
  <2>2. CASE m # n
    <3>1. pc[m] = "idle" /\ request[m] = Nil
      BY <1>6, <2>2 DEF LoopInv, Turns, Pinging
    <3>2. request'[m] = Nil /\ pc'[m] = pc[m] /\ left'[m] = left[m] /\ rest'[m] = rest[m]
          /\ time'[m] = time[m] /\ winning'[m] = winning[m] /\ state'[m] = state[m]
      BY <1>6, <2>2, <3>1 DEF SameAt
    <3>3. Lags(m)' = Lags(m) /\ Elapsed(m)' = Elapsed(m) /\ Rounds(m)' = Rounds(m)
      BY <1>4, <1>7, <2>2, <3>2 DEF Lags, Elapsed, RoundsEnd
    <3> QED  BY <3>1, <3>2, <3>3 DEF ChainInv, Asked, Catching
  <2> QED  BY <2>1, <2>2
<1> QED  BY <1>6, <1>9, <1>10, <1>11 DEF ChainInv

-----------------------------------------------------------------------------
(* The ends of the phases *)

\* A node that does not lag goes on to another phase, but not to BLOCK.
LEMMA PhaseChains ==
    ASSUME LoopInv, ChainInv, NEW n \in Nodes, ~Lags(n), request[n] = Nil,
           state'[n] = "BLOCK" => state'[n] = state[n],
           UNCHANGED <<chain, winning, request>>, \A m \in Nodes \ {n} : SameAt(m)
    PROVE  ChainInv'
<1>1. OneHistory'
  BY DEF ChainInv, OneHistory
<1>2. ~Lags(n)'
  BY DEF Lags, Height, Rounds
<1>3. ASSUME NEW m \in Nodes PROVE Chained(m)'
  <2>1. Chained(m) /\ Height(m)' = Height(m) /\ Rounds(m)' = Rounds(m)
    BY DEF ChainInv, Height, Rounds
  <2>2. Stacked(m)'
    BY <2>1 DEF Chained, Stacked, Height, N!HashAt, N!Hash, N!GenesisHash
  <2>3. CASE m = n
    BY <2>1, <2>2, <2>3 DEF Chained
  <2>4. CASE m # n
    <3>1. Lags(m)' = Lags(m)
      BY <2>1, <2>4 DEF Lags, SameAt
    <3> QED  BY <2>1, <2>2, <3>1 DEF Chained
  <2> QED  BY <2>3, <2>4
<1>4. Asked(n)' /\ Catching(n)'
  BY <1>2 DEF Asked, Catching
<1>5. ASSUME NEW m \in Nodes, m # n PROVE Asked(m)' /\ Catching(m)'
  <2>1. SameAt(m) /\ Asked(m) /\ Catching(m)
    BY <1>5 DEF ChainInv
  <2>2. /\ Lags(m)' = Lags(m) /\ Rounds(m)' = Rounds(m) /\ Elapsed(m)' = Elapsed(m)
        /\ \A o : Height(o)' = Height(o)
    BY <2>1 DEF Lags, Height, Rounds, Elapsed, RoundsEnd, SameAt
  <2>3. Asked(m)'
    BY <2>1, <2>2 DEF Asked, SameAt
  <2>4. Catching(m)'
    BY <2>1, <2>2 DEF Catching, SameAt
  <2> QED  BY <2>3, <2>4
<1> QED  BY <1>1, <1>3, <1>4, <1>5 DEF ChainInv

LEMMA MineChains ==
    ASSUME LoopInv, ChainInv, NEW n \in Nodes, RunMining(n)
    PROVE  ChainInv'
<1>1. /\ state[n] = "MINING" /\ state'[n] \in {"MINING", "LEADER"} /\ request[n] = Nil
      /\ UNCHANGED <<chain, winning, request>> /\ \A m \in Nodes \ {n} : SameAt(m)
  BY MineLoop
<1>2. ~Lags(n)
  BY <1>1 DEF Lags
<1> QED  BY <1>1, <1>2, PhaseChains

\* Before the BLOCK phase ends the pinger has asked everybody.
LEMMA RunBlockChains ==
    ASSUME Meshed, LoopInv, ChainInv, NEW n \in Nodes, RunBlock(n)
    PROVE  ChainInv'
<1>1. /\ state[n] = "BLOCK" /\ left[n] = {} /\ request[n] = Nil /\ pc'[n] = "idle"
      /\ state' = state \/ (state'[n] = "MINING" /\ time[n] = RoundsEnd(n))
      /\ UNCHANGED <<time, chain, winning, request, rest, left>>
      /\ \A m \in Nodes \ {n} : SameAt(m)
  BY BlockLoop
<1>2. Lags(n) => rest[n]["chain"] + Elapsed(n) <= SyncInterval
  BY <1>1 DEF ChainInv, Catching
<1>3. CASE state' = state
  <2>1. Asked(n)'
    BY <1>1 DEF Asked
  <2>2. Catching(n)'
    BY <1>1, <1>2, <1>3 DEF Catching, Lags, Height, Rounds, Elapsed, RoundsEnd
  <2> QED  BY <1>1, <1>3, <2>1, <2>2, SameChains
<1>4. CASE state'[n] = "MINING" /\ time[n] = RoundsEnd(n)
  <2>1. Elapsed(n) = BlockPeriod - 1
    BY <1>4, RoundTypes, Periods DEF Elapsed, LoopInv
  <2>2. rest[n]["chain"] \in 0..SyncInterval /\ SyncInterval \in Nat
    <3>1. rest[n] \in [{"mempool", "chain"} -> 0..SyncInterval]
      BY DEF LoopInv, Typed
    <3> QED  BY <3>1, SystemAssumption
  <2>3. ~Lags(n)
    BY <1>2, <2>1, <2>2, Periods DEF Meshed
  <2> QED  BY <1>1, <1>4, <2>3, PhaseChains
<1> QED  BY <1>1, <1>3, <1>4

\* The leader of a round is the only one to have its block, and the others
\* begin to lag.
LEMMA RecordChains ==
    ASSUME LoopInv, ChainInv, NEW n \in Nodes, NEW s \in Nodes, Records(n, s),
           pc[n] # "idle", state[n] = "LEADER", state'[n] = "BLOCK", left[n] = {}, request[n] = Nil,
           time[n] = RoundsEnd(n) + 2 * BlockPeriod + 1,
           UNCHANGED <<time, rest, left, request>>, \A m \in Nodes \ {n} : SameAt(m)
    PROVE  ChainInv'
<1> DEFINE r == Rounds(n)
<1>1. /\ r \in Nat /\ Height(n) = r /\ Stacked(n) /\ RoundsEnd(n) \in Nat /\ Typed
      /\ \A m \in Nodes : /\ Height(m) \in Nat /\ DOMAIN chain[m] = 1..Height(m)
                           /\ Rounds(m) \in Nat /\ DOMAIN winning[m] = 1..Rounds(m)
  BY RoundTypes DEF LoopInv, ChainInv, Chained, Lags
<1>2. /\ winning' \in [Nodes -> Seq(Nodes)] /\ chain' \in [Nodes -> Seq(N!Block)]
      /\ \A m \in Nodes \ {n} : winning'[m] = winning[m] /\ chain'[m] = chain[m]
      /\ winning'[n] = Append(winning[n], s) /\ Rounds(n)' = r + 1
      /\ winning'[n][r + 1] = s /\ \A h \in 1..r : winning'[n][h] = winning[n][h]
      /\ DOMAIN winning'[n] = 1..(r + 1)
  <2>1. /\ winning' \in [Nodes -> Seq(Nodes)] /\ Rounds(n)' = r + 1
    BY RecordTypes DEF Records
  <2>2. DOMAIN winning'[n] = 1..(r + 1)
    BY <2>1 DEF Rounds
  <2> QED  BY <2>1, <2>2, RecordTypes DEF Records
<1> HIDE DEF r
<1>3. /\ \A m \in Nodes : Rounds(m) > r => winning[m][r + 1] = s
      /\ \/ s # n /\ chain' = chain
         \/ s = n /\ \E b \in N!Block :
               /\ b.height = r + 1 /\ b.parent = N!HashAt(chain[n], r) /\ b.miner = n
               /\ b.stamp = r + 1
               /\ chain' = [chain EXCEPT ![n] = Append(@, b)]
  BY <1>1 DEF Records, Closes, r
<1>4. ASSUME NEW m \in Nodes PROVE Height(m) <= Rounds(m) /\ Stacked(m)
  <2>1. Chained(m)
    BY DEF ChainInv
  <2> QED  BY <1>1, <2>1 DEF Chained
<1>5. \A m \in Nodes : Len(chain'[m]) \in Nat /\ Len(chain[m]) <= Len(chain'[m])
  <2> TAKE m \in Nodes
  <2>1. Len(chain[m]) \in Nat /\ chain[m] \in Seq(N!Block)
    BY <1>1 DEF Typed, Height
  <2>2. CASE chain'[m] = chain[m]
    BY <2>1, <2>2
  <2>3. CASE m = n /\ \E b \in N!Block : chain' = [chain EXCEPT ![n] = Append(@, b)]
    <3>1. PICK b \in N!Block : chain'[m] = Append(chain[m], b)
      BY <1>1, <2>3 DEF Typed
    <3> QED  BY <2>1, <3>1
  <2> QED  BY <1>2, <1>3, <2>2, <2>3
<1>6. s = n => \A m \in Nodes \ {n} : Height(m) <= r
  <2> SUFFICES ASSUME s = n, NEW m \in Nodes \ {n}, ~(Height(m) <= r) PROVE FALSE
    OBVIOUS
  <2>1. r + 1 \in DOMAIN chain[m] /\ Rounds(m) > r
    BY <1>1, <1>4
  <2>2. winning[m][r + 1] = n /\ r + 1 <= Height(winning[m][r + 1])
    BY <1>3, <1>4, <2>1 DEF Stacked
  <2> QED  BY <1>1, <2>2
<1>7. OneHistory'
  <2>1. ASSUME NEW m \in Nodes, NEW o \in Nodes, NEW h \in DOMAIN winning'[m] \cap DOMAIN winning'[o]
        PROVE  winning'[m][h] = winning'[o][h]
    <3>1. \A k, j \in Nodes : \A i \in DOMAIN winning[k] \cap DOMAIN winning[j] :
              winning[k][i] = winning[j][i]
      BY DEF ChainInv, OneHistory
    <3>2. ASSUME NEW k \in Nodes \ {n}, h \in DOMAIN winning'[k], h \in DOMAIN winning'[n]
          PROVE  winning'[k][h] = winning'[n][h]
      <4>0. k \in Nodes /\ winning'[k] = winning[k]
        BY <1>2, <3>2
      <4>1. CASE h \in 1..r
        <5>1. h \in DOMAIN winning[k] /\ h \in DOMAIN winning[n]
          BY <1>1, <1>2, <3>2, <4>1 DEF r
        <5>2. winning[k][h] = winning[n][h]
          BY <3>1, <4>0, <5>1
        <5>3. winning'[n][h] = winning[n][h]
          BY <1>2, <4>1
        <5> QED  BY <4>0, <5>2, <5>3
      <4>2. CASE h = r + 1
        <5>1. h \in 1..Rounds(k)
          BY <1>1, <3>2, <4>0
        <5>2. Rounds(k) > r
          BY <1>1, <4>0, <4>2, <5>1
        <5>3. winning[k][h] = s
          BY <1>3, <4>0, <4>2, <5>2
        <5> QED  BY <1>2, <4>0, <4>2, <5>3
      <4>3. h \in 1..(r + 1)
        BY <1>2, <3>2
      <4> QED  BY <1>1, <4>1, <4>2, <4>3
    <3>3. CASE m # n /\ o # n
      <4>1. winning'[m] = winning[m] /\ winning'[o] = winning[o]
        BY <1>2, <2>1, <3>3
      <4>2. h \in DOMAIN winning[m] \cap DOMAIN winning[o]
        BY <2>1, <4>1
      <4> QED  BY <3>1, <4>1, <4>2
    <3>4. CASE m # n /\ o = n
      BY <2>1, <3>2, <3>4
    <3>5. CASE m = n /\ o # n
      <4>1. winning'[o][h] = winning'[n][h]
        BY <2>1, <3>2, <3>5
      <4> QED  BY <3>5, <4>1
    <3> QED  BY <3>3, <3>4, <3>5
  <2>2. \A m, o \in Nodes : \A h \in DOMAIN chain'[m] \cap DOMAIN chain'[o] :
            chain'[m][h] = chain'[o][h]
    <3>1. CASE chain' = chain
      BY <3>1 DEF ChainInv, OneHistory
    <3>2. CASE s = n /\ \E b \in N!Block : chain' = [chain EXCEPT ![n] = Append(@, b)]
      <4>1. PICK b \in N!Block : chain' = [chain EXCEPT ![n] = Append(@, b)]
        BY <3>2
      <4>2. \A m \in Nodes \ {n} : Height(n) < Height(m) => chain[m][Height(n) + 1] = b
        BY <1>1, <1>6, <3>2
      <4> QED  BY <1>1, <4>1, <4>2, OneBlockMore DEF ChainInv
    <3> QED  BY <1>3, <3>1, <3>2
  <2> QED  BY <2>1, <2>2 DEF OneHistory
<1>8. ASSUME NEW m \in Nodes, m # n PROVE Chained(m)' /\ Asked(m)' /\ Catching(m)'
  <2>1. /\ SameAt(m) /\ chain'[m] = chain[m] /\ winning'[m] = winning[m]
        /\ Chained(m) /\ Asked(m) /\ Catching(m)
    BY <1>2, <1>8 DEF ChainInv
  <2>2. /\ Lags(m)' = Lags(m) /\ Rounds(m)' = Rounds(m) /\ Elapsed(m)' = Elapsed(m)
        /\ Height(m)' = Height(m)
    BY <2>1 DEF Lags, Height, Rounds, Elapsed, RoundsEnd, SameAt
  <2>3. Stacked(m)'
    BY <1>1, <1>4, <1>5, <2>1, StillStacked
  <2>4. Chained(m)'
    BY <2>1, <2>2, <2>3 DEF Chained
  <2>5. Asked(m)'
    <3>1. request[m] = Nil
      BY <1>8 DEF LoopInv, Turns, Pinging
    <3> QED  BY <3>1 DEF Asked
  <2>6. Catching(m)'
    BY <2>1, <2>2 DEF Catching, SameAt
  <2> QED  BY <2>4, <2>5, <2>6
<1>9. Chained(n)'
  <2>1. CASE s # n /\ chain' = chain
    <3>1. Stacked(n)'
      BY <1>1, <1>2, <1>4, <1>5, <2>1, StillStacked DEF r
    <3>2. Height(n)' = r
      BY <1>1, <2>1 DEF Height
    <3> QED  BY <1>1, <1>2, <2>1, <3>1, <3>2 DEF Chained, Lags
  <2>2. CASE s = n
    <3>1. PICK b \in N!Block :
             /\ b.height = r + 1 /\ b.parent = N!HashAt(chain[n], r) /\ b.miner = n
             /\ b.stamp = r + 1
             /\ chain' = [chain EXCEPT ![n] = Append(@, b)]
      BY <1>3, <2>2
    <3>2. chain'[n] = Append(chain[n], b) /\ chain[n] \in Seq(N!Block)
      BY <1>1, <3>1 DEF Typed
    <3>3. Len(chain'[n]) = r + 1
      BY <1>1, <3>2 DEF Height
    <3>4. Stacked(n)'
      <4>1. Height(n) = r /\ Rounds(n) = r
        BY <1>1 DEF r
      <4>2. winning'[n] \in Seq(Nodes) /\ Height(n) <= Rounds(n)
        BY <1>2, <1>4
      <4>3. /\ b.height = Height(n) + 1 /\ b.parent = N!HashAt(chain[n], Height(n))
            /\ b.stamp = Height(n) + 1
        BY <3>1, <4>1
      <4>4. winning'[n][Height(n) + 1] = n
        BY <1>2, <2>2, <4>1
      <4>5. b.miner = winning'[n][Height(n) + 1]
        BY <3>1, <4>4
      <4>6. Height(n) + 1 <= Len(chain'[winning'[n][Height(n) + 1]])
        BY <1>1, <3>3, <4>1, <4>4
      <4>7. \A h \in 1..Rounds(n) : winning'[n][h] = winning[n][h]
        BY <1>2, <4>1
      <4> QED  BY <1>1, <1>5, <3>2, <4>2, <4>3, <4>5, <4>6, <4>7, GrowsStacked
    <3> QED  BY <1>2, <3>3, <3>4 DEF Chained, Height
  <2> QED  BY <1>3, <2>1, <2>2
<1>10. Asked(n)' /\ Catching(n)'
  <2>1. Elapsed(n)' = 0
    <3>1. RoundsEnd(n)' = RoundsEnd(n) + Cycle
      <4>1. RoundsEnd(n)' = Cycle * (r + 1) /\ RoundsEnd(n) = Cycle * r
        BY <1>2 DEF RoundsEnd, r
      <4> QED  BY <1>1, <4>1, NextRound
    <3> QED  BY <1>1, <3>1, Periods DEF Elapsed
  <2>2. rest[n]["chain"] \in 0..SyncInterval /\ SyncInterval \in Nat
    <3>1. rest[n] \in [{"mempool", "chain"} -> 0..SyncInterval]
      BY <1>1 DEF Typed
    <3> QED  BY <3>1, SystemAssumption
  <2> QED  BY <2>1, <2>2 DEF Asked, Catching
<1> QED  BY <1>7, <1>8, <1>9, <1>10 DEF ChainInv

LEMMA CloseChains ==
    ASSUME LoopInv, VoteInv, ChainInv, NEW n \in Nodes, Close(n), [U!Next]_(U!vars)
    PROVE  ChainInv'
<1>1. /\ pc[n] # "idle" /\ state[n] = "LEADER" /\ left[n] = {} /\ request[n] = Nil
      /\ UNCHANGED <<time, rest, left, request>>
      /\ \A m \in Nodes \ {n} : SameAt(m)
      /\ \/ UNCHANGED <<state, winning, chain, mempool>>
         \/ /\ state'[n] = "BLOCK" /\ time[n] = RoundsEnd(n) + 2 * BlockPeriod + 1
            /\ E!After(n, 2)
  BY CloseLoop
<1>2. ~Lags(n)
  BY <1>1 DEF Lags
<1>3. CASE UNCHANGED <<state, winning, chain, mempool>>
  BY <1>1, <1>2, <1>3, PhaseChains
<1>4. CASE E!After(n, 2) /\ state'[n] = "BLOCK" /\ time[n] = RoundsEnd(n) + 2 * BlockPeriod + 1
  BY <1>1, <1>4, Elects, RecordChains
<1> QED  BY <1>1, <1>3, <1>4

-----------------------------------------------------------------------------
(* The theorems *)

LEMMA Starting ==
    ASSUME Init
    PROVE  SystemInv /\ ChainInv
<1>1. /\ time = [n \in Nodes |-> 0] /\ pc = [n \in Nodes |-> "idle"]
      /\ state = [n \in Nodes |-> "MINING"] /\ winning = [n \in Nodes |-> <<>>]
      /\ on = [n \in Nodes |-> {"mempool"}] /\ left = [n \in Nodes |-> {}]
      /\ rest = [n \in Nodes |-> [k \in {"mempool", "chain"} |-> 0]]
      /\ chain = [n \in Nodes |-> <<>>] /\ mempool = [n \in Nodes |-> [t \in Txs |-> Nil]]
      /\ request = [n \in Nodes |-> Nil]
  BY DEF Init, N!Init, E!Init, N!NoTxs
<1>2. Typed
  <2>1. <<>> \in Seq(Nodes) /\ <<>> \in Seq(N!Block) /\ [t \in Txs |-> Nil] \in N!Pool
    BY DEF N!Pool
  <2>2. [k \in {"mempool", "chain"} |-> 0] \in [{"mempool", "chain"} -> 0..SyncInterval]
    BY SystemAssumption
  <2> QED  BY <1>1, <2>1, <2>2 DEF Typed
<1>3. Turns
  BY <1>1 DEF Turns
<1>4. ASSUME NEW n \in Nodes
      PROVE  /\ Rounds(n) = 0 /\ RoundsEnd(n) = 0 /\ Height(n) = 0
             /\ DOMAIN chain[n] = {} /\ DOMAIN winning[n] = {}
  <2>1. winning[n] = <<>> /\ chain[n] = <<>>
    BY <1>1
  <2>2. Rounds(n) = 0 /\ Height(n) = 0
    BY <2>1 DEF Rounds, Height
  <2>3. RoundsEnd(n) = 0
    <3>1. \A c \in Nat : c * 0 = 0
      OBVIOUS
    <3> QED  BY <2>2, <3>1, Periods DEF RoundsEnd
  <2> QED  BY <2>1, <2>2, <2>3
<1>5. ASSUME NEW n \in Nodes PROVE OnTime(n) /\ Pinging(n)
  <2>1. OnTime(n)
    BY <1>1, <1>4, Periods DEF OnTime
  <2>2. Pinging(n)
    BY <1>1 DEF Pinging
  <2> QED  BY <2>1, <2>2
<1>6. OneHistory
  BY <1>4 DEF OneHistory
<1>7. ASSUME NEW n \in Nodes PROVE Chained(n) /\ Asked(n) /\ Catching(n)
  BY <1>1, <1>4 DEF Chained, Stacked, Lags, Asked, Catching
<1>8. VoteInv
  <2>1. /\ candidate = [n \in Nodes |-> Nil] /\ cache = [n \in Nodes |-> [val |-> Inf, sig |-> Nil]]
        /\ votes = [n \in Nodes |-> <<>>] /\ recent = [n \in Nodes |-> <<>>]
        /\ asking = [n \in Nodes |-> {}] /\ reply = [n \in Nodes |-> E!NoReply]
        /\ alive = [n \in Nodes |-> TRUE]
    BY DEF Init, E!Init, E!NoSignature
  <2>2. VoteTyped
    <3>1. [val |-> Inf, sig |-> Nil] \in [val : Nat \cup Id, sig : Id]
      BY SystemAssumption DEF Id
    <3>2. <<>> \in Seq([vote : Id, sig : Nodes]) /\ <<>> \in Seq(Id) /\ Nil \in Id
      BY DEF Id
    <3> QED  BY <2>1, <3>1, <3>2 DEF VoteTyped
  <2>3. ASSUME NEW n \in Nodes PROVE InHand(n) /\ Signed(n)
    BY <1>1, <2>1 DEF InHand, Signed, Voting
  <2> QED  BY <2>2, <2>3 DEF VoteInv
<1>9. RequestInv
  BY <1>1 DEF RequestInv, Requested
<1> QED  BY <1>2, <1>3, <1>5, <1>6, <1>7, <1>8, <1>9 DEF SystemInv, LoopInv, ChainInv

\* What has to do with exchanges leaves the vote alone.
LEMMA ExchangeVotes ==
    ASSUME VoteInv, NEW n \in Nodes, Exchange(n) \/ \E p \in Nodes : Ask(n, p)
    PROVE  VoteInv'
<1>1. DOMAIN alive = Nodes
  BY DEF VoteInv, VoteTyped
<1>2. UNCHANGED <<voteVars, state, winning>>
  BY DEF Exchange, Ask, Offer, N!MempoolSync, N!ChainSync, N!ReceiveTransactions,
         N!ReceiveBlocks, N!AnswerMissing, N!AnswerBlock
<1>3. alive' = alive \/ alive' = [alive EXCEPT ![n] = FALSE]
  BY DEF Exchange, Ask, Offer, N!MempoolSync, N!ChainSync, N!ReceiveTransactions,
         N!ReceiveBlocks, N!AnswerMissing, N!AnswerBlock
<1> QED  BY <1>1, <1>2, <1>3, NoVote

LEMMA LoopStays ==
    ASSUME LoopInv, UNCHANGED vars
    PROVE  LoopInv'
<1>1. UNCHANGED <<time, pc, turn, state, winning, on, rest, left, chain, mempool, request>>
  BY DEF vars, nodeVars, voteVars
<1>2. Typed'
  BY <1>1 DEF LoopInv, Typed
<1>3. Turns'
  BY <1>1 DEF LoopInv, Turns
<1>4. ASSUME NEW n \in Nodes PROVE OnTime(n)' /\ Pinging(n)'
  BY <1>1 DEF LoopInv, OnTime, Pinging, Rounds, RoundsEnd
<1> QED  BY <1>2, <1>3, <1>4 DEF LoopInv

\* A step of a node in no exchange, or one that leaves all requests alone.
LEMMA FreeRequests ==
    ASSUME LoopInv, RequestInv, NEW n \in Nodes, request' = request,
           \/ request[n] = Nil /\ (Order[turn] = n \/ pc[n] # "idle")
           \/ UNCHANGED <<chain, mempool>>
    PROVE  RequestInv'
<1>1. CASE UNCHANGED <<chain, mempool>>
  BY <1>1, SameRequests
<1>2. CASE request[n] = Nil /\ (Order[turn] = n \/ pc[n] # "idle")
  BY <1>2, OneRequest DEF Requested
<1> QED  BY <1>1, <1>2

\* Every step keeps the loop, the vote and the exchanges as they are, and no
\* server thread ends.
LEMMA SystemSteps ==
    ASSUME SystemInv, [Next]_vars
    PROVE  SystemInv' /\ server' = server
<1>0. DOMAIN alive = Nodes /\ LoopInv /\ VoteInv /\ RequestInv
  BY DEF SystemInv, VoteInv, VoteTyped
<1>1. CASE UNCHANGED vars
  <2>1. LoopInv' /\ RequestInv'
    BY <1>0, <1>1, LoopStays, SameRequests DEF vars, nodeVars
  <2>2. VoteInv'
    BY <1>0, <1>1, NoVote DEF vars
  <2> QED  BY <1>1, <2>1, <2>2 DEF vars, SystemInv
<1>2. ASSUME NEW n \in Nodes, NEW t \in Txs, SendTransaction(n, t)
      PROVE  SystemInv' /\ server' = server
  <2>1. UNCHANGED <<voteVars, state, winning, alive, server, request>>
    BY <1>2 DEF SendTransaction, N!SendTransaction
  <2>2. Order[turn] = n /\ request[n] = Nil
    BY <1>0, <1>2 DEF SendTransaction, E!MyTurn, LoopInv, Pinging
  <2> QED  BY <1>0, <1>2, <2>1, <2>2, SendLoop, NoVote, FreeRequests DEF SystemInv
<1>3. ASSUME NEW n \in Nodes, Begin(n) PROVE SystemInv' /\ server' = server
  BY <1>0, <1>3, BeginLoop, BeginVotes, FreeRequests DEF SystemInv, Begin, E!Begin, E!up
<1>4. ASSUME NEW n \in Nodes, NEW p \in Nodes, Ask(n, p) PROVE SystemInv' /\ server' = server
  BY <1>0, <1>4, AskLoop, ExchangeVotes, AskRequests DEF SystemInv
<1>5. ASSUME NEW n \in Nodes, Exchange(n) PROVE SystemInv' /\ server' = server
  BY <1>0, <1>5, ExchangeLoop, ExchangeVotes DEF SystemInv
<1>6. ASSUME NEW n \in Nodes, Vote(n) PROVE SystemInv' /\ server' = server
  BY <1>0, <1>6, VoteLoop, VoteVotes, FreeRequests DEF SystemInv
<1>7. ASSUME NEW n \in Nodes, Count(n) PROVE SystemInv' /\ server' = server
  BY <1>0, <1>7, VoteLoop, CountVotes, FreeRequests DEF SystemInv
<1>8. ASSUME NEW n \in Nodes, RunMining(n) PROVE SystemInv' /\ server' = server
  BY <1>0, <1>8, MineLoop, MineVotes, FreeRequests DEF SystemInv, RunMining, E!MineWith
<1>9. ASSUME NEW n \in Nodes, Close(n) PROVE SystemInv' /\ server' = server
  <2>1. LoopInv' /\ pc[n] # "idle" /\ request[n] = Nil /\ request' = request
    BY <1>0, <1>9, CloseLoop
  <2>2. server' = server
    BY <1>9 DEF Close, E!Close, E!up
  <2> QED  BY <1>0, <1>9, <2>1, <2>2, CloseVotes, FreeRequests DEF SystemInv
<1>10. ASSUME NEW n \in Nodes, RunBlock(n) PROVE SystemInv' /\ server' = server
  BY <1>0, <1>10, BlockLoop, BlockVotes, FreeRequests DEF SystemInv, RunBlock, E!RunBlock, E!up
<1> QED  BY <1>1, <1>2, <1>3, <1>4, <1>5, <1>6, <1>7, <1>8, <1>9, <1>10 DEF Next, StepOf

\* The loop of sync_test.py with everything that a step does, for any robots,
\* ranges, periods and signature values: one node is at work at a time, each
\* leaves its phases on time, a node that is asked for its vote has one, and
\* what a peer offers it still has when it is asked for it.
THEOREM AlwaysInStep == Spec => []SystemInv
<1>1. Init => SystemInv
  BY Starting
<1>2. SystemInv /\ [Next]_vars => SystemInv'
  BY SystemSteps
<1> QED  BY <1>1, <1>2, PTL DEF Spec

\* In one loop handle_request_missing_mempool and handle_vote_request never
\* raise: the KeyError and the vote without a signature of module Node are for
\* robots that run in processes of their own.
THEOREM ServersAlwaysUp == Spec => []ServersUp
<1>1. Init => SystemInv /\ ServersUp
  BY Starting DEF Init, N!Init, ServersUp
<1>2. SystemInv /\ ServersUp /\ [Next]_vars => SystemInv' /\ ServersUp'
  BY SystemSteps DEF ServersUp
<1> QED  BY <1>1, <1>2, PTL DEF Spec

-----------------------------------------------------------------------------
(* The network implements Node *)

\* Every step of the system is one of module Node, or leaves its variables
\* alone.
LEMMA NodeSteps ==
    ASSUME SystemInv, [Next]_vars
    PROVE  [N!Next]_(N!vars)
<1>0. LoopInv /\ VoteInv /\ RequestInv
  BY DEF SystemInv
<1>1. CASE UNCHANGED vars
  BY <1>1 DEF vars, nodeVars, N!vars
<1>2. ASSUME NEW n \in Nodes, NEW t \in Txs, SendTransaction(n, t) PROVE N!Next
  BY <1>2 DEF SendTransaction, N!Next
<1>3. ASSUME NEW n \in Nodes, Begin(n) PROVE UNCHANGED N!vars
  BY <1>3 DEF Begin, E!Begin, E!lead, E!up, nodeVars, N!vars
<1>4. ASSUME NEW n \in Nodes, NEW p \in Nodes, Ask(n, p) PROVE [N!Next]_(N!vars)
  <2>1. CASE N!MempoolSync(n, p) \/ N!ChainSync(n, p)
    BY <2>1 DEF N!Next
  <2>2. CASE UNCHANGED <<nodeVars, state, winning, alive, server>>
    BY <2>2 DEF nodeVars, N!vars
  <2> QED  BY <1>4, <2>1, <2>2 DEF Ask, Offer
<1>5. ASSUME NEW n \in Nodes, Exchange(n) PROVE N!Next
  BY <1>5 DEF Exchange, N!Exchange, N!Next
<1>6. ASSUME NEW n \in Nodes, Vote(n) \/ Count(n) PROVE UNCHANGED N!vars
  <2>1. UNCHANGED <<nodeVars, state, winning, alive, server>>
    BY <1>0, <1>6, VoteVotes, CountVotes
  <2> QED  BY <2>1 DEF nodeVars, N!vars
<1>7. ASSUME NEW n \in Nodes, RunMining(n) PROVE [N!Next]_(N!vars)
  <2>1. CASE E!After(n, 1)
    BY <1>7, <2>1 DEF RunMining, N!Next
  <2>2. CASE ~E!After(n, 1)
    <3>1. UNCHANGED <<nodeVars, state, winning, alive, server>>
      BY <1>7, <2>2 DEF RunMining, E!MineWith
    <3> QED  BY <3>1 DEF nodeVars, N!vars
  <2> QED  BY <2>1, <2>2
<1>8. ASSUME NEW n \in Nodes, Close(n) PROVE [N!Next]_(N!vars)
  <2>1. CASE E!After(n, 2)
    <3>1. N!EndElection(n, candidate[n], cache[n].sig)
      BY <1>8, <2>1 DEF Close
    <3>2. candidate[n] \in Nodes \cup {Nil}
      BY <1>0 DEF VoteInv, VoteTyped, Id
    <3>3. cache[n].sig \in Nodes
      <4>1. alive[n] /\ state[n] = "LEADER"
        BY <1>0, <1>8, CloseLoop DEF Close, E!Close, E!MyTurn
      <4> QED  BY <1>0, <4>1 DEF VoteInv, Signed, Voting
    <3> QED  BY <3>1, <3>2, <3>3 DEF N!Next
  <2>2. CASE ~E!After(n, 2)
    <3>1. UNCHANGED <<nodeVars, state, winning, alive, server>>
      BY <1>8, <2>2 DEF Close, E!Close, E!up
    <3> QED  BY <3>1 DEF nodeVars, N!vars
  <2> QED  BY <2>1, <2>2
<1>9. ASSUME NEW n \in Nodes, RunBlock(n) PROVE [N!Next]_(N!vars)
  <2>1. CASE E!Cycled(n) < BlockPeriod
    BY <1>9, <2>1 DEF RunBlock, N!Next
  <2>2. CASE ~(E!Cycled(n) < BlockPeriod)
    <3>1. UNCHANGED <<nodeVars, winning, alive, server>>
      BY <1>9, <2>2 DEF RunBlock, E!RunBlock, E!up
    <3>2. state' = state
      BY <1>9, <2>2 DEF RunBlock, E!RunBlock
    <3> QED  BY <3>1, <3>2 DEF nodeVars, N!vars
  <2> QED  BY <2>1, <2>2
<1> QED  BY <1>1, <1>2, <1>3, <1>4, <1>5, <1>6, <1>7, <1>8, <1>9 DEF Next, StepOf

\* The elections that module Election computes, in the timing of the loop, are
\* among those that module Node takes as given: whatever holds of Node for every
\* outcome of a vote holds of the whole system.
THEOREM NodeImplemented == Spec => N!Spec
<1>1. Init => SystemInv /\ N!Init
  BY Starting DEF Init
<1>2. SystemInv /\ [Next]_vars => SystemInv' /\ [N!Next]_(N!vars)
  BY SystemSteps, NodeSteps
<1> QED  BY <1>1, <1>2, PTL DEF Spec, N!Spec

-----------------------------------------------------------------------------
(* What the two modules agree on: the invariant *)

Agrees(w, sig) == w \in {sig, Nil}

\* A candidate has the signature that it stands for, wherever it is read.
Paired(n) ==
    /\ pc[n] # "adopt" => Agrees(candidate[n], cache[n].sig)
    /\ state[n] = "MINING" => candidate[n] = Nil
    /\ \A i \in DOMAIN votes[n] : Agrees(votes[n][i].vote, votes[n][i].sig)
    /\ reply[n] # E!NoReply => reply[n].vote = candidate[reply[n].peer]

PairInv == \A n \in Nodes : Paired(n)

\* Copies are of transactions that were sent, and a completed one has come
\* over a hop.
Genuine(pool, known) ==
    \A t \in N!Held(pool) : t \in known /\ (pool[t].completed => pool[t].sigs # <<>>)

GenuineBlocks(bs, known) == \A i \in DOMAIN bs : Genuine(bs[i].data, known)

\* n has no copy of these that its destination has signed.
Open(n, ids) == \A t \in ids : mempool[n][t] # Nil => ~mempool[n][t].completed

Sought(n) ==
    \/ request[n] = Nil
    \/ request[n].kind = "missing" /\ Open(n, request[n].ids)
    \/ /\ request[n].kind = "txs" /\ Genuine(request[n].txs, sent)
       /\ Open(n, N!Held(request[n].txs))
       /\ \A t \in N!Held(request[n].txs) : request[n].txs[t].sigs # <<>>
    \/ request[n].kind = "block" /\ state[n] # "MINING"
    \/ /\ request[n].kind = "blocks" /\ state[n] # "MINING"
       /\ GenuineBlocks(request[n].blocks, sent)

Copies(n) ==
    /\ Genuine(mempool[n], sent)
    /\ GenuineBlocks(chain[n], sent)
    /\ Sought(n)

CopyInv == \A n \in Nodes : Copies(n)

\* The completed transactions that n's scan has not marked yet.
Unchecked(n) == {t \in N!Held(mempool[n]) : mempool[n][t].completed /\ t \notin checked[n]}

\* In the MINING phase a signature is cached only if there is a transaction to
\* have it from, and any number is lower than none.
Scanned(n) ==
    /\ Len(recent[n]) <= MaxRecentLeaders
    /\ state[n] = "MINING" => IF cache[n].sig = Nil THEN cache[n].val = Inf
                                                   ELSE Unchecked(n) # {}

ScanInv == DOMAIN checked = Nodes /\ \A n \in Nodes : Scanned(n)

-----------------------------------------------------------------------------
(* Candidates and signatures *)

\* A step of n, where the vote of all others stays as it is.
LEMMA OnePair ==
    ASSUME PairInv, NEW n \in Nodes, Paired(n)',
           \A m \in Nodes \ {n} :
              /\ pc'[m] = pc[m] /\ state'[m] = state[m] /\ candidate'[m] = candidate[m]
              /\ cache'[m] = cache[m] /\ votes'[m] = votes[m]
              /\ reply'[m] = reply[m] /\ reply[m] = E!NoReply
    PROVE  PairInv'
<1>1. ASSUME NEW m \in Nodes \ {n} PROVE Paired(m)'
  BY <1>1 DEF PairInv, Paired, E!NoReply
<1> QED  BY <1>1 DEF PairInv

\* Nobody but the node that has the turn waits for a vote.
LEMMA NoReplies ==
    ASSUME SystemInv, NEW n \in Nodes, Order[turn] = n \/ pc[n] # "idle"
    PROVE  \A m \in Nodes \ {n} : pc[m] = "idle" /\ reply[m] = E!NoReply
<1>1. \A m \in Nodes \ {n} : pc[m] = "idle"
  BY Alone DEF SystemInv
<1>2. \A m \in Nodes : reply[m] # E!NoReply => pc[m] = "ask"
  BY DEF SystemInv, VoteInv, InHand
<1> QED  BY <1>1, <1>2

LEMMA SamePairs ==
    ASSUME PairInv, UNCHANGED <<voteVars, state>>
    PROVE  PairInv'
BY DEF PairInv, Paired, voteVars, E!NoReply

LEMMA VotePairs ==
    ASSUME SystemInv, PairInv, NEW n \in Nodes, Vote(n)
    PROVE  PairInv'
<1>0. /\ DOMAIN pc = Nodes /\ DOMAIN reply = Nodes /\ DOMAIN votes = Nodes
      /\ votes[n] \in Seq([vote : Id, sig : Nodes]) /\ InHand(n) /\ Paired(n)
  BY DEF SystemInv, LoopInv, Typed, VoteInv, VoteTyped, PairInv
<1>1. Order[turn] = n
  BY DEF Vote, E!AskVote, E!GetVote, E!VotesIn, E!MyTurn
<1>2. \A m \in Nodes \ {n} : pc[m] = "idle" /\ reply[m] = E!NoReply
  BY <1>1, NoReplies
<1>3. ASSUME NEW p \in Nodes, E!AskVote(n, p) PROVE PairInv'
  <2>1. /\ UNCHANGED <<pc, state, candidate, cache, votes>>
        /\ reply' = [reply EXCEPT ![n] = [peer |-> p, vote |-> candidate[p]]]
    BY <1>3 DEF E!AskVote, E!step, E!lead
  <2>2. reply'[n] = [peer |-> p, vote |-> candidate[p]]
    BY <1>0, <2>1
  <2>3. Paired(n)'
    BY <1>0, <2>1, <2>2 DEF Paired
  <2> QED  BY <1>0, <1>2, <2>1, <2>3, OnePair
<1>4. ASSUME E!GetVote(n) PROVE PairInv'
  <2> DEFINE p == reply[n].peer
             v == [vote |-> reply[n].vote, sig |-> cache[p].sig]
  <2>1. /\ UNCHANGED <<pc, state, candidate, cache>> /\ reply' = [reply EXCEPT ![n] = E!NoReply]
        /\ votes' = votes \/ votes' = [votes EXCEPT ![n] = Append(@, v)]
    BY <1>4 DEF E!GetVote, E!step
  <2>2. reply[n] # E!NoReply /\ pc[n] = "ask" /\ p \in Nodes
    BY <1>0, <1>4 DEF E!GetVote, InHand, SystemInv, VoteInv, VoteTyped
  <2>3. Agrees(v.vote, v.sig)
    <3>1. pc[p] # "adopt"
      BY <1>2, <2>2
    <3> QED  BY <1>0, <2>2, <3>1 DEF PairInv, Paired
  <2>4. reply'[n] = E!NoReply
    BY <1>0, <2>1
  <2> HIDE DEF v, p
  <2>5. \A i \in DOMAIN votes'[n] : Agrees(votes'[n][i].vote, votes'[n][i].sig)
    <3>1. \A i \in DOMAIN votes[n] : Agrees(votes[n][i].vote, votes[n][i].sig)
      BY <1>0 DEF Paired
    <3>2. \A i \in DOMAIN Append(votes[n], v) :
             \/ Append(votes[n], v)[i] = v
             \/ i \in DOMAIN votes[n] /\ Append(votes[n], v)[i] = votes[n][i]
      BY <1>0
    <3>3. votes'[n] = votes[n] \/ votes'[n] = Append(votes[n], v)
      BY <1>0, <2>1
    <3> QED  BY <2>3, <3>1, <3>2, <3>3
  <2>6. Paired(n)'
    BY <1>0, <2>1, <2>4, <2>5 DEF Paired, E!NoReply
  <2> QED  BY <1>0, <1>2, <2>1, <2>6, OnePair
<1>5. ASSUME E!VotesIn(n) PROVE PairInv'
  <2>1. /\ UNCHANGED <<state, candidate, cache, votes, reply>> /\ pc[n] = "ask"
        /\ pc' = [pc EXCEPT ![n] = "run"]
    BY <1>5 DEF E!VotesIn, E!Goto, E!lead
  <2>2. Paired(n)'
    BY <1>0, <2>1 DEF Paired, E!NoReply
  <2> QED  BY <1>0, <1>2, <2>1, <2>2, OnePair
<1> QED  BY <1>3, <1>4, <1>5 DEF Vote

LEMMA CountPairs ==
    ASSUME SystemInv, PairInv, NEW n \in Nodes, Count(n)
    PROVE  PairInv'
<1>0. /\ DOMAIN pc = Nodes /\ VoteTyped /\ InHand(n) /\ Paired(n)
      /\ DOMAIN candidate = Nodes /\ DOMAIN cache = Nodes /\ DOMAIN votes = Nodes
  BY DEF SystemInv, LoopInv, Typed, VoteInv, VoteTyped, PairInv
<1>1. pc[n] \in {"run", "adopt"} /\ state[n] = "LEADER"
  BY DEF Count, E!Tally, E!Adopt, SystemInv, LoopInv, Pinging
<1>2. reply[n] = E!NoReply /\ \A m \in Nodes \ {n} : pc[m] = "idle" /\ reply[m] = E!NoReply
  BY <1>0, <1>1, NoReplies DEF InHand
<1>3. CASE E!Tally(n)
  <2>1. /\ pc[n] = "run" /\ UNCHANGED <<state, cache, reply>>
        /\ votes' = votes \/ votes' = [votes EXCEPT ![n] = <<>>]
        /\ \/ pc' = [pc EXCEPT ![n] = "adopt"] /\ \E w : candidate' = [candidate EXCEPT ![n] = w]
           \/ pc' = [pc EXCEPT ![n] = "close"] /\ candidate' = candidate
    BY <1>3 DEF E!Tally, E!Goto, E!pings
  <2>2. Paired(n)'
    BY <1>0, <1>1, <1>2, <2>1 DEF Paired, E!NoReply
  <2> QED  BY <1>0, <1>2, <2>1, <2>2, OnePair
<1>4. CASE E!Adopt(n)
  <2> DEFINE first == E!FirstVote(n, candidate[n])
  <2>1. /\ pc[n] = "adopt" /\ UNCHANGED <<state, candidate, reply>>
        /\ pc' = [pc EXCEPT ![n] = "close"] /\ votes' = [votes EXCEPT ![n] = <<>>]
        /\ cache' = [cache EXCEPT ![n] = [val |-> candidate[n], sig |-> votes[n][first].sig]]
    BY <1>4 DEF E!Adopt, E!Adopted, E!Goto, E!pings
  <2>2. first \in DOMAIN votes[n] /\ votes[n][first].vote = candidate[n]
    BY <1>0, <2>1, FirstVoteFor DEF InHand
  <2>3. Agrees(candidate[n], votes[n][first].sig)
    BY <1>0, <2>2 DEF Paired
  <2> HIDE DEF first
  <2>4. Paired(n)'
    BY <1>0, <1>1, <1>2, <2>1, <2>3 DEF Paired, E!NoReply
  <2> QED  BY <1>0, <1>2, <2>1, <2>4, OnePair
<1> QED  BY <1>3, <1>4 DEF Count

LEMMA PairStep ==
    ASSUME SystemInv, PairInv, [Next]_vars
    PROVE  PairInv'
<1>0. /\ DOMAIN pc = Nodes /\ DOMAIN state = Nodes /\ DOMAIN candidate = Nodes /\ DOMAIN cache = Nodes
      /\ \A n \in Nodes : Paired(n) /\ InHand(n)
  BY DEF SystemInv, LoopInv, Typed, VoteInv, VoteTyped, PairInv
<1>1. CASE UNCHANGED vars
  BY <1>1, SamePairs DEF vars
<1>2. ASSUME NEW n \in Nodes, NEW t \in Txs, SendTransaction(n, t) PROVE PairInv'
  BY <1>2, SamePairs DEF SendTransaction, N!SendTransaction
<1>3. ASSUME NEW n \in Nodes, Begin(n) PROVE PairInv'
  <2>1. /\ Order[turn] = n /\ pc[n] = "idle" /\ UNCHANGED <<state, candidate, cache, votes, reply>>
        /\ pc' = [pc EXCEPT ![n] = "ask"] \/ pc' = [pc EXCEPT ![n] = "run"]
    BY <1>3 DEF Begin, E!Begin, E!MyTurn, E!Goto, E!lead
  <2>2. Paired(n)'
    BY <1>0, <2>1 DEF Paired, E!NoReply
  <2> QED  BY <1>0, <2>1, <2>2, NoReplies, OnePair
<1>4. ASSUME NEW n \in Nodes, Exchange(n) \/ \E p \in Nodes : Ask(n, p) PROVE PairInv'
  <2>1. UNCHANGED <<voteVars, state>>
    BY <1>4 DEF Exchange, Ask, Offer, N!MempoolSync, N!ChainSync, N!ReceiveTransactions,
                N!ReceiveBlocks, N!AnswerMissing, N!AnswerBlock
  <2> QED  BY <2>1, SamePairs
<1>5. ASSUME NEW n \in Nodes, RunMining(n) PROVE PairInv'
  <2> DEFINE low == E!Lowest(n, Fresh(n))
  <2>1. /\ pc[n] = "run" /\ state[n] = "MINING" /\ pc' = [pc EXCEPT ![n] = "idle"]
        /\ cache' = [cache EXCEPT ![n] = low] /\ UNCHANGED <<votes, reply>>
        /\ \/ UNCHANGED <<state, candidate>>
           \/ /\ state' = [state EXCEPT ![n] = "LEADER"]
              /\ \/ candidate' = candidate
                 \/ candidate' = [candidate EXCEPT ![n] = cache'[n].sig]
    BY <1>5 DEF RunMining, E!MineWith, E!Done
  <2> HIDE DEF low
  <2>2. reply[n] = E!NoReply /\ candidate[n] = Nil
    BY <1>0, <2>1 DEF InHand, Paired
  <2>3. Paired(n)'
    BY <1>0, <2>1, <2>2 DEF Paired, Agrees, E!NoReply
  <2> QED  BY <1>0, <2>1, <2>3, NoReplies, OnePair
<1>6. ASSUME NEW n \in Nodes, Close(n) PROVE PairInv'
  <2>1. /\ pc[n] = "close" /\ pc' = [pc EXCEPT ![n] = "idle"] /\ UNCHANGED <<candidate, cache, votes, reply>>
        /\ state' = state \/ state' = [state EXCEPT ![n] = "BLOCK"]
    BY <1>6 DEF Close, E!Close, E!Done
  <2>2. reply[n] = E!NoReply
    BY <1>0, <2>1 DEF InHand
  <2>3. Paired(n)'
    BY <1>0, <2>1, <2>2 DEF Paired, E!NoReply
  <2> QED  BY <1>0, <2>1, <2>3, NoReplies, OnePair
<1>7. ASSUME NEW n \in Nodes, RunBlock(n) PROVE PairInv'
  <2>1. /\ pc[n] = "run" /\ pc' = [pc EXCEPT ![n] = "idle"] /\ UNCHANGED <<votes, reply>>
        /\ cache' = [cache EXCEPT ![n] = E!ResetCache(n)]
        /\ candidate' = [candidate EXCEPT ![n] = Nil]
        /\ state' = state \/ state' = [state EXCEPT ![n] = "MINING"]
    BY <1>7 DEF RunBlock, E!RunBlock, E!Done
  <2>2. reply[n] = E!NoReply /\ candidate'[n] = Nil
    BY <1>0, <2>1 DEF InHand
  <2>3. Paired(n)'
    BY <1>0, <2>1, <2>2 DEF Paired, Agrees, E!NoReply
  <2> QED  BY <1>0, <2>1, <2>3, NoReplies, OnePair
<1> QED  BY <1>1, <1>2, <1>3, <1>4, <1>5, <1>6, <1>7, VotePairs, CountPairs DEF Next, StepOf

-----------------------------------------------------------------------------
(* Copies of transactions *)

\* What has been sent stays so.
LEMMA StaysGenuine ==
    ASSUME NEW pool, NEW known, NEW more, known \subseteq more
    PROVE  Genuine(pool, known) => Genuine(pool, more)
BY DEF Genuine

LEMMA BlocksStayGenuine ==
    ASSUME NEW bs, NEW known, NEW more, known \subseteq more, GenuineBlocks(bs, known)
    PROVE  GenuineBlocks(bs, more)
BY StaysGenuine DEF GenuineBlocks

\* A part of a chain, and one put together.
LEMMA PartGenuine ==
    ASSUME NEW bs \in Seq(N!Block), NEW known, GenuineBlocks(bs, known),
           NEW a \in Nat \ {0}, NEW b \in Nat, b <= Len(bs)
    PROVE  GenuineBlocks(SubSeq(bs, a, b), known)
<1>1. ASSUME NEW i \in DOMAIN SubSeq(bs, a, b) PROVE \E j \in DOMAIN bs : SubSeq(bs, a, b)[i] = bs[j]
  BY <1>1
<1> QED  BY <1>1 DEF GenuineBlocks

LEMMA JoinGenuine ==
    ASSUME NEW bs \in Seq(N!Block), NEW cs \in Seq(N!Block), NEW known,
           GenuineBlocks(bs, known), GenuineBlocks(cs, known)
    PROVE  GenuineBlocks(bs \o cs, known)
<1>1. ASSUME NEW i \in DOMAIN (bs \o cs)
      PROVE  \/ \E j \in DOMAIN bs : (bs \o cs)[i] = bs[j]
             \/ \E j \in DOMAIN cs : (bs \o cs)[i] = cs[j]
  BY <1>1
<1> QED  BY <1>1 DEF GenuineBlocks

\* A step of n, while nobody else is in an exchange.
LEMMA OneCopies ==
    ASSUME CopyInv, NEW n \in Nodes, Copies(n)', sent \subseteq sent',
           \A m \in Nodes \ {n} : /\ chain'[m] = chain[m] /\ mempool'[m] = mempool[m]
                                  /\ request'[m] = request[m] /\ request[m] = Nil
    PROVE  CopyInv'
<1>1. ASSUME NEW m \in Nodes \ {n} PROVE Copies(m)'
  <2>1. Genuine(mempool[m], sent) /\ GenuineBlocks(chain[m], sent)
    BY DEF CopyInv, Copies
  <2>2. Genuine(mempool[m], sent') /\ GenuineBlocks(chain[m], sent')
    BY <2>1, StaysGenuine, BlocksStayGenuine
  <2>3. Genuine(mempool'[m], sent') /\ GenuineBlocks(chain'[m], sent')
    BY <2>2
  <2>4. Sought(m)'
    BY DEF Sought
  <2> QED  BY <2>3, <2>4 DEF Copies
<1> QED  BY <1>1 DEF CopyInv

LEMMA SameCopies ==
    ASSUME CopyInv, UNCHANGED <<chain, mempool, request, sent, state>>
    PROVE  CopyInv'
BY DEF CopyInv, Copies, Sought, Open

\* A step of a node in no exchange that keeps its copies.
LEMMA IdleCopies ==
    ASSUME SystemInv, CopyInv, NEW n \in Nodes, pc[n] # "idle", UNCHANGED <<request, sent>>,
           request[n] = Nil, Genuine(mempool'[n], sent), GenuineBlocks(chain'[n], sent),
           \A m \in Nodes \ {n} : chain'[m] = chain[m] /\ mempool'[m] = mempool[m]
    PROVE  CopyInv'
<1>1. \A m \in Nodes \ {n} : request[m] = Nil
  BY Alone DEF SystemInv
<1>2. Copies(n)'
  BY DEF Copies, Sought
<1> QED  BY <1>1, <1>2, OneCopies

LEMMA SendCopies ==
    ASSUME SystemInv, CopyInv, NEW n \in Nodes, NEW t \in Txs, SendTransaction(n, t)
    PROVE  CopyInv'
<1>0. mempool \in [Nodes -> N!Pool] /\ LoopInv
  BY DEF SystemInv, LoopInv, Typed
<1>1. /\ Order[turn] = n /\ request[n] = Nil /\ UNCHANGED <<chain, request, state>>
      /\ sent' = sent \cup {t}
      /\ mempool' = [mempool EXCEPT ![n][t] = [completed |-> FALSE, sigs |-> <<>>]]
  BY <1>0 DEF SendTransaction, N!SendTransaction, E!MyTurn, LoopInv, Pinging
<1>2. \A m \in Nodes \ {n} : request[m] = Nil
  BY <1>0, <1>1, Alone
<1>3. Genuine(mempool'[n], sent')
  <2> SUFFICES ASSUME NEW u \in N!Held(mempool'[n])
               PROVE  u \in sent' /\ (mempool'[n][u].completed => mempool'[n][u].sigs # <<>>)
    BY DEF Genuine
  <2>1. mempool[n] \in [Txs -> N!Copy \cup {Nil}] /\ u \in Txs
    BY <1>0 DEF N!Pool, N!Held
  <2>2. CASE u = t
    <3>1. mempool'[n][t] = [completed |-> FALSE, sigs |-> <<>>]
      BY <1>0, <1>1, <2>1
    <3> QED  BY <1>1, <2>2, <3>1
  <2>3. CASE u # t
    <3>1. mempool'[n][u] = mempool[n][u]
      BY <1>0, <1>1, <2>1, <2>3
    <3>2. u \in N!Held(mempool[n])
      BY <2>1, <3>1 DEF N!Held
    <3> QED  BY <1>1, <3>1, <3>2 DEF CopyInv, Copies, Genuine
  <2> QED  BY <2>2, <2>3
<1>4. GenuineBlocks(chain'[n], sent')
  BY <1>1, BlocksStayGenuine DEF CopyInv, Copies
<1>5. Copies(n)'
  BY <1>1, <1>3, <1>4 DEF Copies, Sought
<1> QED  BY <1>0, <1>1, <1>2, <1>5, OneCopies

\* A leader puts copies into its block that it holds.
LEMMA CloseCopies ==
    ASSUME SystemInv, CopyInv, NEW n \in Nodes, Close(n)
    PROVE  CopyInv'
<1>0. /\ LoopInv /\ VoteInv /\ mempool \in [Nodes -> N!Pool] /\ chain \in [Nodes -> Seq(N!Block)]
      /\ Genuine(mempool[n], sent) /\ GenuineBlocks(chain[n], sent)
  BY DEF SystemInv, LoopInv, Typed, CopyInv, Copies
<1>1. pc[n] # "idle" /\ request[n] = Nil /\ request' = request
  BY <1>0, CloseLoop
<1>2. /\ UNCHANGED sent
      /\ \/ UNCHANGED <<chain, mempool>>
         \/ /\ \E nonce \in Nonces : chain' = [chain EXCEPT ![n] = Append(@, N!NewBlock(n, nonce))]
            /\ mempool' = [mempool EXCEPT ![n] = N!NoTxs]
  BY DEF Close, nodeVars, N!EndElection, N!CreateBlock, N!ClearedMempool
<1>3. CASE UNCHANGED <<chain, mempool>>
  BY <1>0, <1>1, <1>2, <1>3, IdleCopies
<1>4. ASSUME NEW nonce \in Nonces,
             chain' = [chain EXCEPT ![n] = Append(@, N!NewBlock(n, nonce))],
             mempool' = [mempool EXCEPT ![n] = N!NoTxs]
      PROVE  CopyInv'
  <2>1. N!NewBlock(n, nonce) \in N!Block /\ N!NewBlock(n, nonce).data = N!BlockData(n)
    BY <1>0, BlockMade
  <2>2. Genuine(N!BlockData(n), sent)
    <3>1. \A t \in N!Held(N!BlockData(n)) :
             t \in N!Held(mempool[n]) /\ N!BlockData(n)[t] = mempool[n][t]
      BY DEF N!Held, N!BlockData
    <3> QED  BY <1>0, <3>1 DEF Genuine
  <2>3. GenuineBlocks(chain'[n], sent)
    <3> DEFINE b == N!NewBlock(n, nonce)
    <3>1. chain'[n] = Append(chain[n], b) /\ chain[n] \in Seq(N!Block)
      BY <1>0, <1>4
    <3>2. Genuine(b.data, sent)
      BY <2>1, <2>2
    <3> HIDE DEF b
    <3>3. \A i \in DOMAIN Append(chain[n], b) :
             \/ Append(chain[n], b)[i] = b
             \/ i \in DOMAIN chain[n] /\ Append(chain[n], b)[i] = chain[n][i]
      BY <3>1
    <3> QED  BY <1>0, <3>1, <3>2, <3>3 DEF GenuineBlocks
  <2>4. Genuine(mempool'[n], sent)
    <3>1. mempool'[n] = N!NoTxs
      BY <1>0, <1>4
    <3> QED  BY <3>1 DEF Genuine, N!Held, N!NoTxs
  <2>5. \A m \in Nodes \ {n} : chain'[m] = chain[m] /\ mempool'[m] = mempool[m]
    BY <1>0, <1>4
  <2> QED  BY <1>1, <1>2, <2>3, <2>4, <2>5, IdleCopies
<1> QED  BY <1>2, <1>3, <1>4

\* A node asks for what it lacks, or for blocks.
LEMMA AskCopies ==
    ASSUME SystemInv, CopyInv, NEW n \in Nodes, NEW p \in Nodes, Ask(n, p)
    PROVE  CopyInv'
<1>0. LoopInv /\ DOMAIN request = Nodes /\ Copies(n)
  BY DEF SystemInv, LoopInv, Typed, CopyInv
<1>1. pc[n] = "run" /\ UNCHANGED <<chain, mempool, sent, state>>
  BY DEF Ask, Offer, N!MempoolSync, N!ChainSync, nodeVars
<1>2. \/ request' = request
      \/ request' = [request EXCEPT ![n] =
             [kind |-> "missing", peer |-> p, ids |-> N!FindMissing(n, mempool[p])]]
      \/ /\ state[n] = "BLOCK"
         /\ request' = [request EXCEPT ![n] = [kind |-> "block", peer |-> p, below |-> Len(chain[n]) + 1]]
  BY DEF Ask, Offer, N!MempoolSync, N!ChainSync, nodeVars
<1>3. \A m \in Nodes \ {n} : request'[m] = request[m] /\ request[m] = Nil
  BY <1>0, <1>1, <1>2, Alone
<1>4. Sought(n)'
  <2>1. CASE request' = request
    BY <1>0, <1>1, <2>1 DEF Copies, Sought, Open
  <2>2. CASE request' = [request EXCEPT ![n] =
                [kind |-> "missing", peer |-> p, ids |-> N!FindMissing(n, mempool[p])]]
    <3>1. request'[n] = [kind |-> "missing", peer |-> p, ids |-> N!FindMissing(n, mempool[p])]
      BY <1>0, <2>2
    <3>2. \A t \in N!FindMissing(n, mempool[p]) : mempool[n][t] # Nil => ~mempool[n][t].completed
      BY DEF N!FindMissing
    <3> QED  BY <1>1, <3>1, <3>2 DEF Sought, Open
  <2>3. CASE /\ state[n] = "BLOCK"
             /\ request' = [request EXCEPT ![n] =
                   [kind |-> "block", peer |-> p, below |-> Len(chain[n]) + 1]]
    BY <1>0, <1>1, <2>3 DEF Sought
  <2> QED  BY <1>2, <2>1, <2>2, <2>3
<1>5. Copies(n)'
  BY <1>0, <1>1, <1>4 DEF Copies
<1> QED  BY <1>1, <1>3, <1>5, OneCopies

\* A peer sends copies that it holds, with one more signature on those that
\* have not arrived.
LEMMA MissingCopies ==
    ASSUME SystemInv, CopyInv, NEW n \in Nodes, NEW p \in Nodes, N!AnswerMissing(n, p)
    PROVE  Sought(n)'
<1> DEFINE ids == request[n].ids
           txs == [t \in Txs |-> IF t \in ids THEN N!SignedFor(mempool[p][t], p, n) ELSE Nil]
<1>1. /\ request[n] # Nil /\ request[n].kind = "missing" /\ request[n].peer = p
      /\ Requested(n) /\ Sought(n) /\ DOMAIN request = Nodes
      /\ mempool[p] \in [Txs -> N!Copy \cup {Nil}] /\ Genuine(mempool[p], sent)
  BY DEF N!AnswerMissing, SystemInv, LoopInv, Typed, RequestInv, N!Pool, CopyInv, Copies
<1>2. ids \subseteq N!Held(mempool[p]) /\ Open(n, ids)
  BY <1>1 DEF Requested, Sought
<1>3. /\ request' = [request EXCEPT ![n] = [kind |-> "txs", peer |-> p, txs |-> txs]]
      /\ UNCHANGED <<mempool, sent>>
  BY <1>2 DEF N!AnswerMissing
<1>4. ASSUME NEW t \in N!Held(txs)
      PROVE  t \in ids /\ t \in sent /\ txs[t].sigs # <<>>
  <2>1. t \in ids /\ t \in Txs /\ txs[t] = N!SignedFor(mempool[p][t], p, n)
    BY <1>4 DEF N!Held
  <2>2. /\ mempool[p][t] \in N!Copy /\ t \in sent
        /\ mempool[p][t].completed => mempool[p][t].sigs # <<>>
    BY <1>1, <1>2, <2>1 DEF Genuine, N!Held
  <2>3. \A c \in N!Copy : ~c.completed => N!SignedFor(c, p, n).sigs # <<>>
    <3> SUFFICES ASSUME NEW c \in N!Copy, ~c.completed PROVE N!SignedFor(c, p, n).sigs # <<>>
      OBVIOUS
    <3>1. N!SignedFor(c, p, n).sigs = Append(c.sigs, [id |-> p, relayer |-> n])
      BY DEF N!SignedFor, N!AddSignature, N!Copy
    <3>2. c.sigs \in Seq(N!Entry) /\ [id |-> p, relayer |-> n] \in N!Entry
      BY DEF N!Copy, N!Entry
    <3> QED  BY <3>1, <3>2
  <2>4. mempool[p][t].completed => N!SignedFor(mempool[p][t], p, n) = mempool[p][t]
    BY DEF N!SignedFor
  <2> QED  BY <2>1, <2>2, <2>3, <2>4
<1> HIDE DEF ids, txs
<1>5. Genuine(txs, sent) /\ Open(n, N!Held(txs)) /\ \A t \in N!Held(txs) : txs[t].sigs # <<>>
  BY <1>2, <1>4 DEF Genuine, Open
<1>6. request'[n] = [kind |-> "txs", peer |-> p, txs |-> txs]
  BY <1>1, <1>3
<1> QED  BY <1>3, <1>5, <1>6 DEF Sought, Open

\* What a node takes over is as genuine as the answer.
LEMMA TakenCopies ==
    ASSUME SystemInv, CopyInv, NEW n \in Nodes, N!ReceiveTransactions(n)
    PROVE  Genuine(mempool'[n], sent)
<1> DEFINE txs == request[n].txs
<1>1. /\ request[n] # Nil /\ request[n].kind = "txs" /\ Requested(n) /\ Sought(n)
      /\ mempool \in [Nodes -> N!Pool] /\ Genuine(mempool[n], sent)
      /\ mempool' = [mempool EXCEPT ![n] = N!SyncMempool(n, txs)]
  BY DEF N!ReceiveTransactions, SystemInv, LoopInv, Typed, RequestInv, CopyInv, Copies
<1>2. txs \in [Txs -> N!Copy \cup {Nil}]
  BY <1>1 DEF Requested, N!Pool
<1>3. Genuine(txs, sent) /\ \A t \in N!Held(txs) : txs[t].sigs # <<>>
  BY <1>1 DEF Sought
<1> HIDE DEF txs
<1>4. mempool'[n] = N!SyncMempool(n, txs)
  BY <1>1
<1>5. ASSUME NEW t \in N!Held(N!SyncMempool(n, txs))
      PROVE  /\ t \in sent
             /\ N!SyncMempool(n, txs)[t].completed => N!SyncMempool(n, txs)[t].sigs # <<>>
  <2>1. \/ /\ txs[t] # Nil
           /\ N!SyncMempool(n, txs)[t] \in {txs[t], [txs[t] EXCEPT !.completed = TRUE]}
        \/ N!SyncMempool(n, txs)[t] = mempool[n][t] /\ mempool[n][t] # Nil
    BY <1>5 DEF N!SyncMempool, N!Held
  <2>2. CASE /\ txs[t] # Nil
             /\ N!SyncMempool(n, txs)[t] \in {txs[t], [txs[t] EXCEPT !.completed = TRUE]}
    <3>1. t \in Txs /\ txs[t] \in N!Copy /\ t \in N!Held(txs)
      BY <1>2, <1>5, <2>2 DEF N!Held
    <3>2. [txs[t] EXCEPT !.completed = TRUE].sigs = txs[t].sigs
      BY <3>1 DEF N!Copy
    <3> QED  BY <1>3, <2>2, <3>1, <3>2 DEF Genuine
  <2>3. CASE N!SyncMempool(n, txs)[t] = mempool[n][t] /\ mempool[n][t] # Nil
    <3>1. t \in N!Held(mempool[n])
      BY <1>5, <2>3 DEF N!Held
    <3> QED  BY <1>1, <2>3, <3>1 DEF Genuine
  <2> QED  BY <2>1, <2>2, <2>3
<1> QED  BY <1>4, <1>5 DEF Genuine

\* The peer's blocks are as genuine as its chain.
LEMMA BlockCopies ==
    ASSUME SystemInv, CopyInv, NEW n \in Nodes, NEW p \in Nodes, N!AnswerBlock(n, p)
    PROVE  Sought(n)'
<1> DEFINE heights == N!Window(n, request[n].below)
           common  == N!Common(n, p, heights)
           h       == N!Highest(common)
<1>1. /\ request[n] # Nil /\ request[n].kind = "block" /\ request[n].peer = p /\ LoopInv
      /\ Requested(n) /\ Sought(n) /\ DOMAIN request = Nodes /\ UNCHANGED <<sent, state>>
      /\ chain[p] \in Seq(N!Block) /\ GenuineBlocks(chain[p], sent)
  BY DEF N!AnswerBlock, SystemInv, LoopInv, Typed, RequestInv, CopyInv, Copies
<1>2. state[n] # "MINING" /\ request[n].below \in 1..(Len(chain[n]) + 1)
  BY <1>1 DEF Requested, Sought
<1>3. \/ request' = [request EXCEPT ![n] = Nil]
      \/ request' = [request EXCEPT ![n].below = N!RetryBelow(heights)]
      \/ /\ common # {}
         /\ request' = [request EXCEPT ![n] =
               [kind |-> "blocks", peer |-> p, height |-> h,
                blocks |-> SubSeq(chain[p], h + 1, Len(chain[p]))]]
  BY DEF N!AnswerBlock
<1>4. common # {} => h \in 0..(request[n].below - 1)
  BY <1>1, <1>2, WindowOf
<1> HIDE DEF heights, common, h
<1>5. CASE request' = [request EXCEPT ![n] = Nil]
  BY <1>1, <1>5 DEF Sought
<1>6. CASE request' = [request EXCEPT ![n].below = N!RetryBelow(heights)]
  <2>1. request[n] \in [kind : {"block"}, peer : Nodes, below : 1..(Len(chain[n]) + 1)]
    BY <1>1 DEF Requested
  <2>2. request'[n].kind = "block"
    BY <1>1, <1>6, <2>1
  <2> QED  BY <1>1, <1>2, <2>2 DEF Sought
<1>7. CASE /\ common # {}
           /\ request' = [request EXCEPT ![n] =
                 [kind |-> "blocks", peer |-> p, height |-> h,
                  blocks |-> SubSeq(chain[p], h + 1, Len(chain[p]))]]
  <2>1. h + 1 \in Nat \ {0} /\ Len(chain[p]) \in Nat
    BY <1>1, <1>4, <1>7
  <2>2. GenuineBlocks(SubSeq(chain[p], h + 1, Len(chain[p])), sent)
    BY <1>1, <2>1, PartGenuine
  <2>3. request'[n] = [kind |-> "blocks", peer |-> p, height |-> h,
                       blocks |-> SubSeq(chain[p], h + 1, Len(chain[p]))]
    BY <1>1, <1>7
  <2> QED  BY <1>1, <1>2, <2>2, <2>3 DEF Sought
<1> QED  BY <1>3, <1>5, <1>6, <1>7

\* A copy from discarded blocks is one of theirs.
LEMMA CopyGenuine ==
    ASSUME NEW bs, NEW known, GenuineBlocks(bs, known), NEW t \in N!IdsIn(bs)
    PROVE  t \in known /\ (N!CopyIn(bs, t).completed => N!CopyIn(bs, t).sigs # <<>>)
<1>1. PICK j \in DOMAIN bs : t \in Txs /\ bs[j].data[t] # Nil
  BY DEF N!IdsIn, N!Held
<1> DEFINE i == CHOOSE k \in DOMAIN bs : bs[k].data[t] # Nil
<1>2. i \in DOMAIN bs /\ bs[i].data[t] # Nil
  BY <1>1
<1>3. N!CopyIn(bs, t) = bs[i].data[t]
  BY DEF N!CopyIn
<1> HIDE DEF i
<1> QED  BY <1>1, <1>2, <1>3 DEF GenuineBlocks, Genuine, N!Held

\* What returns to the mempool is as genuine as the chain was.
LEMMA InsertedCopies ==
    ASSUME SystemInv, CopyInv, NEW n \in Nodes, N!ReceiveBlocks(n)
    PROVE  Genuine(mempool'[n], sent) /\ GenuineBlocks(chain'[n], sent)
<1> DEFINE h  == request[n].height
           bs == request[n].blocks
           gone == N!Discarded(n, h)
<1>1. /\ request[n] # Nil /\ request[n].kind = "blocks" /\ Requested(n) /\ Sought(n)
      /\ chain \in [Nodes -> Seq(N!Block)] /\ DOMAIN mempool = Nodes
      /\ Genuine(mempool[n], sent) /\ GenuineBlocks(chain[n], sent)
      /\ \/ UNCHANGED <<chain, mempool>>
         \/ /\ chain' = [chain EXCEPT ![n] = SubSeq(@, 1, h) \o bs]
            /\ mempool' = [mempool EXCEPT ![n] = N!SyncedMempool(n, h, bs)]
  BY DEF N!ReceiveBlocks, N!Insert, SystemInv, LoopInv, Typed, RequestInv, CopyInv, Copies
<1>2. /\ h \in 0..Len(chain[n]) /\ bs \in Seq(N!Block) /\ chain[n] \in Seq(N!Block)
      /\ GenuineBlocks(bs, sent)
  BY <1>1 DEF Requested, Sought
<1>3. gone = SubSeq(chain[n], h + 1, Len(chain[n]))
  BY DEF N!Discarded
<1> HIDE DEF h, bs, gone
<1>4. GenuineBlocks(gone, sent)
  <2>1. h + 1 \in Nat \ {0} /\ Len(chain[n]) \in Nat
    BY <1>2
  <2>2. GenuineBlocks(SubSeq(chain[n], h + 1, Len(chain[n])), sent)
    BY <1>1, <1>2, <2>1, PartGenuine
  <2> QED  BY <1>3, <2>2
<1>5. CASE UNCHANGED <<chain, mempool>>
  BY <1>1, <1>5
<1>6. CASE /\ chain' = [chain EXCEPT ![n] = SubSeq(@, 1, h) \o bs]
           /\ mempool' = [mempool EXCEPT ![n] = N!SyncedMempool(n, h, bs)]
  <2>1. GenuineBlocks(SubSeq(chain[n], 1, h), sent) /\ SubSeq(chain[n], 1, h) \in Seq(N!Block)
    <3>1. h \in Nat /\ h <= Len(chain[n])
      BY <1>2
    <3> QED  BY <1>1, <1>2, <3>1, PartGenuine
  <2>2. chain'[n] = SubSeq(chain[n], 1, h) \o bs
    BY <1>1, <1>6
  <2>3. GenuineBlocks(chain'[n], sent)
    BY <1>2, <2>1, <2>2, JoinGenuine
  <2>4. mempool'[n] = N!SyncedMempool(n, h, bs)
    BY <1>1, <1>6
  <2>5. ASSUME NEW t \in N!Held(N!SyncedMempool(n, h, bs))
        PROVE  /\ t \in sent
               /\ N!SyncedMempool(n, h, bs)[t].completed => N!SyncedMempool(n, h, bs)[t].sigs # <<>>
    <3>1. t \in Txs
      BY <2>5 DEF N!Held
    <3>2. \/ /\ t \in N!IdsIn(gone)
             /\ N!SyncedMempool(n, h, bs)[t] = N!CopyIn(gone, t)
          \/ N!SyncedMempool(n, h, bs)[t] = mempool[n][t] /\ mempool[n][t] # Nil
      BY <2>5 DEF N!SyncedMempool, N!Held, gone
    <3>3. CASE /\ t \in N!IdsIn(gone)
               /\ N!SyncedMempool(n, h, bs)[t] = N!CopyIn(gone, t)
      BY <1>4, <3>3, CopyGenuine
    <3>4. CASE N!SyncedMempool(n, h, bs)[t] = mempool[n][t] /\ mempool[n][t] # Nil
      <4>1. t \in N!Held(mempool[n])
        BY <3>1, <3>4 DEF N!Held
      <4> QED  BY <1>1, <3>4, <4>1 DEF Genuine
    <3> QED  BY <3>2, <3>3, <3>4
  <2> QED  BY <2>3, <2>4, <2>5 DEF Genuine
<1> QED  BY <1>1, <1>5, <1>6

LEMMA ExchangeCopies ==
    ASSUME SystemInv, CopyInv, NEW n \in Nodes, Exchange(n)
    PROVE  CopyInv'
<1>0. /\ LoopInv /\ RequestInv /\ Copies(n) /\ DOMAIN request = Nodes
      /\ DOMAIN chain = Nodes /\ DOMAIN mempool = Nodes
  BY DEF SystemInv, LoopInv, Typed, CopyInv
<1>1. /\ request[n] # Nil /\ UNCHANGED sent
      /\ request' = [request EXCEPT ![n] = request'[n]]
  BY <1>0, Answers DEF Answered
<1>2. \A m \in Nodes \ {n} : request'[m] = request[m] /\ request[m] = Nil
  BY <1>0, <1>1, Alone
<1>3. ASSUME NEW p \in Nodes, N!AnswerMissing(n, p) \/ N!AnswerBlock(n, p) PROVE CopyInv'
  <2>1. UNCHANGED <<chain, mempool>>
    BY <1>3 DEF N!AnswerMissing, N!AnswerBlock
  <2>2. Sought(n)'
    BY <1>3, MissingCopies, BlockCopies
  <2>3. Copies(n)'
    BY <1>0, <1>1, <2>1, <2>2 DEF Copies
  <2> QED  BY <1>1, <1>2, <2>1, <2>3, OneCopies
<1>4. CASE N!ReceiveTransactions(n)
  <2>1. request'[n] = Nil /\ UNCHANGED chain /\ \A m \in Nodes \ {n} : mempool'[m] = mempool[m]
    BY <1>0, <1>4 DEF N!ReceiveTransactions
  <2>2. Copies(n)'
    BY <1>0, <1>1, <1>4, <2>1, TakenCopies DEF Copies, Sought
  <2> QED  BY <1>1, <1>2, <2>1, <2>2, OneCopies
<1>5. CASE N!ReceiveBlocks(n)
  <2>1. /\ request'[n] = Nil
        /\ \A m \in Nodes \ {n} : chain'[m] = chain[m] /\ mempool'[m] = mempool[m]
    BY <1>0, <1>5 DEF N!ReceiveBlocks, N!Insert
  <2>2. Copies(n)'
    BY <1>1, <1>5, <2>1, InsertedCopies DEF Copies, Sought
  <2> QED  BY <1>1, <1>2, <2>1, <2>2, OneCopies
<1> QED  BY <1>3, <1>4, <1>5 DEF Exchange

LEMMA CopyStep ==
    ASSUME SystemInv, CopyInv, [Next]_vars
    PROVE  CopyInv'
<1>0. LoopInv /\ VoteInv /\ \A n \in Nodes : Copies(n)
  BY DEF SystemInv, CopyInv
<1>1. CASE UNCHANGED vars
  BY <1>1, SameCopies DEF vars, nodeVars
<1>2. ASSUME NEW n \in Nodes, Begin(n) \/ Vote(n) \/ Count(n) PROVE CopyInv'
  <2>1. UNCHANGED <<nodeVars, state>>
    BY <1>0, <1>2, VoteVotes, CountVotes DEF Begin, E!Begin, E!lead
  <2> QED  BY <2>1, SameCopies DEF nodeVars
<1>3. ASSUME NEW n \in Nodes, RunMining(n) PROVE CopyInv'
  <2>1. pc[n] # "idle" /\ request[n] = Nil /\ UNCHANGED <<request, chain, mempool>>
    BY <1>0, <1>3, MineLoop
  <2>2. UNCHANGED sent
    BY <1>3 DEF RunMining, N!EndMining, nodeVars
  <2> QED  BY <1>0, <2>1, <2>2, IdleCopies DEF Copies
<1>4. ASSUME NEW n \in Nodes, RunBlock(n) PROVE CopyInv'
  <2>1. pc[n] # "idle" /\ request[n] = Nil /\ UNCHANGED <<request, chain, mempool>>
    BY <1>0, <1>4, BlockLoop
  <2>2. UNCHANGED sent
    BY <1>4 DEF RunBlock, N!EndRound, nodeVars
  <2> QED  BY <1>0, <2>1, <2>2, IdleCopies DEF Copies
<1> QED  BY <1>1, <1>2, <1>3, <1>4, SendCopies, AskCopies, ExchangeCopies, CloseCopies
         DEF Next, StepOf

-----------------------------------------------------------------------------
(* Scans *)

\* A scan finds a node's signature or leaves the cache as it was.
LEMMA LowestFound ==
    ASSUME VoteTyped, NEW n \in Nodes, NEW found \in SUBSET [id : Nodes, value : Nat]
    PROVE  \/ E!Lowest(n, found) = cache[n]
           \/ found # {} /\ E!Lowest(n, found).sig \in Nodes
<1>1. CASE found = {}
  BY <1>1 DEF E!Lowest
<1>2. CASE found # {}
  <2> DEFINE values == {E!SigValue(n, s) : s \in found}
             low == CHOOSE s \in found : \A t \in found : E!SigValue(n, s) <= E!SigValue(n, t)
  <2>1. values \in SUBSET Nat /\ values # {}
    BY <1>2, SigValueNat
  <2>2. \E x \in values : \A y \in values : x <= y
    BY <2>1, Least
  <2>3. low \in found
    BY <2>2
  <2>4. \/ E!Lowest(n, found) = cache[n]
        \/ E!Lowest(n, found) = [val |-> E!SigValue(n, low), sig |-> low.id]
    BY <1>2 DEF E!Lowest
  <2> HIDE DEF low
  <2> QED  BY <1>2, <2>3, <2>4
<1> QED  BY <1>1, <1>2

\* If the cache has no signature, one that is below Inf is taken.
LEMMA LowestTaken ==
    ASSUME VoteTyped, NEW n \in Nodes, NEW found \in SUBSET [id : Nodes, value : Nat],
           found # {}, cache[n].sig = Nil => cache[n].val = Inf,
           \A s \in found : E!SigValue(n, s) < Inf
    PROVE  E!Lowest(n, found).sig # Nil
<1> DEFINE values == {E!SigValue(n, s) : s \in found}
           low == CHOOSE s \in found : \A t \in found : E!SigValue(n, s) <= E!SigValue(n, t)
<1>1. values \in SUBSET Nat /\ values # {}
  BY SigValueNat
<1>2. \E x \in values : \A y \in values : x <= y
  BY <1>1, Least
<1>3. low \in found
  BY <1>2
<1>4. E!Lowest(n, found) = IF E!SigValue(n, low) < cache[n].val
                           THEN [val |-> E!SigValue(n, low), sig |-> low.id] ELSE cache[n]
  BY DEF E!Lowest
<1>5. low.id \in Nodes /\ low.id # Nil /\ E!SigValue(n, low) < Inf
  BY <1>3, SystemAssumption
<1> HIDE DEF low
<1> QED  BY <1>4, <1>5

\* The penalties leave the value of a hop below Inf.
LEMMA BelowInf ==
    ASSUME VoteTyped, Typed, NEW n \in Nodes, Scanned(n), NEW s \in Fresh(n)
    PROVE  E!SigValue(n, s) < Inf
<1> DEFINE times == {i \in DOMAIN recent[n] : recent[n][i] = s.id}
<1>1. PICK h \in DOMAIN Value : s.value = Value[h]
  <2>1. PICK t \in N!Held(mempool[n]) :
           s \in {[id |-> k.id, value |-> Value[<<t, k.id, k.relayer>>]] :
                     k \in {mempool[n][t].sigs[i] : i \in DOMAIN mempool[n][t].sigs}}
    BY DEF Fresh
  <2> PICK i \in DOMAIN mempool[n][t].sigs :
          LET k == mempool[n][t].sigs[i]
          IN  s = [id |-> k.id, value |-> Value[<<t, k.id, k.relayer>>]]
    BY <2>1
  <2> DEFINE k == mempool[n][t].sigs[i]
  <2>2. s = [id |-> k.id, value |-> Value[<<t, k.id, k.relayer>>]]
    OBVIOUS
  <2>3. t \in Txs /\ k \in N!Entry
    <3>1. mempool[n] \in [Txs -> N!Copy \cup {Nil}] /\ t \in Txs /\ mempool[n][t] # Nil
      BY DEF Typed, N!Pool, N!Held
    <3>2. mempool[n][t].sigs \in Seq(N!Entry)
      BY <3>1 DEF N!Copy
    <3> QED  BY <3>1, <3>2
  <2>4. <<t, k.id, k.relayer>> \in DOMAIN Value
    BY <2>3, SystemAssumption DEF N!Entry
  <2> HIDE DEF k
  <2> QED  BY <2>2, <2>4
<1>2. times \subseteq 1..Len(recent[n]) /\ Len(recent[n]) \in Nat /\ Len(recent[n]) <= MaxRecentLeaders
  BY DEF VoteTyped, Scanned
<1>3. E!SigValue(n, s) = s.value * 2 ^ Cardinality(times)
  BY SameCardinality DEF E!SigValue
<1> HIDE DEF times
<1>4. Cardinality(times) \in 0..MaxRecentLeaders
  <2>1. IsFiniteSet(1..Len(recent[n])) /\ Cardinality(1..Len(recent[n])) = Len(recent[n])
    BY <1>2, FS_Interval
  <2>2. IsFiniteSet(times) /\ Cardinality(times) <= Len(recent[n]) /\ Cardinality(times) \in Nat
    <3>1. IsFiniteSet(times) /\ Cardinality(times) <= Cardinality(1..Len(recent[n]))
      BY <1>2, <2>1, FS_Subset
    <3> QED  BY <2>1, <3>1, FS_CardinalityType
  <2> QED  BY <1>2, <2>2, SystemAssumption
<1>5. Value[h] * 2 ^ Cardinality(times) < Inf
  BY <1>1, <1>4, SystemAssumption
<1> QED  BY <1>1, <1>3, <1>5

\* A node finds a signature exactly if it has a transaction that is completed
\* and not yet marked.
LEMMA FindsSignature ==
    ASSUME SystemInv, CopyInv, ScanInv, NEW n \in Nodes, state[n] = "MINING"
    PROVE  E!Lowest(n, Fresh(n)).sig = Nil <=> Unchecked(n) = {}
<1>0. VoteTyped /\ Typed /\ Scanned(n) /\ Genuine(mempool[n], sent)
  BY DEF SystemInv, LoopInv, VoteInv, ScanInv, CopyInv, Copies
<1>1. Fresh(n) \in SUBSET [id : Nodes, value : Nat]
  BY <1>0, FreshSignatures
<1>2. ASSUME Unchecked(n) = {} PROVE E!Lowest(n, Fresh(n)).sig = Nil
  <2>1. Fresh(n) = {}
    BY <1>2 DEF Fresh, Unchecked
  <2>2. E!Lowest(n, Fresh(n)) = cache[n]
    BY <1>0, <1>1, <2>1, LowestFound
  <2> QED  BY <1>0, <1>2, <2>2 DEF Scanned
<1>3. ASSUME Unchecked(n) # {} PROVE E!Lowest(n, Fresh(n)).sig # Nil
  <2>1. PICK t \in N!Held(mempool[n]) : mempool[n][t].completed /\ t \notin checked[n]
    BY <1>3 DEF Unchecked
  <2>2. 1 \in DOMAIN mempool[n][t].sigs
    <3>1. mempool[n] \in [Txs -> N!Copy \cup {Nil}] /\ t \in Txs /\ mempool[n][t] # Nil
      BY <1>0 DEF Typed, N!Pool, N!Held
    <3>2. mempool[n][t].sigs \in Seq(N!Entry)
      BY <3>1 DEF N!Copy
    <3>3. mempool[n][t].sigs # <<>>
      BY <1>0, <2>1 DEF Genuine
    <3> QED  BY <3>2, <3>3
  <2>3. Fresh(n) # {}
    <3> DEFINE k == mempool[n][t].sigs[1]
               of(u) == {[id |-> h.id, value |-> Value[<<u, h.id, h.relayer>>]] :
                            h \in {mempool[n][u].sigs[i] : i \in DOMAIN mempool[n][u].sigs}}
               done == {u \in N!Held(mempool[n]) : mempool[n][u].completed /\ u \notin checked[n]}
    <3>1. [id |-> k.id, value |-> Value[<<t, k.id, k.relayer>>]] \in of(t)
      BY <2>2
    <3>2. t \in done
      BY <2>1
    <3>3. Fresh(n) = UNION {of(u) : u \in done}
      BY DEF Fresh
    <3> HIDE DEF k, of, done
    <3> QED  BY <3>1, <3>2, <3>3
  <2>4. cache[n].sig = Nil => cache[n].val = Inf
    BY <1>0 DEF Scanned
  <2> QED  BY <1>0, <1>1, <2>3, <2>4, BelowInf, LowestTaken
<1> QED  BY <1>2, <1>3

\* A step of n that leaves what the others scan as it is.
LEMMA OneScan ==
    ASSUME ScanInv, NEW n \in Nodes, Scanned(n)', DOMAIN checked' = Nodes,
           \A m \in Nodes \ {n} :
              /\ state'[m] = state[m] /\ cache'[m] = cache[m] /\ recent'[m] = recent[m]
              /\ mempool'[m] = mempool[m] /\ checked'[m] = checked[m]
    PROVE  ScanInv'
<1>1. ASSUME NEW m \in Nodes \ {n} PROVE Scanned(m)'
  BY <1>1 DEF ScanInv, Scanned, Unchecked
<1> QED  BY <1>1 DEF ScanInv

LEMMA SameScans ==
    ASSUME ScanInv, UNCHANGED <<state, cache, recent, mempool, checked>>
    PROVE  ScanInv'
BY DEF ScanInv, Scanned, Unchecked

\* Where the mempool of n changes in its MINING phase, it keeps the completed
\* copies.
LEMMA KeptScans ==
    ASSUME ScanInv, NEW n \in Nodes, UNCHANGED <<cache, recent, checked, state>>,
           \A m \in Nodes \ {n} : mempool'[m] = mempool[m],
           state[n] = "MINING" => \A t \in Unchecked(n) : mempool'[n][t] = mempool[n][t]
    PROVE  ScanInv'
<1>1. ASSUME state[n] = "MINING" PROVE Unchecked(n) \subseteq Unchecked(n)'
  BY <1>1 DEF Unchecked, N!Held
<1>2. Scanned(n)'
  BY <1>1 DEF ScanInv, Scanned
<1> QED  BY <1>2, OneScan DEF ScanInv

LEMMA ScanStep ==
    ASSUME SystemInv, CopyInv, ScanInv, [Next]_vars
    PROVE  ScanInv'
<1>0. /\ LoopInv /\ VoteInv /\ VoteTyped /\ Typed /\ DOMAIN checked = Nodes
      /\ DOMAIN mempool = Nodes /\ DOMAIN cache = Nodes /\ DOMAIN recent = Nodes
      /\ DOMAIN state = Nodes /\ DOMAIN request = Nodes
      /\ \A n \in Nodes : Scanned(n) /\ Copies(n) /\ Pinging(n)
  BY DEF SystemInv, LoopInv, VoteInv, VoteTyped, Typed, CopyInv, ScanInv
<1>1. CASE UNCHANGED vars
  BY <1>1, SameScans DEF vars, nodeVars, voteVars
<1>2. ASSUME NEW n \in Nodes, NEW t \in Txs, SendTransaction(n, t) PROVE ScanInv'
  <2>1. /\ t \notin sent /\ UNCHANGED <<cache, recent, checked, state>>
        /\ mempool' = [mempool EXCEPT ![n][t] = [completed |-> FALSE, sigs |-> <<>>]]
    BY <1>2 DEF SendTransaction, N!SendTransaction, voteVars
  <2>2. t \notin N!Held(mempool[n])
    BY <1>0, <2>1 DEF Copies, Genuine
  <2>3. \A u \in Unchecked(n) : mempool'[n][u] = mempool[n][u]
    <3>1. \A u \in Unchecked(n) : u # t
      BY <2>2 DEF Unchecked
    <3>2. mempool[n] \in [Txs -> N!Copy \cup {Nil}] /\ Unchecked(n) \subseteq Txs
      BY <1>0 DEF Typed, N!Pool, Unchecked, N!Held
    <3> QED  BY <1>0, <2>1, <3>1, <3>2
  <2>4. \A m \in Nodes \ {n} : mempool'[m] = mempool[m]
    BY <1>0, <2>1
  <2> QED  BY <2>1, <2>3, <2>4, KeptScans
<1>3. ASSUME NEW n \in Nodes, Begin(n) \/ Vote(n) \/ \E p \in Nodes : Ask(n, p) PROVE ScanInv'
  <2>1. UNCHANGED <<state, cache, recent, mempool, checked>>
    BY <1>3 DEF Begin, E!Begin, E!lead, nodeVars, Vote, E!AskVote, E!GetVote, E!VotesIn,
                Ask, Offer, N!MempoolSync, N!ChainSync, voteVars
  <2> QED  BY <2>1, SameScans
<1>4. ASSUME NEW n \in Nodes, Exchange(n) PROVE ScanInv'
  <2>1. UNCHANGED <<cache, recent, checked, state>>
    BY <1>4 DEF Exchange, voteVars, N!ReceiveTransactions, N!ReceiveBlocks, N!AnswerMissing,
                N!AnswerBlock
  <2>2. CASE \E p \in Nodes : N!AnswerMissing(n, p) \/ N!AnswerBlock(n, p)
    <3>1. UNCHANGED mempool
      BY <2>2 DEF N!AnswerMissing, N!AnswerBlock
    <3> QED  BY <2>1, <3>1, SameScans
  <2>3. CASE N!ReceiveTransactions(n)
    <3> DEFINE txs == request[n].txs
    <3>1. /\ request[n] # Nil /\ request[n].kind = "txs" /\ Sought(n)
          /\ mempool' = [mempool EXCEPT ![n] = N!SyncMempool(n, txs)]
      BY <1>0, <2>3 DEF N!ReceiveTransactions, Copies
    <3>2. Open(n, N!Held(txs))
      BY <3>1 DEF Sought
    <3> HIDE DEF txs
    <3>3. ASSUME NEW t \in Unchecked(n) PROVE mempool'[n][t] = mempool[n][t]
      <4>1. t \in Txs /\ mempool[n][t] # Nil /\ mempool[n][t].completed
        BY DEF Unchecked, N!Held
      <4>2. txs[t] = Nil
        BY <3>2, <4>1 DEF Open, N!Held
      <4>3. N!SyncMempool(n, txs)[t] = mempool[n][t]
        BY <4>1, <4>2 DEF N!SyncMempool
      <4> QED  BY <1>0, <3>1, <4>3
    <3>4. \A m \in Nodes \ {n} : mempool'[m] = mempool[m]
      BY <1>0, <3>1
    <3> QED  BY <2>1, <3>3, <3>4, KeptScans
  <2>4. CASE N!ReceiveBlocks(n)
    <3>1. state[n] # "MINING"
      BY <1>0, <2>4 DEF N!ReceiveBlocks, Copies, Sought
    <3>2. \A m \in Nodes \ {n} : mempool'[m] = mempool[m]
      BY <1>0, <2>4 DEF N!ReceiveBlocks, N!Insert
    <3> QED  BY <2>1, <3>1, <3>2, KeptScans
  <2> QED  BY <1>4, <2>2, <2>3, <2>4 DEF Exchange
<1>5. ASSUME NEW n \in Nodes, RunMining(n) PROVE ScanInv'
  <2> DEFINE low == E!Lowest(n, Fresh(n))
  <2>1. /\ cache' = [cache EXCEPT ![n] = low] /\ UNCHANGED <<recent, mempool>>
        /\ \/ UNCHANGED <<state, checked>>
           \/ /\ state' = [state EXCEPT ![n] = "LEADER"]
              /\ \E c : checked' = [checked EXCEPT ![n] = c]
    BY <1>5 DEF RunMining, E!MineWith, N!EndMining, nodeVars
  <2>2. state[n] = "MINING"
    BY <1>0, <1>5, MineLoop
  <2>3. low = cache[n] \/ (Fresh(n) # {} /\ low.sig \in Nodes)
    BY <1>0, FreshSignatures, LowestFound
  <2>4. Fresh(n) # {} => Unchecked(n) # {}
    BY DEF Fresh, Unchecked
  <2> HIDE DEF low
  <2>5. CASE UNCHANGED <<state, checked>>
    <3>1. Unchecked(n)' = Unchecked(n)
      BY <2>1, <2>5 DEF Unchecked
    <3>2. cache'[n] = low
      BY <1>0, <2>1
    <3>3. IF low.sig = Nil THEN low.val = Inf ELSE Unchecked(n) # {}
      BY <1>0, <2>2, <2>3, <2>4, SystemAssumption DEF Scanned
    <3>4. Scanned(n)'
      BY <1>0, <2>1, <3>1, <3>2, <3>3 DEF Scanned
    <3> QED  BY <1>0, <2>1, <2>5, <3>4, OneScan
  <2>6. CASE /\ state' = [state EXCEPT ![n] = "LEADER"]
             /\ \E c : checked' = [checked EXCEPT ![n] = c]
    <3>1. Scanned(n)'
      BY <1>0, <2>1, <2>6 DEF Scanned
    <3> QED  BY <1>0, <2>1, <2>6, <3>1, OneScan
  <2> QED  BY <2>1, <2>5, <2>6
<1>6. ASSUME NEW n \in Nodes, Count(n) PROVE ScanInv'
  <2>1. /\ state[n] = "LEADER" /\ UNCHANGED <<nodeVars, recent, state>>
        /\ cache' = cache \/ \E c : cache' = [cache EXCEPT ![n] = c]
    BY <1>0, <1>6 DEF Count, E!Tally, E!Adopt, Pinging
  <2>2. Scanned(n)'
    BY <1>0, <2>1 DEF Scanned
  <2> QED  BY <1>0, <2>1, <2>2, OneScan DEF nodeVars
<1>7. ASSUME NEW n \in Nodes, Close(n) PROVE ScanInv'
  <2>1. /\ UNCHANGED <<cache, checked>> /\ state[n] = "LEADER"
        /\ \/ UNCHANGED <<state, recent>>
           \/ /\ state' = [state EXCEPT ![n] = "BLOCK"]
              /\ recent' = [recent EXCEPT ![n] = E!WithLeader(recent[n], candidate[n])]
        /\ mempool' = mempool \/ \E c : mempool' = [mempool EXCEPT ![n] = c]
    BY <1>0, <1>7, CloseLoop DEF Close, E!Close, N!EndElection, N!CreateBlock, nodeVars
  <2>2. Len(E!WithLeader(recent[n], candidate[n])) <= MaxRecentLeaders
    <3> DEFINE leaders == recent[n]
               kept == IF Len(leaders) = MaxRecentLeaders THEN Tail(leaders) ELSE leaders
    <3>1. leaders \in Seq(Id) /\ candidate[n] \in Id /\ Len(leaders) <= MaxRecentLeaders
      BY <1>0 DEF VoteTyped, Scanned
    <3> HIDE DEF leaders
    <3>2. kept \in Seq(Id) /\ Len(kept) < MaxRecentLeaders
      BY <3>1, SystemAssumption
    <3> HIDE DEF kept
    <3>3. Len(Append(kept, candidate[n])) <= MaxRecentLeaders
      BY <3>1, <3>2, SystemAssumption
    <3> QED  BY <3>3 DEF E!WithLeader, kept, leaders
  <2>3. Scanned(n)'
    BY <1>0, <2>1, <2>2 DEF Scanned
  <2> QED  BY <1>0, <2>1, <2>3, OneScan
<1>8. ASSUME NEW n \in Nodes, RunBlock(n) PROVE ScanInv'
  <2>1. /\ cache' = [cache EXCEPT ![n] = [val |-> Inf, sig |-> Nil]]
        /\ UNCHANGED <<recent, mempool, checked>>
        /\ state' = state \/ state' = [state EXCEPT ![n] = "MINING"]
    BY <1>8 DEF RunBlock, E!RunBlock, E!ResetCache, E!NoSignature, N!EndRound, nodeVars
  <2>2. Scanned(n)'
    BY <1>0, <2>1 DEF Scanned
  <2> QED  BY <1>0, <2>1, <2>2, OneScan
<1> QED  BY <1>1, <1>2, <1>3, <1>4, <1>5, <1>6, <1>7, <1>8 DEF Next, StepOf

-----------------------------------------------------------------------------
(* Election and Node agree *)

\* A node at work is not ahead of any node, be it at work or not.
LEMMA NobodyBehind ==
    ASSUME LoopInv, NEW n \in Nodes, pc[n] # "idle", NEW m \in Nodes
    PROVE  N!Phase(n) <= N!Phase(m)
<1> DEFINE r == Rounds(n)
           q == Rounds(m)
<1>1. /\ r \in Nat /\ q \in Nat /\ time[n] \in Nat /\ time[m] \in Nat
      /\ Cycle * r \in Nat /\ Cycle * q \in Nat
      /\ RoundsEnd(n) = Cycle * r /\ RoundsEnd(m) = Cycle * q
      /\ state[n] \in {"MINING", "LEADER", "BLOCK"} /\ state[m] \in {"MINING", "LEADER", "BLOCK"}
  BY RoundTypes, NextRound DEF LoopInv, RoundsEnd, Typed
<1>2. /\ state[n] = "MINING" => N!Phase(n) = 3 * r
      /\ state[n] = "LEADER" => N!Phase(n) = 3 * r + 1
      /\ state[n] = "BLOCK" => N!Phase(n) = 3 * r - 1
      /\ state[m] = "MINING" => N!Phase(m) = 3 * q
      /\ state[m] = "LEADER" => N!Phase(m) = 3 * q + 1
      /\ state[m] = "BLOCK" => N!Phase(m) = 3 * q - 1
  BY DEF N!Phase, Rounds
<1>3. CASE m = n
  BY <1>1, <1>2, <1>3
<1>4. CASE m # n
  <2>1. pc[m] = "idle" /\ time[n] <= time[m] + 1 /\ OnTime(n) /\ OnTime(m)
    BY <1>4 DEF LoopInv, Turns
  <2>2. /\ state[n] = "MINING" => Cycle * r + 1 <= time[n]
        /\ state[n] = "LEADER" => Cycle * r + BlockPeriod + 2 <= time[n]
        /\ state[n] = "BLOCK" => Cycle * r - BlockPeriod + 2 <= time[n]
    BY <1>1, <2>1, Periods DEF OnTime
  <2>3. /\ state[m] = "MINING" => time[m] <= Cycle * q + BlockPeriod
        /\ state[m] = "LEADER" => time[m] <= Cycle * q + 2 * BlockPeriod
        /\ state[m] = "BLOCK" => time[m] < Cycle * q
    BY <1>1, <2>1, Periods DEF OnTime
  <2>4. q < r => Cycle * q + Cycle <= Cycle * r
    BY <1>1, LaterRound
  <2> HIDE DEF r, q
  <2>5. ASSUME q < r PROVE FALSE
    BY <2>5, <1>1, <2>1, <2>2, <2>3, <2>4, Periods
  <2>6. CASE q = r
    BY <2>6, <1>1, <1>2, <2>1, <2>2, <2>3, Periods
  <2>7. CASE r < q
    BY <2>7, <1>1, <1>2
  <2> QED  BY <1>1, <2>5, <2>6, <2>7
<1> QED  BY <1>3, <1>4

\* The modules agree on a step of n: nobody is behind n's phase or in an
\* exchange, the outcome of a vote is one that Node allows, and a node finds no
\* signature at the end of its MINING phase exactly if Node says that it raises.
InAgreement(n) ==
    E!MyTurn(n) /\ pc[n] # "idle" =>
        /\ N!PhaseOver(n) /\ N!PingerOn(n)
        /\ request[n] = Nil => N!Running(n)
        /\ pc[n] = "close" => N!Elected(n, candidate[n], cache[n].sig)
        /\ state[n] = "MINING" => (E!Lowest(n, Fresh(n)).sig = Nil <=> Unchecked(n) = {})

\* The two modules agree at the start.
LEMMA AgreementStarts ==
    ASSUME Init
    PROVE  SystemInv /\ PairInv /\ CopyInv /\ ScanInv
<1>1. /\ pc = [n \in Nodes |-> "idle"] /\ state = [n \in Nodes |-> "MINING"]
      /\ candidate = [n \in Nodes |-> Nil] /\ cache = [n \in Nodes |-> [val |-> Inf, sig |-> Nil]]
      /\ votes = [n \in Nodes |-> <<>>] /\ recent = [n \in Nodes |-> <<>>]
      /\ reply = [n \in Nodes |-> E!NoReply] /\ chain = [n \in Nodes |-> <<>>]
      /\ mempool = [n \in Nodes |-> N!NoTxs] /\ checked = [n \in Nodes |-> {}]
      /\ request = [n \in Nodes |-> Nil]
  BY DEF Init, N!Init, E!Init, E!NoSignature
<1>2. PairInv
  BY <1>1 DEF PairInv, Paired, Agrees, E!NoReply
<1>3. CopyInv
  BY <1>1 DEF CopyInv, Copies, Genuine, GenuineBlocks, Sought, N!Held, N!NoTxs
<1>4. ScanInv
  BY <1>1, SystemAssumption DEF ScanInv, Scanned
<1> QED  BY <1>2, <1>3, <1>4, Starting

\* In a joint action, what one module asks for is what the other one does: no
\* step of a timer, a pinger or LowestLast.run is lost because Election and Node
\* disagree on whether it can be taken, on who is elected or on what raises.
THEOREM AlwaysInAgreement == Spec => []\A n \in Nodes : InAgreement(n)
<1> DEFINE AgreeInv == SystemInv /\ PairInv /\ CopyInv /\ ScanInv
<1>1. ASSUME AgreeInv, NEW n \in Nodes PROVE InAgreement(n)
  <2>1. SUFFICES ASSUME E!MyTurn(n), pc[n] # "idle"
                 PROVE  /\ N!PhaseOver(n) /\ N!PingerOn(n)
                        /\ request[n] = Nil => N!Running(n)
                        /\ pc[n] = "close" => N!Elected(n, candidate[n], cache[n].sig)
                        /\ state[n] = "MINING" =>
                              (E!Lowest(n, Fresh(n)).sig = Nil <=> Unchecked(n) = {})
    BY DEF InAgreement
  <2>2. LoopInv /\ \A m \in Nodes : alive[m]
    BY <1>1, <2>1 DEF SystemInv, E!MyTurn
  <2>3. \A m \in Nodes : N!Phase(n) <= N!Phase(m)
    BY <2>1, <2>2, NobodyBehind
  <2>4. \A m \in Nodes : N!Phase(m) \in Int
    BY <2>2, RoundTypes DEF N!Phase, LoopInv, Typed, Rounds
  <2>5. N!PhaseOver(n) /\ N!PingerOn(n)
    BY <2>3, <2>4 DEF N!PhaseOver, N!PingerOn
  <2>6. \A m \in Nodes \ {n} : request[m] = Nil
    BY <2>1, <2>2, Alone
  <2>7. request[n] = Nil => N!Running(n)
    BY <2>2, <2>6 DEF N!Running
  <2>8. pc[n] = "close" => N!Elected(n, candidate[n], cache[n].sig)
    BY <1>1 DEF PairInv, Paired, Agrees, N!Elected
  <2> QED  BY <1>1, <2>5, <2>7, <2>8, FindsSignature
<1>2. Init => AgreeInv
  BY AgreementStarts
<1>3. AgreeInv /\ [Next]_vars => AgreeInv'
  BY SystemSteps, PairStep, CopyStep, ScanStep
<1>4. AgreeInv => \A n \in Nodes : InAgreement(n)
  BY <1>1
<1> HIDE DEF AgreeInv
<1> QED  BY <1>2, <1>3, <1>4, PTL DEF Spec

-----------------------------------------------------------------------------
(* One chain *)

LEMMA Stays ==
    ASSUME LoopInv, ChainInv, UNCHANGED vars
    PROVE  ChainInv'
<1>1. UNCHANGED <<time, pc, turn, state, winning, on, rest, left, chain, mempool, request>>
  BY DEF vars, nodeVars, voteVars
<1>3. OneHistory'
  BY <1>1 DEF ChainInv, OneHistory
<1>4. ASSUME NEW n \in Nodes PROVE ChainInv'
  <2>1. Asked(n)' /\ Catching(n)'
    BY <1>1 DEF ChainInv, Asked, Catching, Lags, Height, Rounds, Elapsed, RoundsEnd
  <2>2. \A m \in Nodes \ {n} : SameAt(m)
    BY <1>1 DEF SameAt
  <2> QED  BY <1>1, <2>1, <2>2, SameChains
<1> QED  BY <1>3, <1>4 DEF ChainInv

\* Every step of the network that has one outcome per vote keeps the chains.
LEMMA ChainSteps ==
    ASSUME Meshed, SystemInv, ChainInv, [Next]_vars, [U!Next]_(U!vars)
    PROVE  ChainInv'
<1>0. LoopInv /\ VoteInv /\ RequestInv
  BY DEF SystemInv
<1>1. CASE UNCHANGED vars
  BY <1>0, <1>1, Stays
<1>2. ASSUME NEW n \in Nodes, NEW t \in Txs, SendTransaction(n, t) PROVE ChainInv'
  BY <1>0, <1>2, SendChains
<1>3. ASSUME NEW n \in Nodes, Begin(n) PROVE ChainInv'
  BY <1>0, <1>3, BeginChains
<1>4. ASSUME NEW n \in Nodes, NEW p \in Nodes, Ask(n, p) PROVE ChainInv'
  BY <1>0, <1>4, AskChains
<1>5. ASSUME NEW n \in Nodes, Exchange(n) PROVE ChainInv'
  <2>1. UNCHANGED <<voteVars, rest, left>>
    BY <1>5 DEF Exchange
  <2>2. CASE N!ReceiveTransactions(n) \/ \E p \in Nodes : N!AnswerMissing(n, p)
    BY <1>0, <1>5, <2>2, TransactionsExchange
  <2>3. CASE N!ReceiveBlocks(n)
    BY <1>0, <2>1, <2>3, TakeChains
  <2>4. CASE \E p \in Nodes : N!AnswerBlock(n, p)
    BY <1>0, <2>1, <2>4, AnswerChains
  <2> QED  BY <1>5, <2>2, <2>3, <2>4 DEF Exchange
<1>6. ASSUME NEW n \in Nodes, Vote(n) \/ Count(n) PROVE ChainInv'
  BY <1>0, <1>6, VoteChains
<1>7. ASSUME NEW n \in Nodes, RunMining(n) PROVE ChainInv'
  BY <1>0, <1>7, MineChains
<1>8. ASSUME NEW n \in Nodes, Close(n) PROVE ChainInv'
  BY <1>0, <1>8, CloseChains
<1>9. ASSUME NEW n \in Nodes, RunBlock(n) PROVE ChainInv'
  BY <1>0, <1>9, RunBlockChains
<1> QED  BY <1>1, <1>2, <1>3, <1>4, <1>5, <1>6, <1>7, <1>8, <1>9 DEF Next, StepOf

\* Robots in range of each other whose elections have one outcome per round:
\* whatever the periods of the vote pinger, what the mempools hold and what the
\* signatures are read as, the loop and the chains are as the invariant says.
THEOREM AlwaysChained ==
    Meshed => (Spec /\ ImplementsNode => [](LoopInv /\ ChainInv))
<1> SUFFICES ASSUME Meshed PROVE Spec /\ ImplementsNode => [](LoopInv /\ ChainInv)
  OBVIOUS
<1>1. Init => SystemInv /\ ChainInv
  BY Starting
<1>2. SystemInv /\ ChainInv /\ [Next]_vars /\ [U!Next]_(U!vars) => (SystemInv /\ ChainInv)'
  BY SystemSteps, ChainSteps
<1>3. SystemInv => LoopInv
  BY DEF SystemInv
<1> QED  BY <1>1, <1>2, <1>3, PTL DEF Spec, ImplementsNode, U!Spec

LEMMA Prefixes ==
    ASSUME LoopInv, ChainInv
    PROVE  NoFork
<1> SUFFICES ASSUME NEW n \in Nodes, NEW m \in Nodes, Len(chain[n]) <= Len(chain[m])
             PROVE  chain[n] = SubSeq(chain[m], 1, Len(chain[n]))
  BY DEF NoFork
<1>1. /\ chain[n] \in Seq(N!Block) /\ chain[m] \in Seq(N!Block)
      /\ Len(chain[n]) \in Nat /\ Len(chain[m]) \in Nat
      /\ DOMAIN chain[n] = 1..Len(chain[n]) /\ DOMAIN chain[m] = 1..Len(chain[m])
  BY DEF LoopInv, Typed
<1>2. \A h \in 1..Len(chain[n]) : chain[n][h] = chain[m][h]
  <2> TAKE h \in 1..Len(chain[n])
  <2>1. h \in DOMAIN chain[n] /\ h \in DOMAIN chain[m]
    BY <1>1
  <2> QED  BY <2>1 DEF ChainInv, OneHistory
<1>3. SubSeq(chain[n], 1, Len(chain[n])) = chain[n]
  BY <1>1, SubSeqFull
<1>4. SubSeq(chain[n], 1, Len(chain[n])) = SubSeq(chain[m], 1, Len(chain[n]))
  BY <1>1, <1>2
<1> QED  BY <1>3, <1>4

\* Unanimous votes do not fork the chain: LowestLast has one leader create the
\* block of a round, and the chain pinger brings it to everybody before the
\* leader of the next round creates another one.
THEOREM UnanimousNoFork ==
    Meshed => (Spec /\ ImplementsNode => []NoFork)
<1>1. LoopInv /\ ChainInv => NoFork
  BY Prefixes
<1> QED  BY <1>1, AlwaysChained, PTL

LEMMA Indexed ==
    ASSUME LoopInv, ChainInv
    PROVE  WinnerPerBlock
<1> SUFFICES ASSUME NEW n \in Nodes, NEW h \in DOMAIN chain[n]
             PROVE  h \in DOMAIN winning[n] /\ chain[n][h].miner = winning[n][h]
  BY DEF WinnerPerBlock
<1>1. Chained(n) /\ Height(n) \in Nat /\ Rounds(n) \in Nat
      /\ DOMAIN chain[n] = 1..Height(n) /\ DOMAIN winning[n] = 1..Rounds(n)
  BY RoundTypes DEF LoopInv, ChainInv
<1>2. Height(n) <= Rounds(n) /\ Stacked(n)
  BY <1>1 DEF Chained
<1> QED  BY <1>1, <1>2 DEF Stacked

\* verify_block finds the leader of a block at the index of its height in
\* winning_signatures, however many rounds have gone by.
THEOREM UnanimousWinnerPerBlock ==
    Meshed => (Spec /\ ImplementsNode => []WinnerPerBlock)
<1>1. LoopInv /\ ChainInv => WinnerPerBlock
  BY Indexed
<1> QED  BY <1>1, AlwaysChained, PTL

\* A round synchronises: a node that goes on to the next one has a block for
\* every round so far.
Synchronised == \A n \in Nodes : state[n] # "BLOCK" => Len(chain[n]) = Len(winning[n])

\* What ChainPinger.run is for: one pass over the peers in the BLOCK phase is
\* enough, also for a node that asks the leader last.
THEOREM UnanimousSynchronised ==
    Meshed => (Spec /\ ImplementsNode => []Synchronised)
<1>1. LoopInv /\ ChainInv => Synchronised
  BY DEF Synchronised, ChainInv, Chained, Lags, Height, Rounds
<1> QED  BY <1>1, AlwaysChained, PTL
=============================================================================
