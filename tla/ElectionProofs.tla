--------------------------- MODULE ElectionProofs ---------------------------
(***************************************************************************)
(* Proofs about Election, for any number of robots, any peers, periods and *)
(* signatures, and all interleavings; and, in the second half, that a      *)
(* round of the single loop has one leader, of that round, although some   *)
(* robots are Byzantine.                                                   *)
(***************************************************************************)
EXTENDS ElectionProperties, FiniteSetTheorems, SequenceTheorems,
        WellFoundedInduction, TLAPS

-----------------------------------------------------------------------------
(* Numbers *)

\* Every set of natural numbers that is not empty has a least one.
LEMMA Least ==
    ASSUME NEW S \in SUBSET Nat, S # {}
    PROVE  \E x \in S : \A y \in S : x <= y
<1>1. PICK x \in S : \A y \in S : ~(<<y, x>> \in OpToRel(<, Nat))
  BY WFMin, NatLessThanWellFounded
<1>2. \A y \in S : ~(y < x)
  BY <1>1 DEF OpToRel
<1> QED  BY <1>2

\* The timer within its cycle, and the cycle, when the timer goes on.
LEMMA NextTick ==
    ASSUME NEW t \in Nat, NEW c \in Nat, c > 0
    PROVE  /\ t % c \in 0..(c - 1) /\ t \div c \in Nat
           /\ (t % c) + 1 < c => (t + 1) % c = (t % c) + 1 /\ (t + 1) \div c = t \div c
           /\ (t % c) + 1 = c => (t + 1) % c = 0 /\ (t + 1) \div c = t \div c + 1
<1>1. \A x \in Int : x = c * (x \div c) + (x % c) /\ x % c \in 0..(c - 1) /\ x \div c \in Int
  OBVIOUS
<1>2. t \div c \in Nat
  <2>1. ASSUME t \div c <= -1 PROVE FALSE
    <3>1. c * (t \div c) <= c * (-1)
      BY <2>1, <1>1
    <3> QED  BY <3>1, <1>1
  <2> QED  BY <2>1, <1>1
<1>3. \A q, r \in Nat : r < c => (c * q + r) \div c = q /\ (c * q + r) % c = r
  OBVIOUS
<1>4. CASE (t % c) + 1 < c
  <2>1. t + 1 = c * (t \div c) + ((t % c) + 1)
    BY <1>1
  <2> QED  BY <1>1, <1>2, <1>3, <1>4, <2>1
<1>5. CASE (t % c) + 1 = c
  <2>1. t + 1 = c * (t \div c + 1) + 0
    BY <1>1, <1>5
  <2> QED  BY <1>1, <1>2, <1>3, <1>5, <2>1
<1> QED  BY <1>1, <1>2, <1>4, <1>5

\* The timer is within its whole cycles as long as it is not at their end.
LEMMA CycleBelow ==
    ASSUME NEW t \in Nat, NEW c \in Nat, c > 0, NEW m \in Nat, m % c = 0,
           t <= m, t % c > 0
    PROVE  t \div c < m \div c
<1>1. \A x \in Int : x = c * (x \div c) + (x % c) /\ x % c \in 0..(c - 1) /\ x \div c \in Int
  OBVIOUS
<1>2. c * (t \div c) < c * (m \div c)
  BY <1>1
<1>3. ASSUME t \div c >= m \div c PROVE FALSE
  <2>1. c * (t \div c) >= c * (m \div c)
    BY <1>3, <1>1
  <2> QED  BY <2>1, <1>1, <1>2
<1> QED  BY <1>1, <1>3

-----------------------------------------------------------------------------
(* The vote count *)

VotesTyped(n) == votes[n] \in Seq(Vote)

\* A vote received names a robot, or None, and has a signature.
LEMMA OneVote ==
    ASSUME NEW n, VotesTyped(n), NEW i \in DOMAIN votes[n]
    PROVE  votes[n][i].vote \in Ids \cup {Nil} /\ votes[n][i].sig \in Ids
<1>1. votes[n][i] \in Vote
  BY DEF VotesTyped
<1> QED  BY <1>1 DEF Vote

\* The votes for a candidate that somebody has named, and the first of them.
LEMMA FirstVoteFor ==
    ASSUME NEW n, VotesTyped(n), NEW w \in Named(n)
    PROVE  /\ FirstVote(n, w) \in DOMAIN votes[n] /\ FirstVote(n, w) \in Nat
           /\ votes[n][FirstVote(n, w)].vote = w
           /\ Cardinality(VotesFor(n, w)) \in 0..Len(votes[n])
<1>1. DOMAIN votes[n] = 1..Len(votes[n]) /\ Len(votes[n]) \in Nat
  BY DEF VotesTyped
<1>2. VotesFor(n, w) \subseteq 1..Len(votes[n]) /\ VotesFor(n, w) # {}
  BY <1>1 DEF VotesFor, Named
<1>3. \E i \in VotesFor(n, w) : \A j \in VotesFor(n, w) : i <= j
  BY <1>1, <1>2, Least
<1>4. FirstVote(n, w) \in VotesFor(n, w)
  BY <1>3 DEF FirstVote
<1>5. /\ IsFiniteSet(1..Len(votes[n])) /\ Cardinality(1..Len(votes[n])) = Len(votes[n])
      /\ IsFiniteSet(VotesFor(n, w)) /\ Cardinality(VotesFor(n, w)) <= Len(votes[n])
  <2>1. \A k \in Nat : IsFiniteSet(1..k) /\ Cardinality(1..k) = k
    BY FS_Interval
  <2>2. IsFiniteSet(1..Len(votes[n])) /\ Cardinality(1..Len(votes[n])) = Len(votes[n])
    BY <1>1, <2>1
  <2> QED  BY <1>2, <2>2, FS_Subset
<1>6. Cardinality(VotesFor(n, w)) \in Nat
  BY <1>5, FS_CardinalityType
<1>7. FirstVote(n, w) \in 1..Len(votes[n]) /\ votes[n][FirstVote(n, w)].vote = w
  BY <1>1, <1>4 DEF VotesFor
<1> HIDE DEF VotesTyped
<1> QED  BY <1>1, <1>5, <1>6, <1>7

\* There is a favourite: somebody has named it, and nobody has more votes.
LEMMA FavouriteNamed ==
    ASSUME NEW n, VotesTyped(n), Len(votes[n]) > 0
    PROVE  /\ Favourite(n) \in Named(n)
           /\ \A v \in Named(n) : Cardinality(VotesFor(n, Favourite(n)))
                                    >= Cardinality(VotesFor(n, v))
<1> DEFINE card(w) == Cardinality(VotesFor(n, w))
           missing == {Len(votes[n]) - card(w) : w \in Named(n)}
<1>1. Named(n) # {} /\ Len(votes[n]) \in Nat
  <2>1. Len(votes[n]) \in Nat /\ 1 \in DOMAIN votes[n]
    BY DEF VotesTyped
  <2> QED  BY <2>1 DEF Named
<1>2. \A w \in Named(n) : card(w) \in 0..Len(votes[n]) /\ FirstVote(n, w) \in Nat
  BY FirstVoteFor
<1> HIDE DEF card
<1>3. \E x \in missing : \A y \in missing : x <= y
  <2>1. missing \in SUBSET Nat /\ missing # {}
    BY <1>1, <1>2
  <2> QED  BY <2>1, Least
<1>4. PICK u \in Named(n) : \A v \in Named(n) : card(u) >= card(v)
  <2>1. PICK u \in Named(n) : \A v \in Named(n) :
                Len(votes[n]) - card(u) <= Len(votes[n]) - card(v)
    BY <1>3
  <2>2. ASSUME NEW v \in Named(n) PROVE card(u) >= card(v)
    <3>1. card(u) \in Int /\ card(v) \in Int /\ Len(votes[n]) \in Int
      BY <1>1, <1>2
    <3>2. Len(votes[n]) - card(u) <= Len(votes[n]) - card(v)
      BY <2>1
    <3> QED  BY <3>1, <3>2
  <2> QED  BY <2>2
<1> DEFINE best   == {w \in Named(n) : card(w) = card(u)}
           firsts == {FirstVote(n, w) : w \in best}
<1>5. \E x \in firsts : \A y \in firsts : x <= y
  <2>1. firsts \in SUBSET Nat /\ firsts # {}
    BY <1>2, <1>4
  <2> QED  BY <2>1, Least
<1>6. PICK w \in best : \A v \in best : FirstVote(n, w) <= FirstVote(n, v)
  BY <1>5
<1>7. \A v \in Named(n) : \/ card(w) > card(v)
                          \/ card(w) = card(v) /\ FirstVote(n, w) <= FirstVote(n, v)
  BY <1>2, <1>4, <1>6
<1>8. /\ Favourite(n) \in Named(n)
      /\ \A v \in Named(n) :
            \/ card(Favourite(n)) > card(v)
            \/ card(Favourite(n)) = card(v) /\ FirstVote(n, Favourite(n)) <= FirstVote(n, v)
  <2>1. w \in Named(n)
    OBVIOUS
  <2>2. \E x \in Named(n) : \A v \in Named(n) :
            \/ card(x) > card(v)
            \/ card(x) = card(v) /\ FirstVote(n, x) <= FirstVote(n, v)
    BY <1>7, <2>1
  <2> QED  BY <2>2 DEF Favourite, card
<1>9. \A v \in Named(n) : card(Favourite(n)) >= card(v)
  BY <1>2, <1>8
<1> QED  BY <1>8, <1>9 DEF card

-----------------------------------------------------------------------------
(* The scan for the lowest signature *)

Found0 == [id : Nodes, value : Nat]

\* The value of a signature is a number, whatever the penalty.
LEMMA SigValueNat ==
    ASSUME NEW n, NEW sig \in Found0, recent[n] \in Seq(Ids \cup {Nil})
    PROVE  SigValue(n, sig) \in Nat
<1> DEFINE times == {i \in DOMAIN recent[n] : recent[n][i] = sig.id}
<1>1. times \subseteq 1..Len(recent[n]) /\ Len(recent[n]) \in Nat
  OBVIOUS
<1>2. IsFiniteSet(times)
  BY <1>1, FS_Interval, FS_Subset
<1>3. 2 ^ Cardinality(times) \in Nat
  BY <1>2, FS_SUBSET, FS_CardinalityType
<1> HIDE DEF times
<1>4. sig.value * 2 ^ Cardinality(times) \in Nat
  BY <1>3 DEF Found0
<1> QED  BY <1>4 DEF SigValue, times

\* A scan leaves a number and a signature of a node, or the cache as it was.
LEMMA LowestTyped ==
    ASSUME NEW n, NEW found \in SUBSET Found0, recent[n] \in Seq(Ids \cup {Nil}),
           cache[n] \in [val : Nat, sig : Ids \cup {Nil}]
    PROVE  \/ Lowest(n, found) = cache[n]
           \/ Lowest(n, found) \in [val : Nat, sig : Ids] /\ found # {}
<1>1. CASE n \in byzantine
  BY <1>1 DEF Lowest, Forgery, Ids
<1>2. CASE n \notin byzantine /\ found = {}
  BY <1>2 DEF Lowest
<1>3. CASE n \notin byzantine /\ found # {}
  <2> DEFINE values == {SigValue(n, s) : s \in found}
             low == CHOOSE s \in found : \A t \in found : SigValue(n, s) <= SigValue(n, t)
  <2>1. \A s \in found : SigValue(n, s) \in Nat
    BY SigValueNat
  <2>2. \E x \in values : \A y \in values : x <= y
    <3>1. values \in SUBSET Nat /\ values # {}
      BY <1>3, <2>1
    <3> QED  BY <3>1, Least
  <2>3. \E s \in found : \A t \in found : SigValue(n, s) <= SigValue(n, t)
    BY <2>2
  <2>4. low \in found
    BY <2>3
  <2>5. Lowest(n, found) = IF SigValue(n, low) < cache[n].val
                           THEN [val |-> SigValue(n, low), sig |-> low.id] ELSE cache[n]
    BY <1>3 DEF Lowest
  <2>6. low.id \in Ids /\ SigValue(n, low) \in Nat
    BY <2>1, <2>4 DEF Found0, Ids
  <2> HIDE DEF low
  <2> QED  BY <1>3, <2>5, <2>6
<1> QED  BY <1>1, <1>2, <1>3

-----------------------------------------------------------------------------
(* The invariant *)

Typed ==
    /\ time \in [Nodes -> 0..MaxTime]
    /\ pc \in [Nodes -> {"idle", "ask", "run", "adopt", "close"}]
    /\ turn \in 1..Len(Order)
    /\ state \in [Nodes -> Phases]
    /\ candidate \in [Nodes -> Ids \cup {Nil}]
    /\ cache \in [Nodes -> [val : Nat \cup Ids \cup {Nil}, sig : Ids \cup {Nil}]]
    /\ votes \in [Nodes -> Seq(Vote)]
    /\ recent \in [Nodes -> Seq(Ids \cup {Nil})]
    /\ winners \in [Nodes -> Seq(Ids)]
    /\ on \in [Nodes -> SUBSET {"mempool", "vote", "chain"}]
    /\ sleep \in [Nodes -> 0..VoteInterval]
    /\ asking \in [Nodes -> SUBSET Nodes]
    /\ reply \in [Nodes -> [peer : Nodes \cup {Nil}, vote : Ids \cup {Nil}]]
    /\ completed \in [1..MaxRound -> SUBSET Sigs]
    /\ byzantine \subseteq Suspects
    /\ alive \in [Nodes -> BOOLEAN]
    /\ server \in [Nodes -> BOOLEAN]

\* The phase of a node and the rounds it has recorded follow from its timer,
\* and from whether the step of this tick is still to be done: it misses no
\* change of phase.
OnTime(n) ==
    LET c == Cycled(n)
        rounds == time[n] \div Cycle
        done == IF pc[n] = "idle" THEN 0 ELSE 1
    IN  \/ /\ state[n] = "MINING" /\ done <= c /\ c <= BlockPeriod + done
           /\ Len(winners[n]) = rounds
        \/ /\ state[n] = "LEADER"
           /\ BlockPeriod + 1 + done <= c /\ c <= 2 * BlockPeriod + done
           /\ Len(winners[n]) = rounds
        \/ /\ state[n] = "BLOCK" /\ 2 * BlockPeriod + 1 + done <= c
           /\ Len(winners[n]) = rounds + 1
        \/ /\ state[n] = "BLOCK" /\ pc[n] # "idle" /\ c = 0
           /\ Len(winners[n]) = rounds

\* A node votes in its LEADER phase, and only with a signature to vote for.
Voting(n) ==
    /\ state[n] = "LEADER" <=> "vote" \in on[n]
    /\ state[n] = "LEADER" => cache[n].sig # Nil
    /\ pc[n] \in {"ask", "adopt", "close"} => state[n] = "LEADER"

\* What a node has in hand within its step.
InHand(n) ==
    /\ reply[n].peer = Nil => reply[n] = NoReply
    /\ reply[n] # NoReply => pc[n] = "ask" /\ reply[n].peer \in asking[n]
    /\ asking[n] # {} => pc[n] = "ask"
    /\ pc[n] = "adopt" => candidate[n] \in Named(n)
    /\ state[n] = "MINING" => cache[n].val \in Nat

Inv == Typed /\ \A n \in Nodes : InHand(n) /\ (alive[n] => OnTime(n) /\ Voting(n))

\* What InHand, OnTime and Voting say of a node is about these variables only.
SameAt(m) ==
    /\ time'[m] = time[m] /\ pc'[m] = pc[m] /\ state'[m] = state[m]
    /\ candidate'[m] = candidate[m] /\ cache'[m] = cache[m] /\ votes'[m] = votes[m]
    /\ winners'[m] = winners[m] /\ on'[m] = on[m]
    /\ asking'[m] = asking[m] /\ reply'[m] = reply[m] /\ alive'[m] = alive[m]

\* What holds of a node goes on holding while a step leaves it alone.
LEMMA Frame ==
    ASSUME NEW m \in Nodes, SameAt(m), InHand(m), alive[m] => OnTime(m) /\ Voting(m)
    PROVE  InHand(m)' /\ (alive[m] => OnTime(m) /\ Voting(m))'
<1>1. Named(m)' = Named(m)
  BY DEF Named, SameAt
<1>2. InHand(m)'
  BY <1>1 DEF InHand, SameAt
<1>3. (alive[m] => OnTime(m) /\ Voting(m))'
  BY DEF OnTime, Voting, Cycled, SameAt
<1> QED  BY <1>2, <1>3

\* The bounds of a cycle.
LEMMA Periods ==
    /\ BlockPeriod \in Nat /\ BlockPeriod >= 2 /\ Cycle = 3 * BlockPeriod /\ Cycle \in Nat
    /\ Cycle > 0 /\ MaxTime \in Nat /\ MaxTime % Cycle = 0 /\ MaxRound \in Nat
    /\ Len(Order) \in Nat /\ Len(Order) > 0 /\ DOMAIN Order = 1..Len(Order)
    /\ Order \in Seq(Nodes)
<1>1. Cardinality(Nodes) \in Nat /\ Cardinality(Nodes) # 0
  BY ElectionAssumption, FS_CardinalityType, FS_EmptySet
<1>2. Order \in Seq(Nodes) /\ Len(Order) = Cardinality(Nodes)
  BY <1>1, ElectionAssumption
<1>3. BlockPeriod \in Nat /\ BlockPeriod >= 2 /\ Cycle = 3 * BlockPeriod /\ Cycle \in Nat /\ Cycle > 0
  BY ElectionAssumption DEF Cycle
<1>4. MaxTime \in Nat /\ MaxTime % Cycle = 0
  BY ElectionAssumption DEF Cycle
<1>5. MaxRound \in Nat
  BY <1>3, <1>4, NextTick DEF MaxRound
<1> QED  BY <1>1, <1>2, <1>3, <1>4, <1>5

\* None is not the id of a robot, nor is the forged one.
LEMMA IdsAre == Nodes \subseteq Ids /\ Nil \notin Nodes /\ (Inv => Nil \notin Ids)
<1>1. Inv /\ byzantine # {} => Forged # Nil
  BY ElectionAssumption DEF Inv, Typed
<1> QED  BY <1>1, ElectionAssumption DEF Ids

\* The single loop goes to the next node, or it stays.
LEMMA TurnTyped ==
    ASSUME turn \in 1..Len(Order), NEW n \in Nodes, Done(n)
    PROVE  turn' \in 1..Len(Order)
<1>1. turn % Len(Order) \in 0..(Len(Order) - 1)
  BY Periods
<1> QED  BY <1>1, Periods DEF Done

\* The timer of a node goes on.
LEMMA Ticks ==
    ASSUME Inv, NEW n \in Nodes, time[n] < MaxTime, time' = [time EXCEPT ![n] = @ + 1]
    PROVE  /\ time' \in [Nodes -> 0..MaxTime] /\ time'[n] = time[n] + 1
           /\ Cycled(n) \in 0..(Cycle - 1) /\ time[n] \div Cycle \in Nat
           /\ \/ /\ Cycled(n) + 1 < Cycle /\ Cycled(n)' = Cycled(n) + 1
                 /\ time'[n] \div Cycle = time[n] \div Cycle
              \/ /\ Cycled(n) + 1 = Cycle /\ Cycled(n)' = 0
                 /\ time'[n] \div Cycle = (time[n] \div Cycle) + 1
<1>1. time[n] \in Nat /\ MaxTime \in Nat /\ time \in [Nodes -> 0..MaxTime]
  BY Periods DEF Inv, Typed
<1>2. time'[n] = time[n] + 1 /\ time' \in [Nodes -> 0..MaxTime]
  BY <1>1
<1>3. /\ time[n] % Cycle \in 0..(Cycle - 1) /\ time[n] \div Cycle \in Nat
      /\ (time[n] % Cycle) + 1 < Cycle => (time[n] + 1) % Cycle = (time[n] % Cycle) + 1 /\ (time[n] + 1) \div Cycle = time[n] \div Cycle
      /\ (time[n] % Cycle) + 1 = Cycle => (time[n] + 1) % Cycle = 0 /\ (time[n] + 1) \div Cycle = (time[n] \div Cycle) + 1
  BY <1>1, Periods, NextTick
<1>4. (time[n] % Cycle) + 1 < Cycle \/ (time[n] % Cycle) + 1 = Cycle
  BY <1>3, Periods
<1> QED  BY <1>2, <1>3, <1>4 DEF Cycled

\* A step of one node: the others are as they were.
LEMMA OneNode ==
    ASSUME Inv, NEW n \in Nodes, Typed', \A m \in Nodes \ {n} : SameAt(m),
           InHand(n)', (alive[n] => OnTime(n) /\ Voting(n))'
    PROVE  Inv'
<1>1. ASSUME NEW m \in Nodes, m # n
      PROVE  InHand(m)' /\ (alive[m] => OnTime(m) /\ Voting(m))'
  BY <1>1, Frame DEF Inv
<1> QED  BY <1>1 DEF Inv

\* The timer goes on, and the vote pinger starts or counts down.
LEMMA BeginStep ==
    ASSUME Inv, NEW n \in Nodes, Begin(n)
    PROVE  Inv'
<1>1. /\ alive[n] /\ pc[n] = "idle" /\ time[n] < MaxTime /\ time' = [time EXCEPT ![n] = @ + 1]
      /\ UNCHANGED <<lead, on, reply, given, up, turn>>
      /\ \/ /\ "vote" \in on[n] /\ asking' = [asking EXCEPT ![n] = Peers[n]]
            /\ pc' = [pc EXCEPT ![n] = "ask"] /\ sleep' = sleep
         \/ /\ "vote" \in on[n] /\ sleep[n] > 0 /\ sleep' = [sleep EXCEPT ![n] = @ - 1]
            /\ pc' = [pc EXCEPT ![n] = "run"] /\ asking' = asking
         \/ "vote" \notin on[n] /\ pc' = [pc EXCEPT ![n] = "run"] /\ UNCHANGED <<sleep, asking>>
  BY DEF Begin, MyTurn, Goto
<1>2. /\ time' \in [Nodes -> 0..MaxTime] /\ time'[n] = time[n] + 1
      /\ Cycled(n) \in 0..(Cycle - 1) /\ time[n] \div Cycle \in Nat
      /\ \/ /\ Cycled(n) + 1 < Cycle /\ Cycled(n)' = Cycled(n) + 1
            /\ time'[n] \div Cycle = time[n] \div Cycle
         \/ /\ Cycled(n) + 1 = Cycle /\ Cycled(n)' = 0
            /\ time'[n] \div Cycle = (time[n] \div Cycle) + 1
  BY <1>1, Ticks
<1>3. Typed'
  <2>0. /\ asking \in [Nodes -> SUBSET Nodes] /\ sleep \in [Nodes -> 0..VoteInterval]
        /\ Peers[n] \in SUBSET Nodes /\ VoteInterval \in Nat
    BY ElectionAssumption DEF Inv, Typed
  <2>1. asking' \in [Nodes -> SUBSET Nodes]
    BY <1>1, <2>0
  <2>2. sleep' \in [Nodes -> 0..VoteInterval]
    <3>1. sleep[n] > 0 => sleep[n] - 1 \in 0..VoteInterval
      BY <2>0
    <3> QED  BY <1>1, <2>0, <3>1
  <2>3. pc' \in [Nodes -> {"idle", "ask", "run", "adopt", "close"}]
    <3>1. pc \in [Nodes -> {"idle", "ask", "run", "adopt", "close"}]
      BY DEF Inv, Typed
    <3>2. \E label \in {"ask", "run"} : pc' = [pc EXCEPT ![n] = label]
      BY <1>1
    <3> QED  BY <3>1, <3>2
  <2> QED  BY <1>1, <1>2, <2>1, <2>2, <2>3 DEF Inv, Typed, lead, given, up, Ids, Vote
<1>4. ASSUME NEW m \in Nodes \ {n} PROVE SameAt(m)
  BY <1>1 DEF SameAt, Inv, Typed, lead, up
<1>5. /\ pc'[n] \in {"ask", "run"} /\ (pc'[n] = "ask" => "vote" \in on[n])
      /\ (asking'[n] # {} => pc'[n] = "ask" \/ asking[n] # {})
  BY <1>1 DEF Inv, Typed
<1>6. InHand(n)'
  BY <1>1, <1>5 DEF Inv, InHand, lead
<1>7. Voting(n)'
  BY <1>1, <1>5 DEF Inv, Voting, lead
<1>8. OnTime(n)'
  <2>1. OnTime(n) /\ pc[n] = "idle" /\ pc'[n] # "idle" /\ state' = state /\ winners' = winners
    BY <1>1, <1>5 DEF Inv, lead
  <2>2. Len(winners[n]) \in Nat /\ Cycled(n) \in Nat /\ time[n] \div Cycle \in Nat
    BY <1>2, Periods DEF Inv, Typed
  <2>3. /\ state'[n] = state[n] /\ Len(winners[n])' = Len(winners[n])
        /\ state[n] \in {"MINING", "LEADER", "BLOCK"}
    BY <2>1 DEF Inv, Typed, Phases
  <2>4. CASE Cycled(n) + 1 < Cycle /\ Cycled(n)' = Cycled(n) + 1 /\ time'[n] \div Cycle = time[n] \div Cycle
    <3>1. CASE state[n] = "MINING"
      BY <2>1, <2>2, <2>3, <2>4, <3>1, Periods DEF OnTime
    <3>2. CASE state[n] = "LEADER"
      BY <2>1, <2>2, <2>3, <2>4, <3>2, Periods DEF OnTime
    <3>3. CASE state[n] = "BLOCK"
      BY <2>1, <2>2, <2>3, <2>4, <3>3, Periods DEF OnTime
    <3> QED  BY <2>3, <3>1, <3>2, <3>3
  <2>5. CASE Cycled(n) + 1 = Cycle /\ Cycled(n)' = 0 /\ time'[n] \div Cycle = (time[n] \div Cycle) + 1
    <3>1. state[n] = "BLOCK" /\ Len(winners[n]) = (time[n] \div Cycle) + 1
      BY <2>1, <2>2, <2>3, <2>5, Periods DEF OnTime
    <3> QED  BY <2>1, <2>2, <2>3, <2>5, <3>1, Periods DEF OnTime
  <2> QED  BY <1>2, <2>4, <2>5
<1> QED  BY <1>3, <1>4, <1>6, <1>7, <1>8, OneNode

\* The first half of a peer's answer is in hand.
LEMMA AskVoteStep ==
    ASSUME Inv, NEW n \in Nodes, NEW p \in Nodes, AskVote(n, p)
    PROVE  Inv'
<1>1. /\ pc[n] = "ask" /\ p \in asking[n]
      /\ reply' = [reply EXCEPT ![n] = [peer |-> p, vote |-> candidate[p]]]
      /\ UNCHANGED <<step, lead, on, sleep, asking, given, up>>
  BY DEF AskVote
<1>2. /\ reply' \in [Nodes -> [peer : Nodes \cup {Nil}, vote : Ids \cup {Nil}]]
      /\ reply'[n] = [peer |-> p, vote |-> candidate[p]]
  BY <1>1 DEF Inv, Typed
<1>3. Typed'
  BY <1>1, <1>2 DEF Inv, Typed, step, lead, given, up, Ids, Vote
<1>4. ASSUME NEW m \in Nodes \ {n} PROVE SameAt(m)
  BY <1>1 DEF SameAt, Inv, Typed, step, lead, up
<1>5. InHand(n)'
  BY <1>1, <1>2, IdsAre DEF Inv, InHand, step, lead
<1>6. (alive[n] => OnTime(n) /\ Voting(n))'
  BY <1>1 DEF Inv, OnTime, Voting, Cycled, step, lead, up
<1> QED  BY <1>3, <1>4, <1>5, <1>6, OneNode

\* A vote that is taken has a signature; a peer without one ends the loop.
LEMMA GetVoteStep ==
    ASSUME Inv, NEW n \in Nodes, GetVote(n)
    PROVE  Inv'
<1> DEFINE p == reply[n].peer
<1>1. /\ reply[n] # NoReply /\ reply' = [reply EXCEPT ![n] = NoReply]
      /\ UNCHANGED <<step, state, candidate, cache, recent, winners, sleep, given>>
      /\ \/ /\ cache[p].sig # Nil
            /\ votes' = [votes EXCEPT ![n] = Append(@, [vote |-> reply[n].vote, sig |-> cache[p].sig])]
            /\ asking' = [asking EXCEPT ![n] = @ \ {p}]
            /\ UNCHANGED <<on, up>>
         \/ /\ server' = [server EXCEPT ![p] = FALSE]
            /\ alive' = [alive EXCEPT ![n] = FALSE]
            /\ on' = [on EXCEPT ![n] = @ \ {"vote"}]
            /\ UNCHANGED <<votes, asking>>
  BY DEF GetVote
<1>2. pc[n] = "ask" /\ p \in asking[n] /\ p \in Nodes
  BY <1>1 DEF Inv, InHand, Typed
<1>3. votes' \in [Nodes -> Seq(Vote)] /\ \A m \in Nodes \ {n} : votes'[m] = votes[m]
  <2>1. cache[p].sig # Nil => [vote |-> reply[n].vote, sig |-> cache[p].sig] \in Vote
    BY <1>2 DEF Inv, Typed, Vote
  <2>2. votes \in [Nodes -> Seq(Vote)]
    BY DEF Inv, Typed
  <2>3. votes' = votes \/ \E v \in Vote : votes' = [votes EXCEPT ![n] = Append(@, v)]
    BY <1>1, <2>1
  <2>4. ASSUME NEW v \in Vote, votes' = [votes EXCEPT ![n] = Append(@, v)]
        PROVE  votes' \in [Nodes -> Seq(Vote)] /\ \A m \in Nodes \ {n} : votes'[m] = votes[m]
    <3>1. Append(votes[n], v) \in Seq(Vote)
      BY <2>2
    <3> QED  BY <2>2, <2>4, <3>1
  <2> QED  BY <2>2, <2>3, <2>4
<1>4. /\ asking' \in [Nodes -> SUBSET Nodes] /\ \A m \in Nodes \ {n} : asking'[m] = asking[m]
      /\ on' \in [Nodes -> SUBSET {"mempool", "vote", "chain"}]
      /\ reply' \in [Nodes -> [peer : Nodes \cup {Nil}, vote : Ids \cup {Nil}]]
      /\ alive' \in [Nodes -> BOOLEAN] /\ server' \in [Nodes -> BOOLEAN]
      /\ \A m \in Nodes \ {n} : on'[m] = on[m] /\ alive'[m] = alive[m]
      /\ (alive'[n] => alive[n] /\ on' = on)
  <2>1. NoReply \in [peer : Nodes \cup {Nil}, vote : Ids \cup {Nil}]
    BY DEF NoReply
  <2>2. /\ asking \in [Nodes -> SUBSET Nodes] /\ on \in [Nodes -> SUBSET {"mempool", "vote", "chain"}]
        /\ reply \in [Nodes -> [peer : Nodes \cup {Nil}, vote : Ids \cup {Nil}]]
        /\ alive \in [Nodes -> BOOLEAN] /\ server \in [Nodes -> BOOLEAN]
    BY DEF Inv, Typed
  <2> HIDE DEF p, NoReply
  <2>3. \/ asking' = [asking EXCEPT ![n] = @ \ {p}] /\ on' = on /\ alive' = alive /\ server' = server
        \/ /\ asking' = asking /\ on' = [on EXCEPT ![n] = @ \ {"vote"}]
           /\ alive' = [alive EXCEPT ![n] = FALSE] /\ server' = [server EXCEPT ![p] = FALSE]
    BY <1>1 DEF up
  <2>4. /\ asking' \in [Nodes -> SUBSET Nodes] /\ on' \in [Nodes -> SUBSET {"mempool", "vote", "chain"}]
        /\ alive' \in [Nodes -> BOOLEAN] /\ server' \in [Nodes -> BOOLEAN]
    <3>1. /\ on[n] \ {"vote"} \in SUBSET {"mempool", "vote", "chain"}
          /\ asking[n] \ {p} \in SUBSET Nodes
      BY <2>2
    <3>2. asking' \in [Nodes -> SUBSET Nodes]
      BY <2>2, <2>3, <3>1
    <3>3. on' \in [Nodes -> SUBSET {"mempool", "vote", "chain"}]
      BY <2>2, <2>3, <3>1
    <3>4. alive' \in [Nodes -> BOOLEAN]
      BY <2>2, <2>3
    <3>5. server' \in [Nodes -> BOOLEAN]
      BY <2>2, <2>3
    <3> QED  BY <3>2, <3>3, <3>4, <3>5
  <2>5. reply' \in [Nodes -> [peer : Nodes \cup {Nil}, vote : Ids \cup {Nil}]]
    BY <1>1, <2>1, <2>2
  <2>6. \A m \in Nodes \ {n} : asking'[m] = asking[m] /\ on'[m] = on[m] /\ alive'[m] = alive[m]
    BY <2>2, <2>3
  <2>7. alive'[n] => alive[n] /\ on' = on
    BY <2>2, <2>3
  <2> QED  BY <2>4, <2>5, <2>6, <2>7
<1> HIDE DEF p
<1>5. Typed'
  BY <1>1, <1>3, <1>4 DEF Inv, Typed, step, given, Ids, Vote
<1>6. ASSUME NEW m \in Nodes \ {n} PROVE SameAt(m)
  BY <1>1, <1>3, <1>4 DEF SameAt, Inv, Typed, step
<1>7. InHand(n)'
  <2>1. reply'[n] = NoReply /\ pc' = pc /\ state' = state /\ cache' = cache
    BY <1>1 DEF Inv, Typed, step
  <2> QED  BY <1>2, <2>1 DEF Inv, InHand
<1>8. (alive[n] => OnTime(n) /\ Voting(n))'
  BY <1>1, <1>4 DEF Inv, OnTime, Voting, Cycled, step
<1> QED  BY <1>5, <1>6, <1>7, <1>8, OneNode

\* The pinger has asked every peer, and the node goes on to its phase.
LEMMA VotesInStep ==
    ASSUME Inv, NEW n \in Nodes, VotesIn(n)
    PROVE  Inv'
<1>1. /\ alive[n] /\ pc[n] = "ask" /\ asking[n] = {} /\ sleep' = [sleep EXCEPT ![n] = VoteInterval]
      /\ pc' = [pc EXCEPT ![n] = "run"]
      /\ UNCHANGED <<turn, time, lead, on, asking, reply, given, up>>
  BY DEF VotesIn, Goto, MyTurn
<1>2. Typed'
  <2>1. sleep' \in [Nodes -> 0..VoteInterval]
    BY <1>1, ElectionAssumption DEF Inv, Typed
  <2>2. pc' \in [Nodes -> {"idle", "ask", "run", "adopt", "close"}]
    BY <1>1 DEF Inv, Typed
  <2> QED  BY <1>1, <2>1, <2>2 DEF Inv, Typed, lead, given, up, Ids, Vote
<1>3. ASSUME NEW m \in Nodes \ {n} PROVE SameAt(m)
  BY <1>1 DEF SameAt, Inv, Typed, lead, up
<1>4. InHand(n)'
  BY <1>1 DEF Inv, Typed, InHand, lead
<1>5. OnTime(n)' /\ Voting(n)'
  BY <1>1 DEF Inv, Typed, OnTime, Voting, Cycled, lead
<1> QED  BY <1>2, <1>3, <1>4, <1>5, OneNode

\* A collection that breaks off leaves nobody to ask.
LEMMA VoteLostStep ==
    ASSUME Inv, NEW n \in Nodes, VoteLost(n)
    PROVE  Inv'
<1>1. /\ alive[n] /\ pc[n] = "ask" /\ reply[n] = NoReply
      /\ asking' = [asking EXCEPT ![n] = {}]
      /\ UNCHANGED <<time, lead, sleep, reply, given, server, turn>>
      /\ \/ pc' = [pc EXCEPT ![n] = "run"] /\ UNCHANGED <<on, alive>>
         \/ /\ alive' = [alive EXCEPT ![n] = FALSE] /\ on' = [on EXCEPT ![n] = @ \ {"vote"}]
            /\ pc' = pc
  BY DEF VoteLost, Goto, MyTurn
<1>2. Typed'
  <2>1. asking' \in [Nodes -> SUBSET Nodes] /\ pc' \in [Nodes -> {"idle", "ask", "run", "adopt", "close"}]
    BY <1>1 DEF Inv, Typed
  <2>2. on' \in [Nodes -> SUBSET {"mempool", "vote", "chain"}] /\ alive' \in [Nodes -> BOOLEAN]
    <3>1. /\ on \in [Nodes -> SUBSET {"mempool", "vote", "chain"}] /\ alive \in [Nodes -> BOOLEAN]
          /\ on[n] \ {"vote"} \in SUBSET {"mempool", "vote", "chain"}
      BY DEF Inv, Typed
    <3> QED  BY <1>1, <3>1
  <2> QED  BY <1>1, <2>1, <2>2 DEF Inv, Typed, lead, given, Ids, Vote
<1>3. ASSUME NEW m \in Nodes \ {n} PROVE SameAt(m)
  BY <1>1 DEF SameAt, Inv, Typed, lead
<1>4. InHand(n)'
  BY <1>1 DEF Inv, Typed, InHand, lead
<1>5. (alive[n] => OnTime(n) /\ Voting(n))'
  BY <1>1 DEF Inv, Typed, OnTime, Voting, Cycled, lead
<1> QED  BY <1>2, <1>3, <1>4, <1>5, OneNode

\* When the step of this tick is still to be done.
LEMMA Due ==
    ASSUME Inv, NEW n \in Nodes, alive[n], pc[n] # "idle"
    PROVE  /\ Cycled(n) \in 0..(Cycle - 1) /\ time[n] \div Cycle \in Nat /\ Len(winners[n]) \in Nat
           /\ state[n] \in Phases
           /\ state[n] = "MINING" => /\ 1 <= Cycled(n) /\ Cycled(n) <= BlockPeriod + 1
                                     /\ Len(winners[n]) = time[n] \div Cycle
           /\ state[n] = "LEADER" => /\ BlockPeriod + 2 <= Cycled(n) /\ Cycled(n) <= 2 * BlockPeriod + 1
                                     /\ Len(winners[n]) = time[n] \div Cycle
           /\ state[n] = "BLOCK" => \/ /\ 2 * BlockPeriod + 2 <= Cycled(n)
                                       /\ Len(winners[n]) = (time[n] \div Cycle) + 1
                                    \/ Cycled(n) = 0 /\ Len(winners[n]) = time[n] \div Cycle
<1>1. time[n] \in Nat
  BY Periods DEF Inv, Typed
<1>2. Cycled(n) \in 0..(Cycle - 1) /\ time[n] \div Cycle \in Nat
  BY <1>1, Periods, NextTick DEF Cycled
<1>3. OnTime(n) /\ state[n] \in Phases /\ Len(winners[n]) \in Nat
  BY DEF Inv, Typed
<1> QED  BY <1>2, <1>3, Periods DEF OnTime, Phases

\* When it is done.
LEMMA OnTimeDone ==
    ASSUME NEW n \in Nodes, pc'[n] = "idle", time'[n] = time[n], Cycled(n) \in Nat,
           \/ /\ state'[n] = "MINING" /\ Cycled(n) <= BlockPeriod
              /\ Len(winners'[n]) = time[n] \div Cycle
           \/ /\ state'[n] = "LEADER"
              /\ BlockPeriod + 1 <= Cycled(n) /\ Cycled(n) <= 2 * BlockPeriod
              /\ Len(winners'[n]) = time[n] \div Cycle
           \/ /\ state'[n] = "BLOCK" /\ 2 * BlockPeriod + 1 <= Cycled(n)
              /\ Len(winners'[n]) = (time[n] \div Cycle) + 1
    PROVE  OnTime(n)'
<1>1. Cycled(n)' = Cycled(n)
  BY DEF Cycled
<1>2. BlockPeriod \in Nat
  BY Periods
<1> QED  BY <1>1, <1>2 DEF OnTime

\* A scan, and the start of the LEADER phase, or of the exception.
LEMMA MineStep ==
    ASSUME Inv, NEW n \in Nodes, NEW found \in SUBSET Found0, MineWith(n, found)
    PROVE  Inv'
<1>1. /\ alive[n] /\ pc[n] = "run" /\ state[n] = "MINING"
      /\ cache' = [cache EXCEPT ![n] = Lowest(n, found)]
      /\ \/ ~After(n, 1) /\ UNCHANGED <<state, candidate, on, alive>>
         \/ /\ After(n, 1) /\ state' = [state EXCEPT ![n] = "LEADER"]
            /\ \/ alive' = [alive EXCEPT ![n] = FALSE] /\ on' = [on EXCEPT ![n] = @ \ {"mempool"}]
                  /\ candidate' = candidate
               \/ /\ cache'[n].sig # Nil /\ candidate' = [candidate EXCEPT ![n] = cache'[n].sig]
                  /\ on' = [on EXCEPT ![n] = (@ \ {"mempool"}) \cup {"vote"}] /\ alive' = alive
      /\ Done(n) /\ pc' = [pc EXCEPT ![n] = "idle"]
      /\ UNCHANGED <<time, votes, recent, winners, sleep, asking, reply, given, server>>
  BY DEF MineWith, Done, MyTurn, Switched
<1>2. Lowest(n, found) \in [val : Nat, sig : Ids \cup {Nil}]
  <2>1. recent[n] \in Seq(Ids \cup {Nil}) /\ cache[n] \in [val : Nat, sig : Ids \cup {Nil}]
    BY <1>1 DEF Inv, Typed, InHand
  <2> QED  BY <2>1, LowestTyped
<1> DEFINE new == Lowest(n, found)
<1> HIDE DEF new
<1>3. /\ cache'[n] = new /\ new.sig \in Ids \cup {Nil} /\ new.val \in Nat
      /\ cache' \in [Nodes -> [val : Nat \cup Ids \cup {Nil}, sig : Ids \cup {Nil}]]
      /\ \A m \in Nodes \ {n} : cache'[m] = cache[m]
  <2>1. new \in [val : Nat \cup Ids \cup {Nil}, sig : Ids \cup {Nil}] /\ new.sig \in Ids \cup {Nil} /\ new.val \in Nat
    BY <1>2 DEF new
  <2>2. cache' = [cache EXCEPT ![n] = new]
    BY <1>1 DEF new
  <2> QED  BY <2>1, <2>2 DEF Inv, Typed
<1>4. /\ on' \in [Nodes -> SUBSET {"mempool", "vote", "chain"}] /\ alive' \in [Nodes -> BOOLEAN]
      /\ state' \in [Nodes -> Phases] /\ candidate' \in [Nodes -> Ids \cup {Nil}]
      /\ pc' \in [Nodes -> {"idle", "ask", "run", "adopt", "close"}]
  <2>1. /\ on \in [Nodes -> SUBSET {"mempool", "vote", "chain"}] /\ alive \in [Nodes -> BOOLEAN]
        /\ state \in [Nodes -> Phases] /\ candidate \in [Nodes -> Ids \cup {Nil}] /\ "LEADER" \in Phases
        /\ pc \in [Nodes -> {"idle", "ask", "run", "adopt", "close"}]
        /\ on[n] \ {"mempool"} \in SUBSET {"mempool", "vote", "chain"}
        /\ (on[n] \ {"mempool"}) \cup {"vote"} \in SUBSET {"mempool", "vote", "chain"}
    BY DEF Inv, Typed, Phases
  <2>2. on' \in [Nodes -> SUBSET {"mempool", "vote", "chain"}]
    BY <1>1, <2>1
  <2>3. state' \in [Nodes -> Phases] /\ candidate' \in [Nodes -> Ids \cup {Nil}]
    BY <1>1, <1>3, <2>1
  <2>4. alive' \in [Nodes -> BOOLEAN]
    BY <1>1, <2>1
  <2> QED  BY <1>1, <2>1, <2>2, <2>3, <2>4
<1>5. Typed'
  <2>1. turn' \in 1..Len(Order)
    BY <1>1, TurnTyped DEF Inv, Typed
  <2> QED  BY <1>1, <1>3, <1>4, <2>1 DEF Inv, Typed, given, Ids, Vote
<1>6. ASSUME NEW m \in Nodes \ {n} PROVE SameAt(m)
  BY <1>1, <1>3 DEF SameAt, Inv, Typed
<1>7. InHand(n)'
  BY <1>1, <1>3 DEF Inv, Typed, InHand
<1>8. (alive[n] => OnTime(n) /\ Voting(n))'
  <2>0. /\ Cycled(n) \in Nat /\ Cycled(n) <= BlockPeriod + 1 /\ BlockPeriod \in Nat /\ BlockPeriod >= 2
        /\ Len(winners'[n]) = time[n] \div Cycle
    BY <1>1, Due, Periods
  <2>1. CASE ~After(n, 1) /\ UNCHANGED <<state, candidate, on, alive>>
    <3>1. Cycled(n) <= BlockPeriod
      BY <2>0, <2>1 DEF After
    <3>2. pc'[n] = "idle" /\ state'[n] = "MINING" /\ time'[n] = time[n]
      BY <1>1, <2>1 DEF Inv, Typed
    <3>3. OnTime(n)'
      BY <2>0, <3>1, <3>2, OnTimeDone
    <3> QED  BY <1>1, <2>1, <3>2, <3>3 DEF Inv, Voting
  <2>2. CASE /\ After(n, 1) /\ state' = [state EXCEPT ![n] = "LEADER"]
             /\ cache'[n].sig # Nil /\ on' = [on EXCEPT ![n] = (@ \ {"mempool"}) \cup {"vote"}]
    <3>1. BlockPeriod + 1 <= Cycled(n) /\ Cycled(n) <= 2 * BlockPeriod
      BY <2>0, <2>2 DEF After
    <3>2. pc'[n] = "idle" /\ state'[n] = "LEADER" /\ time'[n] = time[n]
      BY <1>1, <2>2 DEF Inv, Typed
    <3>3. Voting(n)'
      BY <1>1, <2>2 DEF Inv, Typed, Voting
    <3>4. OnTime(n)'
      BY <2>0, <3>1, <3>2, OnTimeDone
    <3> QED  BY <3>3, <3>4
  <2>3. CASE alive' = [alive EXCEPT ![n] = FALSE]
    BY <2>3 DEF Inv, Typed
  <2> QED  BY <1>1, <2>1, <2>2, <2>3
<1> QED  BY <1>5, <1>6, <1>7, <1>8, OneNode

\* A favourite is somebody's vote.
LEMMA TallyStep ==
    ASSUME Inv, NEW n \in Nodes, Tally(n)
    PROVE  Inv'
<1> DEFINE w == Favourite(n)
<1>1. /\ alive[n] /\ pc[n] = "run" /\ state[n] = "LEADER" /\ turn' = turn
      /\ \/ /\ Complete(n) /\ candidate' = [candidate EXCEPT ![n] = w]
            /\ pc' = [pc EXCEPT ![n] = "adopt"] /\ votes' = votes
         \/ /\ votes' = [votes EXCEPT ![n] = <<>>]
            /\ pc' = [pc EXCEPT ![n] = "close"] /\ candidate' = candidate
         \/ pc' = [pc EXCEPT ![n] = "close"] /\ UNCHANGED <<votes, candidate>>
      /\ UNCHANGED <<time, state, cache, recent, winners, pings, given, up>>
  BY DEF Tally, Goto, MyTurn
<1>2. Complete(n) => w \in Named(n) /\ w \in Ids \cup {Nil}
  <2>1. votes[n] \in Seq(Vote) /\ VotesTyped(n) /\ NumNeighbours > 0
    BY ElectionAssumption DEF Inv, Typed, VotesTyped
  <2>2. Complete(n) => w \in Named(n)
    BY <2>1, FavouriteNamed DEF Complete
  <2>3. \A v \in Named(n) : v \in Ids \cup {Nil}
    BY <2>1, OneVote DEF Named
  <2> QED  BY <2>2, <2>3
<1> HIDE DEF w
<1>3. /\ candidate' \in [Nodes -> Ids \cup {Nil}] /\ votes' \in [Nodes -> Seq(Vote)]
      /\ pc' \in [Nodes -> {"idle", "ask", "run", "adopt", "close"}]
  <2>1. /\ candidate \in [Nodes -> Ids \cup {Nil}] /\ votes \in [Nodes -> Seq(Vote)]
        /\ pc \in [Nodes -> {"idle", "ask", "run", "adopt", "close"}] /\ <<>> \in Seq(Vote)
    BY DEF Inv, Typed
  <2> QED  BY <1>1, <1>2, <2>1
<1>4. Typed'
  BY <1>1, <1>3 DEF Inv, Typed, pings, given, up, Ids, Vote
<1>5. ASSUME NEW m \in Nodes \ {n} PROVE SameAt(m)
  BY <1>1 DEF SameAt, Inv, Typed, pings, up
<1>6. /\ pc'[n] = "close" \/ (pc'[n] = "adopt" /\ candidate'[n] = w /\ w \in Named(n) /\ votes' = votes)
      /\ reply[n] = NoReply /\ asking[n] = {}
  BY <1>1, <1>2 DEF Inv, Typed, InHand
<1>7. InHand(n)'
  <2>1. pc'[n] = "adopt" => Named(n)' = Named(n)
    BY <1>6 DEF Named
  <2> QED  BY <1>1, <1>6, <2>1 DEF InHand, pings, NoReply
<1>8. OnTime(n)'
  BY <1>1, <1>6 DEF Inv, OnTime, Cycled
<1>9. Voting(n)'
  BY <1>1, <1>6 DEF Inv, Voting, pings
<1> QED  BY <1>4, <1>5, <1>7, <1>8, <1>9, OneNode

\* What a node adopts is a signature: a vote has one.
LEMMA AdoptStep ==
    ASSUME Inv, NEW n \in Nodes, Adopt(n)
    PROVE  Inv'
<1> DEFINE sig == votes[n][FirstVote(n, candidate[n])].sig
<1>1. /\ alive[n] /\ pc[n] = "adopt" /\ turn' = turn
      /\ cache' = [cache EXCEPT ![n] = [val |-> candidate[n], sig |-> sig]]
      /\ votes' = [votes EXCEPT ![n] = <<>>] /\ pc' = [pc EXCEPT ![n] = "close"]
      /\ UNCHANGED <<time, state, candidate, recent, winners, pings, given, up>>
  BY DEF Adopt, Adopted, Goto, MyTurn
<1>2. sig \in Ids
  <2>1. votes[n] \in Seq(Vote) /\ VotesTyped(n) /\ candidate[n] \in Named(n)
    BY <1>1 DEF Inv, Typed, InHand, VotesTyped
  <2>2. FirstVote(n, candidate[n]) \in DOMAIN votes[n]
    BY <2>1, FirstVoteFor
  <2> QED  BY <2>1, <2>2, OneVote
<1> HIDE DEF sig
<1>3. /\ cache' \in [Nodes -> [val : Nat \cup Ids \cup {Nil}, sig : Ids \cup {Nil}]]
      /\ cache'[n].sig = sig /\ votes' \in [Nodes -> Seq(Vote)]
      /\ pc' \in [Nodes -> {"idle", "ask", "run", "adopt", "close"}] /\ pc'[n] = "close"
  <2>1. [val |-> candidate[n], sig |-> sig] \in [val : Nat \cup Ids \cup {Nil}, sig : Ids \cup {Nil}]
    BY <1>2 DEF Inv, Typed
  <2>2. /\ cache \in [Nodes -> [val : Nat \cup Ids \cup {Nil}, sig : Ids \cup {Nil}]]
        /\ votes \in [Nodes -> Seq(Vote)] /\ <<>> \in Seq(Vote)
        /\ pc \in [Nodes -> {"idle", "ask", "run", "adopt", "close"}]
    BY DEF Inv, Typed
  <2> QED  BY <1>1, <2>1, <2>2
<1>4. Typed'
  BY <1>1, <1>3 DEF Inv, Typed, pings, given, up, Ids, Vote
<1>5. ASSUME NEW m \in Nodes \ {n} PROVE SameAt(m)
  BY <1>1 DEF SameAt, Inv, Typed, pings, up
<1>6. state[n] = "LEADER" /\ OnTime(n) /\ Voting(n) /\ InHand(n)
  BY <1>1 DEF Inv, Voting
<1>7. InHand(n)'
  BY <1>1, <1>3, <1>6 DEF InHand, pings, NoReply
<1>8. OnTime(n)'
  BY <1>1, <1>3, <1>6 DEF OnTime, Cycled
<1>9. Voting(n)'
  <2>1. sig # Nil
    BY <1>2, IdsAre
  <2> QED  BY <1>1, <1>3, <1>6, <2>1 DEF Voting, pings
<1> QED  BY <1>4, <1>5, <1>7, <1>8, <1>9, OneNode

\* The end of the LEADER phase comes at its tick, with a signature.
LEMMA CloseStep ==
    ASSUME Inv, NEW n \in Nodes, Close(n)
    PROVE  Inv'
<1>1. /\ alive[n] /\ pc[n] = "close" /\ Done(n) /\ pc' = [pc EXCEPT ![n] = "idle"]
      /\ \/ /\ After(n, 2) /\ state' = [state EXCEPT ![n] = "BLOCK"]
            /\ recent' = [recent EXCEPT ![n] = WithLeader(@, candidate[n])]
            /\ winners' = [winners EXCEPT ![n] = Append(@, cache[n].sig)]
            /\ on' = [on EXCEPT ![n] = (@ \ {"vote"}) \cup {"chain"}]
         \/ ~After(n, 2) /\ UNCHANGED <<state, recent, winners, on>>
      /\ UNCHANGED <<time, candidate, cache, votes, sleep, asking, reply, given, up>>
  BY DEF Close, Done, MyTurn, Switched
<1>2. state[n] = "LEADER" /\ OnTime(n) /\ Voting(n) /\ InHand(n) /\ cache[n].sig \in Ids
  BY <1>1 DEF Inv, Voting, Typed
<1>3. /\ recent' \in [Nodes -> Seq(Ids \cup {Nil})] /\ winners' \in [Nodes -> Seq(Ids)]
      /\ After(n, 2) => Len(winners'[n]) = Len(winners[n]) + 1
  <2>1. /\ recent \in [Nodes -> Seq(Ids \cup {Nil})] /\ winners \in [Nodes -> Seq(Ids)]
        /\ candidate[n] \in Ids \cup {Nil}
    BY DEF Inv, Typed
  <2>2. WithLeader(recent[n], candidate[n]) \in Seq(Ids \cup {Nil})
    <3>1. recent[n] \in Seq(Ids \cup {Nil}) /\ MaxRecentLeaders > 0
      BY <2>1, ElectionAssumption
    <3>2. Len(recent[n]) = MaxRecentLeaders => Tail(recent[n]) \in Seq(Ids \cup {Nil})
      BY <3>1
    <3> QED  BY <2>1, <3>1, <3>2 DEF WithLeader
  <2>3. /\ Append(winners[n], cache[n].sig) \in Seq(Ids)
        /\ Len(Append(winners[n], cache[n].sig)) = Len(winners[n]) + 1
    BY <1>2, <2>1
  <2> QED  BY <1>1, <2>1, <2>2, <2>3
<1>4. /\ on' \in [Nodes -> SUBSET {"mempool", "vote", "chain"}]
      /\ state' \in [Nodes -> Phases] /\ pc'[n] = "idle"
      /\ pc' \in [Nodes -> {"idle", "ask", "run", "adopt", "close"}]
  <2>1. /\ on \in [Nodes -> SUBSET {"mempool", "vote", "chain"}]
        /\ state \in [Nodes -> Phases] /\ "BLOCK" \in Phases
        /\ pc \in [Nodes -> {"idle", "ask", "run", "adopt", "close"}]
        /\ (on[n] \ {"vote"}) \cup {"chain"} \in SUBSET {"mempool", "vote", "chain"}
    BY DEF Inv, Typed, Phases
  <2>2. on' \in [Nodes -> SUBSET {"mempool", "vote", "chain"}]
    BY <1>1, <2>1
  <2> QED  BY <1>1, <2>1, <2>2
<1>5. Typed'
  <2>1. turn' \in 1..Len(Order)
    BY <1>1, TurnTyped DEF Inv, Typed
  <2> QED  BY <1>1, <1>3, <1>4, <2>1 DEF Inv, Typed, given, up, Ids, Vote
<1>6. ASSUME NEW m \in Nodes \ {n} PROVE SameAt(m)
  BY <1>1 DEF SameAt, Inv, Typed, up
<1>7. InHand(n)'
  BY <1>1, <1>2, <1>4 DEF Inv, Typed, InHand
<1>8. /\ Cycled(n) \in Nat /\ BlockPeriod + 2 <= Cycled(n) /\ Cycled(n) <= 2 * BlockPeriod + 1
      /\ Len(winners[n]) = time[n] \div Cycle /\ BlockPeriod \in Nat /\ time'[n] = time[n]
  BY <1>1, <1>2, Due, Periods
<1>9. CASE After(n, 2)
  <2>1. state'[n] = "BLOCK" /\ on'[n] = (on[n] \ {"vote"}) \cup {"chain"}
    BY <1>1, <1>9 DEF Inv, Typed
  <2>2. 2 * BlockPeriod + 1 <= Cycled(n)
    BY <1>8, <1>9 DEF After
  <2>3. OnTime(n)'
    BY <1>3, <1>4, <1>8, <1>9, <2>1, <2>2, OnTimeDone
  <2>4. Voting(n)'
    BY <1>4, <2>1 DEF Voting
  <2> QED  BY <1>5, <1>6, <1>7, <2>3, <2>4, OneNode
<1>10. CASE ~After(n, 2)
  <2>1. state' = state /\ on' = on /\ winners' = winners
    BY <1>1, <1>10
  <2>2. Cycled(n) <= 2 * BlockPeriod
    BY <1>8, <1>10 DEF After
  <2>3. OnTime(n)'
    BY <1>2, <1>4, <1>8, <2>1, <2>2, OnTimeDone
  <2>4. Voting(n)'
    BY <1>1, <1>2, <1>4, <2>1 DEF Voting
  <2> QED  BY <1>5, <1>6, <1>7, <2>3, <2>4, OneNode
<1> QED  BY <1>9, <1>10

\* The end of the round comes at the first tick of the next cycle.
LEMMA BlockStep ==
    ASSUME Inv, NEW n \in Nodes, RunBlock(n)
    PROVE  Inv'
<1>1. /\ alive[n] /\ pc[n] = "run" /\ state[n] = "BLOCK" /\ Done(n) /\ pc' = [pc EXCEPT ![n] = "idle"]
      /\ cache' = [cache EXCEPT ![n] = ResetCache(n)]
      /\ candidate' = [candidate EXCEPT ![n] = Nil]
      /\ \/ /\ Cycled(n) < BlockPeriod /\ state' = [state EXCEPT ![n] = "MINING"]
            /\ on' = [on EXCEPT ![n] = (@ \ {"chain"}) \cup {"mempool"}]
         \/ Cycled(n) >= BlockPeriod /\ UNCHANGED <<state, on>>
      /\ UNCHANGED <<time, votes, recent, winners, sleep, asking, reply, given, up>>
  BY DEF RunBlock, Done, MyTurn, Switched
<1>2. OnTime(n) /\ Voting(n) /\ InHand(n)
  BY <1>1 DEF Inv
<1>3. /\ cache' \in [Nodes -> [val : Nat \cup Ids \cup {Nil}, sig : Ids \cup {Nil}]]
      /\ cache'[n].val \in Nat /\ candidate' \in [Nodes -> Ids \cup {Nil}]
      /\ \A m \in Nodes \ {n} : cache'[m] = cache[m]
  <2>1. /\ ResetCache(n) \in [val : Nat \cup Ids \cup {Nil}, sig : Ids \cup {Nil}]
        /\ ResetCache(n).val \in Nat
    BY ElectionAssumption DEF ResetCache, NoSignature
  <2>2. /\ cache \in [Nodes -> [val : Nat \cup Ids \cup {Nil}, sig : Ids \cup {Nil}]]
        /\ candidate \in [Nodes -> Ids \cup {Nil}]
    BY DEF Inv, Typed
  <2> HIDE DEF ResetCache
  <2> QED  BY <1>1, <2>1, <2>2
<1>4. /\ on' \in [Nodes -> SUBSET {"mempool", "vote", "chain"}]
      /\ state' \in [Nodes -> Phases] /\ pc'[n] = "idle"
      /\ pc' \in [Nodes -> {"idle", "ask", "run", "adopt", "close"}]
  <2>1. /\ on \in [Nodes -> SUBSET {"mempool", "vote", "chain"}]
        /\ state \in [Nodes -> Phases] /\ "MINING" \in Phases
        /\ pc \in [Nodes -> {"idle", "ask", "run", "adopt", "close"}]
        /\ (on[n] \ {"chain"}) \cup {"mempool"} \in SUBSET {"mempool", "vote", "chain"}
    BY DEF Inv, Typed, Phases
  <2>2. on' \in [Nodes -> SUBSET {"mempool", "vote", "chain"}]
    BY <1>1, <2>1
  <2> QED  BY <1>1, <2>1, <2>2
<1>5. Typed'
  <2>1. turn' \in 1..Len(Order)
    BY <1>1, TurnTyped DEF Inv, Typed
  <2> QED  BY <1>1, <1>3, <1>4, <2>1 DEF Inv, Typed, given, up, Ids, Vote
<1>6. ASSUME NEW m \in Nodes \ {n} PROVE SameAt(m)
  BY <1>1, <1>3 DEF SameAt, Inv, Typed, up
<1>7. InHand(n)'
  BY <1>1, <1>2, <1>3, <1>4 DEF InHand
<1>8. /\ Cycled(n) \in Nat /\ BlockPeriod \in Nat /\ BlockPeriod >= 2 /\ time'[n] = time[n] /\ winners' = winners
      /\ \/ /\ 2 * BlockPeriod + 2 <= Cycled(n) /\ Len(winners[n]) = (time[n] \div Cycle) + 1
         \/ Cycled(n) = 0 /\ Len(winners[n]) = time[n] \div Cycle
  BY <1>1, Due, Periods
<1>9. CASE Cycled(n) < BlockPeriod
  <2>1. state'[n] = "MINING" /\ on'[n] = (on[n] \ {"chain"}) \cup {"mempool"}
    BY <1>1, <1>8, <1>9 DEF Inv, Typed
  <2>2. Cycled(n) = 0 /\ Len(winners[n]) = time[n] \div Cycle
    BY <1>8, <1>9
  <2>3. OnTime(n)'
    BY <1>4, <1>8, <2>1, <2>2, OnTimeDone
  <2>4. Voting(n)'
    BY <1>1, <1>2, <1>4, <2>1 DEF Voting
  <2> QED  BY <1>5, <1>6, <1>7, <2>3, <2>4, OneNode
<1>10. CASE Cycled(n) >= BlockPeriod
  <2>1. state' = state /\ on' = on
    BY <1>1, <1>8, <1>10
  <2>2. 2 * BlockPeriod + 1 <= Cycled(n) /\ Len(winners[n]) = (time[n] \div Cycle) + 1
    BY <1>8, <1>10
  <2>3. OnTime(n)'
    BY <1>1, <1>4, <1>8, <2>1, <2>2, OnTimeDone
  <2>4. Voting(n)'
    BY <1>1, <1>2, <1>4, <2>1 DEF Voting
  <2> QED  BY <1>5, <1>6, <1>7, <2>3, <2>4, OneNode
<1> QED  BY <1>8, <1>9, <1>10

\* A scan is in a round for which transactions are given.
LEMMA ScanInRound ==
    ASSUME Inv, NEW n \in Nodes, alive[n], pc[n] # "idle", state[n] = "MINING"
    PROVE  /\ Round(n) \in 1..MaxRound
           /\ \A found \in Found(n) : found \in SUBSET completed[Round(n)] /\ found \in SUBSET Found0
<1>1. Len(winners[n]) = time[n] \div Cycle /\ Cycled(n) > 0 /\ time[n] \in 0..MaxTime
      /\ time[n] \div Cycle \in Nat
  <2>1. time[n] \in 0..MaxTime
    BY DEF Inv, Typed
  <2> QED  BY <2>1, Due, Periods
<1>2. time[n] \div Cycle < MaxTime \div Cycle
  <2>1. time[n] \in Nat /\ time[n] <= MaxTime /\ time[n] % Cycle > 0
    BY <1>1, Periods DEF Cycled
  <2> QED  BY <2>1, Periods, CycleBelow
<1>3. Round(n) \in 1..MaxRound
  BY <1>1, <1>2, Periods DEF Round, MaxRound
<1>4. Sigs \subseteq Found0
  <2>1. 0..(Inf - 1) \subseteq Nat
    BY ElectionAssumption
  <2>2. \A sig \in [id : Nodes, value : 0..(Inf - 1)] : sig \in Found0
    BY <2>1 DEF Found0
  <2> QED  BY <2>2, ElectionAssumption
<1>5. completed[Round(n)] \subseteq Sigs
  BY <1>3 DEF Inv, Typed
<1>6. \A found \in Found(n) : found \subseteq completed[Round(n)]
  BY DEF Found
<1> QED  BY <1>3, <1>4, <1>5, <1>6

\* The initial states.
LEMMA InitInv == Init => Inv
<1> SUFFICES ASSUME Init PROVE Inv
  OBVIOUS
<1>1. Typed
  <2>1. /\ NoReply \in [peer : Nodes \cup {Nil}, vote : Ids \cup {Nil}]
        /\ \A n \in Nodes : NoSignature(n) \in [val : Nat \cup Ids \cup {Nil}, sig : Ids \cup {Nil}]
    BY ElectionAssumption DEF NoReply, NoSignature
  <2>2. 1 \in 1..Len(Order) /\ 0 \in 0..MaxTime /\ 0 \in 0..VoteInterval /\ "MINING" \in Phases
    BY Periods, ElectionAssumption DEF Phases
  <2>3. /\ <<>> \in Seq(Vote) /\ <<>> \in Seq(Ids \cup {Nil}) /\ <<>> \in Seq(Ids)
    OBVIOUS
  <2>4. cache \in [Nodes -> [val : Nat \cup Ids \cup {Nil}, sig : Ids \cup {Nil}]]
    BY <2>1 DEF Init
  <2>5. reply \in [Nodes -> [peer : Nodes \cup {Nil}, vote : Ids \cup {Nil}]]
    BY <2>1 DEF Init
  <2>6. votes \in [Nodes -> Seq(Vote)] /\ recent \in [Nodes -> Seq(Ids \cup {Nil})] /\ winners \in [Nodes -> Seq(Ids)]
    BY <2>3 DEF Init
  <2>7. on \in [Nodes -> SUBSET {"mempool", "vote", "chain"}]
    BY DEF Init
  <2> QED  BY <2>2, <2>4, <2>5, <2>6, <2>7 DEF Init, Typed
<1>2. ASSUME NEW n \in Nodes PROVE InHand(n) /\ OnTime(n) /\ Voting(n)
  <2>1. InHand(n)
    BY ElectionAssumption DEF Init, InHand, NoSignature, NoReply
  <2>2. Voting(n)
    BY DEF Init, Voting
  <2>3. Cycled(n) = 0 /\ time[n] \div Cycle = 0
    BY Periods DEF Init, Cycled
  <2>4. pc[n] = "idle" /\ state[n] = "MINING" /\ winners[n] = <<>>
    BY DEF Init
  <2> QED  BY <2>1, <2>2, <2>3, <2>4, Periods DEF OnTime
<1> QED  BY <1>1, <1>2 DEF Inv

\* Every step.
LEMMA InvStep == Inv /\ [Next]_vars => Inv'
<1> SUFFICES ASSUME Inv, [Next]_vars PROVE Inv'
  OBVIOUS
<1>1. CASE UNCHANGED vars
  <2>1. Typed'
    BY <1>1 DEF Inv, Typed, vars, step, lead, pings, given, up, Ids, Vote
  <2>2. \A m \in Nodes : SameAt(m)
    BY <1>1 DEF SameAt, vars, step, lead, pings, given, up
  <2> QED  BY <2>1, <2>2, Frame DEF Inv
<1>2. ASSUME NEW n \in Nodes, RunMining(n) PROVE Inv'
  <2>1. PICK found \in Found(n) : MineWith(n, found)
    BY <1>2 DEF RunMining
  <2>2. alive[n] /\ pc[n] # "idle" /\ state[n] = "MINING"
    BY <2>1 DEF MineWith, MyTurn
  <2> QED  BY <2>1, <2>2, ScanInRound, MineStep
<1>3. ASSUME NEW n \in Nodes, StepOf(n) PROVE Inv'
  BY <1>2, <1>3, BeginStep, VotesInStep, GetVoteStep, VoteLostStep, AskVoteStep,
     TallyStep, AdoptStep, CloseStep, BlockStep DEF StepOf
<1> QED  BY <1>1, <1>3 DEF Next

\* All interleavings and failures keep the types, every node that goes on keeps
\* to the phases that its timer prescribes, and it never votes without a signature.
THEOREM AlwaysInv == Spec => []Inv
BY InitInv, InvStep, PTL DEF Spec

\* Whatever votes come in, in whatever order: a recorded winner is never None,
\* and a scan always compares numbers.
THEOREM TypesAlwaysRight == Spec => []TypeOK
<1>1. Inv => TypeOK
  BY DEF Inv, Typed, TypeOK, InHand
<1> QED  BY <1>1, AlwaysInv, PTL

\* A node in its LEADER phase, which it has entered without an exception, never
\* ends its server thread by a vote request.
THEOREM VotersKeepServer == Spec => ServerEndsWithoutSignature
<1>1. Inv /\ [Next]_vars =>
         [\A p \in Nodes : server[p] /\ ~server'[p] => state[p] # "LEADER" \/ ~alive[p]]_vars
  <2> SUFFICES ASSUME Inv, [Next]_vars, NEW p \in Nodes, server[p], ~server'[p]
               PROVE  state[p] # "LEADER" \/ ~alive[p]
    OBVIOUS
  <2>1. PICK n \in Nodes : GetVote(n)
    BY DEF Next, StepOf, vars, up, Begin, VotesIn, VoteLost, AskVote, RunMining, MineWith, Tally,
           Adopt, Close, RunBlock
  <2>2. cache[p].sig = Nil
    <3>1. server' = server \/ /\ cache[reply[n].peer].sig = Nil
                              /\ server' = [server EXCEPT ![reply[n].peer] = FALSE]
      BY <2>1 DEF GetVote, up
    <3> QED  BY <3>1 DEF Inv, Typed
  <2> QED  BY <2>2 DEF Inv, Voting
<1> QED  BY <1>1, AlwaysInv, PTL DEF Spec, ServerEndsWithoutSignature

-----------------------------------------------------------------------------
(* The count of the votes *)

\* The peers of each node are as many as the votes it needs, and no connection
\* between robots breaks.
AllAnswer == ~LinkFaults /\ \A n \in Nodes : Cardinality(Peers[n]) = NumNeighbours

\* A collection is counted in the step that makes it, or ends the node.
Collected(n) ==
    /\ pc[n] = "ask" /\ alive[n] => Len(votes[n]) + Cardinality(asking[n]) = NumNeighbours
    /\ pc[n] = "run" => \/ votes[n] = <<>>
                        \/ state[n] = "LEADER" /\ Len(votes[n]) = NumNeighbours
    /\ pc[n] \in {"idle", "close"} => votes[n] = <<>>

CountInv == \A n \in Nodes : Collected(n)

\* Every step keeps a collection either going or counted.
LEMMA CountStep ==
    ASSUME AllAnswer, Inv, CountInv, [Next]_vars
    PROVE  CountInv'
<1>1. CASE UNCHANGED vars
  BY <1>1 DEF CountInv, Collected, vars, step, lead, pings, given, up
<1>2. ASSUME NEW n \in Nodes, StepOf(n)
      PROVE  CountInv'
  <2> DEFINE Kept == \A m \in Nodes \ {n} :
                        /\ pc'[m] = pc[m] /\ votes'[m] = votes[m] /\ asking'[m] = asking[m]
                        /\ state'[m] = state[m] /\ alive'[m] = alive[m]
  <2>0. ASSUME Kept, Collected(n)' PROVE CountInv'
    <3>1. ASSUME NEW m \in Nodes, m # n PROVE Collected(m)'
      BY <2>0, <3>1 DEF CountInv, Collected
    <3> QED  BY <2>0, <3>1 DEF CountInv
  <2> HIDE DEF Kept
  <2>a. /\ NumNeighbours \in Nat /\ NumNeighbours > 0 /\ IsFiniteSet(asking[n]) /\ IsFiniteSet(Peers[n])
        /\ Len(votes[n]) \in Nat /\ votes[n] \in Seq(Vote) /\ Cardinality(asking[n]) \in Nat
    <3>1. asking[n] \in SUBSET Nodes /\ Peers[n] \in SUBSET Nodes /\ IsFiniteSet(Nodes)
      BY ElectionAssumption DEF Inv, Typed
    <3>2. IsFiniteSet(asking[n]) /\ IsFiniteSet(Peers[n])
      BY <3>1, FS_Subset
    <3> QED  BY <3>2, FS_CardinalityType, ElectionAssumption DEF Inv, Typed
  <2>1. CASE Begin(n)
    <3>1. Kept
      BY <2>1 DEF Kept, Begin, Goto, Inv, Typed, lead, up
    <3>2. votes'[n] = <<>> /\ ((pc'[n] = "ask" /\ asking'[n] = Peers[n]) \/ pc'[n] = "run")
      BY <2>1 DEF Begin, Goto, Inv, Typed, lead, CountInv, Collected
    <3>3. Collected(n)'
      BY <3>2, <2>a DEF AllAnswer, Collected
    <3> QED  BY <2>0, <3>1, <3>3
  <2>2. CASE \E p \in Nodes : AskVote(n, p)
    BY <2>2 DEF AskVote, step, lead, up, CountInv, Collected
  <2>3. CASE GetVote(n)
    <3>1. reply[n].peer \in asking[n] /\ pc[n] = "ask" /\ pc' = pc /\ state' = state
      BY <2>3 DEF GetVote, Inv, InHand, step
    <3>2. Kept
      BY <2>3 DEF Kept, GetVote, Inv, Typed, step, up
    <3>3. Collected(n)'
      <4>1. CASE alive'[n]
        <5>1. \E v : votes' = [votes EXCEPT ![n] = Append(@, v)]
          BY <2>3, <4>1 DEF GetVote, Inv, Typed
        <5>2. alive[n] /\ asking'[n] = asking[n] \ {reply[n].peer} /\ Len(votes'[n]) = Len(votes[n]) + 1
          BY <2>3, <2>a, <4>1, <5>1 DEF GetVote, Inv, Typed, up
        <5>3. Cardinality(asking'[n]) = Cardinality(asking[n]) - 1
          <6>1. Cardinality(asking[n] \ {reply[n].peer}) = Cardinality(asking[n]) - 1
            BY <3>1, <2>a, FS_RemoveElement
          <6> QED  BY <5>2, <6>1
        <5>4. Len(votes[n]) + Cardinality(asking[n]) = NumNeighbours
          BY <3>1, <5>2 DEF CountInv, Collected
        <5>5. Len(votes'[n]) + Cardinality(asking'[n]) = NumNeighbours
          BY <5>2, <5>3, <5>4, <2>a
        <5> QED  BY <3>1, <5>5 DEF Collected
      <4>2. CASE ~alive'[n]
        BY <3>1, <4>2 DEF Collected
      <4> QED  BY <4>1, <4>2
    <3> QED  BY <2>0, <3>2, <3>3
  <2>4. CASE VotesIn(n)
    <3>1. /\ Kept /\ pc'[n] = "run" /\ pc[n] = "ask" /\ alive[n] /\ asking[n] = {}
          /\ votes' = votes /\ state' = state
      BY <2>4 DEF Kept, VotesIn, MyTurn, Goto, Inv, Typed, lead, up
    <3>2. Len(votes[n]) = NumNeighbours /\ state[n] = "LEADER"
      <4>1. Cardinality(asking[n]) = 0
        BY <3>1, FS_EmptySet
      <4>2. Len(votes[n]) + Cardinality(asking[n]) = NumNeighbours
        BY <3>1 DEF CountInv, Collected
      <4> QED  BY <3>1, <4>1, <4>2, <2>a DEF Inv, Voting
    <3>3. Collected(n)'
      BY <3>1, <3>2 DEF Collected
    <3> QED  BY <2>0, <3>1, <3>3
  <2>5. CASE VoteLost(n)
    <3>1. Kept /\ pc'[n] = "ask" /\ ~alive'[n]
      BY <2>5 DEF AllAnswer, Kept, VoteLost, Inv, Typed, lead
    <3>2. Collected(n)'
      BY <3>1 DEF Collected
    <3> QED  BY <2>0, <3>1, <3>2
  <2>6. CASE RunMining(n)
    <3>1. Kept /\ pc'[n] = "idle" /\ votes' = votes /\ pc[n] = "run" /\ state[n] = "MINING"
      BY <2>6 DEF Kept, RunMining, MineWith, Done, Inv, Typed
    <3>2. Collected(n)'
      BY <3>1 DEF CountInv, Collected
    <3> QED  BY <2>0, <3>1, <3>2
  <2>7. CASE Tally(n)
    <3>1. Kept
      BY <2>7 DEF Kept, Tally, Goto, Inv, Typed, pings, up
    <3>2. \/ pc'[n] = "adopt"
          \/ pc'[n] = "close" /\ (votes'[n] = <<>> \/ (votes' = votes /\ ~Complete(n)))
      BY <2>7 DEF Tally, Goto, Inv, Typed
    <3>3. pc[n] = "run"
      BY <2>7 DEF Tally
    <3>4. Collected(n)'
      BY <3>2, <3>3 DEF CountInv, Collected, Complete
    <3> QED  BY <2>0, <3>1, <3>4
  <2>8. CASE Adopt(n)
    <3>1. Kept /\ pc'[n] = "close" /\ votes'[n] = <<>>
      BY <2>8 DEF Kept, Adopt, Goto, Inv, Typed, pings, up
    <3>2. Collected(n)'
      BY <3>1 DEF Collected
    <3> QED  BY <2>0, <3>1, <3>2
  <2>9. CASE Close(n)
    <3>1. Kept /\ pc'[n] = "idle" /\ votes' = votes /\ pc[n] = "close"
      BY <2>9 DEF Kept, Close, Done, Inv, Typed, up
    <3>2. Collected(n)'
      BY <3>1 DEF CountInv, Collected
    <3> QED  BY <2>0, <3>1, <3>2
  <2>10. CASE RunBlock(n)
    <3>1. Kept /\ pc'[n] = "idle" /\ votes' = votes /\ pc[n] = "run" /\ state[n] = "BLOCK"
      BY <2>10 DEF Kept, RunBlock, Done, Inv, Typed, up
    <3>2. Collected(n)'
      BY <3>1 DEF CountInv, Collected
    <3> QED  BY <2>0, <3>1, <3>2
  <2> QED  BY <1>2, <2>1, <2>2, <2>3, <2>4, <2>5, <2>6, <2>7, <2>8, <2>9, <2>10 DEF StepOf
<1> QED  BY <1>1, <1>2 DEF Next

\* At the start nothing is collected.
LEMMA CountInit == Init => CountInv
BY DEF Init, CountInv, Collected

\* When every node has num_neighbours peers and no connection breaks, a node
\* never ends a step with votes that it has not counted.
THEOREM VotesAlwaysCounted == AllAnswer => (Spec => []VotesCounted)
<1> SUFFICES ASSUME AllAnswer PROVE Spec => []VotesCounted
  OBVIOUS
<1>1. Inv /\ Inv' /\ CountInv /\ [Next]_vars => CountInv'
  BY CountStep
<1>2. CountInv => VotesCounted
  <2> SUFFICES ASSUME CountInv, NEW n \in Nodes, pc[n] = "idle" PROVE Len(votes[n]) < NumNeighbours
    BY DEF VotesCounted
  <2>1. votes[n] = <<>>
    BY DEF CountInv, Collected
  <2> QED  BY <2>1, ElectionAssumption
<1> QED  BY <1>1, <1>2, CountInit, AlwaysInv, PTL DEF Spec

-----------------------------------------------------------------------------
(* What a node takes into the BLOCK phase *)

Agrees(w, sig) == w \in {sig, Nil}

\* In the single loop, a candidate has the signature it stands for, where it is
\* read: in a cache, in a vote, and in a vote that is half read.
Consistent(n) ==
    /\ pc[n] # "idle" => n = Order[turn]
    /\ pc[n] # "adopt" => Agrees(candidate[n], cache[n].sig)
    /\ state[n] = "MINING" => candidate[n] = Nil
    /\ \A i \in DOMAIN votes[n] : Agrees(votes[n][i].vote, votes[n][i].sig)
    /\ reply[n] # NoReply => reply[n].vote = candidate[reply[n].peer]

ConsistentInv == \A n \in Nodes : Consistent(n)

\* At the start there are no candidates.
LEMMA ConsistentInit == Init => ConsistentInv
BY DEF Init, ConsistentInv, Consistent, Agrees

\* Every step of the single loop keeps candidates with their signatures.
LEMMA ConsistentStep ==
    ASSUME OneThread, Inv, ConsistentInv, [Next]_vars
    PROVE  ConsistentInv'
<1>1. CASE UNCHANGED vars
  BY <1>1 DEF ConsistentInv, Consistent, vars, step, lead, pings, given, up
<1>2. ASSUME NEW n \in Nodes, StepOf(n)
      PROVE  ConsistentInv'
  <2>0. n = Order[turn] /\ (\A m \in Nodes \ {n} : pc[m] = "idle" /\ reply[m] = NoReply) /\ Consistent(n)
    <3>1. MyTurn(n)
      BY <1>2 DEF StepOf, Begin, VotesIn, GetVote, VoteLost, AskVote, RunMining, MineWith, Tally,
                  Adopt, Close, RunBlock
    <3> QED  BY <3>1 DEF MyTurn, ConsistentInv, Consistent, Inv, InHand
  <2> DEFINE Kept == \A m \in Nodes \ {n} :
                        /\ pc'[m] = pc[m] /\ votes'[m] = votes[m] /\ reply'[m] = reply[m]
                        /\ state'[m] = state[m] /\ candidate'[m] = candidate[m] /\ cache'[m] = cache[m]
  <2>1. ASSUME Kept, Consistent(n)' PROVE ConsistentInv'
    <3>1. ASSUME NEW m \in Nodes, m # n PROVE Consistent(m)'
      BY <2>0, <2>1, <3>1 DEF ConsistentInv, Consistent
    <3> QED  BY <2>1, <3>1 DEF ConsistentInv
  <2> HIDE DEF Kept
  <2>2. CASE Begin(n)
    <3>1. /\ Kept /\ turn' = turn /\ pc'[n] # "adopt" /\ pc[n] = "idle"
          /\ UNCHANGED <<candidate, cache, votes, state, reply>>
      BY <2>2 DEF Kept, Begin, Goto, Inv, Typed, lead
    <3>2. Consistent(n)'
      BY <2>0, <3>1 DEF Consistent
    <3> QED  BY <2>1, <3>1, <3>2
  <2>3. ASSUME NEW p \in Nodes, AskVote(n, p) PROVE ConsistentInv'
    <3>1. /\ Kept /\ UNCHANGED <<turn, pc, candidate, cache, votes, state>>
          /\ reply'[n] = [peer |-> p, vote |-> candidate[p]]
      BY <2>3 DEF Kept, AskVote, Inv, Typed, step, lead
    <3>2. Consistent(n)'
      BY <2>0, <3>1 DEF Consistent
    <3> QED  BY <2>1, <3>1, <3>2
  <2>4. CASE GetVote(n)
    <3> DEFINE p == reply[n].peer
               v == [vote |-> reply[n].vote, sig |-> cache[p].sig]
    <3>1. /\ Kept /\ UNCHANGED <<turn, pc, candidate, cache, state>> /\ reply'[n] = NoReply
          /\ votes'[n] = votes[n] \/ votes'[n] = Append(votes[n], v)
      BY <2>4 DEF Kept, GetVote, Inv, Typed, step
    <3>2. p \in Nodes /\ pc[p] # "adopt" /\ reply[n].vote = candidate[p]
      <4>1. p \in Nodes /\ reply[n] # NoReply /\ pc[n] = "ask"
        BY <2>4 DEF GetVote, Inv, InHand, Typed
      <4>2. p # n => pc[p] = "idle"
        BY <2>0, <4>1
      <4> QED  BY <2>0, <4>1, <4>2 DEF Consistent
    <3>3. Agrees(v.vote, v.sig)
      BY <3>2 DEF ConsistentInv, Consistent
    <3> HIDE DEF v, p
    <3>4. \A i \in DOMAIN votes'[n] : Agrees(votes'[n][i].vote, votes'[n][i].sig)
      <4>1. votes[n] \in Seq(Vote)
        BY DEF Inv, Typed
      <4>2. \A i \in DOMAIN votes[n] : Agrees(votes[n][i].vote, votes[n][i].sig)
        BY <2>0 DEF Consistent
      <4>3. \A i \in DOMAIN Append(votes[n], v) : Append(votes[n], v)[i] \in {votes[n][i], v}
                                                  /\ (i \in DOMAIN votes[n] \/ Append(votes[n], v)[i] = v)
        BY <4>1
      <4>4. \A i \in DOMAIN Append(votes[n], v) : i \in DOMAIN votes[n] => Append(votes[n], v)[i] = votes[n][i]
        BY <4>1
      <4> QED  BY <3>1, <3>3, <4>2, <4>3, <4>4
    <3>5. Consistent(n)'
      BY <2>0, <3>1, <3>4 DEF Consistent
    <3> QED  BY <2>1, <3>1, <3>5
  <2>5. CASE VotesIn(n) \/ VoteLost(n)
    <3>1. /\ Kept /\ turn' = turn /\ pc'[n] # "adopt" /\ pc[n] # "adopt"
          /\ UNCHANGED <<candidate, cache, votes, state, reply>>
      BY <2>5 DEF Kept, VotesIn, VoteLost, Goto, Inv, Typed, lead
    <3>2. Consistent(n)'
      BY <2>0, <3>1 DEF Consistent
    <3> QED  BY <2>1, <3>1, <3>2
  <2>6. CASE RunMining(n)
    <3>1. PICK found \in Found(n) : MineWith(n, found)
      BY <2>6 DEF RunMining
    <3>2. /\ Kept /\ pc'[n] = "idle" /\ UNCHANGED <<votes, reply>> /\ state[n] = "MINING"
          /\ \/ candidate' = candidate
             \/ candidate'[n] = cache'[n].sig /\ state'[n] = "LEADER"
      BY <3>1 DEF Kept, MineWith, Done, Inv, Typed
    <3>3. Consistent(n)'
      <4>1. reply[n] = NoReply
        BY <3>1 DEF MineWith, Inv, InHand
      <4> QED  BY <2>0, <3>2, <4>1 DEF Consistent, Agrees
    <3> QED  BY <2>1, <3>2, <3>3
  <2>7. CASE Tally(n)
    <3>1. /\ Kept /\ pc[n] = "run" /\ UNCHANGED <<turn, cache, state, reply>> /\ state[n] = "LEADER"
          /\ votes'[n] = votes[n] \/ votes'[n] = <<>>
          /\ pc'[n] = "adopt" \/ candidate' = candidate
      BY <2>7 DEF Kept, Tally, Goto, Inv, Typed, pings
    <3>2. reply[n] = NoReply
      BY <3>1 DEF Inv, InHand
    <3>3. Consistent(n)'
      BY <2>0, <3>1, <3>2 DEF Consistent
    <3> QED  BY <2>1, <3>1, <3>3
  <2>8. CASE Adopt(n)
    <3>1. /\ Kept /\ pc[n] = "adopt" /\ UNCHANGED <<turn, candidate, state, reply>>
          /\ votes'[n] = <<>> /\ cache'[n].sig = votes[n][FirstVote(n, candidate[n])].sig
      BY <2>8 DEF Kept, Adopt, Adopted, Goto, Inv, Typed, pings
    <3>2. /\ FirstVote(n, candidate[n]) \in DOMAIN votes[n]
          /\ votes[n][FirstVote(n, candidate[n])].vote = candidate[n]
      <4>1. VotesTyped(n) /\ candidate[n] \in Named(n)
        BY <3>1 DEF Inv, Typed, InHand, VotesTyped
      <4> QED  BY <4>1, FirstVoteFor
    <3>3. Agrees(candidate[n], cache'[n].sig)
      BY <2>0, <3>1, <3>2 DEF Consistent
    <3>4. reply[n] = NoReply
      BY <3>1 DEF Inv, InHand
    <3>5. Consistent(n)'
      BY <2>0, <3>1, <3>3, <3>4 DEF Consistent
    <3> QED  BY <2>1, <3>1, <3>5
  <2>9. CASE Close(n)
    <3>1. /\ Kept /\ pc[n] = "close" /\ UNCHANGED <<candidate, cache, votes, reply>> /\ pc'[n] = "idle"
          /\ state'[n] \in {"LEADER", "BLOCK"}
      BY <2>9 DEF Kept, Close, Done, Inv, Voting, MyTurn, Typed
    <3>2. reply[n] = NoReply
      BY <3>1 DEF Inv, InHand
    <3>3. Consistent(n)'
      BY <2>0, <3>1, <3>2 DEF Consistent
    <3> QED  BY <2>1, <3>1, <3>3
  <2>10. CASE RunBlock(n)
    <3>1. /\ Kept /\ pc[n] = "run" /\ UNCHANGED <<votes, reply>> /\ pc'[n] = "idle"
          /\ candidate'[n] = Nil
      BY <2>10 DEF Kept, RunBlock, Done, Inv, Typed
    <3>2. reply[n] = NoReply
      BY <3>1 DEF Inv, InHand
    <3>3. Consistent(n)'
      BY <2>0, <3>1, <3>2 DEF Consistent, Agrees
    <3> QED  BY <2>1, <3>1, <3>3
  <2> QED  BY <1>2, <2>2, <2>3, <2>4, <2>5, <2>6, <2>7, <2>8, <2>9, <2>10 DEF StepOf
<1> QED  BY <1>1, <1>2 DEF Next

\* In the single loop, whatever is voted and whatever is lost: a node that ends
\* the vote takes a candidate with its own signature, or none.
THEOREM OutcomeAlwaysConsistent == OneThread => (Spec => OutcomeConsistent)
<1> SUFFICES ASSUME OneThread PROVE Spec => OutcomeConsistent
  OBVIOUS
<1>1. Inv /\ Inv' /\ ConsistentInv /\ [Next]_vars => ConsistentInv'
  BY ConsistentStep
<1>2. Inv /\ ConsistentInv /\ [Next]_vars =>
         [\A n \in Nodes : state[n] = "LEADER" /\ state'[n] = "BLOCK"
                              => candidate[n] \in {cache[n].sig, Nil}]_vars
  <2> SUFFICES ASSUME Inv, ConsistentInv, [Next]_vars, NEW n \in Nodes,
                      state[n] = "LEADER", state'[n] = "BLOCK"
               PROVE  candidate[n] \in {cache[n].sig, Nil}
    OBVIOUS
  <2>1. PICK m \in Nodes : StepOf(m)
    BY DEF Next, vars, lead
  <2>2. Close(m) /\ m = n
    BY <2>1 DEF StepOf, Begin, VotesIn, GetVote, VoteLost, AskVote, RunMining, MineWith, Tally,
                Adopt, Close, RunBlock, lead, Inv, Typed
  <2> QED  BY <2>2 DEF Close, ConsistentInv, Consistent, Agrees
<1> QED  BY <1>1, <1>2, ConsistentInit, AlwaysInv, PTL DEF Spec, OutcomeConsistent

-----------------------------------------------------------------------------
(* One leader in every round: the assumptions *)

\* The single loop of robots that all find the same transactions, that have
\* num_neighbours peers each, and that have the time to vote in every round.
SteadyLoop == OneThread /\ SameScan /\ AllAnswer /\ VoteInterval < BlockPeriod

\* Byzantine robots are fewer than half of the votes that are counted.
FewByzantine == 2 * Cardinality(byzantine) < NumNeighbours

-----------------------------------------------------------------------------
(* One leader in every round: the invariant *)

\* 1 for the nodes whose step of this pass has begun.
Ahead(i) == IF i < turn \/ (i = turn /\ pc[Order[i]] # "idle") THEN 1 ELSE 0

\* The nodes take their steps in turn.
Lockstep == /\ \A n \in Nodes : pc[n] # "idle" => n = Order[turn]
            /\ \A i, j \in DOMAIN Order :
                  time[Order[i]] - Ahead(i) = time[Order[j]] - Ahead(j)

\* What the scans of a round find, for a node with these recent leaders.
LowSig(n) == CHOOSE s \in completed[Round(n)] :
                \A t \in completed[Round(n)] : SigValue(n, s) <= SigValue(n, t)
Best(n) == IF completed[Round(n)] # {} /\ SigValue(n, LowSig(n)) < Inf
           THEN [val |-> SigValue(n, LowSig(n)), sig |-> LowSig(n).id]
           ELSE [val |-> Inf, sig |-> Nil]
Chosen(n) == Best(n).sig

\* A scan of this round has been made.
Scanned(n) == \E k \in 1..(Cycled(n) - (IF pc[n] = "idle" THEN 0 ELSE 1)) : k \in ScanTicks

\* What the first scan of a round leaves in the cache, and what is there in the
\* MINING phase.
AfterScan(n) == IF n \notin byzantine THEN Best(n)
                ELSE IF completed[Round(n)] = {} THEN NoSignature(n)
                ELSE [val |-> 0, sig |-> Forged]
Mined(n) == state[n] = "MINING" =>
                cache[n] = IF Scanned(n) THEN AfterScan(n) ELSE NoSignature(n)

\* A candidate of the round. Only a Byzantine node may have another one than
\* the chosen one, and only if it counts votes before the phase ends.
Led(n) ==
    state[n] = "LEADER" =>
        /\ candidate[n] = Chosen(n) \/ (n \in byzantine /\ candidate[n] = Forged)
        /\ pc[n] # "adopt" => cache[n].sig = candidate[n]
        /\ pc[n] = "adopt" => candidate[n] = Chosen(n)
        /\ \/ candidate[n] = Chosen(n)
           \/ pc[n] = "ask" \/ (pc[n] = "run" /\ votes[n] # <<>>)
           \/ pc[n] \in {"idle", "run", "close"} /\ Cycled(n) + sleep[n] <= 2 * BlockPeriod

\* What is left of the vote in the BLOCK phase.
Left(n) ==
    state[n] = "BLOCK" /\ pc[n] = "idle" /\ cache[n].sig # Nil =>
        /\ candidate[n] = cache[n].sig
        /\ winners[n] # <<>> /\ cache[n].sig = winners[n][Len(winners[n])]

\* The votes in hand: others than the chosen one are from Byzantine peers.
Others(n) == {i \in DOMAIN votes[n] : votes[n][i].vote # Chosen(n)}
Polled(n) ==
    /\ asking[n] \subseteq Peers[n]
    /\ votes[n] # <<>> => state[n] = "LEADER"
    /\ \A i \in DOMAIN votes[n] : votes[n][i].vote = votes[n][i].sig
    /\ Cardinality(Others(n)) <= Cardinality((Peers[n] \ asking[n]) \cap byzantine)

Steady(n) == Mined(n) /\ Led(n) /\ Left(n) /\ Polled(n)

AllAlive == \A n \in Nodes : alive[n]

\* The leaders recorded by two nodes.
Recorded(n, m) ==
    /\ Len(winners[n]) <= Len(winners[m]) + 1
    /\ Len(winners[n]) = Len(winners[m]) => winners[n] = winners[m] /\ recent[n] = recent[m]
    /\ Len(winners[n]) = Len(winners[m]) + 1 =>
          /\ winners[n] = Append(winners[m], Chosen(m))
          /\ recent[n] = WithLeader(recent[m], Chosen(m))

Relayed(n) == \A r \in DOMAIN winners[n] : \E sig \in completed[r] : sig.id = winners[n][r]

RoundInv ==
    /\ Lockstep
    /\ \A n, m \in Nodes : Recorded(n, m)
    /\ \A n \in Nodes : Relayed(n)
    /\ AllAlive => \A n \in Nodes : Steady(n)

-----------------------------------------------------------------------------
(* The single loop *)

\* A node has one place in the loop.
LEMMA OnePlace ==
    ASSUME NEW i \in DOMAIN Order, NEW j \in DOMAIN Order, Order[i] = Order[j]
    PROVE  i = j
<1>1. /\ Cardinality(Nodes) \in Nat /\ DOMAIN Order = 1..Cardinality(Nodes)
      /\ Order \in [1..Cardinality(Nodes) -> Nodes]
  BY ElectionAssumption, FS_CardinalityType
<1>2. IsFiniteSet(1..Cardinality(Nodes)) /\ Cardinality(1..Cardinality(Nodes)) = Cardinality(Nodes)
  <2>1. \A k \in Nat : IsFiniteSet(1..k) /\ Cardinality(1..k) = k
    BY FS_Interval
  <2> QED  BY <1>1, <2>1
<1>3. Order \in Surjection(1..Cardinality(Nodes), Nodes)
  BY <1>1, ElectionAssumption DEF Surjection
<1>4. Order \in Injection(1..Cardinality(Nodes), Nodes)
  BY <1>2, <1>3, FS_SurjSameCardinalityImpliesInj, ElectionAssumption
<1> QED  BY <1>1, <1>4 DEF Injection, IsInjective

\* Every node has a place in it.
LEMMA SomePlace ==
    ASSUME NEW m \in Nodes
    PROVE  \E i \in DOMAIN Order : Order[i] = m
BY ElectionAssumption

\* In the middle of a node's step, the timers of the others are at the same
\* tick or at the one before.
LEMMA Neighbours ==
    ASSUME Inv, Lockstep, NEW n \in Nodes, n = Order[turn], pc[n] # "idle",
           NEW m \in Nodes, m # n
    PROVE  pc[m] = "idle" /\ (time[m] = time[n] \/ time[m] = time[n] - 1)
<1>1. PICK j \in DOMAIN Order : Order[j] = m
  BY SomePlace
<1>2. turn \in DOMAIN Order /\ time[m] \in Nat /\ time[n] \in Nat
  BY Periods DEF Inv, Typed
<1>3. Ahead(turn) = 1 /\ Ahead(j) \in {0, 1}
  BY DEF Ahead
<1>4. time[n] - Ahead(turn) = time[m] - Ahead(j)
  BY <1>1, <1>2 DEF Lockstep
<1>5. pc[m] = "idle"
  BY DEF Lockstep
<1> QED  BY <1>2, <1>3, <1>4, <1>5

\* A step of the loop.
LEMMA LockBegin ==
    ASSUME Inv, Lockstep, NEW n \in Nodes, n = Order[turn], turn' = turn,
           pc[n] = "idle", time' = [time EXCEPT ![n] = @ + 1],
           NEW label, label # "idle", pc' = [pc EXCEPT ![n] = label]
    PROVE  Lockstep'
<1>1. /\ turn \in DOMAIN Order /\ Order \in Seq(Nodes) /\ DOMAIN Order \subseteq Nat
      /\ pc'[n] # "idle" /\ \A m \in Nodes \ {n} : pc'[m] = pc[m] /\ time'[m] = time[m]
      /\ time'[n] = time[n] + 1 /\ \A m \in Nodes : time[m] \in Nat
  <2>1. /\ pc \in [Nodes -> {"idle", "ask", "run", "adopt", "close"}] /\ turn \in 1..Len(Order)
        /\ time \in [Nodes -> 0..MaxTime]
    BY DEF Inv, Typed
  <2>2. \A m \in Nodes : time[m] \in Nat
    BY <2>1, Periods
  <2> QED  BY <2>1, <2>2, Periods
<1>2. ASSUME NEW i \in DOMAIN Order
      PROVE  time'[Order[i]] - Ahead(i)' = time[Order[i]] - Ahead(i)
  <2>1. CASE i = turn
    BY <1>1, <2>1 DEF Ahead
  <2>2. CASE i # turn
    <3>1. Order[i] # n /\ Order[i] \in Nodes
      BY <1>1, <2>2, OnePlace
    <3> QED  BY <1>1, <2>2, <3>1 DEF Ahead
  <2> QED  BY <2>1, <2>2
<1> QED  BY <1>1, <1>2 DEF Lockstep

\* The node that is at its step goes on with it.
LEMMA LockWithin ==
    ASSUME Inv, Lockstep, NEW n \in Nodes, n = Order[turn], turn' = turn, time' = time,
           pc' = pc \/ (pc[n] # "idle" /\ \E label : label # "idle" /\ pc' = [pc EXCEPT ![n] = label])
    PROVE  Lockstep'
<1>1. /\ turn \in DOMAIN Order /\ Order \in Seq(Nodes) /\ DOMAIN Order \subseteq Nat
      /\ pc'[n] = "idle" <=> pc[n] = "idle"
      /\ \A m \in Nodes \ {n} : pc'[m] = pc[m]
  <2>1. pc \in [Nodes -> {"idle", "ask", "run", "adopt", "close"}] /\ turn \in 1..Len(Order)
    BY DEF Inv, Typed
  <2> QED  BY <2>1, Periods
<1>2. ASSUME NEW i \in DOMAIN Order PROVE Ahead(i)' = Ahead(i)
  BY <1>1 DEF Ahead
<1> QED  BY <1>1, <1>2 DEF Lockstep

\* The index after t in a sequence of length l that is gone through in a circle.
LEMMA NextIndex ==
    ASSUME NEW l \in Nat, NEW t \in Nat, 1 <= t, t <= l
    PROVE  \/ t < l /\ (t % l) + 1 = t + 1
           \/ t = l /\ (t % l) + 1 = 1
<1>1. l > 0
  OBVIOUS
<1>2. \A x \in Int : x = l * (x \div l) + (x % l) /\ x % l \in 0..(l - 1) /\ x \div l \in Int
  BY <1>1
<1>3. t \div l \in Nat
  BY <1>1, NextTick
<1>4. ASSUME t \div l >= 2 PROVE FALSE
  <2>1. \A a, b \in Nat : b >= 2 => a * b >= a * 2
    OBVIOUS
  <2>2. l * (t \div l) >= l * 2
    BY <1>3, <1>4, <2>1
  <2> QED  BY <1>1, <1>2, <2>2
<1>5. CASE t < l
  <2>1. ASSUME t \div l = 1 PROVE FALSE
    <3>1. l * (t \div l) = l
      BY <2>1
    <3> QED  BY <1>2, <1>5, <3>1
  <2>2. t \div l = 0
    BY <1>3, <1>4, <2>1
  <2>3. l * (t \div l) = 0
    BY <2>2
  <2> QED  BY <1>2, <1>5, <2>3
<1>6. CASE t = l
  <2>1. ASSUME t \div l = 0 PROVE FALSE
    <3>1. l * (t \div l) = 0
      BY <2>1
    <3> QED  BY <1>2, <1>6, <3>1
  <2>2. t \div l = 1
    BY <1>3, <1>4, <2>1
  <2>3. l * (t \div l) = l
    BY <2>2
  <2> QED  BY <1>2, <1>6, <2>3
<1> QED  BY <1>5, <1>6

\* The node is done, and it is the turn of the next one.
LEMMA LockDone ==
    ASSUME OneThread, Inv, Lockstep, NEW n \in Nodes, n = Order[turn], pc[n] # "idle",
           Done(n), time' = time
    PROVE  Lockstep'
<1>1. /\ turn \in 1..Len(Order) /\ Order \in Seq(Nodes) /\ DOMAIN Order = 1..Len(Order)
      /\ Len(Order) \in Nat /\ Len(Order) > 0
      /\ \A m \in Nodes : pc'[m] = "idle"
      /\ turn' = (turn % Len(Order)) + 1
      /\ \A m \in Nodes : time[m] \in Nat
  <2>1. /\ pc \in [Nodes -> {"idle", "ask", "run", "adopt", "close"}] /\ turn \in 1..Len(Order)
        /\ time \in [Nodes -> 0..MaxTime]
    BY DEF Inv, Typed
  <2>2. \A m \in Nodes : time[m] \in Nat
    BY <2>1, Periods
  <2>3. pc' = [pc EXCEPT ![n] = "idle"] /\ turn' = (turn % Len(Order)) + 1
    BY DEF Done
  <2>4. \A m \in Nodes : pc'[m] = "idle"
    BY <2>1, <2>3 DEF Lockstep
  <2> QED  BY <2>1, <2>2, <2>3, <2>4, Periods
<1>2. \/ turn < Len(Order) /\ turn' = turn + 1
      \/ turn = Len(Order) /\ turn' = 1
  <2>1. turn \in Nat /\ 1 <= turn /\ turn <= Len(Order)
    BY <1>1
  <2> QED  BY <1>1, <2>1, NextIndex
<1>3. \A i \in DOMAIN Order : Order[i] \in Nodes
  BY <1>1
<1>4. CASE turn < Len(Order) /\ turn' = turn + 1
  <2>1. ASSUME NEW i \in DOMAIN Order PROVE Ahead(i)' = Ahead(i)
    BY <1>1, <1>3, <1>4 DEF Ahead
  <2> QED  BY <1>1, <1>3, <2>1 DEF Lockstep
<1>5. CASE turn = Len(Order) /\ turn' = 1
  <2>1. ASSUME NEW i \in DOMAIN Order PROVE Ahead(i)' = Ahead(i) - 1
    BY <1>1, <1>3, <1>5 DEF Ahead
  <2>2. ASSUME NEW i \in DOMAIN Order, NEW j \in DOMAIN Order
        PROVE  time[Order[i]] - Ahead(i)' = time[Order[j]] - Ahead(j)'
    <3>1. time[Order[i]] - Ahead(i) = time[Order[j]] - Ahead(j)
      BY DEF Lockstep
    <3>2. Ahead(i) \in {0, 1} /\ Ahead(j) \in {0, 1} /\ time[Order[i]] \in Nat /\ time[Order[j]] \in Nat
      BY <1>1, <1>3 DEF Ahead
    <3> QED  BY <2>1, <3>1, <3>2
  <2>3. \A m \in Nodes : pc'[m] # "idle" => m = Order[turn']
    BY <1>1
  <2> HIDE DEF Ahead
  <2> QED  BY <2>2, <2>3 DEF Lockstep
<1> QED  BY <1>2, <1>4, <1>5

\* Every step keeps the nodes in step.
LEMMA LockNext ==
    ASSUME OneThread, Inv, Lockstep, NEW n \in Nodes, n = Order[turn], StepOf(n)
    PROVE  Lockstep'
<1>1. CASE Begin(n)
  BY <1>1, LockBegin DEF Begin, Goto
<1>2. CASE VotesIn(n) \/ VoteLost(n)
  BY <1>2, LockWithin DEF VotesIn, VoteLost, Goto
<1>3. CASE GetVote(n) \/ \E p \in Nodes : AskVote(n, p)
  BY <1>3, LockWithin DEF GetVote, AskVote, step
<1>4. CASE Tally(n) \/ Adopt(n)
  <2>1. /\ turn' = turn /\ time' = time /\ pc[n] # "idle"
        /\ pc' = [pc EXCEPT ![n] = "adopt"] \/ pc' = [pc EXCEPT ![n] = "close"]
    BY <1>4 DEF Tally, Adopt, Goto
  <2> QED  BY <2>1, LockWithin
<1>5. CASE RunMining(n) \/ Close(n) \/ RunBlock(n)
  <2>1. Done(n) /\ time' = time /\ pc[n] # "idle"
    BY <1>5 DEF RunMining, MineWith, Close, RunBlock
  <2> QED  BY <2>1, LockDone
<1> QED  BY <1>1, <1>2, <1>3, <1>4, <1>5 DEF StepOf

-----------------------------------------------------------------------------
(* The chosen leader *)

\* Transactions are given for the round that a node is in.
LEMMA InRange ==
    ASSUME Inv, NEW n \in Nodes, Cycled(n) > 0, Len(winners[n]) = time[n] \div Cycle
    PROVE  Round(n) \in 1..MaxRound /\ completed[Round(n)] \in SUBSET Found0
<1>1. time[n] \in Nat /\ time[n] <= MaxTime /\ time[n] \div Cycle \in Nat
  <2>1. time[n] \in Nat /\ time[n] <= MaxTime
    BY Periods DEF Inv, Typed
  <2> QED  BY <2>1, Periods, NextTick
<1>2. time[n] \div Cycle < MaxTime \div Cycle
  BY <1>1, Periods, CycleBelow DEF Cycled
<1>3. Round(n) \in 1..MaxRound
  BY <1>1, <1>2, Periods DEF Round, MaxRound
<1>4. Sigs \subseteq Found0
  <2>1. 0..(Inf - 1) \subseteq Nat
    BY ElectionAssumption
  <2>2. \A sig \in [id : Nodes, value : 0..(Inf - 1)] : sig \in Found0
    BY <2>1 DEF Found0
  <2> QED  BY <2>2, ElectionAssumption
<1>5. completed[Round(n)] \subseteq Sigs
  BY <1>3 DEF Inv, Typed
<1> QED  BY <1>3, <1>4, <1>5

\* One of the signatures found has the lowest value.
LEMMA LowSigFound ==
    ASSUME NEW n, recent[n] \in Seq(Ids \cup {Nil}),
           completed[Round(n)] \in SUBSET Found0, completed[Round(n)] # {}
    PROVE  /\ LowSig(n) \in completed[Round(n)] /\ SigValue(n, LowSig(n)) \in Nat
           /\ LowSig(n).id \in Nodes
<1> DEFINE values == {SigValue(n, s) : s \in completed[Round(n)]}
<1>1. \A s \in completed[Round(n)] : SigValue(n, s) \in Nat
  BY SigValueNat
<1>2. \E x \in values : \A y \in values : x <= y
  <2>1. values \in SUBSET Nat /\ values # {}
    BY <1>1
  <2> QED  BY <2>1, Least
<1>3. \E s \in completed[Round(n)] : \A t \in completed[Round(n)] : SigValue(n, s) <= SigValue(n, t)
  BY <1>2
<1>4. LowSig(n) \in completed[Round(n)]
  BY <1>3 DEF LowSig
<1> QED  BY <1>1, <1>4 DEF Found0

\* Two nodes with the same recent leaders choose the same one of a round.
LEMMA SameChoice ==
    ASSUME NEW n, NEW m, winners[n] = winners[m], recent[n] = recent[m]
    PROVE  Chosen(n) = Chosen(m)
<1>1. Round(n) = Round(m) /\ \A s : SigValue(n, s) = SigValue(m, s)
  BY DEF Round, SigValue
<1>2. LowSig(n) = LowSig(m)
  BY <1>1 DEF LowSig
<1> QED  BY <1>1, <1>2 DEF Chosen, Best

\* What a step leaves alone at a node.
SameRound(m) ==
    /\ time'[m] = time[m] /\ pc'[m] = pc[m] /\ state'[m] = state[m]
    /\ candidate'[m] = candidate[m] /\ cache'[m] = cache[m] /\ votes'[m] = votes[m]
    /\ recent'[m] = recent[m] /\ winners'[m] = winners[m]
    /\ sleep'[m] = sleep[m] /\ asking'[m] = asking[m]

\* A round is the same as long as no leader is recorded.
LEMMA ChoiceKept ==
    ASSUME NEW m, winners'[m] = winners[m], recent'[m] = recent[m], UNCHANGED given
    PROVE  /\ Round(m)' = Round(m) /\ \A s : SigValue(m, s)' = SigValue(m, s)
           /\ LowSig(m)' = LowSig(m) /\ Best(m)' = Best(m) /\ Chosen(m)' = Chosen(m)
<1>1. Round(m)' = Round(m) /\ completed' = completed /\ \A s : SigValue(m, s)' = SigValue(m, s)
  BY DEF Round, SigValue, given
<1>2. LowSig(m)' = LowSig(m)
  BY <1>1 DEF LowSig
<1>3. Best(m)' = Best(m)
  BY <1>1, <1>2 DEF Best
<1> QED  BY <1>1, <1>2, <1>3 DEF Chosen

\* What holds of a node's round goes on holding while a step leaves it alone.
LEMMA SteadyKept ==
    ASSUME NEW m, SameRound(m), UNCHANGED given, Steady(m)
    PROVE  Steady(m)'
<1>1. Round(m)' = Round(m) /\ Best(m)' = Best(m) /\ Chosen(m)' = Chosen(m)
  BY ChoiceKept DEF SameRound
<1>2. Mined(m)'
  <2>1. Cycled(m)' = Cycled(m) /\ completed' = completed /\ byzantine' = byzantine
    BY DEF Cycled, SameRound, given
  <2>2. Scanned(m)' <=> Scanned(m)
    BY <2>1 DEF Scanned, SameRound
  <2>3. NoSignature(m)' = NoSignature(m)
    BY <2>1 DEF NoSignature
  <2>4. AfterScan(m)' = AfterScan(m)
    BY <1>1, <2>1, <2>3 DEF AfterScan
  <2> QED  BY <2>2, <2>3, <2>4 DEF Steady, Mined, SameRound
<1>3. Led(m)'
  BY <1>1 DEF Steady, Led, SameRound, given, Cycled
<1>4. Left(m)'
  BY DEF Steady, Left, SameRound
<1>5. Polled(m)'
  <2>1. Others(m)' = Others(m)
    BY <1>1 DEF Others, SameRound
  <2> QED  BY <2>1 DEF Steady, Polled, SameRound, given
<1> QED  BY <1>2, <1>3, <1>4, <1>5 DEF Steady

-----------------------------------------------------------------------------
(* The MINING phase *)

\* A second scan of the same signatures changes nothing.
LEMMA ScanOnce ==
    ASSUME Inv, NEW n \in Nodes, completed[Round(n)] \in SUBSET Found0,
           cache[n] \in {NoSignature(n), AfterScan(n)}
    PROVE  Lowest(n, completed[Round(n)]) = AfterScan(n) /\ Lowest(n, {}) = cache[n]
<1> DEFINE found == completed[Round(n)]
           low == CHOOSE s \in found : \A t \in found : SigValue(n, s) <= SigValue(n, t)
<1>1. Lowest(n, {}) = cache[n]
  BY DEF Lowest, Forgery
<1>2. CASE n \in byzantine
  <2>1. Forged # Nil
    BY <1>2, ElectionAssumption DEF Inv, Typed
  <2>2. found # {} => Forgery(n, found) = [val |-> 0, sig |-> Forged]
    BY <1>2, <2>1 DEF Forgery, AfterScan, NoSignature
  <2>3. found = {} => Forgery(n, found) = NoSignature(n)
    BY <1>2 DEF Forgery, AfterScan
  <2> QED  BY <1>1, <1>2, <2>2, <2>3 DEF Lowest, AfterScan
<1>3. CASE n \notin byzantine /\ found = {}
  BY <1>1, <1>3 DEF AfterScan, Best, NoSignature
<1>4. CASE n \notin byzantine /\ found # {}
  <2>1. low = LowSig(n)
    BY DEF LowSig
  <2>2. SigValue(n, LowSig(n)) \in Nat /\ Inf \in Nat
    BY <1>4, LowSigFound, ElectionAssumption DEF Inv, Typed
  <2>3. Lowest(n, found) = IF SigValue(n, low) < cache[n].val
                           THEN [val |-> SigValue(n, low), sig |-> low.id] ELSE cache[n]
    BY <1>4 DEF Lowest
  <2>4. NoSignature(n) = [val |-> Inf, sig |-> Nil] /\ AfterScan(n) = Best(n)
    BY <1>4 DEF NoSignature, AfterScan
  <2> HIDE DEF low
  <2>5. CASE SigValue(n, LowSig(n)) < Inf
    <3>1. Best(n) = [val |-> SigValue(n, LowSig(n)), sig |-> LowSig(n).id]
      BY <1>4, <2>5 DEF Best
    <3> QED  BY <1>1, <2>1, <2>2, <2>3, <2>4, <2>5, <3>1
  <2>6. CASE ~(SigValue(n, LowSig(n)) < Inf)
    <3>1. Best(n) = [val |-> Inf, sig |-> Nil]
      BY <2>6 DEF Best
    <3> QED  BY <1>1, <2>1, <2>2, <2>3, <2>4, <2>6, <3>1
  <2> QED  BY <2>5, <2>6
<1> QED  BY <1>2, <1>3, <1>4

\* In the midst of n's step, the loop is sound.
AtStep(n) ==
    /\ SteadyLoop /\ FewByzantine /\ Inv /\ CountInv /\ ConsistentInv /\ RoundInv
    /\ AllAlive /\ n \in Nodes /\ n = Order[turn]

\* A phase without a candidate, without votes.
LEMMA NoVotes ==
    ASSUME NEW n, votes[n] = <<>>, asking[n] = {}, Peers[n] \in SUBSET Nodes, byzantine \subseteq Nodes
    PROVE  Polled(n)
<1>1. Others(n) = {} /\ DOMAIN votes[n] = {}
  BY DEF Others
<1>2. IsFiniteSet((Peers[n] \ asking[n]) \cap byzantine)
  <2>1. (Peers[n] \ asking[n]) \cap byzantine \subseteq Nodes /\ IsFiniteSet(Nodes)
    BY ElectionAssumption
  <2> QED  BY <2>1, FS_Subset
<1>3. Cardinality(Others(n)) <= Cardinality((Peers[n] \ asking[n]) \cap byzantine)
  BY <1>1, <1>2, FS_EmptySet, FS_CardinalityType
<1> QED  BY <1>1, <1>3 DEF Polled

\* The candidate at the start of the LEADER phase is the chosen leader, or the
\* one a Byzantine node has forged.
LEMMA MineSteady ==
    ASSUME NEW n, AtStep(n), RunMining(n), alive'[n]
    PROVE  Steady(n)'
<1>1. PICK found \in Found(n) : MineWith(n, found)
  BY DEF RunMining
<1>2. /\ n \in Nodes /\ pc[n] = "run" /\ state[n] = "MINING" /\ alive[n] /\ alive'[n]
      /\ cache'[n] = Lowest(n, found)
      /\ \/ ~After(n, 1) /\ UNCHANGED <<state, candidate>>
         \/ /\ After(n, 1) /\ state'[n] = "LEADER"
            /\ cache'[n].sig # Nil /\ candidate'[n] = cache'[n].sig
      /\ pc'[n] = "idle"
      /\ UNCHANGED <<time, votes, recent, winners, sleep, asking, reply, given>>
  BY <1>1 DEF AtStep, AllAlive, MineWith, Done, Inv, Typed
<1>3. /\ 1 <= Cycled(n) /\ Cycled(n) <= BlockPeriod + 1 /\ Cycled(n) \in Nat /\ BlockPeriod \in Nat
      /\ Len(winners[n]) = time[n] \div Cycle
  BY <1>2, Due, Periods DEF AtStep
<1>4. completed[Round(n)] \in SUBSET Found0
  BY <1>2, <1>3, InRange DEF AtStep
<1>5. /\ Round(n)' = Round(n) /\ Best(n)' = Best(n) /\ Chosen(n)' = Chosen(n) /\ Cycled(n)' = Cycled(n)
      /\ NoSignature(n)' = NoSignature(n) /\ AfterScan(n)' = AfterScan(n)
  BY <1>2, ChoiceKept DEF NoSignature, AfterScan, given, Cycled
<1>6. cache'[n] = IF Scanned(n)' THEN AfterScan(n) ELSE NoSignature(n)
  <2>1. cache[n] = IF Scanned(n) THEN AfterScan(n) ELSE NoSignature(n)
    BY <1>2 DEF AtStep, RoundInv, Steady, Mined
  <2>2. /\ Scanned(n) <=> \E k \in 1..(Cycled(n) - 1) : k \in ScanTicks
        /\ Scanned(n)' <=> \E k \in 1..Cycled(n) : k \in ScanTicks
    BY <1>2, <1>3, <1>5 DEF Scanned
  <2>3. CASE Cycled(n) \in ScanTicks
    <3>1. Scanned(n)' /\ found = completed[Round(n)]
      BY <1>3, <2>2, <2>3 DEF Found, AtStep, SteadyLoop
    <3> QED  BY <1>2, <1>4, <2>1, <3>1, ScanOnce DEF AtStep
  <2>4. CASE Cycled(n) \notin ScanTicks
    <3>1. (Scanned(n)' <=> Scanned(n)) /\ found = {}
      BY <1>3, <2>2, <2>4 DEF Found
    <3> QED  BY <1>2, <1>4, <2>1, <3>1, ScanOnce DEF AtStep
  <2> QED  BY <2>3, <2>4
<1>7. Mined(n)'
  BY <1>5, <1>6 DEF Mined
<1>8. Led(n)'
  <2> SUFFICES ASSUME state'[n] = "LEADER" PROVE Led(n)'
    BY DEF Led
  <2>1. After(n, 1) /\ cache'[n].sig # Nil /\ candidate'[n] = cache'[n].sig
    BY <1>2
  <2>2. candidate'[n] = Chosen(n) \/ (n \in byzantine /\ candidate'[n] = Forged)
    BY <1>6, <2>1 DEF AfterScan, NoSignature, Chosen
  <2>3. Cycled(n) + sleep[n] <= 2 * BlockPeriod
    <3>1. sleep[n] \in 0..VoteInterval /\ VoteInterval \in Nat /\ VoteInterval < BlockPeriod
      BY <1>2, ElectionAssumption DEF AtStep, SteadyLoop, Inv, Typed
    <3>2. Cycled(n) = BlockPeriod + 1
      BY <1>3, <2>1 DEF After
    <3> QED  BY <1>3, <3>1, <3>2
  <2> QED  BY <1>2, <1>5, <2>1, <2>2, <2>3 DEF Led, given
<1>9. Left(n)'
  BY <1>2 DEF Left
<1>10. Polled(n)'
  <2>1. votes[n] = <<>> /\ asking[n] = {}
    BY <1>2 DEF AtStep, CountInv, Collected, Inv, InHand
  <2>2. Peers[n] \in SUBSET Nodes /\ byzantine \subseteq Nodes
    BY <1>2, ElectionAssumption DEF AtStep, Inv, Typed
  <2>3. Others(n)' = {} /\ Others(n) = {}
    BY <1>2, <2>1 DEF Others
  <2>4. Polled(n)
    BY <2>1, <2>2, NoVotes
  <2> QED  BY <1>2, <2>1, <2>3, <2>4 DEF Polled, given
<1> QED  BY <1>7, <1>8, <1>9, <1>10 DEF Steady

-----------------------------------------------------------------------------
(* The LEADER phase *)

\* A node collects votes before its LEADER phase ends.
LEMMA BeginSteady ==
    ASSUME NEW n, AtStep(n), Begin(n)
    PROVE  Steady(n)'
<1>1. /\ n \in Nodes /\ pc[n] = "idle" /\ alive[n] /\ time[n] < MaxTime
      /\ time' = [time EXCEPT ![n] = @ + 1]
      /\ UNCHANGED <<state, candidate, cache, votes, recent, winners, given>>
      /\ \/ /\ "vote" \in on[n] /\ asking'[n] = Peers[n] /\ pc'[n] = "ask" /\ sleep' = sleep
         \/ /\ "vote" \in on[n] /\ sleep[n] > 0 /\ sleep'[n] = sleep[n] - 1
            /\ pc'[n] = "run" /\ asking' = asking
         \/ "vote" \notin on[n] /\ pc'[n] = "run" /\ sleep' = sleep /\ asking' = asking
  BY DEF AtStep, AllAlive, Begin, Goto, lead, Inv, Typed
<1>2. /\ Cycled(n) \in 0..(Cycle - 1) /\ BlockPeriod \in Nat /\ Cycle = 3 * BlockPeriod
      /\ state[n] = "MINING" => Cycled(n) <= BlockPeriod /\ Cycled(n)' = Cycled(n) + 1
      /\ state[n] = "LEADER" => Cycled(n) <= 2 * BlockPeriod /\ Cycled(n)' = Cycled(n) + 1
  <2>1. /\ Cycled(n) \in 0..(Cycle - 1)
        /\ Cycled(n) + 1 < Cycle => Cycled(n)' = Cycled(n) + 1
    <3>1. Inv /\ n \in Nodes /\ time[n] < MaxTime /\ time' = [time EXCEPT ![n] = @ + 1]
      BY <1>1 DEF AtStep
    <3>2. /\ Cycled(n) \in 0..(Cycle - 1)
          /\ \/ Cycled(n) + 1 < Cycle /\ Cycled(n)' = Cycled(n) + 1
             \/ Cycled(n) + 1 = Cycle
      BY <3>1, Ticks
    <3> QED  BY <3>2, Periods
  <2>2. OnTime(n) /\ BlockPeriod \in Nat /\ BlockPeriod >= 2 /\ Cycle = 3 * BlockPeriod
    BY <1>1, Periods DEF AtStep, Inv
  <2>3. /\ state[n] = "MINING" => Cycled(n) <= BlockPeriod
        /\ state[n] = "LEADER" => Cycled(n) <= 2 * BlockPeriod
    BY <1>1, <2>1, <2>2 DEF OnTime
  <2>4. Cycled(n) <= 2 * BlockPeriod => Cycled(n) + 1 < Cycle
    BY <2>1, <2>2
  <2> QED  BY <2>1, <2>2, <2>3, <2>4
<1>3. /\ Best(n)' = Best(n) /\ Chosen(n)' = Chosen(n)
      /\ NoSignature(n)' = NoSignature(n) /\ AfterScan(n)' = AfterScan(n)
  BY <1>1, ChoiceKept DEF NoSignature, AfterScan, given
<1>4. Steady(n) /\ votes[n] = <<>>
  BY <1>1 DEF AtStep, RoundInv, CountInv, Collected
<1>5. Mined(n)'
  <2>1. state[n] = "MINING" => (Scanned(n)' <=> Scanned(n))
    BY <1>1, <1>2 DEF Scanned
  <2> QED  BY <1>1, <1>3, <1>4, <2>1 DEF Steady, Mined
<1>6. Led(n)'
  <2> SUFFICES ASSUME state[n] = "LEADER" PROVE Led(n)'
    BY <1>1 DEF Led
  <2>1. /\ candidate[n] = Chosen(n) \/ (n \in byzantine /\ candidate[n] = Forged)
        /\ cache[n].sig = candidate[n]
        /\ candidate[n] = Chosen(n) \/ Cycled(n) + sleep[n] <= 2 * BlockPeriod
    BY <1>1, <1>4 DEF Steady, Led
  <2>2. "vote" \in on[n]
    BY <1>1 DEF AtStep, Inv, Voting
  <2>3. CASE pc'[n] = "ask"
    BY <1>1, <1>3, <2>1, <2>3 DEF Led, given
  <2>4. CASE pc'[n] = "run" /\ sleep'[n] = sleep[n] - 1
    <3>1. sleep[n] \in Nat
      <4>1. sleep[n] \in 0..VoteInterval /\ VoteInterval \in Nat
        BY <1>1, ElectionAssumption DEF AtStep, Inv, Typed
      <4> QED  BY <4>1
    <3>2. candidate[n] = Chosen(n) \/ Cycled(n)' + sleep'[n] <= 2 * BlockPeriod
      BY <1>2, <2>1, <2>4, <3>1
    <3> QED  BY <1>1, <1>3, <2>1, <2>4, <3>2 DEF Led, given
  <2> QED  BY <1>1, <2>2, <2>3, <2>4
<1>7. Left(n)'
  BY <1>1 DEF Left
<1>8. Polled(n)'
  <2>1. /\ asking[n] = {} /\ Peers[n] \in SUBSET Nodes /\ byzantine \subseteq Nodes
    BY <1>1, ElectionAssumption DEF AtStep, Inv, InHand, Typed
  <2>2. asking'[n] \subseteq Peers[n]
    BY <1>1, <2>1
  <2>3. Others(n)' = {} /\ DOMAIN votes'[n] = {}
    BY <1>1, <1>4 DEF Others
  <2>4. IsFiniteSet((Peers[n] \ asking'[n]) \cap byzantine')
    <3>1. (Peers[n] \ asking'[n]) \cap byzantine' \subseteq Nodes /\ IsFiniteSet(Nodes)
      BY <1>1, <2>1, ElectionAssumption DEF given
    <3> QED  BY <3>1, FS_Subset
  <2>5. Cardinality(Others(n)') <= Cardinality((Peers[n] \ asking'[n]) \cap byzantine')
    BY <2>3, <2>4, FS_EmptySet, FS_CardinalityType
  <2> QED  BY <1>1, <1>4, <2>2, <2>3, <2>5 DEF Polled
<1> QED  BY <1>5, <1>6, <1>7, <1>8 DEF Steady

\* The tick before one that is not the first of its cycle is in the same cycle.
LEMMA SameCycle ==
    ASSUME NEW t \in Nat, NEW u, u = t + 1, u % Cycle > 0
    PROVE  t % Cycle = (u % Cycle) - 1 /\ t \div Cycle = u \div Cycle
<1>1. /\ t % Cycle \in 0..(Cycle - 1)
      /\ (t % Cycle) + 1 < Cycle => (t + 1) % Cycle = (t % Cycle) + 1 /\ (t + 1) \div Cycle = t \div Cycle
      /\ (t % Cycle) + 1 = Cycle => (t + 1) % Cycle = 0
  BY Periods, NextTick
<1>2. (t % Cycle) + 1 < Cycle \/ (t % Cycle) + 1 = Cycle
  BY <1>1, Periods
<1>3. CASE (t % Cycle) + 1 < Cycle
  BY <1>1, <1>3, Periods
<1> QED  BY <1>1, <1>2, <1>3

\* The vote of a peer is for the chosen leader, unless the peer is Byzantine,
\* and it comes with the signature it is for.
LEMMA PeerVote ==
    ASSUME NEW n, AtStep(n), pc[n] = "ask", NEW p \in Nodes, cache[p].sig # Nil
    PROVE  /\ candidate[p] = Chosen(n) \/ p \in byzantine
           /\ cache[p].sig = candidate[p]
<1>1. /\ n \in Nodes /\ alive[n] /\ alive[p] /\ state[n] = "LEADER" /\ Steady(p)
      /\ Recorded(p, n) /\ OnTime(p) /\ Voting(p)
  BY DEF AtStep, AllAlive, Inv, Voting, RoundInv
<1>2. /\ BlockPeriod + 2 <= Cycled(n) /\ Cycled(n) <= 2 * BlockPeriod + 1 /\ Cycled(n) \in Nat
      /\ Len(winners[n]) = time[n] \div Cycle
      /\ BlockPeriod \in Nat /\ BlockPeriod >= 2 /\ time[n] \div Cycle \in Nat
  BY <1>1, Due, Periods DEF AtStep
<1>3. CASE p = n
  BY <1>1, <1>3 DEF Steady, Led
<1>4. CASE p # n
  <2>1. pc[p] = "idle" /\ (time[p] = time[n] \/ time[p] = time[n] - 1)
    BY <1>1, <1>4, Neighbours DEF AtStep, RoundInv
  <2>2. /\ time[p] \div Cycle = time[n] \div Cycle
        /\ Cycled(p) = Cycled(n) \/ Cycled(p) = Cycled(n) - 1
    <3>1. CASE time[p] = time[n]
      BY <3>1 DEF Cycled
    <3>2. CASE time[p] = time[n] - 1
      <4>1. time[p] \in Nat /\ time[n] \in Nat /\ time[n] = time[p] + 1
        BY <1>1, <3>2, Periods DEF AtStep, Inv, Typed
      <4>2. time[n] % Cycle > 0
        BY <1>2 DEF Cycled
      <4>3. time[p] % Cycle = (time[n] % Cycle) - 1 /\ time[p] \div Cycle = time[n] \div Cycle
        BY <4>1, <4>2, SameCycle
      <4> QED  BY <4>3 DEF Cycled
    <3> QED  BY <2>1, <3>1, <3>2
  <2>3. CASE state[p] = "LEADER"
    <3>1. Len(winners[p]) = Len(winners[n])
      BY <1>1, <1>2, <2>2, <2>3 DEF OnTime
    <3>2. Chosen(p) = Chosen(n)
      BY <1>1, <3>1, SameChoice DEF Recorded
    <3> QED  BY <1>1, <2>1, <2>3, <3>2 DEF Steady, Led
  <2>4. CASE state[p] = "BLOCK"
    <3>1. Len(winners[p]) = Len(winners[n]) + 1
      BY <1>1, <1>2, <2>1, <2>2, <2>4 DEF OnTime
    <3>2. winners[p] = Append(winners[n], Chosen(n))
      BY <1>1, <3>1 DEF Recorded
    <3>3. winners[n] \in Seq(Ids)
      BY <1>1 DEF AtStep, Inv, Typed
    <3>4. winners[p][Len(winners[p])] = Chosen(n)
      BY <3>1, <3>2, <3>3
    <3> QED  BY <1>1, <2>1, <2>4, <3>4 DEF Steady, Left
  <2>5. CASE state[p] = "MINING"
    BY <1>1, <1>2, <2>1, <2>2, <2>5 DEF OnTime
  <2>6. state[p] \in Phases
    BY DEF AtStep, Inv, Typed
  <2> QED  BY <2>3, <2>4, <2>5, <2>6 DEF Phases
<1> QED  BY <1>3, <1>4

\* Whoever votes for another candidate than the chosen one is Byzantine.
LEMMA GetVoteSteady ==
    ASSUME NEW n, AtStep(n), GetVote(n), alive'[n]
    PROVE  Steady(n)'
<1> DEFINE p == reply[n].peer
           v == [vote |-> reply[n].vote, sig |-> cache[p].sig]
           old == (Peers[n] \ asking[n]) \cap byzantine
<1>1. /\ n \in Nodes /\ reply[n] # NoReply /\ alive[n] /\ cache[p].sig # Nil
      /\ votes'[n] = Append(votes[n], v) /\ asking'[n] = asking[n] \ {p}
      /\ UNCHANGED <<time, pc, turn, state, candidate, cache, recent, winners, sleep, given>>
  BY DEF AtStep, AllAlive, GetVote, step, Inv, Typed
<1>2. p \in asking[n] /\ p \in Nodes /\ pc[n] = "ask"
  BY <1>1 DEF AtStep, Inv, InHand, Typed
<1>3. v.vote = v.sig /\ (v.vote = Chosen(n) \/ p \in byzantine)
  <2>1. reply[n].vote = candidate[p]
    BY <1>1 DEF AtStep, ConsistentInv, Consistent
  <2> QED  BY <1>1, <1>2, <2>1, PeerVote
<1> HIDE DEF v, p
<1>4. /\ Best(n)' = Best(n) /\ Chosen(n)' = Chosen(n) /\ Steady(n) /\ state[n] = "LEADER"
      /\ votes[n] \in Seq(Vote)
  BY <1>1, <1>2, ChoiceKept DEF AtStep, RoundInv, Inv, Voting, Typed
<1>5. Mined(n)' /\ Led(n)' /\ Left(n)'
  BY <1>1, <1>2, <1>4 DEF Steady, Mined, Led, Left, given, Cycled
<1>6. /\ DOMAIN votes'[n] = DOMAIN votes[n] \cup {Len(votes[n]) + 1}
      /\ Len(votes[n]) + 1 \notin DOMAIN votes[n]
      /\ \A i \in DOMAIN votes[n] : votes'[n][i] = votes[n][i]
      /\ votes'[n][Len(votes[n]) + 1] = v /\ votes'[n] # <<>>
  <2>1. /\ DOMAIN Append(votes[n], v) = 1..(Len(votes[n]) + 1)
        /\ \A i \in 1..Len(votes[n]) : Append(votes[n], v)[i] = votes[n][i]
        /\ Append(votes[n], v)[Len(votes[n]) + 1] = v
        /\ DOMAIN votes[n] = 1..Len(votes[n]) /\ Len(votes[n]) \in Nat
    BY <1>4
  <2>2. 1..(Len(votes[n]) + 1) = 1..Len(votes[n]) \cup {Len(votes[n]) + 1}
    BY <2>1
  <2> QED  BY <1>1, <2>1, <2>2
<1>7. \A i \in DOMAIN votes'[n] : votes'[n][i].vote = votes'[n][i].sig
  BY <1>3, <1>4, <1>6 DEF Steady, Polled
<1>8. /\ IsFiniteSet(Nodes) /\ byzantine \subseteq Nodes /\ asking[n] \subseteq Peers[n] /\ Peers[n] \subseteq Nodes
      /\ IsFiniteSet(old)
  <2>1. byzantine \subseteq Nodes /\ asking[n] \subseteq Peers[n] /\ Peers[n] \subseteq Nodes
    BY <1>1, <1>4, ElectionAssumption DEF AtStep, Inv, Typed, Steady, Polled
  <2> QED  BY <2>1, ElectionAssumption, FS_Subset
<1>9. IsFiniteSet(Others(n)) /\ Cardinality(Others(n)) <= Cardinality(old)
  <2>1. Others(n) \subseteq 1..Len(votes[n]) /\ Len(votes[n]) \in Nat
    BY <1>4 DEF Others
  <2>2. \A k \in Nat : IsFiniteSet(1..k)
    BY FS_Interval
  <2>3. IsFiniteSet(Others(n))
    BY <2>1, <2>2, FS_Subset
  <2> QED  BY <1>4, <2>3 DEF Steady, Polled
<1> DEFINE new == (Peers[n] \ asking'[n]) \cap byzantine'
<1>10. Cardinality(Others(n)') <= Cardinality(new)
  <2>0. /\ Cardinality(old) \in Nat /\ Cardinality(Others(n)) \in Nat /\ p \notin old
        /\ new = IF p \in byzantine THEN old \cup {p} ELSE old
        /\ Others(n)' = {i \in DOMAIN votes'[n] : votes'[n][i].vote # Chosen(n)}
    <3>1. Others(n)' = {i \in DOMAIN votes'[n] : votes'[n][i].vote # Chosen(n)}
      BY <1>4 DEF Others
    <3> QED  BY <1>1, <1>2, <1>8, <1>9, <3>1, FS_CardinalityType DEF given
  <2> HIDE DEF old, new
  <2>1. p \in byzantine => Cardinality(new) = Cardinality(old) + 1
    BY <1>8, <2>0, FS_AddElement
  <2>2. CASE v.vote = Chosen(n)
    <3>1. Others(n)' = Others(n)
      BY <1>6, <2>0, <2>2 DEF Others
    <3>2. CASE p \in byzantine
      <4>1. /\ Cardinality(new) = Cardinality(old) + 1 /\ Cardinality(old) \in Nat
            /\ Cardinality(Others(n)) \in Nat /\ Cardinality(Others(n)) <= Cardinality(old)
        BY <1>9, <2>0, <2>1, <3>2
      <4>2. Cardinality(Others(n)) <= Cardinality(new)
        BY <4>1
      <4> QED  BY <3>1, <4>2
    <3>3. CASE p \notin byzantine
      <4>1. new = old
        BY <2>0, <3>3
      <4> QED  BY <1>9, <3>1, <4>1
    <3> QED  BY <3>2, <3>3
  <2>3. CASE v.vote # Chosen(n)
    <3>1. Others(n)' = Others(n) \cup {Len(votes[n]) + 1} /\ Len(votes[n]) + 1 \notin Others(n)
      BY <1>6, <2>0, <2>3 DEF Others
    <3>2. Cardinality(Others(n)') = Cardinality(Others(n)) + 1
      BY <1>9, <3>1, FS_AddElement
    <3> QED  BY <1>3, <1>9, <2>0, <2>1, <2>3, <3>2
  <2> QED  BY <2>2, <2>3
<1>11. Polled(n)'
  BY <1>1, <1>4, <1>6, <1>7, <1>8, <1>10 DEF Polled
<1> QED  BY <1>5, <1>11 DEF Steady

\* A collection leads to a count.
LEMMA AskSteady ==
    ASSUME NEW n, AtStep(n), VotesIn(n) \/ \E p \in Nodes : AskVote(n, p)
    PROVE  Steady(n)'
<1>1. Steady(n) /\ n \in Nodes /\ alive[n]
  BY DEF AtStep, RoundInv, AllAlive
<1>2. CASE VotesIn(n)
  <2>1. /\ pc[n] = "ask" /\ asking[n] = {} /\ pc'[n] = "run"
        /\ UNCHANGED <<time, state, candidate, cache, votes, recent, winners, asking, given>>
    BY <1>2 DEF AtStep, VotesIn, Goto, lead, Inv, Typed
  <2>2. Best(n)' = Best(n) /\ Chosen(n)' = Chosen(n)
    BY <2>1, ChoiceKept
  <2>3. state[n] = "LEADER" /\ votes[n] # <<>>
    <3>1. Cardinality(asking[n]) = 0
      BY <2>1, FS_EmptySet
    <3>2. Len(votes[n]) + Cardinality(asking[n]) = NumNeighbours
      BY <1>1, <2>1 DEF AtStep, CountInv, Collected
    <3>3. NumNeighbours \in Nat /\ NumNeighbours > 0
      BY ElectionAssumption
    <3> QED  BY <1>1, <2>1, <3>1, <3>2, <3>3 DEF AtStep, Inv, Voting
  <2>4. Mined(n)' /\ Led(n)' /\ Left(n)'
    BY <1>1, <2>1, <2>2, <2>3 DEF Steady, Mined, Led, Left, given
  <2>5. Polled(n)'
    <3>1. Others(n)' = Others(n)
      BY <2>1, <2>2 DEF Others
    <3> QED  BY <1>1, <2>1, <3>1 DEF Steady, Polled, given
  <2> QED  BY <2>4, <2>5 DEF Steady
<1>3. CASE \E p \in Nodes : AskVote(n, p)
  BY <1>1, <1>3, SteadyKept DEF AskVote, SameRound, step, lead
<1> QED  BY <1>2, <1>3

\* All votes are in: the chosen leader has the majority of them.
LEMMA ChosenWins ==
    ASSUME NEW n, AtStep(n), Complete(n), pc[n] = "run"
    PROVE  Favourite(n) = Chosen(n) /\ Majority(n, Favourite(n))
<1> DEFINE w == Chosen(n)
<1>1. /\ n \in Nodes /\ VotesTyped(n) /\ Len(votes[n]) = NumNeighbours /\ votes[n] \in Seq(Vote)
      /\ NumNeighbours \in Nat /\ NumNeighbours > 0 /\ DOMAIN votes[n] = 1..NumNeighbours
  <2>1. n \in Nodes /\ votes[n] \in Seq(Vote) /\ Len(votes[n]) = NumNeighbours
    BY DEF AtStep, Inv, Typed, Complete
  <2> QED  BY <2>1, ElectionAssumption DEF VotesTyped
<1>2. /\ IsFiniteSet(DOMAIN votes[n]) /\ Cardinality(DOMAIN votes[n]) = NumNeighbours
  <2>1. \A k \in Nat : IsFiniteSet(1..k) /\ Cardinality(1..k) = k
    BY FS_Interval
  <2> QED  BY <1>1, <2>1
<1>3. IsFiniteSet(Others(n)) /\ Cardinality(Others(n)) \in Nat /\ Others(n) \subseteq DOMAIN votes[n]
  <2>1. Others(n) \subseteq DOMAIN votes[n]
    BY DEF Others
  <2> QED  BY <1>2, <2>1, FS_Subset, FS_CardinalityType
<1>4. 2 * Cardinality(Others(n)) < NumNeighbours
  <2>1. Cardinality(Others(n)) <= Cardinality((Peers[n] \ asking[n]) \cap byzantine)
    BY <1>1 DEF AtStep, RoundInv, Steady, Polled
  <2>2. IsFiniteSet(byzantine)
    <3>1. byzantine \subseteq Nodes /\ IsFiniteSet(Nodes)
      BY ElectionAssumption DEF AtStep, Inv, Typed
    <3> QED  BY <3>1, FS_Subset
  <2>3. /\ Cardinality((Peers[n] \ asking[n]) \cap byzantine) <= Cardinality(byzantine)
        /\ IsFiniteSet((Peers[n] \ asking[n]) \cap byzantine)
    BY <2>2, FS_Subset
  <2>4. Cardinality((Peers[n] \ asking[n]) \cap byzantine) \in Nat /\ Cardinality(byzantine) \in Nat
    BY <2>2, <2>3, FS_CardinalityType
  <2>5. 2 * Cardinality(byzantine) < NumNeighbours
    BY DEF AtStep, FewByzantine
  <2> QED  BY <1>1, <1>3, <2>1, <2>3, <2>4, <2>5
<1>5. Cardinality(VotesFor(n, w)) = NumNeighbours - Cardinality(Others(n))
  <2>1. VotesFor(n, w) = DOMAIN votes[n] \ Others(n)
    BY DEF VotesFor, Others
  <2>2. Cardinality(DOMAIN votes[n] \ Others(n)) = Cardinality(DOMAIN votes[n]) - Cardinality(DOMAIN votes[n] \cap Others(n))
    BY <1>2, FS_Difference
  <2>3. DOMAIN votes[n] \cap Others(n) = Others(n)
    BY <1>3
  <2> QED  BY <1>2, <2>1, <2>2, <2>3
<1>6. 2 * Cardinality(VotesFor(n, w)) > NumNeighbours /\ Cardinality(VotesFor(n, w)) \in Nat
  BY <1>1, <1>3, <1>4, <1>5
<1>7. w \in Named(n)
  <2>1. VotesFor(n, w) # {}
    <3>1. ASSUME VotesFor(n, w) = {} PROVE FALSE
      <4>1. Cardinality(VotesFor(n, w)) = 0
        BY <3>1, FS_EmptySet
      <4> QED  BY <1>1, <1>6, <4>1
    <3> QED  BY <3>1
  <2> QED  BY <2>1 DEF VotesFor, Named
<1>8. ASSUME NEW v \in Named(n), v # w
      PROVE  Cardinality(VotesFor(n, v)) < Cardinality(VotesFor(n, w))
  <2>1. VotesFor(n, v) \subseteq Others(n)
    BY <1>8 DEF VotesFor, Others
  <2>2. Cardinality(VotesFor(n, v)) <= Cardinality(Others(n)) /\ IsFiniteSet(VotesFor(n, v))
    BY <1>3, <2>1, FS_Subset
  <2>3. Cardinality(VotesFor(n, v)) \in Nat
    BY <2>2, FS_CardinalityType
  <2> QED  BY <1>1, <1>3, <1>4, <1>6, <2>2, <2>3
<1>9. /\ Favourite(n) \in Named(n)
      /\ Cardinality(VotesFor(n, Favourite(n))) >= Cardinality(VotesFor(n, w))
  BY <1>1, <1>7, FavouriteNamed
<1>10. Cardinality(VotesFor(n, Favourite(n))) \in Nat
  BY <1>1, <1>9, FirstVoteFor
<1>11. Favourite(n) = w
  <2>1. CASE Favourite(n) # w
    <3>1. Cardinality(VotesFor(n, Favourite(n))) < Cardinality(VotesFor(n, w))
      BY <1>8, <1>9, <2>1
    <3> QED  BY <1>6, <1>9, <1>10, <3>1
  <2> QED  BY <2>1
<1>12. Majority(n, w)
  <2>1. \A c, k \in Nat : 2 * c > k => c > k \div 2
    OBVIOUS
  <2> QED  BY <1>1, <1>6, <2>1 DEF Majority
<1> QED  BY <1>11, <1>12

\* A count takes the chosen leader, whoever the node stood for.
LEMMA TallySteady ==
    ASSUME NEW n, AtStep(n), Tally(n)
    PROVE  Steady(n)'
<1>1. /\ n \in Nodes /\ pc[n] = "run" /\ state[n] = "LEADER"
      /\ \/ Complete(n) /\ candidate'[n] = Chosen(n) /\ pc'[n] = "adopt" /\ votes' = votes
         \/ /\ ~Complete(n) /\ pc'[n] = "close" /\ UNCHANGED <<votes, candidate>>
      /\ UNCHANGED <<time, state, cache, recent, winners, pings, given>>
  <2>1. n \in Nodes /\ pc[n] = "run"
    BY DEF AtStep, Tally
  <2>2. Complete(n) => Favourite(n) = Chosen(n) /\ Majority(n, Favourite(n))
    BY <2>1, ChosenWins
  <2> QED  BY <2>1, <2>2 DEF AtStep, Tally, Goto, Inv, Typed
<1>2. Best(n)' = Best(n) /\ Chosen(n)' = Chosen(n)
  BY <1>1, ChoiceKept
<1>3. Steady(n) /\ (Complete(n) \/ votes[n] = <<>>)
  BY <1>1 DEF AtStep, RoundInv, CountInv, Collected, Complete
<1>4. Mined(n)' /\ Left(n)'
  BY <1>1 DEF Mined, Left
<1>5. Led(n)'
  <2>1. Cycled(n)' = Cycled(n) /\ sleep' = sleep
    BY <1>1 DEF Cycled, pings
  <2>2. CASE Complete(n)
    BY <1>1, <1>2, <2>2 DEF Led
  <2>3. CASE ~Complete(n)
    <3>1. /\ candidate[n] = Chosen(n) \/ (n \in byzantine /\ candidate[n] = Forged)
          /\ cache[n].sig = candidate[n]
          /\ candidate[n] = Chosen(n) \/ Cycled(n) + sleep[n] <= 2 * BlockPeriod
      BY <1>1, <1>3, <2>3 DEF Steady, Led
    <3> QED  BY <1>1, <1>2, <2>1, <2>3, <3>1 DEF Led, given
  <2> QED  BY <2>2, <2>3
<1>6. Polled(n)'
  <2>1. Others(n)' = Others(n)
    BY <1>1, <1>2 DEF Others
  <2> QED  BY <1>1, <1>3, <2>1 DEF Steady, Polled, pings, given
<1> QED  BY <1>4, <1>5, <1>6 DEF Steady

\* What is adopted with the chosen leader is its own signature.
LEMMA AdoptSteady ==
    ASSUME NEW n, AtStep(n), Adopt(n)
    PROVE  Steady(n)'
<1>1. /\ n \in Nodes /\ pc[n] = "adopt" /\ pc'[n] = "close" /\ votes'[n] = <<>>
      /\ cache'[n].sig = votes[n][FirstVote(n, candidate[n])].sig
      /\ UNCHANGED <<time, state, candidate, recent, winners, pings, given>>
  BY DEF AtStep, Adopt, Adopted, Goto, Inv, Typed
<1>2. Best(n)' = Best(n) /\ Chosen(n)' = Chosen(n)
  BY <1>1, ChoiceKept
<1>3. Steady(n) /\ state[n] = "LEADER" /\ candidate[n] = Chosen(n) /\ asking[n] = {}
  BY <1>1 DEF AtStep, AllAlive, RoundInv, Steady, Led, Inv, Voting, InHand
<1>4. cache'[n].sig = candidate[n]
  <2>1. VotesTyped(n) /\ candidate[n] \in Named(n)
    BY <1>1 DEF AtStep, Inv, Typed, InHand, VotesTyped
  <2>2. /\ FirstVote(n, candidate[n]) \in DOMAIN votes[n]
        /\ votes[n][FirstVote(n, candidate[n])].vote = candidate[n]
    BY <2>1, FirstVoteFor
  <2> QED  BY <1>1, <1>3, <2>2 DEF Steady, Polled
<1>5. Mined(n)' /\ Led(n)' /\ Left(n)'
  BY <1>1, <1>2, <1>3, <1>4 DEF Mined, Led, Left
<1>6. Polled(n)'
  <2>1. /\ asking'[n] = {} /\ Peers[n] \in SUBSET Nodes /\ byzantine' \subseteq Nodes
        /\ byzantine' = byzantine
    BY <1>1, <1>3, ElectionAssumption DEF AtStep, Inv, Typed, pings, given
  <2>2. Others(n)' = {} /\ DOMAIN votes'[n] = {}
    BY <1>1 DEF Others
  <2>3. IsFiniteSet((Peers[n] \ asking'[n]) \cap byzantine')
    <3>1. (Peers[n] \ asking'[n]) \cap byzantine' \subseteq Nodes /\ IsFiniteSet(Nodes)
      BY <2>1, ElectionAssumption
    <3> QED  BY <3>1, FS_Subset
  <2>4. Cardinality(Others(n)') <= Cardinality((Peers[n] \ asking'[n]) \cap byzantine')
    BY <2>2, <2>3, FS_EmptySet, FS_CardinalityType
  <2> QED  BY <1>1, <2>1, <2>2, <2>4 DEF Polled
<1> QED  BY <1>5, <1>6 DEF Steady

\* The round ends without a candidate and without a scan.
LEMMA BlockSteady ==
    ASSUME NEW n, AtStep(n), RunBlock(n)
    PROVE  Steady(n)'
<1>1. /\ n \in Nodes /\ alive[n] /\ pc[n] = "run" /\ state[n] = "BLOCK" /\ pc'[n] = "idle"
      /\ cache'[n] = NoSignature(n)
      /\ \/ Cycled(n) < BlockPeriod /\ state'[n] = "MINING"
         \/ state'[n] = "BLOCK"
      /\ UNCHANGED <<time, votes, recent, winners, sleep, asking, given>>
  BY DEF AtStep, AllAlive, RunBlock, Done, ResetCache, Inv, Typed
<1>2. NoSignature(n)' = NoSignature(n) /\ NoSignature(n).sig = Nil /\ Cycled(n)' = Cycled(n)
  BY <1>1 DEF NoSignature, given, Cycled
<1>3. Mined(n)'
  <2> SUFFICES ASSUME Cycled(n) < BlockPeriod PROVE Mined(n)'
    BY <1>1 DEF Mined
  <2>1. Cycled(n) = 0
    BY <1>1, Due, Periods DEF AtStep
  <2>2. ~Scanned(n)'
    BY <1>1, <1>2, <2>1 DEF Scanned
  <2> QED  BY <1>1, <1>2, <2>2 DEF Mined
<1>4. Led(n)' /\ Left(n)'
  BY <1>1, <1>2 DEF Led, Left
<1>5. Polled(n)'
  <2>1. votes[n] = <<>> /\ asking[n] = {}
    BY <1>1 DEF AtStep, CountInv, Collected, Inv, InHand
  <2>2. Peers[n] \in SUBSET Nodes /\ byzantine \subseteq Nodes
    BY <1>1, ElectionAssumption DEF AtStep, Inv, Typed
  <2>3. Others(n)' = {} /\ Others(n) = {}
    BY <1>1, <2>1 DEF Others
  <2>4. Polled(n)
    BY <2>1, <2>2, NoVotes
  <2> QED  BY <1>1, <2>1, <2>3, <2>4 DEF Polled, given
<1> QED  BY <1>3, <1>4, <1>5 DEF Steady

-----------------------------------------------------------------------------
(* The end of the phase *)

\* A node that ends the vote takes the chosen leader with it.
LEMMA Elects ==
    ASSUME NEW n, AtStep(n), Close(n), After(n, 2)
    PROVE  /\ candidate[n] = Chosen(n) /\ cache[n].sig = Chosen(n)
           /\ \E sig \in completed[Round(n)] : sig.id = Chosen(n)
<1>1. /\ n \in Nodes /\ alive[n] /\ pc[n] = "close" /\ state[n] = "LEADER" /\ Steady(n)
      /\ cache[n].sig # Nil
  BY DEF AtStep, AllAlive, Close, RoundInv, Inv, Voting
<1>2. /\ Cycled(n) \in Nat /\ Cycled(n) > 2 * BlockPeriod /\ BlockPeriod \in Nat
      /\ Len(winners[n]) = time[n] \div Cycle /\ sleep[n] \in Nat
  <2>1. sleep[n] \in 0..VoteInterval /\ VoteInterval \in Nat
    BY <1>1, ElectionAssumption DEF AtStep, Inv, Typed
  <2> QED  BY <1>1, <2>1, Due, Periods DEF AtStep, After
<1>3. candidate[n] = Chosen(n) /\ cache[n].sig = Chosen(n)
  BY <1>1, <1>2 DEF Steady, Led
<1>4. completed[Round(n)] # {} /\ Chosen(n) = LowSig(n).id
  BY <1>1, <1>3 DEF Chosen, Best
<1>5. recent[n] \in Seq(Ids \cup {Nil}) /\ completed[Round(n)] \in SUBSET Found0
  <2>1. Inv /\ Cycled(n) > 0
    BY <1>2 DEF AtStep
  <2>2. completed[Round(n)] \in SUBSET Found0
    BY <1>1, <1>2, <2>1, InRange
  <2> QED  BY <1>1, <2>1, <2>2 DEF Inv, Typed
<1> QED  BY <1>3, <1>4, <1>5, LowSigFound

\* A node leaves the vote with the chosen leader.
LEMMA CloseSteady ==
    ASSUME NEW n, AtStep(n), Close(n)
    PROVE  Steady(n)'
<1>1. /\ n \in Nodes /\ alive[n] /\ pc[n] = "close" /\ state[n] = "LEADER" /\ Steady(n) /\ pc'[n] = "idle"
      /\ votes[n] = <<>> /\ asking[n] = {} /\ winners[n] \in Seq(Ids)
      /\ UNCHANGED <<time, candidate, cache, votes, sleep, asking, given>>
  BY DEF AtStep, AllAlive, Close, Done, RoundInv, CountInv, Collected, Inv, Voting, InHand, Typed
<1>2. Polled(n)'
  <2>1. Peers[n] \in SUBSET Nodes /\ byzantine \subseteq Nodes
    BY <1>1, ElectionAssumption DEF AtStep, Inv, Typed
  <2>2. Others(n)' = {} /\ Others(n) = {}
    BY <1>1 DEF Others
  <2>3. Polled(n)
    BY <1>1, <2>1, NoVotes
  <2> QED  BY <1>1, <2>2, <2>3 DEF Polled, given
<1>3. CASE After(n, 2)
  <2>1. state'[n] = "BLOCK" /\ winners'[n] = Append(winners[n], cache[n].sig)
    BY <1>1, <1>3 DEF Close, AtStep, Inv, Typed
  <2>2. candidate[n] = cache[n].sig
    BY <1>3, Elects
  <2>3. winners'[n] # <<>> /\ winners'[n][Len(winners'[n])] = cache[n].sig
    BY <1>1, <2>1
  <2>4. Left(n)'
    BY <1>1, <2>2, <2>3 DEF Left
  <2> QED  BY <1>2, <2>1, <2>4 DEF Steady, Mined, Led
<1>4. CASE ~After(n, 2)
  <2>1. UNCHANGED <<state, recent, winners>>
    BY <1>4 DEF Close
  <2>2. Best(n)' = Best(n) /\ Chosen(n)' = Chosen(n)
    BY <1>1, <2>1, ChoiceKept
  <2>3. Mined(n)' /\ Left(n)'
    BY <1>1, <2>1 DEF Mined, Left
  <2>4. Led(n)'
    BY <1>1, <2>1, <2>2 DEF Steady, Led, given, Cycled
  <2> QED  BY <1>2, <2>3, <2>4 DEF Steady
<1> QED  BY <1>3, <1>4

\* The leader that is recorded is the one that the nodes of the loop that are
\* ahead have recorded, and the others will.
LEMMA CloseRecords ==
    ASSUME NEW n, AtStep(n), Close(n), After(n, 2)
    PROVE  (\A m, o \in Nodes : Recorded(m, o))' /\ (\A m \in Nodes : Relayed(m))'
<1>1. /\ n \in Nodes /\ alive[n] /\ pc[n] = "close" /\ state[n] = "LEADER"
      /\ candidate[n] = Chosen(n) /\ cache[n].sig = Chosen(n)
      /\ \E sig \in completed[Round(n)] : sig.id = Chosen(n)
      /\ \A m \in Nodes : winners[m] \in Seq(Ids) /\ Len(winners[m]) \in Nat
  <2>1. /\ candidate[n] = Chosen(n) /\ cache[n].sig = Chosen(n)
        /\ \E sig \in completed[Round(n)] : sig.id = Chosen(n)
    BY Elects
  <2>2. \A m \in Nodes : winners[m] \in Seq(Ids) /\ Len(winners[m]) \in Nat
    BY DEF AtStep, Inv, Typed
  <2> QED  BY <2>1, <2>2 DEF AtStep, AllAlive, Close, Inv, Voting
<1>2. /\ winners'[n] = Append(winners[n], Chosen(n)) /\ recent'[n] = WithLeader(recent[n], Chosen(n))
      /\ \A m \in Nodes \ {n} : winners'[m] = winners[m] /\ recent'[m] = recent[m]
      /\ UNCHANGED given
  BY <1>1 DEF AtStep, Close, Inv, Typed
<1>3. /\ Cycled(n) = 2 * BlockPeriod + 1 /\ BlockPeriod \in Nat /\ BlockPeriod >= 2
      /\ Len(winners[n]) = time[n] \div Cycle /\ time[n] \div Cycle \in Nat
  <2>1. /\ Cycled(n) \in Nat /\ Cycled(n) <= 2 * BlockPeriod + 1 /\ Len(winners[n]) = time[n] \div Cycle
        /\ time[n] \div Cycle \in Nat
    BY <1>1, Due, Periods DEF AtStep
  <2> QED  BY <2>1, Periods DEF After
<1>4. ASSUME NEW m \in Nodes, m # n
      PROVE  \/ winners[m] = winners[n] /\ recent[m] = recent[n] /\ Chosen(m) = Chosen(n)
             \/ winners[m] = winners'[n] /\ recent[m] = recent'[n]
  <2>1. pc[m] = "idle" /\ (time[m] = time[n] \/ time[m] = time[n] - 1)
    BY <1>1, <1>4, Neighbours DEF AtStep, RoundInv
  <2>2. alive[m] /\ OnTime(m) /\ Recorded(m, n)
    BY DEF AtStep, AllAlive, Inv, RoundInv
  <2>3. CASE time[m] = time[n]
    <3>1. Len(winners[m]) = Len(winners[n]) + 1
      BY <1>1, <1>3, <2>1, <2>2, <2>3 DEF OnTime, Cycled
    <3> QED  BY <1>2, <2>2, <3>1 DEF Recorded
  <2>4. CASE time[m] = time[n] - 1
    <3>1. time[m] \in Nat /\ time[n] \in Nat /\ time[n] = time[m] + 1
      <4>1. time \in [Nodes -> 0..MaxTime] /\ n \in Nodes
        BY DEF AtStep, Inv, Typed
      <4>2. time[m] \in Nat /\ time[n] \in Nat
        BY <4>1, Periods
      <4> QED  BY <2>4, <4>2
    <3>2. Cycled(m) = Cycled(n) - 1 /\ time[m] \div Cycle = time[n] \div Cycle
      <4>1. time[n] % Cycle > 0
        BY <1>3 DEF Cycled
      <4>2. time[m] % Cycle = (time[n] % Cycle) - 1 /\ time[m] \div Cycle = time[n] \div Cycle
        BY <3>1, <4>1, SameCycle
      <4> QED  BY <4>2 DEF Cycled
    <3>3. Len(winners[m]) = Len(winners[n])
      BY <1>1, <1>3, <2>1, <2>2, <3>2 DEF OnTime
    <3>4. winners[m] = winners[n] /\ recent[m] = recent[n]
      BY <2>2, <3>3 DEF Recorded
    <3> QED  BY <3>4, SameChoice
  <2> QED  BY <2>1, <2>3, <2>4
<1>5. ASSUME NEW m \in Nodes, m # n
      PROVE  Chosen(m)' = Chosen(m)
  BY <1>2, <1>5, ChoiceKept
<1>6. Len(winners'[n]) = Len(winners[n]) + 1
  BY <1>1, <1>2
<1>7. ASSUME NEW m \in Nodes, NEW o \in Nodes
      PROVE  Recorded(m, o)'
  <2>1. CASE m # n /\ o # n
    <3>1. Recorded(m, o)
      BY DEF AtStep, RoundInv
    <3> QED  BY <1>2, <1>5, <2>1, <3>1 DEF Recorded, WithLeader
  <2>2. CASE m = n /\ o # n
    <3>1. /\ Len(winners[o]) \in Nat /\ Len(winners[n]) \in Nat /\ winners'[o] = winners[o]
          /\ recent'[o] = recent[o] /\ Chosen(o)' = Chosen(o)
      BY <1>1, <1>2, <1>5, <2>2
    <3>2. CASE winners[o] = winners[n] /\ recent[o] = recent[n] /\ Chosen(o) = Chosen(n)
      <4>1. /\ winners'[n] = Append(winners[o], Chosen(o)')
            /\ recent'[n] = WithLeader(recent[o], Chosen(o)')
        BY <1>2, <3>1, <3>2
      <4> QED  BY <1>6, <2>2, <3>1, <3>2, <4>1 DEF Recorded, WithLeader
    <3>3. CASE winners[o] = winners'[n] /\ recent[o] = recent'[n]
      BY <1>6, <2>2, <3>1, <3>3 DEF Recorded
    <3> QED  BY <1>4, <2>2, <3>2, <3>3
  <2>3. CASE m # n /\ o = n
    <3>1. /\ Len(winners[m]) \in Nat /\ Len(winners[n]) \in Nat /\ winners'[m] = winners[m]
          /\ recent'[m] = recent[m]
      BY <1>1, <1>2, <2>3
    <3>2. CASE winners[m] = winners[n]
      BY <1>6, <2>3, <3>1, <3>2 DEF Recorded
    <3>3. CASE winners[m] = winners'[n] /\ recent[m] = recent'[n]
      BY <1>6, <2>3, <3>1, <3>3 DEF Recorded
    <3> QED  BY <1>4, <2>3, <3>2, <3>3
  <2>4. CASE m = n /\ o = n
    BY <1>1, <1>6, <2>4 DEF Recorded
  <2> QED  BY <2>1, <2>2, <2>3, <2>4
<1>8. ASSUME NEW m \in Nodes PROVE Relayed(m)'
  <2>1. completed' = completed /\ Relayed(m)
    BY <1>2 DEF AtStep, RoundInv, given
  <2>2. CASE m # n
    BY <1>2, <2>1, <2>2 DEF Relayed
  <2>3. CASE m = n
    <3>1. DOMAIN winners'[n] = DOMAIN winners[n] \cup {Round(n)} /\ winners'[n][Round(n)] = Chosen(n)
          /\ \A r \in DOMAIN winners[n] : winners'[n][r] = winners[n][r]
      <4>1. /\ DOMAIN Append(winners[n], Chosen(n)) = 1..(Len(winners[n]) + 1)
            /\ \A r \in 1..Len(winners[n]) : Append(winners[n], Chosen(n))[r] = winners[n][r]
            /\ Append(winners[n], Chosen(n))[Len(winners[n]) + 1] = Chosen(n)
            /\ DOMAIN winners[n] = 1..Len(winners[n])
        BY <1>1
      <4>2. 1..(Len(winners[n]) + 1) = 1..Len(winners[n]) \cup {Len(winners[n]) + 1}
        BY <1>1
      <4> QED  BY <1>2, <4>1, <4>2 DEF Round
    <3> QED  BY <1>1, <2>1, <2>3, <3>1 DEF Relayed
  <2> QED  BY <2>2, <2>3
<1> QED  BY <1>7, <1>8

-----------------------------------------------------------------------------
(* The theorems *)

\* The initial states.
LEMMA RoundInit == Init => RoundInv
<1> SUFFICES ASSUME Init PROVE RoundInv
  OBVIOUS
<1>1. /\ Order \in Seq(Nodes) /\ DOMAIN Order = 1..Len(Order) /\ Len(Order) \in Nat
      /\ \A i \in DOMAIN Order : Order[i] \in Nodes
  BY Periods
<1>2. Lockstep
  <2>1. \A i \in DOMAIN Order : Ahead(i) = 0 /\ time[Order[i]] = 0
    BY <1>1 DEF Init, Ahead
  <2> QED  BY <2>1 DEF Init, Lockstep
<1>3. ASSUME NEW n \in Nodes PROVE Relayed(n)
  BY DEF Init, Relayed
<1>4. ASSUME NEW n \in Nodes, NEW m \in Nodes PROVE Recorded(n, m)
  BY DEF Init, Recorded
<1>5. ASSUME NEW n \in Nodes PROVE Steady(n)
  <2>1. Polled(n)
    <3>1. Peers[n] \in SUBSET Nodes /\ byzantine \subseteq Nodes
      BY ElectionAssumption DEF Init
    <3> QED  BY <3>1, NoVotes DEF Init
  <2>2. ~Scanned(n)
    <3>1. Cycled(n) = 0
      BY Periods DEF Init, Cycled
    <3> QED  BY <3>1 DEF Init, Scanned
  <2> QED  BY <2>1, <2>2 DEF Init, Steady, Mined, Led, Left
<1> QED  BY <1>2, <1>3, <1>4, <1>5 DEF RoundInv

\* A step of a node leaves the other ones alone.
LEMMA Elsewhere ==
    ASSUME Inv, NEW n \in Nodes, StepOf(n)
    PROVE  UNCHANGED given /\ \A m \in Nodes \ {n} : SameRound(m)
<1>1. CASE Begin(n)
  BY <1>1 DEF Begin, SameRound, Goto, lead, Inv, Typed
<1>2. CASE VotesIn(n) \/ VoteLost(n)
  BY <1>2 DEF VotesIn, VoteLost, SameRound, Goto, lead, Inv, Typed
<1>3. CASE GetVote(n)
  BY <1>3 DEF GetVote, SameRound, step, Inv, Typed
<1>4. CASE \E p \in Nodes : AskVote(n, p)
  BY <1>4 DEF AskVote, SameRound, step, lead
<1>5. CASE RunMining(n)
  BY <1>5 DEF RunMining, MineWith, SameRound, Done, Inv, Typed
<1>6. CASE Tally(n) \/ Adopt(n)
  BY <1>6 DEF Tally, Adopt, SameRound, Goto, pings, Inv, Typed
<1>7. CASE Close(n)
  BY <1>7 DEF Close, SameRound, Done, Inv, Typed
<1>8. CASE RunBlock(n)
  BY <1>8 DEF RunBlock, SameRound, Done, Inv, Typed
<1> QED  BY <1>1, <1>2, <1>3, <1>4, <1>5, <1>6, <1>7, <1>8 DEF StepOf

\* Every step of the single loop.
LEMMA RoundStep ==
    ASSUME SteadyLoop, FewByzantine, Inv, CountInv, ConsistentInv, RoundInv, [Next]_vars
    PROVE  RoundInv'
<1>1. CASE UNCHANGED vars
  <2>1. UNCHANGED given /\ \A m : SameRound(m) /\ alive'[m] = alive[m]
    BY <1>1 DEF SameRound, vars, step, lead, pings, up
  <2>2. Lockstep'
    <3>1. \A i : Ahead(i)' = Ahead(i)
      BY <1>1 DEF Ahead, vars, step
    <3> QED  BY <1>1, <3>1 DEF RoundInv, Lockstep, vars, step
  <2>3. \A m \in Nodes : Steady(m) => Steady(m)'
    BY <2>1, SteadyKept
  <2>4. \A m \in Nodes : Chosen(m)' = Chosen(m)
    BY <2>1, ChoiceKept DEF SameRound
  <2>5. UNCHANGED <<winners, recent, completed, alive>>
    BY <1>1 DEF vars, lead, given, up
  <2>6. (\A m, o \in Nodes : Recorded(m, o))' /\ (\A m \in Nodes : Relayed(m))'
    BY <2>4, <2>5 DEF RoundInv, Recorded, Relayed, WithLeader
  <2>7. (AllAlive => \A m \in Nodes : Steady(m))'
    BY <2>3, <2>5 DEF RoundInv, AllAlive
  <2> QED  BY <2>2, <2>6, <2>7 DEF RoundInv
<1>2. ASSUME NEW n \in Nodes, StepOf(n)
      PROVE  RoundInv'
  <2>1. AtStep(n)
    <3>1. MyTurn(n)
      BY <1>2 DEF StepOf, Begin, VotesIn, GetVote, VoteLost, AskVote, RunMining, MineWith, Tally,
                  Adopt, Close, RunBlock
    <3> QED  BY <3>1 DEF MyTurn, SteadyLoop, AtStep, AllAlive
  <2>2. Lockstep'
    BY <1>2, <2>1, LockNext DEF AtStep, SteadyLoop, RoundInv
  <2>3. UNCHANGED given /\ \A m \in Nodes \ {n} : SameRound(m)
    BY <1>2, Elsewhere
  <2>4. AllAlive' => Steady(n)'
    <3> SUFFICES ASSUME AllAlive' PROVE Steady(n)'
      OBVIOUS
    <3>1. alive'[n] /\ alive[n] /\ ~LinkFaults
      BY <2>1 DEF AllAlive, AtStep, SteadyLoop, AllAnswer
    <3>2. ~VoteLost(n)
      BY <3>1 DEF VoteLost, Inv, Typed
    <3> QED  BY <1>2, <2>1, <3>1, <3>2, BeginSteady, GetVoteSteady, AskSteady, MineSteady, TallySteady,
                AdoptSteady, CloseSteady, BlockSteady DEF StepOf
  <2>5. AllAlive' => \A m \in Nodes : Steady(m)'
    <3>1. \A m \in Nodes \ {n} : Steady(m)'
      BY <2>1, <2>3, SteadyKept DEF AtStep, RoundInv
    <3> QED  BY <2>4, <3>1
  <2>6. (\A m, o \in Nodes : Recorded(m, o))' /\ (\A m \in Nodes : Relayed(m))'
    <3>1. CASE Close(n) /\ After(n, 2)
      BY <2>1, <3>1, CloseRecords
    <3>2. CASE ~(Close(n) /\ After(n, 2))
      <4>1. winners' = winners /\ recent' = recent
        BY <1>2, <3>2 DEF StepOf, Begin, VotesIn, GetVote, VoteLost, AskVote, RunMining, MineWith,
                          Tally, Adopt, Close, RunBlock, lead
      <4>2. \A m \in Nodes : Chosen(m)' = Chosen(m)
        BY <2>3, <4>1, ChoiceKept
      <4> QED  BY <2>3, <4>1, <4>2 DEF RoundInv, Recorded, Relayed, WithLeader, given
    <3> QED  BY <3>1, <3>2
  <2> QED  BY <2>2, <2>5, <2>6 DEF RoundInv
<1> QED  BY <1>1, <1>2 DEF Next

\* In the single loop, all the time that Byzantine robots are few.
THEOREM AlwaysRound == SteadyLoop => (Spec => [](FewByzantine => RoundInv))
<1> SUFFICES ASSUME SteadyLoop PROVE Spec => [](FewByzantine => RoundInv)
  OBVIOUS
<1>1. Init => CountInv /\ ConsistentInv /\ RoundInv
  BY CountInit, ConsistentInit, RoundInit
<1>2. Inv /\ CountInv /\ [Next]_vars => CountInv'
  BY CountStep DEF SteadyLoop
<1>3. Inv /\ ConsistentInv /\ [Next]_vars => ConsistentInv'
  BY ConsistentStep DEF SteadyLoop
<1>4. /\ Inv /\ CountInv /\ ConsistentInv /\ (FewByzantine => RoundInv) /\ [Next]_vars
      => (FewByzantine => RoundInv)'
  <2>1. [Next]_vars => byzantine' = byzantine
    BY DEF Next, StepOf, vars, given, Begin, VotesIn, GetVote, VoteLost, AskVote, RunMining, MineWith,
           Tally, Adopt, Close, RunBlock
  <2>2. byzantine' = byzantine => (FewByzantine' <=> FewByzantine)
    BY DEF FewByzantine
  <2> QED  BY <2>1, <2>2, RoundStep
<1> QED  BY <1>1, <1>2, <1>3, <1>4, AlwaysInv, PTL DEF Spec

\* The nodes of the single loop elect the same leaders, as long as the Byzantine
\* robots are fewer than half of the votes that are counted (LowestLast.run,
\* count_votes).
THEOREM AlwaysSameLeader == SteadyLoop => (Spec => [](FewByzantine => SameLeader))
<1> SUFFICES ASSUME SteadyLoop PROVE Spec => [](FewByzantine => SameLeader)
  OBVIOUS
<1>1. Inv /\ RoundInv => SameLeader
  <2> SUFFICES ASSUME Inv, RoundInv, NEW n \in Nodes, NEW m \in Nodes,
                      NEW r \in DOMAIN winners[n] \cap DOMAIN winners[m]
               PROVE  winners[n][r] = winners[m][r]
    BY DEF SameLeader
  <2>1. /\ winners[n] \in Seq(Ids) /\ winners[m] \in Seq(Ids) /\ Recorded(n, m) /\ Recorded(m, n)
        /\ DOMAIN winners[n] = 1..Len(winners[n]) /\ DOMAIN winners[m] = 1..Len(winners[m])
        /\ Len(winners[n]) \in Nat /\ Len(winners[m]) \in Nat
    BY DEF Inv, Typed, RoundInv
  <2>2. CASE Len(winners[n]) = Len(winners[m])
    BY <2>1, <2>2 DEF Recorded
  <2>3. CASE Len(winners[n]) = Len(winners[m]) + 1
    <3>1. winners[n] = Append(winners[m], Chosen(m)) /\ r \in 1..Len(winners[m])
      BY <2>1, <2>3 DEF Recorded
    <3> QED  BY <2>1, <3>1
  <2>4. CASE Len(winners[m]) = Len(winners[n]) + 1
    <3>1. winners[m] = Append(winners[n], Chosen(n)) /\ r \in 1..Len(winners[n])
      BY <2>1, <2>4 DEF Recorded
    <3> QED  BY <2>1, <3>1
  <2>5. Len(winners[n]) <= Len(winners[m]) + 1 /\ Len(winners[m]) <= Len(winners[n]) + 1
    BY <2>1 DEF Recorded
  <2> QED  BY <2>1, <2>2, <2>3, <2>4, <2>5
<1> QED  BY <1>1, AlwaysRound, AlwaysInv, PTL

\* Nobody is elected in the single loop who has not relayed a transaction that
\* was completed in the round, whatever one Byzantine robot votes, when three
\* votes or more are counted (add_recent_leader, winning_signatures).
THEOREM AlwaysLeaderOfRound ==
    SteadyLoop /\ NumNeighbours > 2 => (Spec => []LeaderOfRound)
<1> SUFFICES ASSUME SteadyLoop, NumNeighbours > 2 PROVE Spec => []LeaderOfRound
  OBVIOUS
<1>1. Inv /\ (FewByzantine => RoundInv) => LeaderOfRound
  <2> SUFFICES ASSUME Inv, FewByzantine => RoundInv, Cardinality(byzantine) <= 1 PROVE LeaderOfRound
    BY DEF LeaderOfRound
  <2>1. FewByzantine
    <3>1. byzantine \subseteq Nodes /\ IsFiniteSet(Nodes)
      BY ElectionAssumption DEF Inv, Typed
    <3>2. Cardinality(byzantine) \in Nat /\ NumNeighbours \in Nat
      BY <3>1, FS_Subset, FS_CardinalityType, ElectionAssumption
    <3> QED  BY <3>2 DEF FewByzantine
  <2> QED  BY <2>1 DEF RoundInv, Relayed, LeaderOfRound
<1> QED  BY <1>1, AlwaysRound, AlwaysInv, PTL

\* Every round of the single loop has at most one creator of its block, and one
\* when all nodes have left it, as long as the Byzantine robots are fewer than
\* half of the votes that are counted (the test of create_block).
THEOREM AlwaysOneCreator == SteadyLoop => (Spec => [](FewByzantine => OneCreator))
<1> SUFFICES ASSUME SteadyLoop PROVE Spec => [](FewByzantine => OneCreator)
  OBVIOUS
<1>1. Inv /\ RoundInv /\ SameLeader => OneCreator
  <2> SUFFICES ASSUME Inv, RoundInv, SameLeader, NEW r \in 1..MaxRound
               PROVE  /\ Cardinality(CreatorsOf(r)) <= 1
                      /\ (\A n \in Nodes : r \in DOMAIN winners[n]) => CreatorsOf(r) # {}
    BY DEF OneCreator
  <2>1. ASSUME NEW n \in Nodes, r \in DOMAIN winners[n] PROVE winners[n][r] \in Nodes
    <3>1. PICK sig \in completed[r] : sig.id = winners[n][r]
      BY <2>1 DEF RoundInv, Relayed
    <3>2. completed[r] \subseteq Sigs /\ Sigs \subseteq [id : Nodes, value : 0..(Inf - 1)]
      BY ElectionAssumption DEF Inv, Typed
    <3> QED  BY <3>1, <3>2
  <2>2. \A n \in Nodes : n \in CreatorsOf(r) <=> r \in DOMAIN winners[n] /\ winners[n][r] = n
    BY <2>1, ElectionAssumption DEF CreatorsOf, MayCreate
  <2>3. \A n, m \in CreatorsOf(r) : n = m
    <3>1. CreatorsOf(r) \subseteq Nodes
      BY DEF CreatorsOf
    <3> QED  BY <2>2, <3>1 DEF SameLeader
  <2>4. Cardinality(CreatorsOf(r)) <= 1
    <3>1. CASE CreatorsOf(r) = {}
      BY <3>1, FS_EmptySet
    <3>2. CASE CreatorsOf(r) # {}
      <4>1. PICK n : CreatorsOf(r) = {n}
        BY <2>3, <3>2
      <4>2. Cardinality({n}) = 1
        BY FS_Singleton
      <4> QED  BY <4>1, <4>2
    <3> QED  BY <3>1, <3>2
  <2>5. ASSUME \A n \in Nodes : r \in DOMAIN winners[n] PROVE CreatorsOf(r) # {}
    <3>1. PICK n \in Nodes : TRUE
      BY ElectionAssumption
    <3>2. winners[n][r] \in Nodes
      BY <2>1, <2>5
    <3>3. winners[winners[n][r]][r] = winners[n][r]
      BY <2>5, <3>2 DEF SameLeader
    <3> QED  BY <2>2, <2>5, <3>2, <3>3
  <2> QED  BY <2>4, <2>5
<1> QED  BY <1>1, AlwaysRound, AlwaysSameLeader, AlwaysInv, PTL
=============================================================================
