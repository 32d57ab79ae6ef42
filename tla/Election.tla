------------------------------ MODULE Election ------------------------------
(***************************************************************************)
(* How toychain nodes elect the leader of a round: the LowestLast state    *)
(* machine that Node.step drives by its timer, the VotePinger that collects*)
(* the votes of the peers, and the vote handler of their server threads.   *)
(*                                                                         *)
(* A step of a node is CustomTimer.step, then the pingers, then            *)
(* LowestLast.run. It is cut where another thread can see the state in     *)
(* between: at each vote the pinger fetches, between the two reads of the  *)
(* vote handler, and between the two writes that adopt a counted candidate.*)
(*                                                                         *)
(* An operator M_... is the one after it with an error, as in module Node. *)
(***************************************************************************)
EXTENDS Integers, Sequences, FiniteSets

CONSTANTS
    Nodes,            \* the robots
    Peers,            \* Peers[n]: the nodes in n.peers
    Order,            \* the nodes in the order in which the single loop steps them
    Suspects,         \* robots that may run LowestLastByzantine
    FirstByzantine,   \* the robot with id "1"
    Forged,           \* the id "0", of no robot
    Nil,              \* Python's None
    Inf,              \* float('inf'): more than every signature value
    Sigs,             \* signatures of completed transactions: [id, value]
    BlockPeriod,      \* BLOCK_PERIOD (100 in the code)
    VoteInterval,     \* VOTE_SYNC_INTERVAL (20 in the code)
    NumNeighbours,    \* num_neighbours
    MaxRecentLeaders, \* max_recent_leaders (7 in the code)
    ScanTicks,        \* bound: times within a cycle at which transactions complete
    MaxTime,          \* bound: steps a node takes
    MaxLead,          \* bound: steps a process may be ahead of another
    SameScan,         \* TRUE: all nodes find the same completed transactions
    LinkFaults,       \* TRUE: connections between robots may break
    OneThread         \* TRUE: one loop steps all nodes in turn (test/sync_test.py)

ASSUME ElectionAssumption ==
    /\ IsFiniteSet(Nodes) /\ Nodes # {}
    /\ Nil \notin Nodes /\ Forged \notin Nodes /\ Suspects \subseteq Nodes
    /\ Suspects # {} => Forged # Nil
    /\ Peers \in [Nodes -> SUBSET Nodes]
    /\ Order \in [1..Cardinality(Nodes) -> Nodes]
    /\ \A n \in Nodes : \E i \in DOMAIN Order : Order[i] = n
    /\ Inf \in Nat /\ Sigs \subseteq [id : Nodes, value : 0..(Inf - 1)]
    /\ BlockPeriod \in Nat \ {0, 1} /\ VoteInterval \in Nat
    /\ NumNeighbours \in Nat \ {0} /\ MaxRecentLeaders \in Nat \ {0}
    /\ MaxTime \in Nat /\ MaxTime % (3 * BlockPeriod) = 0     \* whole cycles
    /\ {SameScan, LinkFaults, OneThread} \subseteq BOOLEAN

VARIABLES
    time,       \* time[n]: n's CustomTimer
    pc,         \* pc[n]: how far n is in its step
    turn,       \* index in Order of the node that the single loop is at
    state,      \* state[n]: n's MiningStates
    candidate,  \* candidate[n]: candidate_state
    cache,      \* cache[n]: sig_chain_cache, [val, sig]
    votes,      \* votes[n]: vote_cache, the votes received
    recent,     \* recent[n]: recent_leaders
    winners,    \* winners[n]: node ids in winning_signatures
    on,         \* on[n]: the pingers whose flag is set
    sleep,      \* sleep[n]: sleep of n's VotePinger
    asking,     \* asking[n]: peers that the pinger has yet to ask
    reply,      \* reply[n]: the vote of the peer being asked, half read
    completed,  \* completed[r]: signatures of the transactions completed in round r
    byzantine,  \* robots that run LowestLastByzantine
    alive,      \* alive[n]: no exception has left n's step()
    server      \* server[n]: no exception has left n's server thread

step  == <<time, pc, turn>>
lead  == <<state, candidate, cache, votes, recent, winners>>
pings == <<on, sleep, asking, reply>>
up    == <<alive, server>>
given == <<completed, byzantine>>
vars  == <<step, lead, pings, given, up>>

Cycle == 3 * BlockPeriod
NoReply == [peer |-> Nil, vote |-> Nil]

\* The round n is in, counted from 1.
Round(n) == Len(winners[n]) + 1
MaxRound == MaxTime \div Cycle

-----------------------------------------------------------------------------
(* Scheduling *)

MyTurn(n) == alive[n] /\ (OneThread => Order[turn] = n /\ \A m \in Nodes : alive[m])

\* The single loop goes on to the next node when n's step is done.
Done(n) ==
    /\ pc' = [pc EXCEPT ![n] = "idle"]
    /\ turn' = IF OneThread THEN (turn % Len(Order)) + 1 ELSE turn

Goto(n, label) == pc' = [pc EXCEPT ![n] = label] /\ UNCHANGED turn

\* CustomTimer.step and the head of VotePinger.step. The other pingers do not
\* touch the election (module Node has what they do).
Begin(n) ==
    /\ MyTurn(n) /\ pc[n] = "idle" /\ time[n] < MaxTime
    /\ \A m \in Nodes : alive[m] => time[n] < time[m] + MaxLead
    /\ time' = [time EXCEPT ![n] = @ + 1]
    /\ \/ /\ "vote" \in on[n] /\ sleep[n] = 0
          /\ asking' = [asking EXCEPT ![n] = Peers[n]]
          /\ Goto(n, "ask") /\ UNCHANGED sleep
       \/ /\ "vote" \in on[n] /\ sleep[n] > 0
          /\ sleep' = [sleep EXCEPT ![n] = @ - 1]
          /\ Goto(n, "run") /\ UNCHANGED asking
       \/ /\ "vote" \notin on[n]
          /\ Goto(n, "run") /\ UNCHANGED <<sleep, asking>>
    /\ UNCHANGED <<lead, on, reply, given, up>>

\* A phase change stops one pinger and starts another.
M_VoteGoesOn(n, old, new) == (on[n] \ ({old} \ {"vote"})) \cup {new}
Switched(n, old, new) == (on[n] \ {old}) \cup {new}

-----------------------------------------------------------------------------
(* Collecting votes *)

\* VotePinger.get_vote: the server thread of p reads candidate_state ...
AskVote(n, p) ==
    /\ MyTurn(n) /\ pc[n] = "ask" /\ p \in asking[n] /\ reply[n] = NoReply
    /\ server[p] /\ \A m \in Nodes : reply[m].peer # p   \* one connection at a time
    /\ reply' = [reply EXCEPT ![n] = [peer |-> p, vote |-> candidate[p]]]
    /\ UNCHANGED <<step, lead, on, sleep, asking, given, up>>

\* ... and then sig_chain_cache; add_vote appends what it answers. Without a
\* cached signature vote_to_dict raises: p's server thread and n's main loop
\* end.
GetVote(n) ==
    /\ MyTurn(n) /\ reply[n] # NoReply
    /\ LET p == reply[n].peer
       IN  \/ /\ cache[p].sig # Nil
              /\ votes' = [votes EXCEPT ![n] =
                    Append(@, [vote |-> reply[n].vote, sig |-> cache[p].sig])]
              /\ asking' = [asking EXCEPT ![n] = @ \ {p}]
              /\ UNCHANGED <<on, up>>
           \/ /\ cache[p].sig = Nil
              /\ server' = [server EXCEPT ![p] = FALSE]
              /\ alive' = [alive EXCEPT ![n] = FALSE]
              /\ on' = [on EXCEPT ![n] = @ \ {"vote"}]
              /\ UNCHANGED <<votes, asking>>
    /\ reply' = [reply EXCEPT ![n] = NoReply]
    /\ UNCHANGED <<step, state, candidate, cache, recent, winners, sleep, given>>

\* Every peer has answered.
VotesIn(n) ==
    /\ MyTurn(n) /\ pc[n] = "ask" /\ asking[n] = {}
    /\ sleep' = [sleep EXCEPT ![n] = VoteInterval]
    /\ Goto(n, "run")
    /\ UNCHANGED <<time, lead, on, asking, reply, given, up>>

\* A connection breaks or the peer's server thread is gone. After the two
\* exceptions that the pinger prints, the other peers are not asked and sleep
\* stays 0: the next step asks everybody again.
VoteLost(n) ==
    /\ MyTurn(n) /\ pc[n] = "ask" /\ asking[n] # {} /\ reply[n] = NoReply
    /\ \/ /\ LinkFaults
          /\ Goto(n, "run") /\ UNCHANGED <<on, alive>>
       \/ /\ LinkFaults \/ \E p \in asking[n] : ~server[p]
          /\ alive' = [alive EXCEPT ![n] = FALSE]
          /\ on' = [on EXCEPT ![n] = @ \ {"vote"}]
          /\ UNCHANGED <<pc, turn>>
    /\ asking' = [asking EXCEPT ![n] = {}]
    /\ UNCHANGED <<time, lead, sleep, reply, given, server>>

-----------------------------------------------------------------------------
(* LowestLast.run *)

Cycled(n) == time[n] % Cycle

\* get_recent_count, compute_sig_value: each recent leadership doubles the
\* value. Two different signatures never have the same value.
SigValue(n, sig) ==
    sig.value * 2 ^ Cardinality({i \in DOMAIN recent[n] : recent[n][i] = sig.id})

\* calculate_lowest_signature of a Byzantine node: at the first completed
\* transaction it takes the signature it has forged.
Forgery(n, found) == IF found # {} /\ cache[n].sig = Nil THEN [val |-> 0, sig |-> Forged]
                     ELSE cache[n]

\* calculate_lowest_signature on the signatures found: n's cache afterwards.
Lowest(n, found) ==
    LET low == CHOOSE s \in found : \A t \in found : SigValue(n, s) <= SigValue(n, t)
    IN  IF n \in byzantine THEN Forgery(n, found)
        ELSE IF found # {} /\ SigValue(n, low) < cache[n].val
        THEN [val |-> SigValue(n, low), sig |-> low.id]
        ELSE cache[n]

\* The signatures of transactions that n's scan finds newly completed.
Found(n) == IF Cycled(n) \notin ScanTicks THEN {{}}
            ELSE IF SameScan THEN {completed[Round(n)]}
            ELSE SUBSET completed[Round(n)]

M_PhaseDoubled(n, k) == time[n] % (2 * BlockPeriod) > k * BlockPeriod
After(n, k) == Cycled(n) > k * BlockPeriod

\* The MINING phase with the signatures found in this step.
MineWith(n, found) ==
    /\ MyTurn(n) /\ pc[n] = "run" /\ state[n] = "MINING"
    /\ cache' = [cache EXCEPT ![n] = Lowest(n, found)]
    /\ \/ /\ ~After(n, 1)
          /\ UNCHANGED <<state, candidate, on, alive>>
       \/ /\ After(n, 1)
          /\ state' = [state EXCEPT ![n] = "LEADER"]
          /\ IF cache'[n].sig = Nil      \* None has no id: AttributeError
             THEN /\ alive' = [alive EXCEPT ![n] = FALSE]
                  /\ on' = [on EXCEPT ![n] = @ \ {"mempool"}]
                  /\ UNCHANGED candidate
             ELSE /\ candidate' = [candidate EXCEPT ![n] = cache'[n].sig]
                  /\ on' = [on EXCEPT ![n] = Switched(n, "mempool", "vote")]
                  /\ UNCHANGED alive
    /\ Done(n)
    /\ UNCHANGED <<time, votes, recent, winners, sleep, asking, reply, given, server>>

RunMining(n) == \E found \in Found(n) : MineWith(n, found)

\* count_votes: the candidate with most votes, the first one named if several
\* have as many.
VotesFor(n, w) == {i \in DOMAIN votes[n] : votes[n][i].vote = w}
FirstVote(n, w) == CHOOSE i \in VotesFor(n, w) : \A j \in VotesFor(n, w) : i <= j
Named(n) == {votes[n][i].vote : i \in DOMAIN votes[n]}
Favourite(n) ==
    CHOOSE w \in Named(n) : \A v \in Named(n) :
        \/ Cardinality(VotesFor(n, w)) > Cardinality(VotesFor(n, v))
        \/ /\ Cardinality(VotesFor(n, w)) = Cardinality(VotesFor(n, v))
           /\ FirstVote(n, w) <= FirstVote(n, v)

\* The vote count is due. The code tests for equality.
M_OneMore(n) == Len(votes[n]) > NumNeighbours
Complete(n) == Len(votes[n]) = NumNeighbours

M_AllOfThem(n, w) == Cardinality(VotesFor(n, w)) = NumNeighbours
M_NotHalved(n, w) == Cardinality(VotesFor(n, w)) > NumNeighbours
Majority(n, w) == Cardinality(VotesFor(n, w)) > NumNeighbours \div 2

\* LEADER phase: count the votes when num_neighbours have come in.
Tally(n) ==
    /\ MyTurn(n) /\ pc[n] = "run" /\ state[n] = "LEADER"
    /\ \/ /\ Complete(n) /\ Majority(n, Favourite(n))
          /\ candidate' = [candidate EXCEPT ![n] = Favourite(n)]
          /\ Goto(n, "adopt") /\ UNCHANGED votes
       \/ /\ Complete(n) /\ ~Majority(n, Favourite(n))
          /\ votes' = [votes EXCEPT ![n] = <<>>]
          /\ Goto(n, "close") /\ UNCHANGED candidate
       \/ /\ ~Complete(n)
          /\ Goto(n, "close") /\ UNCHANGED <<votes, candidate>>
    /\ UNCHANGED <<time, state, cache, recent, winners, pings, given, up>>

\* get_voted_signature: the signature that came with the first vote for the
\* favourite becomes the cached one.
M_AdoptedFirst(n, w) == [val |-> w, sig |-> votes[n][1].sig]
M_AdoptedId(n, w) == [val |-> w, sig |-> w]
Adopted(n, w) == [val |-> w, sig |-> votes[n][FirstVote(n, w)].sig]

Adopt(n) ==
    /\ MyTurn(n) /\ pc[n] = "adopt"
    /\ cache' = [cache EXCEPT ![n] = Adopted(n, candidate[n])]
    /\ votes' = [votes EXCEPT ![n] = <<>>]
    /\ Goto(n, "close")
    /\ UNCHANGED <<time, state, candidate, recent, winners, pings, given, up>>

\* add_recent_leader.
WithLeader(leaders, w) ==
    Append(IF Len(leaders) = MaxRecentLeaders THEN Tail(leaders) ELSE leaders, w)

\* The test of create_block. A Byzantine node signs with the forged key then.
M_AnyByzantine(n, w) == w = n \/ (n \in byzantine /\ w = Forged)
MayCreate(n, w) == w = n \/ (n \in byzantine /\ n = FirstByzantine /\ w = Forged)

\* The test for the end of the LEADER phase. (The block that the leader
\* creates here is in module Node.)
Close(n) ==
    /\ MyTurn(n) /\ pc[n] = "close"
    /\ \/ /\ After(n, 2)
          /\ state' = [state EXCEPT ![n] = "BLOCK"]
          /\ recent' = [recent EXCEPT ![n] = WithLeader(@, candidate[n])]
          /\ winners' = [winners EXCEPT ![n] = Append(@, cache[n].sig)]
          /\ on' = [on EXCEPT ![n] = Switched(n, "vote", "chain")]
       \/ /\ ~After(n, 2)
          /\ UNCHANGED <<state, recent, winners, on>>
    /\ Done(n)
    /\ UNCHANGED <<time, candidate, cache, votes, sleep, asking, reply, given, up>>

\* update_post_vote, and the end of the round.
NoSignature(n) == [val |-> IF n \in byzantine THEN 0 ELSE Inf, sig |-> Nil]
M_KeepSignature(n) == [val |-> Inf, sig |-> cache[n].sig]
ResetCache(n) == NoSignature(n)

RunBlock(n) ==
    /\ MyTurn(n) /\ pc[n] = "run" /\ state[n] = "BLOCK"
    /\ cache' = [cache EXCEPT ![n] = ResetCache(n)]
    /\ candidate' = [candidate EXCEPT ![n] = Nil]
    /\ \/ /\ Cycled(n) < BlockPeriod
          /\ state' = [state EXCEPT ![n] = "MINING"]
          /\ on' = [on EXCEPT ![n] = Switched(n, "chain", "mempool")]
       \/ /\ Cycled(n) >= BlockPeriod
          /\ UNCHANGED <<state, on>>
    /\ Done(n)
    /\ UNCHANGED <<time, votes, recent, winners, sleep, asking, reply, given, up>>

-----------------------------------------------------------------------------
(* The specification *)

Init ==
    /\ byzantine \in SUBSET Suspects
    /\ time      = [n \in Nodes |-> 0]
    /\ pc        = [n \in Nodes |-> "idle"]
    /\ turn      = 1
    /\ state     = [n \in Nodes |-> "MINING"]
    /\ candidate = [n \in Nodes |-> Nil]
    /\ cache     = [n \in Nodes |-> NoSignature(n)]
    /\ votes     = [n \in Nodes |-> <<>>]
    /\ recent    = [n \in Nodes |-> <<>>]
    /\ winners   = [n \in Nodes |-> <<>>]
    /\ on        = [n \in Nodes |-> {"mempool"}]
    /\ sleep     = [n \in Nodes |-> 0]
    /\ asking    = [n \in Nodes |-> {}]
    /\ reply     = [n \in Nodes |-> NoReply]
    /\ completed \in [1..MaxRound -> SUBSET Sigs]
    /\ alive     = [n \in Nodes |-> TRUE]
    /\ server    = [n \in Nodes |-> TRUE]

StepOf(n) == \/ Begin(n) \/ VotesIn(n) \/ GetVote(n) \/ VoteLost(n)
             \/ \E p \in Nodes : AskVote(n, p)
             \/ RunMining(n) \/ Tally(n) \/ Adopt(n) \/ Close(n) \/ RunBlock(n)

Next == \E n \in Nodes : StepOf(n)

Spec == Init /\ [][Next]_vars

\* A node's loop goes on stepping it until an exception ends the loop.
FairSpec == Spec /\ \A n \in Nodes : WF_vars(StepOf(n))
=============================================================================
