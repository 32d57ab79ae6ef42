# toychain, Proof of Relay: models, checks and proofs

toychain is a small blockchain for robot swarms. Every robot runs a `Node`: a
chain, a mempool, a TCP server thread, and a main loop that calls `Node.step`
once per control tick. Robots pass transactions on to the neighbours in range,
each hop signs, and the signatures of completed transactions decide by a vote
who makes the next block (*Proof of Relay*). This directory models that
protocol in TLA+, checks it with TLC and proves part of it with TLAPS.

## 1. The system

| part | source (`src/src/`) | state | operations |
|---|---|---|---|
| Node | `Node.py` | chain, mempool, `previous_transactions_id`, `my_transactions`, peers, timer | `step`, `send_transaction`, `find_missing_transactions`, `sync_mempool`, `sync_chain` |
| Message handler | `connections/MessageHandler.py` | none of its own | five request handlers (run by the server thread of the peer), five answer handlers (run by the main loop that asked) |
| Pingers | `connections/Pingers.py` | `flag`, `sleep` | one per phase: mempool, vote, chain; each asks all peers, then sleeps |
| Server thread | `connections/NodeServerThread.py` | socket, terminate flag | accepts one connection at a time; `send_request` blocks the caller |
| Proof of Relay | `consensus/ProofOfRelay.py` | `LowestLast`: state, candidate, cached signature, votes, recent leaders, winning signatures, checked ids | `run` (MINING, LEADER, BLOCK), `count_votes`, `create_block`, `verify_chain` |
| Transactions | `Transaction.py` | signature chain, `completed` | `add_signature`, `validate_transaction`, conversion to JSON and back in place |
| Blocks | `Block.py` | header, data, state, signature | hashes, signature |
| Contract state | `State.py` | balances, counter, contract variables | `apply_transaction` |
| Byzantine node | `consensus/ProofOfRelayByzantine.py` | a forged signature | overrides of `LowestLast` |
| Older consensus | `consensus/ProofOf{Auth,Stake,Work}.py` | | none: they raise when imported, as their genesis blocks pass arguments that `Block` has lost |
| Driver | `test/sync_test.py` | | one loop that steps three nodes in turn |

**How they interact.** The main loop of a node sends a request and waits; the
server thread of the peer answers from the peer's live state; the answer
handler runs in the requester's main loop and may send the next request of the
same exchange (offer, request, transactions; or height, hashes, blocks). No
lock protects a node's state from its own server thread. A phase change
switches one pinger off and the next one on.

**What is hard.** Two threads per node and one exchange across two nodes;
timers that drift between processes; links that break whenever robots move
apart; exceptions, which are not handled: one in a handler ends the server
thread for good, one in `step` ends the main loop while the server thread goes
on answering. The hazards this gives rise to are listed with their lines in
`PROJECT.json`.

**What makes each part correct.** Node: no transaction is lost, in two blocks,
or both waiting and included, and a chain only changes by a block that fits.
Exchanges: what was decided from an earlier answer still holds when the next
one is applied, and every exchange ends. Relay: a signature chain is a simple
path, as every hop is a chance to lead. Election: votes belong to the round, all
are counted, all nodes elect one leader, of that round, and nobody gets stuck.
Verification: only the elected leader's block is taken from a peer. Server
thread: a call is handled once, answered whole or not at all, and ends. Shared
transactions: a conversion by one thread does no harm to what the other one
reads. Contract state: money is neither made nor lost, every node has the same
state, and no contract function takes effect twice.

## 2. The modules

| module | what it is |
|---|---|
| `Node` | the network of nodes: transactions, mempools, chains, phases, exchanges, failures |
| `NodeProperties` | what `Node` should satisfy; the refinement mapping to `ReplicatedLog` |
| `ReplicatedLog` | the abstract specification of the chains |
| `MCNode`, `Node*.cfg` | instances of `Node` for TLC |
| `NodeProofs` | proofs: types, block answers, append-only chains, transactions |
| `ChainProofs` | proofs: linked and agreeing chains, leader signatures, refinement; mempool requests, signature chains, completed copies |
| `Election` | how the leader of a round comes about, step by step, Byzantine nodes included |
| `ElectionProperties` | what `Election` should satisfy |
| `MCElection`, `Election*.cfg` | instances of `Election` for TLC |
| `ElectionProofs` | proofs: types, vote requests, counts, outcomes; one leader, of the round, and one creator, in the single loop |
| `PoRSystem`, `MCSystem`, `System.cfg` | `Node` and `Election` together, in the loop of `sync_test.py`; its properties and an instance |
| `SystemProofs` | proofs: `PoRSystem` implements `Node`; one chain, indexed like the winning signatures, while elections are unanimous |
| `PromptProofs` | proofs: elections are unanimous when transactions are sent early enough; hence all properties of `PoRSystem` but liveness |
| `Framing` | a server thread and its clients on TCP streams |
| `FramingProperties` | what `Framing` should satisfy; the refinement mapping to `Rpc` |
| `Rpc` | the abstract specification of `send_request` |
| `MCFraming`, `Framing*.cfg` | instances of `Framing` for TLC |
| `FramingProofs` | proofs: `Framing` implements `Rpc`; without trouble nobody raises but by a handler's exception |
| `SharedTransaction`, `Shared.cfg` | two threads that convert one transaction to JSON and back |
| `SharedProofs` | proofs: order of entries, work of one thread, harmless scans |
| `Balances`, `MCBalances`, `Balances.cfg` | the contract state that blocks carry |
| `BalancesProofs` | proofs: types, contract calls, who may be in debt, total of the money, replay |

### Node

State and code correspond as follows; `map` in `PROJECT.json` has the lines.

* `chain[n]` is `Node.chain` without the genesis block, `mempool[n]` the
  dictionary (a function from ids to copies or `Nil`), `previous[n]` the set of
  included ids, `sent` all `my_transactions`.
* `winning[n]`, `checked[n]`, `state[n]` are those fields of `LowestLast`.
* `request[n]` is the exchange that n's main loop is blocked in: `"missing"`
  and `"block"` are waiting for the peer's server thread (`AnswerMissing`,
  `AnswerBlock`), `"txs"` and `"blocks"` are answers that the main loop has not
  applied yet (`ReceiveTransactions`, `ReceiveBlocks`). Everybody else may move
  between any two of these actions.
* `alive[n]` and `server[n]` say that no exception has left n's main loop and
  server thread.

The offer of a mempool or of a chain height is read and compared in one action
(`MempoolSync`, `ChainSync`), since nothing but the next request depends on it;
an exchange that ends there changes nothing and is no action. `SendTransaction`
is the robot controller's call. `EndMining`, `EndElection` and `EndRound` are the phase changes of
`LowestLast.run`; the mempool scan, which the code repeats in each step of the
MINING phase, is made once at its end, as transactions only join the mempool
meanwhile. Each action carries everything its handler does, for instance
`CreateBlock` the clearing of the mempool. A handler whose reads are disturbed
by the main loop of its own node raises: `ServerRaces` ends a server thread
while anybody may be asking it.

The vote is *not* computed in `Node`: `EndElection(n, w, s)` takes every
candidate w and every signature owner s that a node may hold at that point
(`Elected`), so that what is proved of `Node` holds whatever the vote does.
`Election` shows where the restrictions in `Elected` come from: in the single loop w
is s or None (`OutcomeConsistent`); in separate processes a vote that is read
between lines 155 and 156 of `ProofOfRelay.py` may pair the candidate of one
count with the signature of another, so any pair is possible.

`OneThread` chooses between the single loop of `sync_test.py` and a process per
robot; `Unanimous` makes all nodes get the same outcome in the same round.

Data that the properties do not tell apart is abstract. A block has two hashes.
`Hash`, the one that its child names as parent and by which `sync_chain` inserts, covers
the whole block, so that miner and round identify it: within a round a leader
stamps one block. `HeaderHash`, by which peers compare their chains, is the fields it
covers: parent, hash of the transactions, stamp and nonce, but neither miner nor
height. Two leaders of a round may thus make blocks with one header. `Nonces` stands for all
that varies in a header besides: the random nonce, the tick
of the round, the order of the transactions. The signature of a block is its miner; a
signature chain is a sequence of hops. All keys, addresses and payloads are
gone. A timestamp is the number of the round, because stamps of different rounds
are at least `BLOCK_PERIOD` ticks apart, and no two of one node are of one round.

One guard can never hold and is kept because the code has it: in
`AnswerBlock` a peer's chain that ends below the sent hashes (`AnswersFit`; chains do not
shrink). A chain of several blocks that `verify_chain` rejects without an exception takes a third robot:
its last stamps are of one round. A single block that does not fit the chain below it
does come: it was sent as the one above a header that two different blocks have.

### Election

`Election` cuts a step of a node where another thread can see the state in
between: at each vote it fetches (`AskVote`, `GetVote`: the vote handler reads
the candidate and the cached signature one after the other) and between the two
writes that adopt a counted candidate (`Tally`, `Adopt`). `time[n]` is the
`CustomTimer`, and the phase tests are those of the code, with its constants in
the runs of the single loop. Which transactions complete in a round is an
arbitrary set of signatures `completed[r]`, found by a node's scan at the times
`ScanTicks`. Two different signatures have different values under every penalty,
as 512-bit numbers do.

Any of the `Suspects` may run `LowestLastByzantine`: at the first completed
transaction such a node caches a signature of the id "0" with the value 0
(`Forgery`), votes for it, and the node with the id "1" creates the block if
that candidate wins (`MayCreate`).

### PoRSystem

Here the vote is about something: `Fresh(n)` are the signatures of the completed
transactions that the mempool exchange has brought to node n, and `Close(n)` is
`Election`'s end of the vote and `Node`'s `EndElection` with its outcome in one
action. Each joint action is an action of one module with what the same
statements do in the other; phase, winners and the two flags for exceptions are
shared variables. The mempool and chain pingers of `Pingers.py`, with their sleep
counters, decide when nodes ask each other, and nodes are asked in any order,
as a Python dictionary may give them. Transactions are sent at the ticks
`SendTicks`, or never. `ImplementsNode` says that the whole is an
instance of `Node` in which each election has *one* outcome, which is what
`Unanimous` assumes.

### Framing and Rpc

A message is a number of bytes and a stream has a part that is under way and a
part that has arrived. `Receive` is one `recv`; after a full packet the thread
goes on waiting, until the peer closes or the timeout expires (`ReceiveEnds`),
and time passes only when nobody can do anything (`Tick`). Python's reference
counts matter: the server's end of a connection is closed when `client_sock` is
assigned the next one, or with the frames of a thread that ends (`ServerOpen`).
`Complete` is the success of `pickle.loads`. A handler may raise at either end once the
whole message is there (`Handle`, `Raise`): in the server thread, which ends it without an
answer, and in the client, which has its answer and does not go on. `failed` remembers who ended by
an exception of its own handler. What the main loop does with an
exception is in `Election` and `Node`, and which handlers raise when. `Rpc` is what a caller may rely on.

### SharedTransaction

One `Transaction` object, whose signature chain is a list of references to
entries, and two threads. Every attribute that `sig_chain_to_json` and
`json_to_sig_chain` read, convert and write back is a step, as is each
assignment of the list and of the tag; the operations are those that call the
two (hashing a block, sending or forwarding a transaction, answering a vote
request) and the scan of the main loop. `Convert` says which conversions of an
already converted field raise a TypeError and which give other bytes.

### Balances

`StartBlock`, `ApplyNext`, `AppendBlock` are `create_block`, one transaction at a
time on the copied state; an exception of a contract function leaves it and
ends the node's main loop. A contract function returns or raises, and what it
does to the state is its entry in `calls`. A value is any integer, for no code looks at its
sign. A node that takes a block takes the
state that comes with it (`SyncChain`), which no code compares with the data.

### ReplicatedLog

What the chains promise without any assumption about elections: a log grows by
one entry at a time, either an entry that nobody has, with items not yet in the
log, or a copy of the next entry of a replica whose log extends one's own. Forks
are not excluded. `ImplementsLog` maps a chain to the log of its hashes and
transaction ids.

## 3. The runs

Every run finishes within about two minutes with two workers, most within one.

| run | states | question and answer |
|---|---|---|
| `node_processes` | 797,906 | Two processes, any election outcome, timers up to a full round apart, blocks of two leaders with equal headers, broken links, exceptions. All consistency properties of transactions and chains hold, the chains implement `ReplicatedLog`, and exchanges end. |
| `node_relay` | 1,012,380 | Three processes relay one transaction by every route and in every order. Signature paths are simple, completed copies agree. |
| `node_behind` | violation | A node that missed a round is sent two blocks; it can never accept them. |
| `election_mesh` | 294,260 | Four nodes in range of each other, the constants of the code, two rounds, none, one or both of the last two nodes Byzantine. Each collection of three votes is counted at once and all rounds complete. With at most one Byzantine node each leader has relayed a transaction of its round; with two, exactly one node creates a block whoever wins. |
| `election_converges` | 264,196 | Four nodes that scanned different transactions leave the vote with one leader, and with the key that goes with it. |
| `election_processes` | 1,399,314 | Two processes, broken links, retries: types, and which vote requests can end a server thread. |
| `election_missed_count` | violation | With two peers, the votes are never counted: the number goes from two to four, and the test is for three. |
| `system` | 48,902 | Node and election together, four nodes, three transactions, two rounds, the constants of the code. The computed votes are unanimous, there is one chain, indexed like the winning signatures; every leader relayed a transaction of its block; what is sent at least two mempool exchanges before the vote is on every chain at the end of the round; a round with such a transaction never raises, and no server thread ends. |
| `framing` | 282,198 | Two clients, a server thread that may be stopped, handlers that raise at either end, messages that are lost or fill their last packet: at most one handler run to its end per call, answers are whole, nobody is stuck. Without loss, full last packet and stop only handlers raise, and a caller by the server's handler at most. |
| `framing_split` | violation | A message that arrives in two pieces is cut after the first one. |
| `shared` | 435,863 | Main loop and server thread in every interleaving. No entry of a signature chain is lost or moved. One thread at a time leaves everything as it was; while the main loop only scans, what the server thread sends is right. |
| `balances` | 563,391 | Two nodes, five transfers in any order and any blocks, one whose contract function raises and one of a negative value. An account is in debt only if it is the destination of the negative value, the total stays, every block's state is the replay of all data up to it, and contract functions take effect once. |

**Bounds.** Two robots suffice for everything in an exchange, which has two
parties; two rounds give chains of equal and different lengths, forks, a block that does not verify and
a peer two blocks ahead; `HashWindow = 1` in `node_processes` makes the search for a common
block ask again with chains of two blocks, as five hashes do with chains of six
(the code's five are used elsewhere), and two `Nonces` let headers of two leaders be equal or
not (one elsewhere, where headers are equal whenever the code allows it). `MaxSkew = 3` lets one timer be a whole
cycle ahead. Three robots are the least with a relay, and the least number in
which a hop could turn back or two routes meet; one round is enough there, as a
block only removes copies. In `Election` and `PoRSystem` four robots are the least for which
all votes of a collection are counted (`num_neighbours` is at least three);
`election_processes` shortens the periods to two ticks so that all
interleavings of four phase cycles can be explored: the phase tests are about
multiples of the period. `TwoSigs` and `ThreeSigs` have values that a penalty
of one or two doublings reorders. In `election_converges` at least two of four
nodes start with the same candidate, as there are three signatures; with four
different candidates a tie is never broken. In `system` one transaction is sent
promptly in each round, at the first or the last possible exchange, and one so
late that its completion does not reach everybody. Without the late one the robots of `system` meet the assumptions of `PromptProofs`, which TLC evaluates (`PromptAssumption`). In `framing`, sizes of one to
three halves of a packet are a short message, one that fills its packet, and
one of two packets; two clients are the least that queue, and two calls of each
the least in which a late answer could meet the next call; any handler may raise at any call. `shared` has two hops,
so that a thread can be overtaken in the middle of a chain, and two operations
of each thread. In `balances` a transfer has funds only after another, one is
to its own sender, one has a negative value that its destination does not have, and two blocks of two suffice to have all of these in one
block, in two, or in the blocks of two nodes.

**Deadlock** is not checked: every run may stop, when the bounds are reached or
when exceptions have ended all main loops, which the code does allow.

**Fairness.** `Node`'s `FairSpec` has weak fairness of `Exchange(n)` only: a
blocked `send_request` returns, because the peer's server thread serves one
connection after the other without waiting for anyone, and otherwise `receive`
gives up after 50 seconds. Nothing is assumed about timers or pingers.
`Framing`'s has weak fairness of threads, packets and the clock together: this is
where the former is shown (`NobodyStuck`). `Election`'s and `PoRSystem`'s
have weak fairness of each node's step: the loop goes on until an exception ends it.

Each property of each passing run has a mutant in `PROJECT.json`: an operator
`M_...` that stands before the definition it replaces and is used by none.

## 4. What is proved

For every set of robots and transactions, every route, window, bound and
outcome of the elections, in both schedules and with all failures of `Node`:

| theorem | property |
|---|---|
| `TypeCorrect` | `TypeOK` |
| `AnswersAlwaysFit` | `AnswersFit` |
| `ChainsAppendOnly` | `AppendOnly` |
| `PreviousIdsAlwaysExact`, `MempoolAlwaysOffChain`, `OwnTransactionsAlwaysKept` | the properties they are named for |
| `PrefixesAlwaysAgree`, `AlwaysLeaderSigned`, `NeverIncludedTwice` | `PrefixAgreement`, `LeaderSigned`, `NoDoubleInclusion` |
| `ChainsAlwaysLinked` | `ChainsLinked`: consecutive heights, each block names the one below (in no run) |
| `RequestsAlwaysCurrent`, `RelayPathsAlwaysSimple`, `CompletedCopiesAlwaysAgree` | `RequestsCurrent`, `RelayPathSimple`, `CompletedCopiesAgree` |
| `ChainsImplementLog` | `ImplementsLog` |

For every set of nodes, peers and Byzantine robots, period, penalty and interleaving of `Election`:

| theorem | property | under |
|---|---|---|
| `TypesAlwaysRight` | `TypeOK` | |
| `VotersKeepServer` | `ServerEndsWithoutSignature` | |
| `VotesAlwaysCounted` | `VotesCounted` | `AllAnswer` |
| `OutcomeAlwaysConsistent` | `OutcomeConsistent` | `OneThread` |
| `AlwaysSameLeader` | `SameLeader` | `SteadyLoop`, `FewByzantine` |
| `AlwaysLeaderOfRound` | `LeaderOfRound` | `SteadyLoop`, `NumNeighbours > 2` |
| `AlwaysOneCreator` | `OneCreator` | `SteadyLoop`, `FewByzantine` |

`AllAnswer`: no connection breaks, and every node has as many peers as votes are
counted (`num_neighbours`). `SteadyLoop`: that, in the single loop, all scans
of a round find the same transactions, and the vote pinger sleeps less than a
period. `FewByzantine`: fewer than half of the counted votes can come from Byzantine robots.
With the code's constants (three votes, 20 and 100 ticks) these are a mesh of four
robots with one Byzantine robot at most. `election_missed_count`, `election_processes` and
`election_mesh` with two Byzantine robots show what happens without them.

For all robots and ranges, periods, transactions and values of signatures in `PoRSystem`:

| theorem | what it says |
|---|---|
| `AlwaysInStep` | `SystemInv`, the inductive invariant below |
| `ServersAlwaysUp` | `ServersUp`: no exception ends a server thread |
| `NodeImplemented` | `Spec => N!Spec`: the network is an instance of `Node` in one loop, with whatever outcomes its votes have |
| `AlwaysInAgreement` | the two modules agree on each step: `Node`'s guards for the schedule hold when the loop is at a node, the outcome of a vote is a candidate with its own signature or none, and both say the same of the exception at the end of a MINING phase without signature |

By `NodeImplemented` what is proved of `Node` (for any outcome of votes) holds of the network without a
hypothesis: linked chains that only grow and agree below equal headers, no transaction included
twice, exact previous ids, simple relay paths, the abstract log. `AlwaysInAgreement` is the other half: a joint action is the conjunction
of an action of each module, so it could be an instance of `Node` merely because one module blocks
the other. They do not, except for the bound `MaxTime`.

For every mesh of robots and all periods in `PoRSystem`:

| theorem | property |
|---|---|
| `UnanimousNoFork` | `NoFork` |
| `UnanimousWinnerPerBlock` | `WinnerPerBlock` |
| `UnanimousSynchronised` | a node that goes on to the next round has a block for each round so far |

These three are `Meshed => (Spec /\ ImplementsNode => [] ...)`, whoever sends what and when. `Meshed`: everybody is in range of
everybody, and the chain pinger has a pass to spare in the BLOCK phase
(`SyncInterval + 1 < BlockPeriod`; the code has 20 and 100). `ImplementsNode` enters as a
hypothesis about the behaviour: the elections of a round have one outcome. Whether the computed votes
have one depends on how many exchanges fit between a transaction and the vote.

For a mesh of robots that send early enough and count as many votes as each has peers (in the code, four robots), any number of rounds, and any periods, transactions and
signatures, that hypothesis is a theorem, and nothing is assumed of the behaviour. Each of these is `PromptMesh => (Spec => ...)`:

| theorem | property |
|---|---|
| `PromptImplementsNode` | `ImplementsNode`: each round's vote has one outcome, so that the network is an instance of `Node` with unanimous elections |
| `PromptNoFork`, `PromptWinnerPerBlock` | `NoFork`, `WinnerPerBlock` |
| `PromptSynchronised` | a node that goes on to the next round has a block for each round so far |
| `PromptLeaderRelayed` | `LeaderRelayed` |
| `PromptOnlyIdleRoundsStop` | `OnlyIdleRoundsStop` |
| `PromptRoundDelivers` | `RoundDelivers` |
| `AlwaysPrompt` | the inductive invariant `PromptInv` below |

`PromptMesh` is `Meshed` with the following, and the robots of the run `system` meet all of it when
the late transaction is left out (`PromptAssumption` in `MCSystem`, evaluated in that run):

* `OncePerPass`: the loop steps each of finitely many robots once in a pass, and `num_neighbours` is the number of
  everybody's peers. The code computes it from the number of robots: for four robots it is three.
* All transactions are `Prompt`, that is, sent by tick `BlockPeriod - 2 * (SyncInterval + 1)` of a MINING phase (58 of
  100 in the code): two passes of the mempool pinger then begin before the vote. One that is sent later may be
  known as completed to some robots only; the `system` run has such a transaction.
* `Distinct`: signatures of two robots do not have equal values after any numbers of penalties. In the code the
  values are those of 64-byte signatures, shifted by a few bits.
* Nobody sends to itself: a source has its transaction and asks nobody for it, so such a transaction never completes.

For every set of clients, sizes of messages and timeout in `Framing`:

| theorem | property | under |
|---|---|---|
| `CallsImplementRpc` | `ImplementsRpc` | (also when messages are cut) |
| `OnlyOwnHandlersRaise` | `OnlyHandlersRaise` | `Whole` |

For every length of the signature chain and number of operations in
`SharedTransaction`:

| theorem | property |
|---|---|
| `OrderAlwaysKept`, `SerialAlwaysWorks`, `ReaderAlwaysHarmless` | `OrderKept`, `SerialWorks`, `ReaderHarmless` |

For every set of nodes, accounts and transfers, of values of either sign, in `Balances`:

| theorem | property |
|---|---|
| `OnlyNegativeValuesOverdraw`, `CallsAlwaysOnce` | `OnlyNegativeOverdraws`, `CallsOnce` |
| `MoneyAlwaysKept`, `StateAlwaysReplay` | `MoneyKept`, `StateIsReplay` |

Assumptions on constants are only those of the modules, which TLC evaluates in each run:

* `Node`: `TxsAssumption`, `BoundsAssumption` (there is a nonce), and `NilAssumption` (None is
  neither a node nor a copy); `Nodes` need not be finite.
* `Election`: `ElectionAssumption` (finitely many nodes, at least one; the loop steps each of
  them; values of signatures are below `Inf`; a period has two ticks or more; None, `Nil`, is no node).
* `PoRSystem`: `SystemAssumption`, the same kind of typing (at least one vote is counted and one recent
  leader kept; values stay below `Inf` under any number of penalties, as numbers do in the code), and `RequestAssumption` (None is no copy of a transaction and no request).
* `Framing`: `FramingAssumption` (the server is no client, messages are not empty).
* `SharedTransaction`: `SharedAssumption` (a signature chain has an entry).
* `Balances`: `BalancesAssumption` (genesis balances are natural numbers, values are
  integers, finitely many accounts have a genesis balance).

Every inductive invariant below was checked with TLC on the instances of the runs
before it was proved, that for `PromptMesh` on three robots with phases of six ticks instead (four rounds,
for which `system` is too large). The prover cannot cite a theorem of a module that is brought in
by INSTANCE: `SystemProofs` proves what it needs of `Election` and `Node` itself.

**The argument for `Node`.** At first sight `sync_chain` may rewrite a chain, and nothing
is invariant. The proofs go in layers, each an invariant that relies on the first ones:

1. `TypeOK /\ AnswersFit` (theorem `TypesAndFit`). A pending block answer is a
   segment of the peer's current chain above a height with one header in both, and reaches
   above the requester's chain. Only a single block passes `verify_chain`, and then
   it goes on top: `InsertsOne`, `NothingDiscarded`. So a step that changes a chain
   adds one block to one chain (`ChainSteps`): the node *mines* it or *takes* it
   from a peer. That keeps pending answers fitting, as no chain shrinks, and gives `AppendOnly`.
2. `TransactionInv`, by `Mines` and `Takes`: ids follow the chain exactly, the
   mempool is off the chain, what was sent is kept. It needs the first layer, for
   without it discarded blocks would have to be followed through `sync_chain`.
3. `LogInv`: blocks are linked, chains that share a block agree below it,
   leader signatures, no double inclusion. `HashAgreement`, that two chains which share a block
   share all below it, is about the block hash. It needs that a new block has a hash that no block has, which
   follows from `StampsPast` (a leader's blocks are of rounds it has finished), and that
   the node that takes a block then has its peer's prefix (`TakesCopy`): the answer starts above
   equal *headers*, which may be of two blocks, but a block is only inserted if its parent is the block
   hash of the one below. `PrefixAgreement` follows for headers (`HeadersAgree`): equal
   headers have equal parents, hence, chains being linked, one height and one
   prefix. The refinement follows: mining is `Create`, taking is `Copy`.

4. `PathInv` (on the first two layers): once a robot has a transaction, in its
   mempool or on its chain (`Knows`), it has it for ever, and whoever a copy is
   signed for has it. A peer signs a copy for a robot only if that robot does not have
   the transaction *when the copy is signed*: between the offer and the answer
   the peer's copy may have been completed or gone into a block, but a robot that
   waits takes nothing else (`GoodQuestion`, `GoodAnswer`). So a path never
   returns (`LongerPath`). An uncompleted copy that reaches its destination finds no
   completed one anywhere, as each of those is signed for the destination,
   which does not know the transaction yet (`ReceivePaths`).

**The argument for `Election`.** `ElectionProofs` needs no schedule. `OnTime`
relates a node's phase to its timer and to the number of winners it has recorded, within
the one tick by which its step may be ahead: so a phase is never skipped.
`Voting` says what a node holds in the LEADER phase: entering it without a signature
raises before anybody can ask, and later counts only choose among candidates that somebody has
voted for. `InHand` types the vote between its two reads. `Collected` counts votes and
open requests of a node: when all peers answer, their sum stays `NumNeighbours`, and the test for
that number comes at the end of the same step, so the number is met
and never passed. `Consistent` is the pairing of candidate and cached signature; it breaks
between `Tally` and `Adopt`, where in the single loop nobody reads.

Its second half is about the single loop, where `Lockstep` allows at most one tick
between two nodes, in the order of the loop. From a common
scan all honest nodes choose the same signature (`Chosen`: two lowest
signatures of one set have the same value, so they are the same), and vote for it. A count has at most
`Cardinality(byzantine)` other votes, so the most frequent candidate is the chosen one: that is
`Steady` for votes cast, votes in the cache and candidates adopted. That a count happens
at all before the phase ends is a matter of the pinger: what is left of its sleep plus the
time passed in the cycle stays within two periods. `Recorded` relates nodes that
are one round apart, one of which has already recorded the winner. For `LeaderOfRound` less is
enough: with three votes or more one Byzantine robot never wins a count.

**The argument for `PoRSystem`.** `SystemInv` has three parts. `LoopInv` says who is where: timers differ by one tick at
most, in the order of the loop (`Turns`), phases follow the timer (`OnTime`), and only the node
whose turn it is waits for somebody (`Pinging`). `VoteInv` types what a node holds of the vote, and says that it has a
signature from the end of its MINING phase to its first step of the BLOCK phase (`Signed`): in the loop a peer is asked for its vote
only while it is in its LEADER phase or has just left it. `RequestInv` says that an exchange is about what the peer still
has (`Requested`): nobody else is at work, so nothing leaves the peer's mempool between offer and question.
This is all that the refinement needs, since a joint action is an action of `Node` already.

`AlwaysInAgreement` takes three more invariants. `PairInv`: a candidate has the signature it stands for wherever it
is read, in a cache, in a vote and in a vote that is half read. `CopyInv`: copies in mempools, blocks and answers are of transactions that were
sent, a completed one has a hop, and what a node asks for it lacks or has uncompleted, so that a completed copy
is not lost in the MINING phase in which it was scanned. `ScanInv`: a cached signature comes from such a
copy. Hence a node has no signature exactly if it has no completed transaction that is not checked
(`FindsSignature`), the one thing of the election that `Node` computes for itself. `NobodyBehind` compares the phases of two nodes: a node at work has just had its tick, so
nobody is in an earlier phase.

For one chain there is `ChainInv`. It says that histories
agree: winning signatures are the same up to the round that a node is in (`OneHistory`),
and each block is its round's leader's, on top of the last one, with as many blocks as rounds
except for a node in its BLOCK phase that waits for the last (`Chained`). Hence NoFork. The
difficulty is that the wait ends in time, which is a safety property here: the leader
creates its block in its first step of the BLOCK phase, and a node that still lacks it has either the leader
among the peers to ask in this pass, or a rest of sleep that ends before the phase
does (`Catching`). The answer then holds exactly one block: everybody who can be asked has all
blocks of earlier rounds, and who has the new one has it from the leader (`Asked`). A node with a block
more than its winning signatures, as in `node_behind`, does not occur.

**The argument for `PromptMesh`.** What has to be shown is that all robots cast the same vote, and that is a
matter of time: the transactions of a round must be everywhere, completed, when the first robot votes. `Base` has the
invariants above and `Lockstep`, which gives the difference of two timers exactly from the two robots' places in the loop.
The new invariant, `Steady`, holds until some main loop ends, and has three parts that need each other from one round to the next:

1. `Stocked`: what each robot has. The source of a transaction that waits for a block has a copy, its destination has
   a completed one as soon as it has any, and all completed copies of it are the destination's
   (`Settled`, `Arriving`): with two of them, of two routes, robots would compare different
   signatures. A round leaves nothing behind: while somebody is in the BLOCK phase, who has the block
   of the round has in it all that was sent (`Delivered`). So the transactions of a round start
   from empty mempools (`Booked`), and no robot's scan skips one as checked.
2. `Mines`: what the pinger has brought so far, or when it will ask again. A robot without a copy has the source still
   to ask in this pass, or is about to begin one by tick `LastSend + SyncInterval + 1`. Once the destination
   has a copy, whoever lacks the completed one has it to ask in this pass or begins a pass by the end
   of the phase. Both bounds together are why `Prompt` asks for two passes, and
   they leave no tick to spare.
3. `Agreed`: the vote. By the second part all robots enter it with the same completed copies (`Leads`), and by induction with the same
   recent leaders (`Follows`); so the lowest signatures they cached during the phase (`Cached`) are of
   one robot. All votes of a round are for it, they arrive all at once
   (`Polls`), and leaving the vote changes nothing about it (`Leaves`).

A main loop can only raise when the vote begins without a signature. By `Leads` all that was sent is completed
there, so nothing is waiting: that is `Stopped`, hence `OnlyIdleRoundsStop`. `LeaderRelayed` follows when a block is made: the
leader has signed a hop of a copy that goes into it, and whoever takes the block takes its data. The refinement
has one step that matters, the end of an election: `Follows` says that a robot which is a round ahead
has recorded the candidate that this one is about to record (`UnanimousSteps`).

**The argument for `Framing`.** That a call is handled once is a matter of connections
(`Connections`): one is in the queue at most once or is the one being served, never
both, and its call is `Unserved`, that is, it has begun and has no answer. A client that
makes no call has no connection and no bytes of an answer left, so that its next call cannot
return with an old one. Only the server thread closes a socket (`ClientsOpen`). Calling,
accepting and handling each move a connection on; what the network does moves none.

`OnlyOwnHandlersRaise` adds `Quiet`: as long as nothing is lost, no request fills its last packet, and no handler
has ended the server thread (`Fine`), a client is idle, has asked, has its answer under way, or has been
ended by its own handler with the answer in hand (`Off`, `Asked`, `Answered`, `Failed`). The thread gets each request in
full packets and a shorter last one, so it never waits out its timeout, and the
clock stands still while a client waits: somebody can always move.

**The argument for `SharedTransaction`.** `OrderInv`: each item of the object's list and of a thread's own
copies, be it a reference or a text, names the place it is at; every statement puts item k at place k. That
takes no schedule. `WorkInv` is for the other two properties: where nobody disturbs a
thread, the program counter determines the whole object: entries before the current one
are converted, those after it are not, the current one is in the `Stage` of its next field, and list and tag
are of the form that the operation left or will leave. In serial mode one thread works `Alone`;
in mining mode the main loop is only ever scanning, which writes nothing, and
what it reads in the middle of a conversion raises or gives genuine values (`ResultsRight`).

**The argument for `Balances`.** A transfer is made on a ledger that has both accounts, and
the test of the funds is on the same ledger: a positive value leaves the sender with
a balance of zero or more, a negative one takes from the destination alone, even if that is the sender, as
the second write reads what the first has written. So a debt is explained when it arises (`Explained`),
and stays so, as the transactions up to a block only become more (`DebtStep`). That the transaction just applied
is in the data of its block comes with `CallsInv`, which strengthens `CallsOnce`:
the calls in a state are of transactions of the chain, and while a block is
created none of the transactions still to be applied is among them (`GoodBlock`). That a node
takes a block only on the chain its peer has below it (`SyncCopies`) carries the
invariant over to the others.
The other two properties are about folds, and induction over data is out of the prover's reach. `MoneyKept`
is proved by what one transfer does to the sum over a finite set of accounts, and `StateIsReplay` by
what one more transaction does to the replay, as data only grows at its end. That the recursive functions
inside these folds exist and are unique is shown without induction, by taking a smallest set for
which that fails (`MinimalSet`).

**Only model-checked.** Of the invariants: `SameLeader` for nodes that scanned different transactions
(`election_converges`) and `OneCreator` with two Byzantine nodes of four, which
depend on the values of the signatures. The properties of `PoRSystem` when some transactions are sent late
(run `system`): whether the votes still have one outcome then depends on which of the late ones complete
where, and on the values of their signatures. Liveness (`ExchangesEnd`, `RoundsComplete`, `NobodyStuck`), as
reasoning under fairness and ENABLED are out of the prover's reach.

## 5. Where code and comments disagree

The three runs that end in a violation; `findings` in `PROJECT.json` quotes the
comments. Further observations, which are not separate runs:

* `helpers.py:137` holds a left-over merge marker, so the file does not parse as
  committed (the models take it without the line).
* "Assuming that there are no forks" (`MessageHandler.py:95`): with unanimous
  elections, two processes fork as soon as one misses the synchronisation of a
  round and leads the next one, for `create_block` does not compare its last
  block with the winning signatures. To see it, check that one chain is always
  a prefix of the other with the constants of `NodeBehind.cfg`. In the single
  loop the `system` run excludes it.
* The header hash by which peers compare chains leaves out the miner and the height (`Block.py:73`). Two leaders of one round, if
  elections differ, can make different blocks with equal headers: they stamp one tick, on one parent, with data that is
  usually equal, and only a nonce out of 1001 tells them apart. `PrefixAgreement` and
  `AnswersFit` show what remains true: everything below is equal, and no wrong block is inserted. But the two robots
  then take each other's block for their own: while they have the same height neither asks the other, and afterwards the
  next block does not fit ("Received chain that does not fit", `Node.py:203-205`); two blocks at once are never accepted anyway.
* Nothing tests the sign of a value (`Transaction.py:18`, `State.py:44`): a negative one passes the funds test
  whatever the sender has, and takes from its destination, below zero. The repository's own
  tests send no negative values. `OnlyNegativeOverdraws` shows that it is the only way into debt.
* "The votes received for this round" (`ProofOfRelay.py:125`): `vote_cache` is
  emptied only by a count, so with one peer two of the five votes of a round are
  counted in the next one, which may elect the leader of the round before.
* "When all the votes are collected" (`ProofOfRelay.py:149`): after an aborted
  connection the pinger keeps the votes it has and asks all peers again in the next
  step, so a count may have two votes of one peer and none of another.
* A transaction that is sent so late in a mining phase that only one exchange follows
  completes at its destination, but the source does not hear of it before the vote. If it is the only one,
  the source enters the vote without a candidate and raises, although a transaction
  has completed. This is why `Prompt` in `PoRSystem` asks for two exchanges.
* Client and server have the same timeout. A request whose last packet is full makes
  both wait for it, and the client may give up just before the answer is sent:
  the handler has run, and nobody gets its answer.
* The tag "to check if the transaction is in the sendable json format" (`Transaction.py:28`) and the list are
  assigned one after the other: another thread can hash a block while the list is
  JSON and the tag is not set, and the tag is part of what is hashed. A race
  need not be noticed either: decoding a signature that is not in base64 sometimes
  succeeds, with other bytes.
* With two Byzantine nodes among four, who wins depends on the order of the loop:
  they lose if they are stepped first and win if they are stepped last.

## 6. Not modelled, and why

* The older consensus modules: they raise on import, so no state of them can be reached.
* The contract class: it is in a package that the repository lacks.
  `payout_block_reward` is called only by the older consensus modules.
* The Byzantine node's signature with a forged key and the tag of its blocks.
* `add_peer`/`remove_peer`: in `Node` who is in range is an arbitrary choice at each
  request; in `Election` and `PoRSystem` the `Peers` are fixed, and in `Election` their connections may break. `start`/`stop` of a node, which the driver calls once; queries and display.
* The limit of `listen(1)`: in `Framing` the queue of connections has none. Beyond it the
  kernel repeats a connect, which a caller sees as a delay.
* Where in a handler an interfering main loop makes it raise: `ServerRaces` has the effect.
  A race that changes what is sent, without an exception, is in `SharedTransaction` but not carried
  into `Node`.

## 7. Plan

Done, in this order: `Node` and its properties; `Election`; `ReplicatedLog`; the
first proofs about `Node`; `PoRSystem`; `Framing` and `Rpc`; `SharedTransaction`; the Byzantine
nodes of `Election`; `Balances` and its proofs; the signature chains; `FramingProofs`;
`ElectionProofs`; `SharedProofs`; `MoneyKept` and `StateIsReplay`; `SystemProofs`; `PromptProofs`.
What could follow:

1. Late transactions: a condition on signatures and times under which a prompt transaction still
   settles the vote, so that `PromptMesh` need not ask all of them to be prompt.
2. Robots that are not all in range of each other: a completed copy then takes as many passes as it has
   hops, and the block too, so that periods have to grow with the diameter of the network.
3. Broken links in `PoRSystem`, which now has them in its two parts only.
