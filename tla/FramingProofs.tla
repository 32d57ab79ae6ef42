--------------------------- MODULE FramingProofs ---------------------------
(***************************************************************************)
(* Proof that the server thread and its clients implement Rpc, for any     *)
(* clients, sizes of messages and timeout, and however messages arrive.    *)
(* If they arrive whole and none is lost, only exceptions of handlers can  *)
(* start the end of a thread.                                              *)
(***************************************************************************)
EXTENDS FramingProperties, SequenceTheorems, TLAPS

-----------------------------------------------------------------------------
(* The invariant *)

Types ==
    /\ at \in [Receivers -> {"off", "recv", "loads", "raised", "closed"}]
    /\ size \in [Streams -> Nat]
    /\ queue \in Seq(Clients)
    /\ current \in Clients \cup {Nil}

\* The call of c has begun, and no handler has run for it.
Unserved(c) == at[c] # "off" /\ size[<<"ans", c>>] = 0

\* A connection is in the queue once, or being served, for a call without an
\* answer. A client that makes no call has none.
Connections ==
    /\ \A c \in Clients : at[c] = "off" => size[<<"ans", c>>] = 0
    /\ \A i \in DOMAIN queue : Unserved(queue[i])
    /\ \A i, j \in DOMAIN queue : queue[i] = queue[j] => i = j
    /\ at[Server] \in {"recv", "loads"} =>
          /\ current \in Clients /\ Unserved(current)
          /\ \A i \in DOMAIN queue : queue[i] # current

Inv == Types /\ Connections

\* Only the server thread closes a listening socket.
ClientsOpen == \A c \in Clients : at[c] # "closed"

\* Streams of a client.
LEMMA StreamsAre ==
    /\ \A c \in Clients : <<"req", c>> \in Streams /\ <<"ans", c>> \in Streams
    /\ \A c, d \in Clients : <<"req", c>> # <<"ans", d>>
    /\ \A c, d \in Clients : c # d => <<"ans", c>> # <<"ans", d>>
    /\ \A c \in Clients : c # Server /\ c \in Receivers
    /\ Server \in Receivers
BY FramingAssumption DEF Streams, Receivers

\* Steps that leave queue, sizes and the connection served as they are, when no
\* client begins or ends a call.
LEMMA SameConnections ==
    ASSUME Inv, UNCHANGED <<size, queue, current>>,
           at' \in [Receivers -> {"off", "recv", "loads", "raised", "closed"}],
           \A c \in Clients : (at'[c] = "off") <=> (at[c] = "off"),
           at'[Server] \in {"recv", "loads"} => at[Server] \in {"recv", "loads"}
    PROVE  Inv'
<1>1. \A i \in DOMAIN queue : queue[i] \in Clients
  BY DEF Inv, Types
<1>2. \A c \in Clients : Unserved(c)' <=> Unserved(c)
  BY DEF Unserved
<1> QED  BY <1>1, <1>2 DEF Inv, Types, Connections

\* A call puts its connection at the end of the queue.
LEMMA CallStep ==
    ASSUME Inv, NEW c \in Clients, Call(c)
    PROVE  Inv'
<1>1. PICK s \in RequestSizes : /\ size' = [size EXCEPT ![<<"req", c>>] = s]
                                /\ at[c] = "off" /\ at' = [at EXCEPT ![c] = "recv"]
                                /\ queue' = Append(queue, c) /\ current' = current
  BY DEF Call, Send, Start
<1>2. s \in Nat
  BY FramingAssumption
<1>3. size[<<"ans", c>>] = 0
  BY <1>1 DEF Inv, Connections
<1>4. \A d \in Clients : size'[<<"ans", d>>] = size[<<"ans", d>>] /\ (d # c => at'[d] = at[d])
  BY <1>1, StreamsAre DEF Inv, Types
<1>5. at'[c] = "recv" /\ at'[Server] = at[Server] /\ ~Unserved(c)
  BY <1>1, StreamsAre DEF Inv, Types, Unserved
<1>6. Types'
  BY <1>1, <1>2, StreamsAre, AppendProperties DEF Inv, Types
<1>7. /\ DOMAIN queue = 1..Len(queue) /\ DOMAIN queue' = 1..(Len(queue) + 1) /\ Len(queue) \in Nat
      /\ \A i \in 1..Len(queue) : queue'[i] = queue[i] /\ queue[i] \in Clients
      /\ queue'[Len(queue) + 1] = c
  BY <1>1 DEF Inv, Types
<1>8. \A i \in 1..Len(queue) : Unserved(queue[i])
  BY <1>7 DEF Inv, Connections
<1>9. \A d \in Clients : Unserved(d) => d # c /\ Unserved(d)'
  BY <1>4, <1>5 DEF Unserved
<1>10. Unserved(c)'
  BY <1>3, <1>4, <1>5 DEF Unserved
<1>11. 1..(Len(queue) + 1) = (1..Len(queue)) \cup {Len(queue) + 1}
  BY <1>7
<1>12. Connections'
  <2>1. \A d \in Clients : at'[d] = "off" => size'[<<"ans", d>>] = 0
    BY <1>4, <1>5 DEF Inv, Connections
  <2>2. \A i \in DOMAIN queue' : \/ i \in 1..Len(queue) /\ queue'[i] # c
                                 \/ i = Len(queue) + 1 /\ queue'[i] = c
    BY <1>7, <1>8, <1>9, <1>11
  <2>3. \A i, j \in DOMAIN queue' : queue'[i] = queue'[j] => i = j
    BY <2>2, <1>7 DEF Inv, Connections
  <2>4. ASSUME NEW i \in DOMAIN queue', NEW d \in Clients, d = queue'[i] PROVE Unserved(d)'
    BY <2>2, <2>4, <1>7, <1>8, <1>9, <1>10
  <2>5. \A i \in DOMAIN queue' : at'[queue'[i]] # "off" /\ size'[<<"ans", queue'[i]>>] = 0
    BY <2>4, <1>7, <1>11 DEF Unserved
  <2>6. ASSUME at'[Server] \in {"recv", "loads"}
        PROVE  /\ current \in Clients /\ at'[current] # "off" /\ size'[<<"ans", current>>] = 0
               /\ \A i \in DOMAIN queue' : queue'[i] # current
    <3>1. /\ current \in Clients /\ Unserved(current)
          /\ \A i \in 1..Len(queue) : queue[i] # current
      BY <2>6, <1>5, <1>7 DEF Inv, Connections
    <3>2. current # c /\ at'[current] # "off" /\ size'[<<"ans", current>>] = 0
      BY <3>1, <1>4, <1>5 DEF Unserved
    <3> QED  BY <3>1, <3>2, <1>7, <1>11
  <2> QED  BY <2>1, <2>3, <2>5, <2>6, <1>1 DEF Connections, Unserved
<1> QED  BY <1>6, <1>12 DEF Inv

\* A call that returns had an answer, so that its connection is neither in the
\* queue nor being served.
LEMMA ReturnStep ==
    ASSUME Inv, NEW c \in Clients, Return(c)
    PROVE  Inv'
<1>1. /\ at[c] = "loads" /\ size[<<"ans", c>>] > 0 /\ at' = [at EXCEPT ![c] = "off"]
      /\ size' = [st \in Streams |-> IF st[2] = c THEN 0 ELSE size[st]]
      /\ current' = (IF current = c THEN Nil ELSE current) /\ queue' = queue
  BY StreamsAre DEF Return, Complete, Stream
<1>2. /\ at'[c] = "off" /\ size'[<<"ans", c>>] = 0 /\ at'[Server] = at[Server]
      /\ \A d \in Clients : d # c => at'[d] = at[d] /\ size'[<<"ans", d>>] = size[<<"ans", d>>]
  BY <1>1, StreamsAre DEF Inv, Types
<1>3. Types'
  BY <1>1 DEF Inv, Types, Streams
<1>4. \A d \in Clients : Unserved(d) => d # c /\ at'[d] # "off" /\ size'[<<"ans", d>>] = 0
  BY <1>1, <1>2 DEF Unserved
<1>5. \A i \in DOMAIN queue : queue[i] \in Clients
  BY DEF Inv, Types
<1>6. Connections'
  <2>1. \A d \in Clients : at'[d] = "off" => size'[<<"ans", d>>] = 0
    BY <1>2 DEF Inv, Connections
  <2>2. \A i \in DOMAIN queue : at'[queue[i]] # "off" /\ size'[<<"ans", queue[i]>>] = 0
    BY <1>4, <1>5 DEF Inv, Connections
  <2>3. at[Server] \in {"recv", "loads"} =>
          /\ current \in Clients /\ at'[current] # "off" /\ size'[<<"ans", current>>] = 0
          /\ current # c /\ \A i \in DOMAIN queue : queue[i] # current
    BY <1>4 DEF Inv, Connections
  <2> QED  BY <1>1, <1>2, <2>1, <2>2, <2>3 DEF Inv, Connections, Unserved
<1> QED  BY <1>3, <1>6 DEF Inv

\* The thread takes the first connection of the queue.
LEMMA AcceptStep ==
    ASSUME Inv, Accept
    PROVE  Inv'
<1>1. /\ queue # <<>> /\ current' = Head(queue) /\ queue' = Tail(queue) /\ size' = size
      /\ at' = [at EXCEPT ![Server] = "recv"]
  BY DEF Accept, Start, wires
<1>2. /\ DOMAIN queue = 1..Len(queue) /\ Len(queue) \in Nat /\ Len(queue) >= 1
      /\ DOMAIN queue' = 1..(Len(queue) - 1) /\ queue' \in Seq(Clients)
      /\ \A i \in 1..(Len(queue) - 1) : queue'[i] = queue[i + 1]
      /\ current' = queue[1] /\ current' \in Clients
      /\ \A i \in DOMAIN queue : queue[i] \in Clients
  BY <1>1 DEF Inv, Types
<1>3. \A c \in Clients : at'[c] = at[c]
  BY <1>1, StreamsAre DEF Inv, Types
<1>4. Types'
  BY <1>1, <1>2 DEF Inv, Types
<1>5. \A i \in 1..(Len(queue) - 1) : i + 1 \in DOMAIN queue /\ i + 1 # 1
  BY <1>2
<1>6. 1 \in DOMAIN queue
  BY <1>2
<1>7. \A c \in Clients : Unserved(c) => at'[c] # "off" /\ size'[<<"ans", c>>] = 0
  BY <1>1, <1>3 DEF Unserved
<1>8. Connections'
  <2>1. \A c \in Clients : at'[c] = "off" => size'[<<"ans", c>>] = 0
    BY <1>1, <1>3 DEF Inv, Connections
  <2>2. \A i \in DOMAIN queue' : at'[queue'[i]] # "off" /\ size'[<<"ans", queue'[i]>>] = 0
    BY <1>2, <1>5, <1>7 DEF Inv, Connections
  <2>3. \A i, j \in DOMAIN queue' : queue'[i] = queue'[j] => i = j
    BY <1>2, <1>5 DEF Inv, Connections
  <2>4. at'[current'] # "off" /\ size'[<<"ans", current'>>] = 0
    BY <1>2, <1>6, <1>7 DEF Inv, Connections
  <2>5. \A i \in DOMAIN queue' : queue'[i] # current'
    BY <1>2, <1>5, <1>6 DEF Inv, Connections
  <2> QED  BY <1>2, <2>1, <2>2, <2>3, <2>4, <2>5 DEF Connections, Unserved
<1> QED  BY <1>4, <1>8 DEF Inv

\* The thread is free after an answer, or has ended.
LEMMA HandleStep ==
    ASSUME Inv, Handle
    PROVE  Inv'
<1>1. at[Server] = "loads" /\ queue' = queue
  BY DEF Handle
<1>2. current \in Clients /\ Unserved(current) /\ \A i \in DOMAIN queue : queue[i] # current
  BY <1>1 DEF Inv, Connections
<1>3. \A i \in DOMAIN queue : queue[i] \in Clients
  BY DEF Inv, Types
<1>4. CASE ServerRaises
  <2>1. /\ at' = [at EXCEPT ![Server] = "raised"] /\ current' = Nil /\ size' = size
    BY <1>4 DEF ServerRaises
  <2>2. at'[Server] = "raised" /\ \A c \in Clients : at'[c] = at[c]
    BY <2>1, StreamsAre DEF Inv, Types
  <2>3. Types'
    BY <1>1, <2>1 DEF Inv, Types
  <2>4. Connections'
    BY <1>1, <1>3, <2>1, <2>2 DEF Inv, Connections, Unserved
  <2> QED  BY <2>3, <2>4 DEF Inv
<1>5. ASSUME NEW s \in AnswerSizes, Send("ans", current, s),
             at' = [at EXCEPT ![Server] = "off"], current' \in {Nil, current}
      PROVE  Inv'
  <2>1. s \in Nat \ {0} /\ size' = [size EXCEPT ![<<"ans", current>>] = s]
    BY <1>5, FramingAssumption DEF Send
  <2>2. at'[Server] = "off" /\ \A c \in Clients : at'[c] = at[c]
    BY <1>5, StreamsAre DEF Inv, Types
  <2>3. \A c \in Clients : c # current => size'[<<"ans", c>>] = size[<<"ans", c>>]
    BY <1>2, <2>1, StreamsAre DEF Inv, Types
  <2>4. Types'
    BY <1>1, <1>2, <1>5, <2>1, StreamsAre DEF Inv, Types
  <2>5. \A c \in Clients : at'[c] = "off" => size'[<<"ans", c>>] = 0
    BY <1>2, <2>2, <2>3 DEF Inv, Connections, Unserved
  <2>6. \A i \in DOMAIN queue : at'[queue[i]] # "off" /\ size'[<<"ans", queue[i]>>] = 0
    BY <1>2, <1>3, <2>2, <2>3 DEF Inv, Connections, Unserved
  <2>7. Connections'
    BY <1>1, <2>2, <2>5, <2>6 DEF Inv, Connections, Unserved
  <2> QED  BY <2>4, <2>7 DEF Inv
<1> QED  BY <1>4, <1>5 DEF Handle

\* Every step keeps the invariant.
LEMMA InvStep == Inv /\ [Next]_vars => Inv'
<1> SUFFICES ASSUME Inv, [Next]_vars PROVE Inv'
  OBVIOUS
<1>1. CASE UNCHANGED vars
  BY <1>1 DEF Inv, Types, Connections, Unserved, vars, threads, wires, rest
<1>2. ASSUME NEW x \in Receivers, Receive(x) \/ ReceiveEnds(x) PROVE Inv'
  <2>1. /\ at[x] = "recv" /\ UNCHANGED <<size, queue, current>>
        /\ \E a \in {"recv", "loads"} : at' = [at EXCEPT ![x] = a]
    BY <1>2 DEF Receive, ReceiveEnds, rest, wires
  <2>2. /\ at' \in [Receivers -> {"off", "recv", "loads", "raised", "closed"}]
        /\ \A y \in Receivers : y # x => at'[y] = at[y]
        /\ at'[x] \in {"recv", "loads"}
    BY <2>1 DEF Inv, Types
  <2>3. /\ \A c \in Clients : (at'[c] = "off") <=> (at[c] = "off")
        /\ at'[Server] \in {"recv", "loads"} => at[Server] \in {"recv", "loads"}
    BY <2>1, <2>2, StreamsAre
  <2> QED  BY <2>1, <2>2, <2>3, SameConnections
<1>3. ASSUME NEW c \in Clients, Call(c) PROVE Inv'
  BY <1>3, CallStep
<1>4. ASSUME NEW c \in Clients, Return(c) PROVE Inv'
  BY <1>4, ReturnStep
<1>5. ASSUME NEW c \in Clients, Raise(c) \/ Refused(c) PROVE Inv'
  <2>1. /\ at' = [at EXCEPT ![c] = "raised"] /\ size' = size /\ queue' = queue
        /\ current' \in {current, Nil}
        /\ at[Server] \in {"recv", "loads"} => current' = current
    BY <1>5 DEF Raise, Refused, rest, wires
  <2>2. at'[c] = "raised" /\ at'[Server] = at[Server] /\ \A d \in Clients : d # c => at'[d] = at[d]
    BY <2>1, StreamsAre DEF Inv, Types
  <2>3. Types'
    BY <2>1 DEF Inv, Types
  <2>4. \A i \in DOMAIN queue : queue[i] \in Clients
    BY DEF Inv, Types
  <2>5. \A d \in Clients : Unserved(d) => at'[d] # "off" /\ size'[<<"ans", d>>] = 0
    BY <2>1, <2>2 DEF Unserved
  <2>6. \A d \in Clients : at'[d] = "off" => size'[<<"ans", d>>] = 0
    BY <2>1, <2>2 DEF Inv, Connections
  <2>7. Connections'
    BY <2>1, <2>2, <2>4, <2>5, <2>6 DEF Inv, Connections, Unserved
  <2> QED  BY <2>3, <2>7 DEF Inv
<1>6. CASE Accept
  BY <1>6, AcceptStep
<1>7. CASE Handle
  BY <1>7, HandleStep
<1>8. CASE Leave
  <2>1. /\ at' = [at EXCEPT ![Server] = "closed"] /\ queue' = <<>> /\ current' = Nil /\ size' = size
    BY <1>8 DEF Leave, wires
  <2>2. at'[Server] = "closed" /\ \A c \in Clients : at'[c] = at[c]
    BY <2>1, StreamsAre DEF Inv, Types
  <2>3. Types'
    <3>1. <<>> \in Seq(Clients)
      OBVIOUS
    <3> QED  BY <2>1, <3>1 DEF Inv, Types
  <2>4. Connections'
    BY <2>1, <2>2 DEF Inv, Connections
  <2> QED  BY <2>3, <2>4 DEF Inv
<1>9. CASE Tick \/ Stop \/ (\E st \in Streams : Arrive(st) \/ Lose(st))
  <2>1. UNCHANGED <<at, size, queue, current>>
    BY <1>9 DEF Tick, Stop, Arrive, Lose, threads, wires, rest
  <2> QED  BY <2>1, SameConnections DEF Inv, Types
<1> QED
  BY <1>1, <1>2, <1>3, <1>4, <1>5, <1>6, <1>7, <1>8, <1>9 DEF Next, Proceed

\* No step but the end of the server thread closes anything.
LEMMA OpenStep == Inv /\ ClientsOpen /\ [Next]_vars => ClientsOpen'
<1> SUFFICES ASSUME Inv, ClientsOpen, [Next]_vars PROVE ClientsOpen'
  OBVIOUS
<1>1. CASE Leave
  <2>1. at' = [at EXCEPT ![Server] = "closed"]
    BY <1>1 DEF Leave
  <2> QED  BY <2>1, StreamsAre DEF Inv, Types, ClientsOpen
<1>2. CASE ~Leave
  <2>1. \/ at' = at
        \/ \E x \in Receivers, a \in {"off", "recv", "loads", "raised"} : at' = [at EXCEPT ![x] = a]
    BY <1>2, StreamsAre DEF Next, Proceed, Receive, ReceiveEnds, Call, Refused, Return, Raise, Start,
          Accept, Handle, ServerRaises, Stop, Arrive, Lose, Tick, vars, threads
  <2> QED  BY <2>1, StreamsAre DEF Inv, Types, ClientsOpen
<1> QED  BY <1>1, <1>2

\* Types and connections are right in every reachable state.
THEOREM ConnectionsRight == Spec => [](Inv /\ ClientsOpen)
<1>1. Init => Inv /\ ClientsOpen
  <2> SUFFICES ASSUME Init PROVE Inv /\ ClientsOpen
    OBVIOUS
  <2>1. Types
    <3>1. <<>> \in Seq(Clients)
      OBVIOUS
    <3> QED  BY <3>1 DEF Init, Types
  <2>2. /\ \A c \in Clients : at[c] = "off" /\ size[<<"ans", c>>] = 0
        /\ at[Server] = "off" /\ queue = <<>>
    BY StreamsAre DEF Init
  <2>3. Connections
    BY <2>2 DEF Connections
  <2> QED  BY <2>1, <2>2, <2>3 DEF Inv, ClientsOpen
<1> QED  BY <1>1, InvStep, OpenStep, PTL DEF Spec

-----------------------------------------------------------------------------
(* The refinement *)

\* A step that concerns the call of c only.
LEMMA OneCall ==
    ASSUME NEW c \in Clients,
           \A d \in Clients : d # c => at'[d] = at[d] /\ size'[<<"ans", d>>] = size[<<"ans", d>>]
    PROVE  CallState' = [CallState EXCEPT ![c] =
              [at     |-> IF at'[c] \in {"recv", "loads"} THEN "waiting" ELSE at'[c],
               served |-> size'[<<"ans", c>>] > 0]]
BY DEF CallState

\* A step that concerns no call.
LEMMA NoCall ==
    ASSUME \A d \in Clients : /\ size'[<<"ans", d>>] = size[<<"ans", d>>]
                              /\ \/ at'[d] = at[d]
                                 \/ {at[d], at'[d]} \subseteq {"recv", "loads"}
    PROVE  CallState' = CallState
BY DEF CallState

\* Every step is a step of a call, or concerns no call.
LEMMA CallSteps ==
    ASSUME Inv, ClientsOpen, [Next]_vars
    PROVE  [Calls!Next]_CallState
<1>1. CASE UNCHANGED vars
  <2>1. CallState' = CallState
    BY <1>1 DEF CallState, vars, threads, wires
  <2> QED  BY <2>1
<1>2. ASSUME NEW x \in Receivers, Receive(x) \/ ReceiveEnds(x)
      PROVE  CallState' = CallState
  <2>1. /\ at[x] = "recv" /\ UNCHANGED size
        /\ \E a \in {"recv", "loads"} : at' = [at EXCEPT ![x] = a]
    BY <1>2 DEF Receive, ReceiveEnds, wires
  <2>2. \A d \in Clients : at'[d] = at[d] \/ {at[d], at'[d]} \subseteq {"recv", "loads"}
    BY <2>1, StreamsAre DEF Inv, Types
  <2> QED  BY <2>1, <2>2, NoCall
<1>3. ASSUME NEW c \in Clients, Call(c)
      PROVE  Calls!Call(c)
  <2>1. PICK s \in RequestSizes : /\ size' = [size EXCEPT ![<<"req", c>>] = s]
                                  /\ at[c] = "off" /\ at' = [at EXCEPT ![c] = "recv"]
    BY <1>3 DEF Call, Send, Start
  <2>2. size[<<"ans", c>>] = 0
    BY <2>1 DEF Inv, Connections
  <2>3. /\ at'[c] = "recv" /\ \A d \in Clients : d # c => at'[d] = at[d]
        /\ \A d \in Clients : size'[<<"ans", d>>] = size[<<"ans", d>>]
    BY <2>1, StreamsAre DEF Inv, Types
  <2>4. CallState[c].at = "off"
    BY <2>1 DEF CallState
  <2>5. CallState' = [CallState EXCEPT ![c] = [at |-> "waiting", served |-> FALSE]]
    <3>1. (size'[<<"ans", c>>] > 0) = FALSE
      BY <2>2, <2>3
    <3> QED  BY <2>3, <3>1, OneCall
  <2> QED  BY <2>4, <2>5 DEF Calls!Call
<1>4. ASSUME NEW c \in Clients, Return(c)
      PROVE  Calls!Return(c)
  <2>1. /\ at[c] = "loads" /\ size[<<"ans", c>>] > 0 /\ at' = [at EXCEPT ![c] = "off"]
        /\ size' = [st \in Streams |-> IF st[2] = c THEN 0 ELSE size[st]]
    BY <1>4, StreamsAre DEF Return, Complete, Stream
  <2>2. /\ at'[c] = "off" /\ size'[<<"ans", c>>] = 0
        /\ \A d \in Clients : d # c => at'[d] = at[d] /\ size'[<<"ans", d>>] = size[<<"ans", d>>]
    BY <2>1, StreamsAre DEF Inv, Types
  <2>3. CallState[c] = [at |-> "waiting", served |-> TRUE]
    BY <2>1 DEF CallState
  <2>4. CallState' = [CallState EXCEPT ![c] = [at |-> "off", served |-> FALSE]]
    <3>1. (size'[<<"ans", c>>] > 0) = FALSE
      BY <2>2
    <3> QED  BY <2>2, <3>1, OneCall
  <2> QED  BY <2>3, <2>4 DEF Calls!Return
<1>5. ASSUME NEW c \in Clients, Raise(c) \/ Refused(c)
      PROVE  Calls!Raise(c)
  <2>1. /\ at' = [at EXCEPT ![c] = "raised"] /\ size' = size /\ at[c] \in {"loads", "off"}
    BY <1>5 DEF Raise, Refused, wires
  <2>2. at'[c] = "raised" /\ \A d \in Clients : d # c => at'[d] = at[d]
    BY <2>1, StreamsAre DEF Inv, Types
  <2>3. CallState[c].at # "raised"
    BY <2>1 DEF CallState
  <2>4. CallState' = [CallState EXCEPT ![c] = [CallState[c] EXCEPT !.at = "raised"]]
    <3>1. CallState' = [CallState EXCEPT ![c] =
                           [at |-> "raised", served |-> size[<<"ans", c>>] > 0]]
      BY <2>1, <2>2, OneCall
    <3>2. [CallState[c] EXCEPT !.at = "raised"]
             = [at |-> "raised", served |-> size[<<"ans", c>>] > 0]
      BY DEF CallState
    <3> QED  BY <3>1, <3>2
  <2> QED  BY <2>3, <2>4 DEF Calls!Raise
<1>6. ASSUME Handle
      PROVE  CallState' = CallState \/ \E c \in Clients : Calls!Serve(c)
  <2>1. current \in Clients /\ Unserved(current)
    BY <1>6 DEF Handle, Inv, Connections
  <2>2. CASE ServerRaises
    <3>1. UNCHANGED size /\ \A d \in Clients : at'[d] = at[d]
      BY <2>2, StreamsAre DEF ServerRaises, Inv, Types
    <3> QED  BY <3>1, NoCall
  <2>3. ASSUME NEW s \in AnswerSizes, Send("ans", current, s), at' = [at EXCEPT ![Server] = "off"]
        PROVE  Calls!Serve(current)
    <3>1. s > 0 /\ size' = [size EXCEPT ![<<"ans", current>>] = s]
      BY <2>3, FramingAssumption DEF Send
    <3>2. /\ size'[<<"ans", current>>] > 0 /\ \A d \in Clients : at'[d] = at[d]
          /\ \A d \in Clients : d # current => size'[<<"ans", d>>] = size[<<"ans", d>>]
      BY <2>1, <2>3, <3>1, StreamsAre DEF Inv, Types
    <3> DEFINE a == IF at[current] \in {"recv", "loads"} THEN "waiting" ELSE at[current]
    <3>3. CallState[current] = [at |-> a, served |-> FALSE]
      <4>1. (size[<<"ans", current>>] > 0) = FALSE
        BY <2>1 DEF Unserved
      <4> QED  BY <2>1, <4>1 DEF CallState
    <3>4. a \in {"waiting", "raised"}
      BY <2>1, StreamsAre DEF Unserved, Inv, Types, ClientsOpen
    <3>5. (size'[<<"ans", current>>] > 0) = TRUE
      BY <3>2
    <3>6. CallState' = [CallState EXCEPT ![current] = [at |-> a, served |-> TRUE]]
      <4>1. PICK c \in Clients : c = current
        BY <2>1
      <4>2. /\ \A d \in Clients : d # c => at'[d] = at[d] /\ size'[<<"ans", d>>] = size[<<"ans", d>>]
            /\ at'[c] = at[c] /\ (size'[<<"ans", c>>] > 0) = TRUE
        BY <4>1, <3>2, <3>5
      <4> QED  BY <4>1, <4>2, OneCall
    <3>7. CallState[current].at = a
      BY <3>3
    <3> HIDE DEF a
    <3>8. CallState[current].at \in {"waiting", "raised"} /\ ~CallState[current].served
      BY <3>3, <3>4
    <3> QED  BY <3>6, <3>7, <3>8 DEF Calls!Serve
  <2> QED  BY <1>6, <2>1, <2>2, <2>3 DEF Handle
<1>7. CASE Accept \/ Leave \/ Tick \/ Stop \/ (\E st \in Streams : Arrive(st) \/ Lose(st))
  <2>1. UNCHANGED size /\ \A d \in Clients : at'[d] = at[d]
    BY <1>7, StreamsAre DEF Accept, Start, Leave, Tick, Stop, Arrive, Lose, threads, wires, rest,
                            Inv, Types
  <2> QED  BY <2>1, NoCall
<1> QED
  BY <1>1, <1>2, <1>3, <1>4, <1>5, <1>6, <1>7 DEF Next, Proceed, Calls!Next

\* A handler runs at most once for a call, and a call returns only with the
\* answer of a handler that has run, however the network cuts and loses messages.
THEOREM CallsImplementRpc == Spec => ImplementsRpc
<1>1. Init => Calls!Init
  <2> SUFFICES ASSUME Init PROVE Calls!Init
    OBVIOUS
  <2>1. \A c \in Clients : at[c] = "off" /\ (size[<<"ans", c>>] > 0) = FALSE
    <3>1. \A c \in Clients : at[c] = "off" /\ size[<<"ans", c>>] = 0
      BY StreamsAre DEF Init
    <3> SUFFICES ASSUME NEW c \in Clients PROVE (size[<<"ans", c>>] > 0) = FALSE
      BY <3>1
    <3>2. (size[<<"ans", c>>] > 0) <=> FALSE
      BY <3>1
    <3> QED  BY <3>2
  <2> QED  BY <2>1 DEF CallState, Calls!Init
<1> QED  BY <1>1, CallSteps, ConnectionsRight, PTL DEF Spec, ImplementsRpc, Calls!Spec

-----------------------------------------------------------------------------
(* When nothing goes wrong *)

Amounts ==
    /\ flight \in [Streams -> Nat] /\ buffer \in [Streams -> Nat]
    /\ got \in [Receivers -> Nat] /\ waited \in [Receivers -> Nat]

Queued(c) == \E i \in DOMAIN queue : queue[i] = c

\* c makes no call.
Off(c) ==
    /\ at[c] = "off"
    /\ \A d \in {"req", "ans"} : /\ size[<<d, c>>] = 0
                                 /\ flight[<<d, c>>] = 0 /\ buffer[<<d, c>>] = 0

\* c has asked. Its request is on its way, or waits to be read, or has been read
\* in full packets but for the last one.
Asked(c) ==
    LET req == <<"req", c>>
        ans == <<"ans", c>>
    IN  /\ at[c] = "recv" /\ got[c] = 0 /\ waited[c] = 0
        /\ size[ans] = 0 /\ flight[ans] = 0 /\ buffer[ans] = 0
        /\ size[req] % Chunk # 0 /\ flight[req] \in {0, size[req]}
        /\ \/ Queued(c) /\ flight[req] + buffer[req] = size[req]
           \/ /\ current = c /\ at[Server] = "recv" /\ waited[Server] = 0
              /\ got[Server] + flight[req] + buffer[req] = size[req]
              /\ got[Server] % Chunk = 0
           \/ /\ current = c /\ at[Server] = "loads"
              /\ got[Server] = size[req] /\ flight[req] = 0 /\ buffer[req] = 0

\* c is being answered. Time passes only when the whole answer is there.
Answered(c) ==
    LET req == <<"req", c>>
        ans == <<"ans", c>>
    IN  /\ flight[req] = 0 /\ buffer[req] = 0
        /\ size[ans] > 0 /\ flight[ans] \in {0, size[ans]}
        /\ got[c] + flight[ans] + buffer[ans] = size[ans]
        /\ \/ at[c] = "recv" /\ (waited[c] > 0 => flight[ans] = 0)
           \/ at[c] = "loads" /\ got[c] = size[ans]

\* The handler of c's answer has raised.
Failed(c) == at[c] = "raised" /\ c \in failed /\ size[<<"ans", c>>] > 0

\* Nothing has gone wrong but for handlers of answers.
Fine == smooth /\ Server \notin failed

Quiet ==
    /\ Amounts
    /\ Fine => /\ ~stopping /\ at[Server] \in {"off", "recv", "loads"}
               /\ \A c \in Clients : Off(c) \/ Asked(c) \/ Answered(c) \/ Failed(c)

\* Adding a full packet changes no remainder.
LEMMA FullPacket ==
    ASSUME NEW k \in Nat, k % Chunk = 0
    PROVE  (k + Chunk) % Chunk = 0
<1>1. Chunk \in Nat /\ Chunk > 0
  BY FramingAssumption
<1>2. \A x \in Int : x = Chunk * (x \div Chunk) + (x % Chunk) /\ x \div Chunk \in Int
  BY <1>1
<1>3. \A q \in Int : (Chunk * q) % Chunk = 0
  BY <1>1
<1>4. k = Chunk * (k \div Chunk) /\ k \div Chunk \in Int
  <2>1. k = Chunk * (k \div Chunk) + (k % Chunk) /\ k \div Chunk \in Int
    BY <1>2
  <2>2. Chunk * (k \div Chunk) \in Int
    BY <1>1, <2>1
  <2> QED  BY <2>1, <2>2
<1>5. k + Chunk = Chunk * ((k \div Chunk) + 1)
  BY <1>1, <1>4
<1> QED  BY <1>3, <1>4, <1>5

\* Nothing is a number of full packets.
LEMMA ZeroRest ==
    ASSUME NEW n \in Nat, n > 0
    PROVE  0 % n = 0
OBVIOUS

\* No number becomes negative.
LEMMA AmountsStep ==
    ASSUME Inv, Amounts, [Next]_vars
    PROVE  Amounts'
<1>1. CASE UNCHANGED vars
  BY <1>1 DEF Amounts, vars, threads, wires
<1>2. ASSUME NEW x \in Receivers, Receive(x) PROVE Amounts'
  <2>1. Stream(x) \in Streams /\ buffer[Stream(x)] \in Nat /\ buffer[Stream(x)] > 0
    <3>1. CASE x = Server
      BY <1>2, <3>1, StreamsAre DEF Receive, Stream, Inv, Connections, Amounts
    <3>2. CASE x # Server
      BY <1>2, <3>2, StreamsAre DEF Receive, Stream, Receivers, Amounts
    <3> QED  BY <3>1, <3>2
  <2>2. Packet(Stream(x)) \in Nat /\ buffer[Stream(x)] - Packet(Stream(x)) \in Nat
    BY <2>1, FramingAssumption DEF Packet
  <2>3. got[x] + Packet(Stream(x)) \in Nat
    BY <2>2 DEF Amounts
  <2> QED  BY <1>2, <2>1, <2>2, <2>3 DEF Receive, Amounts
<1>3. ASSUME NEW x \in Receivers, ReceiveEnds(x) PROVE Amounts'
  BY <1>3 DEF ReceiveEnds, wires, Amounts
<1>4. ASSUME NEW c \in Clients, Call(c) PROVE Amounts'
  BY <1>4, FramingAssumption DEF Call, Send, Start, Amounts
<1>5. ASSUME NEW c \in Clients, Refused(c) \/ Return(c) \/ Raise(c) PROVE Amounts'
  BY <1>5 DEF Refused, Return, Raise, wires, Amounts
<1>6. CASE Accept
  BY <1>6 DEF Accept, Start, wires, Amounts
<1>7. CASE Handle
  BY <1>7, FramingAssumption DEF Handle, Send, ServerRaises, Amounts
<1>8. CASE Leave \/ Stop
  BY <1>8 DEF Leave, Stop, threads, wires, Amounts
<1>9. CASE Tick
  BY <1>9 DEF Tick, wires, Amounts
<1>10. ASSUME NEW st \in Streams, Arrive(st) PROVE Amounts'
  <2>1. PICK k \in 1..flight[st] : /\ flight' = [flight EXCEPT ![st] = @ - k]
                                   /\ buffer' = [buffer EXCEPT ![st] = @ + k]
    BY <1>10 DEF Arrive
  <2>2. flight[st] - k \in Nat /\ buffer[st] + k \in Nat
    BY DEF Amounts
  <2> QED  BY <1>10, <2>1, <2>2 DEF Arrive, threads, Amounts
<1>11. ASSUME NEW st \in Streams, Lose(st) PROVE Amounts'
  BY <1>11 DEF Lose, threads, Amounts
<1> QED  BY <1>1, <1>2, <1>3, <1>4, <1>5, <1>6, <1>7, <1>8, <1>9, <1>10, <1>11 DEF Next, Proceed

\* A step that does not concern the call of c.
LEMMA SameCall ==
    ASSUME NEW c \in Clients, at'[c] = at[c], got'[c] = got[c], waited'[c] = waited[c],
           \A d \in {"req", "ans"} : /\ size'[<<d, c>>] = size[<<d, c>>]
                                     /\ flight'[<<d, c>>] = flight[<<d, c>>]
                                     /\ buffer'[<<d, c>>] = buffer[<<d, c>>],
           Queued(c) => Queued(c)', c \in failed => c \in failed',
           current = c /\ at[Server] \in {"recv", "loads"} =>
               /\ current' = c /\ at'[Server] = at[Server]
               /\ got'[Server] = got[Server] /\ waited'[Server] = waited[Server]
    PROVE  Off(c) \/ Asked(c) \/ Answered(c) \/ Failed(c) => (Off(c) \/ Asked(c) \/ Answered(c) \/ Failed(c))'
<1>1. Off(c) => Off(c)'
  BY DEF Off
<1>2. Asked(c) => Asked(c)'
  BY DEF Asked
<1>3. Answered(c) => Answered(c)'
  BY DEF Answered
<1>4. Failed(c) => Failed(c)'
  BY DEF Failed
<1> QED  BY <1>1, <1>2, <1>3, <1>4

\* The client that the server thread serves has asked, and its connection is
\* not in the queue.
LEMMA Served ==
    ASSUME Inv, Quiet, Fine, at[Server] \in {"recv", "loads"}
    PROVE  /\ current \in Clients /\ ~Queued(current) /\ Asked(current)
           /\ Stream(Server) = <<"req", current>>
<1>1. current \in Clients /\ Unserved(current) /\ \A i \in DOMAIN queue : queue[i] # current
  BY DEF Inv, Connections
<1>2. ~Off(current) /\ ~Answered(current) /\ ~Failed(current)
  BY <1>1 DEF Unserved, Off, Answered, Failed
<1> QED  BY <1>1, <1>2 DEF Quiet, Queued, Stream

\* A client that has asked and is not served yet is in the queue.
LEMMA Waiting ==
    ASSUME NEW c \in Clients, Asked(c)
    PROVE  Queued(c) \/ (current = c /\ at[Server] \in {"recv", "loads"})
BY DEF Asked

\* The server thread reads a packet of a request, the last one when it is short:
\* all of it is there.
LEMMA ServerReceives ==
    ASSUME Inv, Quiet, Whole, Fine, Receive(Server)
    PROVE  Quiet'
<1> DEFINE req == <<"req", current>>
           k == Packet(req)
<1>1. at[Server] = "recv" /\ buffer[Stream(Server)] > 0
  BY DEF Receive
<1>2. current \in Clients /\ ~Queued(current) /\ Asked(current) /\ Stream(Server) = req
  BY <1>1, Served
<1>3. /\ flight[req] \in {0, size[req]} /\ got[Server] + flight[req] + buffer[req] = size[req]
      /\ got[Server] % Chunk = 0
  BY <1>1, <1>2 DEF Asked
<1>4. req \in Streams /\ flight[req] \in Nat /\ buffer[req] \in Nat /\ got[Server] \in Nat
  BY <1>2, StreamsAre DEF Quiet, Amounts
<1>5. flight[req] = 0 /\ buffer[req] > 0
  BY <1>1, <1>2, <1>3, <1>4
<1>6. /\ got' = [got EXCEPT ![Server] = @ + k] /\ buffer' = [buffer EXCEPT ![req] = @ - k]
      /\ at' = [at EXCEPT ![Server] = IF LastPacket(k) THEN "loads" ELSE "recv"]
      /\ waited' = [waited EXCEPT ![Server] = 0] /\ UNCHANGED <<size, flight, rest>>
  BY <1>2 DEF Receive
<1>7. \A x \in Receivers : x # Server => at'[x] = at[x] /\ got'[x] = got[x] /\ waited'[x] = waited[x]
  BY <1>6 DEF Quiet, Amounts, Inv, Types
<1>8. /\ got'[Server] = got[Server] + k /\ waited'[Server] = 0 /\ buffer'[req] = buffer[req] - k
      /\ at'[Server] = IF LastPacket(k) THEN "loads" ELSE "recv"
  BY <1>4, <1>6, StreamsAre DEF Quiet, Amounts, Inv, Types
<1>9. Asked(current)'
  <2>1. /\ at'[current] = at[current] /\ got'[current] = got[current] /\ waited'[current] = waited[current]
        /\ size' = size /\ flight' = flight /\ current' = current
        /\ buffer'[<<"ans", current>>] = buffer[<<"ans", current>>]
    BY <1>2, <1>6, <1>7, StreamsAre DEF rest, Quiet, Amounts
  <2>2. CASE buffer[req] < Chunk
    <3>1. k = buffer[req] /\ LastPacket(k)
      BY <2>2 DEF Packet, LastPacket
    <3>2. at'[Server] = "loads" /\ got'[Server] = size[req] /\ buffer'[req] = 0
      BY <1>3, <1>4, <1>5, <1>8, <3>1
    <3> QED  BY <1>2, <1>5, <2>1, <3>2 DEF Asked
  <2>3. CASE ~(buffer[req] < Chunk)
    <3>1. k = Chunk /\ ~LastPacket(k) /\ Chunk \in Nat
      BY <2>3, FramingAssumption DEF Packet, LastPacket
    <3>2. (got[Server] + Chunk) % Chunk = 0
      BY <1>3, <1>4, FullPacket
    <3>3. /\ at'[Server] = "recv" /\ got'[Server] % Chunk = 0
          /\ got'[Server] + flight[req] + buffer'[req] = size[req]
      BY <1>3, <1>4, <1>8, <3>1, <3>2
    <3> QED  BY <1>2, <1>8, <2>1, <3>3 DEF Asked
  <2> QED  BY <2>2, <2>3
<1>10. ASSUME NEW c \in Clients, c # current PROVE (Off(c) \/ Asked(c) \/ Answered(c) \/ Failed(c))'
  <2>1. /\ at'[c] = at[c] /\ got'[c] = got[c] /\ waited'[c] = waited[c]
        /\ \A d \in {"req", "ans"} : /\ size'[<<d, c>>] = size[<<d, c>>]
                                     /\ flight'[<<d, c>>] = flight[<<d, c>>]
                                     /\ buffer'[<<d, c>>] = buffer[<<d, c>>]
        /\ queue' = queue /\ failed' = failed
    BY <1>6, <1>7, <1>10, StreamsAre DEF rest, Quiet, Amounts
  <2>2. Queued(c) => Queued(c)'
    BY <2>1 DEF Queued
  <2> QED  BY <1>10, <2>1, <2>2, SameCall DEF Quiet
<1>11. smooth' = smooth /\ ~stopping' /\ at'[Server] \in {"off", "recv", "loads"}
  BY <1>6, <1>8 DEF rest, Quiet
<1>12. Amounts'
  BY AmountsStep DEF Quiet, Next, Proceed, Receivers
<1> QED  BY <1>2, <1>6, <1>9, <1>10, <1>11, <1>12 DEF Quiet, rest

\* A client reads a packet of its answer.
LEMMA ClientReceives ==
    ASSUME Inv, Quiet, Whole, Fine, NEW c \in Clients, Receive(c)
    PROVE  Quiet'
<1> DEFINE ans == <<"ans", c>>
           k == Packet(ans)
<1>1. at[c] = "recv" /\ buffer[ans] > 0 /\ Stream(c) = ans /\ c # Server
  BY StreamsAre DEF Receive, Stream
<1>2. Answered(c)
  <2>1. ~Off(c)
    BY <1>1 DEF Off
  <2>2. ~Asked(c)
    BY <1>1, StreamsAre DEF Asked, Quiet, Amounts
  <2>3. ~Failed(c)
    BY <1>1 DEF Failed
  <2> QED  BY <2>1, <2>2, <2>3 DEF Quiet
<1>3. flight[ans] \in {0, size[ans]} /\ got[c] + flight[ans] + buffer[ans] = size[ans]
  BY <1>2 DEF Answered
<1>4. ans \in Streams /\ flight[ans] \in Nat /\ buffer[ans] \in Nat /\ got[c] \in Nat
  BY StreamsAre DEF Quiet, Amounts
<1>5. flight[ans] = 0
  BY <1>1, <1>3, <1>4
<1>6. /\ got' = [got EXCEPT ![c] = @ + k] /\ buffer' = [buffer EXCEPT ![ans] = @ - k]
      /\ at' = [at EXCEPT ![c] = IF LastPacket(k) THEN "loads" ELSE "recv"]
      /\ waited' = [waited EXCEPT ![c] = 0] /\ UNCHANGED <<size, flight, rest>>
  BY <1>1 DEF Receive
<1>7. \A x \in Receivers : x # c => at'[x] = at[x] /\ got'[x] = got[x] /\ waited'[x] = waited[x]
  BY <1>6 DEF Quiet, Amounts, Inv, Types
<1>8. /\ got'[c] = got[c] + k /\ waited'[c] = 0 /\ buffer'[ans] = buffer[ans] - k
      /\ at'[c] = IF LastPacket(k) THEN "loads" ELSE "recv"
  BY <1>4, <1>6, StreamsAre DEF Quiet, Amounts, Inv, Types
<1>9. Answered(c)'
  <2>1. size' = size /\ flight' = flight /\ buffer'[<<"req", c>>] = buffer[<<"req", c>>]
    BY <1>6, StreamsAre DEF Quiet, Amounts
  <2>2. k \in Nat /\ got'[c] + flight[ans] + buffer'[ans] = size[ans]
    BY <1>3, <1>4, <1>8, FramingAssumption DEF Packet
  <2>3. LastPacket(k) => got'[c] = size[ans]
    BY <1>3, <1>4, <1>5, <1>8, FramingAssumption DEF Packet, LastPacket
  <2> QED  BY <1>2, <1>5, <1>8, <2>1, <2>2, <2>3 DEF Answered
<1>10. ASSUME NEW b \in Clients, b # c PROVE (Off(b) \/ Asked(b) \/ Answered(b) \/ Failed(b))'
  <2>1. /\ at'[b] = at[b] /\ got'[b] = got[b] /\ waited'[b] = waited[b]
        /\ at'[Server] = at[Server] /\ got'[Server] = got[Server] /\ waited'[Server] = waited[Server]
        /\ \A d \in {"req", "ans"} : /\ size'[<<d, b>>] = size[<<d, b>>]
                                     /\ flight'[<<d, b>>] = flight[<<d, b>>]
                                     /\ buffer'[<<d, b>>] = buffer[<<d, b>>]
        /\ queue' = queue /\ current' = current /\ failed' = failed
    BY <1>1, <1>6, <1>7, <1>10, StreamsAre DEF rest, Quiet, Amounts
  <2>2. Queued(b) => Queued(b)'
    BY <2>1 DEF Queued
  <2> QED  BY <1>10, <2>1, <2>2, SameCall DEF Quiet
<1>11. smooth' = smooth /\ ~stopping' /\ at'[Server] \in {"off", "recv", "loads"}
  BY <1>1, <1>6, <1>7, StreamsAre DEF rest, Quiet
<1>12. Amounts'
  BY AmountsStep, StreamsAre DEF Quiet, Next, Proceed
<1> QED  BY <1>9, <1>10, <1>11, <1>12 DEF Quiet

\* The server thread never gives a request up.
LEMMA ServerWaits ==
    ASSUME Inv, Quiet, Fine, at[Server] = "recv", buffer[Stream(Server)] = 0
    PROVE  ~GivesUp(Server) /\ flight[Stream(Server)] > 0
<1> DEFINE req == <<"req", current>>
<1>1. current \in Clients /\ Asked(current) /\ Stream(Server) = req
  BY Served
<1>2. /\ at[current] = "recv" /\ waited[Server] = 0 /\ ~Queued(current)
      /\ got[Server] + flight[req] + buffer[req] = size[req]
      /\ got[Server] % Chunk = 0 /\ size[req] % Chunk # 0
  BY <1>1, Served DEF Asked
<1>3. req \in Streams /\ flight[req] \in Nat /\ got[Server] \in Nat
  BY <1>1, StreamsAre DEF Quiet, Amounts
<1>4. got[Server] # size[req]
  BY <1>2
<1>5. flight[req] > 0
  BY <1>1, <1>2, <1>3, <1>4
<1> QED  BY <1>1, <1>2, <1>5, FramingAssumption DEF GivesUp, PeerClosed

\* A client that gives up waiting has its whole answer.
LEMMA ReceiveEndsQuiet ==
    ASSUME Inv, Quiet, Fine, NEW x \in Receivers, ReceiveEnds(x)
    PROVE  Quiet'
<1>1. x \in Clients /\ x # Server
  BY ServerWaits, StreamsAre DEF ReceiveEnds, Receivers
<1> DEFINE ans == <<"ans", x>>
<1>2. at[x] = "recv" /\ buffer[ans] = 0 /\ Stream(x) = ans /\ GivesUp(x)
  BY <1>1 DEF ReceiveEnds, Stream
<1>3. ~Off(x) /\ ~Failed(x)
  BY <1>2 DEF Off, Failed
<1>4. ~Asked(x)
  <2> SUFFICES ASSUME Asked(x) PROVE FALSE
    OBVIOUS
  <2>1. ServerOpen(x) /\ waited[x] = 0
    BY Waiting, <1>1 DEF Asked, ServerOpen, Queued
  <2> QED  BY <2>1, <1>1, <1>2, FramingAssumption DEF GivesUp, PeerClosed
<1>5. Answered(x)
  BY <1>1, <1>3, <1>4 DEF Quiet
<1>6. flight[ans] = 0 /\ got[x] = size[ans]
  <2>1. flight[ans] \in Nat /\ got[x] \in Nat
    BY <1>1, StreamsAre DEF Quiet, Amounts
  <2>2. flight[ans] = 0
    BY <1>2, <1>5, FramingAssumption DEF GivesUp, Answered
  <2> QED  BY <2>1, <2>2, <1>2, <1>5 DEF Answered
<1>7. /\ at' = [at EXCEPT ![x] = "loads"] /\ waited' = [waited EXCEPT ![x] = 0]
      /\ UNCHANGED <<got, size, flight, buffer, queue, current, stopping, failed, smooth>>
  BY DEF ReceiveEnds, wires, rest
<1>8. /\ at'[x] = "loads" /\ waited'[x] = 0
      /\ \A y \in Receivers : y # x => at'[y] = at[y] /\ waited'[y] = waited[y]
  BY <1>7 DEF Quiet, Amounts, Inv, Types
<1>9. Answered(x)'
  BY <1>5, <1>6, <1>7, <1>8 DEF Answered
<1>10. ASSUME NEW b \in Clients, b # x PROVE (Off(b) \/ Asked(b) \/ Answered(b) \/ Failed(b))'
  <2>1. /\ at'[b] = at[b] /\ waited'[b] = waited[b]
        /\ at'[Server] = at[Server] /\ waited'[Server] = waited[Server]
    BY <1>1, <1>8, <1>10, StreamsAre
  <2>2. Queued(b) => Queued(b)'
    BY <1>7 DEF Queued
  <2> QED  BY <1>7, <1>10, <2>1, <2>2, SameCall DEF Quiet
<1>11. smooth' = smooth /\ ~stopping' /\ at'[Server] \in {"off", "recv", "loads"}
  BY <1>1, <1>7, <1>8, StreamsAre DEF Quiet
<1>12. Amounts'
  BY AmountsStep DEF Quiet, Next, Proceed
<1> QED  BY <1>9, <1>10, <1>11, <1>12 DEF Quiet

\* A call begins.
LEMMA CallQuiet ==
    ASSUME Inv, Quiet, Fine', NEW c \in Clients, Call(c)
    PROVE  Quiet'
<1>1. PICK s \in RequestSizes : Send("req", c, s) /\ smooth' = (smooth /\ s % Chunk # 0)
  BY DEF Call
<1>2. Fine /\ s % Chunk # 0 /\ s \in Nat
  <2>1. s \in Nat
    BY FramingAssumption
  <2>2. failed' = failed
    BY DEF Call
  <2> QED  BY <1>1, <2>1, <2>2 DEF Fine
<1>3. /\ size' = [size EXCEPT ![<<"req", c>>] = s] /\ flight' = [flight EXCEPT ![<<"req", c>>] = s]
      /\ at' = [at EXCEPT ![c] = "recv"] /\ got' = [got EXCEPT ![c] = 0]
      /\ waited' = [waited EXCEPT ![c] = 0] /\ queue' = Append(queue, c) /\ at[c] = "off"
      /\ UNCHANGED <<buffer, current, stopping, failed>>
  BY <1>1 DEF Call, Send, Start
<1>4. Off(c)
  BY <1>2, <1>3 DEF Quiet, Asked, Answered, Failed
<1>5. /\ size'[<<"req", c>>] = s /\ flight'[<<"req", c>>] = s
      /\ size'[<<"ans", c>>] = 0 /\ flight'[<<"ans", c>>] = 0
      /\ buffer[<<"ans", c>>] = 0 /\ buffer[<<"req", c>>] = 0
  <2>1. size[<<"ans", c>>] = 0 /\ flight[<<"ans", c>>] = 0 /\ buffer[<<"ans", c>>] = 0 /\ buffer[<<"req", c>>] = 0
    BY <1>4 DEF Off
  <2> QED  BY <1>3, <2>1, StreamsAre DEF Quiet, Amounts, Inv, Types
<1>6. at'[c] = "recv" /\ got'[c] = 0 /\ waited'[c] = 0
  BY <1>3, StreamsAre DEF Quiet, Amounts, Inv, Types
<1>7. /\ DOMAIN queue = 1..Len(queue) /\ DOMAIN queue' = 1..(Len(queue) + 1) /\ Len(queue) \in Nat
      /\ \A i \in 1..Len(queue) : queue'[i] = queue[i]
      /\ queue'[Len(queue) + 1] = c
  BY <1>3 DEF Inv, Types
<1>8. Queued(c)'
  <2>1. Len(queue) + 1 \in DOMAIN queue'
    BY <1>7
  <2> QED  BY <1>7, <2>1 DEF Queued
<1>9. Asked(c)'
  BY <1>2, <1>3, <1>5, <1>6, <1>8 DEF Asked
<1>10. ASSUME NEW b \in Clients, b # c PROVE (Off(b) \/ Asked(b) \/ Answered(b) \/ Failed(b))'
  <2>1. /\ at'[b] = at[b] /\ got'[b] = got[b] /\ waited'[b] = waited[b]
        /\ at'[Server] = at[Server] /\ got'[Server] = got[Server] /\ waited'[Server] = waited[Server]
    BY <1>3, <1>10, StreamsAre DEF Quiet, Amounts, Inv, Types
  <2>2. \A d \in {"req", "ans"} : /\ size'[<<d, b>>] = size[<<d, b>>]
                                  /\ flight'[<<d, b>>] = flight[<<d, b>>]
    BY <1>3, <1>10, StreamsAre DEF Quiet, Amounts, Inv, Types
  <2>3. Queued(b) => Queued(b)'
    BY <1>7 DEF Queued
  <2> QED  BY <1>2, <1>3, <1>10, <2>1, <2>2, <2>3, SameCall DEF Quiet
<1>11. ~stopping' /\ at'[Server] \in {"off", "recv", "loads"}
  BY <1>2, <1>3, StreamsAre DEF Quiet, Inv, Types
<1>12. Amounts'
  BY AmountsStep DEF Quiet, Next
<1> QED  BY <1>9, <1>10, <1>11, <1>12 DEF Quiet

\* A call ends with its answer.
LEMMA ReturnQuiet ==
    ASSUME Inv, Quiet, Fine, NEW c \in Clients, Return(c)
    PROVE  Quiet'
<1>1. at[c] = "loads" /\ Answered(c)
  BY DEF Return, Quiet, Off, Asked, Failed
<1>2. /\ at' = [at EXCEPT ![c] = "off"]
      /\ size' = [st \in Streams |-> IF st[2] = c THEN 0 ELSE size[st]]
      /\ current' = IF current = c THEN Nil ELSE current
      /\ UNCHANGED <<got, waited, flight, buffer, queue, stopping, failed, smooth>>
  BY DEF Return
<1>3. flight[<<"ans", c>>] = 0 /\ buffer[<<"ans", c>>] = 0
  <2>1. flight[<<"ans", c>>] \in Nat /\ buffer[<<"ans", c>>] \in Nat /\ got[c] \in Nat
    BY StreamsAre DEF Quiet, Amounts
  <2> QED  BY <1>1, <2>1 DEF Answered
<1>4. Off(c)'
  <2>1. at'[c] = "off" /\ \A d \in {"req", "ans"} : size'[<<d, c>>] = 0
    BY <1>2, StreamsAre DEF Inv, Types
  <2>2. flight[<<"req", c>>] = 0 /\ buffer[<<"req", c>>] = 0
    BY <1>1 DEF Answered
  <2> QED  BY <1>2, <1>3, <2>1, <2>2 DEF Off
<1>5. ASSUME NEW b \in Clients, b # c PROVE (Off(b) \/ Asked(b) \/ Answered(b) \/ Failed(b))'
  <2>1. at'[b] = at[b] /\ at'[Server] = at[Server]
    BY <1>2, <1>5, StreamsAre DEF Inv, Types
  <2>2. \A d \in {"req", "ans"} : size'[<<d, b>>] = size[<<d, b>>]
    BY <1>2, <1>5, StreamsAre DEF Inv, Types
  <2>3. Queued(b) => Queued(b)'
    BY <1>2 DEF Queued
  <2> QED  BY <1>2, <1>5, <2>1, <2>2, <2>3, SameCall DEF Quiet
<1>6. ~stopping' /\ at'[Server] \in {"off", "recv", "loads"}
  BY <1>2, StreamsAre DEF Quiet, Inv, Types
<1>7. Amounts'
  BY AmountsStep DEF Quiet, Next, Proceed
<1> QED  BY <1>4, <1>5, <1>6, <1>7 DEF Quiet

\* A client has its whole answer, so that only the handler can raise.
LEMMA RaiseQuiet ==
    ASSUME Inv, Quiet, Fine, NEW c \in Clients, Raise(c)
    PROVE  Quiet'
<1>1. at[c] = "loads" /\ Answered(c) /\ Stream(c) = <<"ans", c>>
  BY StreamsAre DEF Raise, Quiet, Off, Asked, Failed, Stream
<1>2. Complete(c) /\ size[<<"ans", c>>] > 0
  BY <1>1 DEF Answered, Complete
<1>3. /\ at' = [at EXCEPT ![c] = "raised"] /\ failed' = failed \cup {c}
      /\ current' = (IF current = c /\ at[Server] = "off" THEN Nil ELSE current)
      /\ UNCHANGED <<got, waited, size, flight, buffer, queue, stopping, smooth>>
  BY <1>2 DEF Raise, wires
<1>4. at'[c] = "raised" /\ \A x \in Receivers : x # c => at'[x] = at[x]
  BY <1>3, StreamsAre DEF Inv, Types
<1>5. Failed(c)'
  BY <1>2, <1>3, <1>4 DEF Failed
<1>6. ASSUME NEW b \in Clients, b # c PROVE (Off(b) \/ Asked(b) \/ Answered(b) \/ Failed(b))'
  <2>1. at'[b] = at[b] /\ at'[Server] = at[Server]
    BY <1>4, <1>6, StreamsAre
  <2>2. (Queued(b) => Queued(b)') /\ (b \in failed => b \in failed')
    BY <1>3 DEF Queued
  <2> QED  BY <1>3, <1>6, <2>1, <2>2, SameCall DEF Quiet
<1>7. ~stopping' /\ at'[Server] \in {"off", "recv", "loads"}
  BY <1>3, <1>4, StreamsAre DEF Quiet
<1>8. Amounts'
  BY AmountsStep DEF Quiet, Next, Proceed
<1> QED  BY <1>5, <1>6, <1>7, <1>8 DEF Quiet

\* The server thread takes the connection of a client that has asked.
LEMMA AcceptQuiet ==
    ASSUME Inv, Quiet, Fine, Accept
    PROVE  Quiet'
<1>1. /\ at[Server] = "off" /\ queue # <<>> /\ current' = Head(queue) /\ queue' = Tail(queue)
      /\ at' = [at EXCEPT ![Server] = "recv"] /\ got' = [got EXCEPT ![Server] = 0]
      /\ waited' = [waited EXCEPT ![Server] = 0]
      /\ UNCHANGED <<size, flight, buffer, stopping, failed, smooth>>
  BY DEF Accept, Start, wires
<1>2. /\ DOMAIN queue = 1..Len(queue) /\ Len(queue) \in Nat /\ Len(queue) >= 1
      /\ DOMAIN queue' = 1..(Len(queue) - 1) /\ Head(queue) = queue[1]
      /\ \A i \in 1..(Len(queue) - 1) : queue'[i] = queue[i + 1]
      /\ \A i \in 1..Len(queue) : queue[i] \in Clients
  BY <1>1 DEF Inv, Types
<1>3. PICK c \in Clients : c = queue[1]
  BY <1>2
<1>4. Unserved(c) /\ Queued(c) /\ current' = c
  BY <1>1, <1>2, <1>3 DEF Inv, Connections, Queued
<1>5. Asked(c)
  <2>1. ~Off(c) /\ ~Answered(c) /\ ~Failed(c)
    BY <1>4 DEF Off, Answered, Failed, Unserved
  <2> QED  BY <2>1 DEF Quiet
<1>6. /\ at'[Server] = "recv" /\ got'[Server] = 0 /\ waited'[Server] = 0
      /\ \A b \in Clients : at'[b] = at[b] /\ got'[b] = got[b] /\ waited'[b] = waited[b]
  BY <1>1, StreamsAre DEF Quiet, Amounts, Inv, Types
<1>7. 0 + flight[<<"req", c>>] + buffer[<<"req", c>>] = size[<<"req", c>>]
  <2>1. flight[<<"req", c>>] \in Nat /\ buffer[<<"req", c>>] \in Nat
    BY StreamsAre DEF Quiet, Amounts
  <2>2. flight[<<"req", c>>] + buffer[<<"req", c>>] = size[<<"req", c>>]
    BY <1>1, <1>5 DEF Asked
  <2> QED  BY <2>1, <2>2
<1>8. Asked(c)'
  <2>1. 0 % Chunk = 0
    BY FramingAssumption, ZeroRest
  <2>2. /\ at'[c] = at[c] /\ got'[c] = got[c] /\ waited'[c] = waited[c]
        /\ size' = size /\ flight' = flight /\ buffer' = buffer
    BY <1>1, <1>6
  <2>3. at'[Server] # "off" /\ current' = c
    BY <1>4, <1>6
  <2> QED  BY <1>5, <1>6, <1>7, <2>1, <2>2, <2>3 DEF Asked
<1>9. ASSUME NEW b \in Clients, b # c PROVE (Off(b) \/ Asked(b) \/ Answered(b) \/ Failed(b))'
  <2>1. Queued(b) => Queued(b)'
    <3> SUFFICES ASSUME NEW i \in 1..Len(queue), queue[i] = b PROVE Queued(b)'
      BY <1>2 DEF Queued
    <3>1. i # 1 /\ i - 1 \in 1..(Len(queue) - 1) /\ (i - 1) + 1 = i
      BY <1>2, <1>3, <1>9
    <3>2. queue'[i - 1] = b
      BY <1>2, <3>1
    <3> QED  BY <1>2, <3>1, <3>2 DEF Queued
  <2> QED  BY <1>1, <1>6, <1>9, <2>1, SameCall DEF Quiet
<1>10. Amounts'
  BY AmountsStep DEF Quiet, Next, Proceed
<1>11. smooth' = smooth /\ ~stopping' /\ at'[Server] \in {"off", "recv", "loads"}
  BY <1>1, <1>6 DEF Quiet
<1>12. \A b \in Clients : (Off(b) \/ Asked(b) \/ Answered(b) \/ Failed(b))'
  BY <1>8, <1>9
<1> QED  BY <1>10, <1>11, <1>12 DEF Quiet

\* The server thread answers: it has the whole request of a client that waits.
LEMMA HandleQuiet ==
    ASSUME Inv, Quiet, Fine, Fine', Handle
    PROVE  Quiet'
<1> DEFINE req == <<"req", current>>
           ans == <<"ans", current>>
<1>1. at[Server] = "loads"
  BY DEF Handle
<1>2. current \in Clients /\ ~Queued(current) /\ Asked(current) /\ Stream(Server) = req
  BY <1>1, Served
<1>3. /\ got[Server] = size[req] /\ flight[req] = 0 /\ buffer[req] = 0
      /\ at[current] = "recv" /\ size[req] % Chunk # 0
      /\ got[current] = 0 /\ waited[current] = 0 /\ buffer[ans] = 0
  BY <1>1, <1>2 DEF Asked
<1>4. Complete(Server)
  <2>1. 0 % Chunk = 0
    BY FramingAssumption, ZeroRest
  <2>2. size[req] \in Nat
    BY <1>2, StreamsAre DEF Inv, Types
  <2>3. size[req] # 0
    BY <1>3, <2>1
  <2> QED  BY <1>2, <1>3, <2>2, <2>3 DEF Complete
<1>5. PICK s \in AnswerSizes :
        /\ size' = [size EXCEPT ![ans] = s] /\ flight' = [flight EXCEPT ![ans] = s]
        /\ at' = [at EXCEPT ![Server] = "off"] /\ current' = current
        /\ UNCHANGED <<got, waited, buffer, queue, stopping, failed, smooth>>
  BY <1>3, <1>4 DEF Handle, Send, Fine
<1>6. s \in Nat /\ s > 0
  BY FramingAssumption
<1>7. /\ size'[ans] = s /\ flight'[ans] = s /\ flight'[req] = 0
      /\ at'[Server] = "off" /\ \A b \in Clients : at'[b] = at[b]
  BY <1>2, <1>3, <1>5, StreamsAre DEF Quiet, Amounts, Inv, Types
<1>8. Answered(current)'
  BY <1>2, <1>3, <1>5, <1>6, <1>7 DEF Answered
<1>9. ASSUME NEW b \in Clients, b # current PROVE (Off(b) \/ Asked(b) \/ Answered(b) \/ Failed(b))'
  <2>1. \A d \in {"req", "ans"} : /\ size'[<<d, b>>] = size[<<d, b>>]
                                  /\ flight'[<<d, b>>] = flight[<<d, b>>]
    BY <1>2, <1>5, <1>9, StreamsAre DEF Quiet, Amounts, Inv, Types
  <2>2. Queued(b) => Queued(b)'
    BY <1>5 DEF Queued
  <2> QED  BY <1>5, <1>7, <1>9, <2>1, <2>2, SameCall DEF Quiet
<1>10. Amounts'
  BY AmountsStep DEF Quiet, Next, Proceed
<1> QED  BY <1>2, <1>5, <1>7, <1>8, <1>9, <1>10 DEF Quiet

\* A message arrives at once.
LEMMA ArriveQuiet ==
    ASSUME Inv, Quiet, Whole, Fine, NEW d \in {"req", "ans"}, NEW c \in Clients, Arrive(<<d, c>>)
    PROVE  Quiet'
<1> DEFINE st == <<d, c>>
<1>1. /\ flight[st] > 0 /\ flight' = [flight EXCEPT ![st] = @ - flight[st]]
      /\ buffer' = [buffer EXCEPT ![st] = @ + flight[st]]
      /\ UNCHANGED <<at, got, waited, size, queue, current, stopping, failed, smooth>>
  BY DEF Arrive, threads, rest
<1>2. st \in Streams /\ flight[st] \in Nat /\ buffer[st] \in Nat /\ got[c] \in Nat /\ got[Server] \in Nat
  BY StreamsAre DEF Quiet, Amounts
<1>3. /\ flight'[st] = 0 /\ buffer'[st] = buffer[st] + flight[st]
      /\ \A s \in Streams : s # st => flight'[s] = flight[s] /\ buffer'[s] = buffer[s]
  BY <1>1, <1>2 DEF Quiet, Amounts
<1>4. (Off(c) \/ Asked(c) \/ Answered(c) \/ Failed(c))'
  <2>1. ~Off(c)
    BY <1>1 DEF Off
  <2>2. CASE Asked(c)
    <3>1. d = "req"
      BY <1>1, <2>2 DEF Asked
    <3>2. /\ flight'[<<"req", c>>] = 0 /\ buffer'[<<"req", c>>] = buffer[<<"req", c>>] + flight[<<"req", c>>]
          /\ flight'[<<"ans", c>>] = 0 /\ buffer'[<<"ans", c>>] = 0
      BY <1>3, <2>2, <3>1, StreamsAre DEF Asked
    <3>3. /\ flight[<<"req", c>>] + buffer[<<"req", c>>]
               = flight'[<<"req", c>>] + buffer'[<<"req", c>>]
          /\ got[Server] + flight[<<"req", c>>] + buffer[<<"req", c>>]
               = got[Server] + flight'[<<"req", c>>] + buffer'[<<"req", c>>]
      BY <1>2, <3>1, <3>2
    <3>4. Queued(c)' <=> Queued(c)
      BY <1>1 DEF Queued
    <3>5. ~(flight[<<"req", c>>] = 0)
      BY <1>1, <3>1
    <3> QED  BY <1>1, <2>2, <3>2, <3>3, <3>4, <3>5 DEF Asked
  <2>3. CASE Answered(c)
    <3>1. d = "ans"
      BY <1>1, <2>3 DEF Answered
    <3>2. /\ flight'[<<"ans", c>>] = 0 /\ buffer'[<<"ans", c>>] = buffer[<<"ans", c>>] + flight[<<"ans", c>>]
          /\ flight'[<<"req", c>>] = 0 /\ buffer'[<<"req", c>>] = 0
      BY <1>3, <2>3, <3>1, StreamsAre DEF Answered
    <3>3. got[c] + flight[<<"ans", c>>] + buffer[<<"ans", c>>]
               = got[c] + flight'[<<"ans", c>>] + buffer'[<<"ans", c>>]
      BY <1>2, <3>1, <3>2
    <3> QED  BY <1>1, <2>3, <3>2, <3>3 DEF Answered
  <2>4. CASE Failed(c)
    BY <1>1, <2>4 DEF Failed
  <2> QED  BY <2>1, <2>2, <2>3, <2>4 DEF Quiet
<1>5. ASSUME NEW b \in Clients, b # c PROVE (Off(b) \/ Asked(b) \/ Answered(b) \/ Failed(b))'
  <2>1. \A e \in {"req", "ans"} : /\ flight'[<<e, b>>] = flight[<<e, b>>]
                                  /\ buffer'[<<e, b>>] = buffer[<<e, b>>]
    BY <1>3, <1>5, StreamsAre
  <2>2. Queued(b) => Queued(b)'
    BY <1>1 DEF Queued
  <2> QED  BY <1>1, <1>5, <2>1, <2>2, SameCall DEF Quiet
<1>6. Amounts'
  BY <1>2, AmountsStep DEF Quiet, Next, Proceed
<1> QED  BY <1>1, <1>4, <1>5, <1>6 DEF Quiet

\* Time passes for clients whose answer is there.
LEMMA TickQuiet ==
    ASSUME Inv, Quiet, Fine, Tick
    PROVE  Quiet'
<1>1. /\ \A x \in Receivers : at[x] \in {"recv", "loads"} => Idle(x)
      /\ \A st \in Streams : flight[st] = 0
      /\ ~(at[Server] = "off" /\ queue # <<>>)
      /\ UNCHANGED <<at, got, size, flight, buffer, queue, current, stopping, failed, smooth>>
  BY DEF Tick, wires, rest
<1>2. at[Server] = "off"
  <2>1. CASE at[Server] = "recv"
    <3>1. buffer[Stream(Server)] = 0
      BY <1>1, <2>1, StreamsAre DEF Idle
    <3>2. flight[Stream(Server)] > 0 /\ Stream(Server) \in Streams
      BY <2>1, <3>1, ServerWaits, Served, StreamsAre
    <3> QED  BY <1>1, <3>2
  <2>2. at[Server] # "loads"
    BY <1>1, StreamsAre DEF Idle
  <2> QED  BY <2>1, <2>2 DEF Quiet
<1>3. \A c \in Clients : ~Asked(c)
  <2>1. queue = <<>>
    BY <1>1, <1>2
  <2>2. \A c \in Clients : ~Queued(c)
    BY <2>1 DEF Queued
  <2> QED  BY <1>2, <2>2, Waiting DEF Asked
<1>4. ASSUME NEW c \in Clients PROVE (Off(c) \/ Asked(c) \/ Answered(c) \/ Failed(c))'
  <2>1. CASE Off(c)
    BY <1>1, <2>1 DEF Off
  <2>2. CASE Answered(c)
    BY <1>1, <2>2, StreamsAre DEF Answered
  <2>3. CASE Failed(c)
    BY <1>1, <2>3 DEF Failed
  <2> QED  BY <1>3, <2>1, <2>2, <2>3 DEF Quiet
<1>5. Amounts'
  BY AmountsStep DEF Quiet, Next, Proceed
<1> QED  BY <1>1, <1>4, <1>5 DEF Quiet

\* With messages that arrive at once, Quiet is inductive.
LEMMA QuietStep ==
    Whole /\ Inv /\ Quiet /\ [Next]_vars => Quiet'
<1> SUFFICES ASSUME Whole, Inv, Quiet, [Next]_vars PROVE Quiet'
  OBVIOUS
<1>1. CASE UNCHANGED vars
  <2>1. \A c \in Clients : (Off(c) <=> Off(c)') /\ (Asked(c) <=> Asked(c)') /\ (Answered(c) <=> Answered(c)')
                        /\ (Failed(c) <=> Failed(c)')
    BY <1>1 DEF vars, threads, wires, rest, Off, Asked, Answered, Failed, Queued
  <2> QED  BY <1>1, <2>1 DEF vars, threads, wires, rest, Quiet, Fine, Amounts
<1>2. CASE Next /\ ~Fine'
  <2>1. Amounts'
    BY <1>2, AmountsStep DEF Quiet
  <2> QED  BY <1>2, <2>1 DEF Quiet
<1>3. CASE Next /\ Fine'
  <2>1. Fine
    BY <1>3 DEF Fine, Next, Proceed, Receive, ReceiveEnds, Return, Raise, Accept, Handle, Leave, Tick, Arrive,
           Call, Refused, Lose, Stop, rest
  <2>2. ASSUME NEW x \in Receivers, Receive(x) \/ ReceiveEnds(x) PROVE Quiet'
    BY <2>1, <2>2, ServerReceives, ClientReceives, ReceiveEndsQuiet DEF Receivers
  <2>3. ASSUME NEW c \in Clients, Return(c) \/ Raise(c) PROVE Quiet'
    BY <2>1, <2>3, ReturnQuiet, RaiseQuiet
  <2>4. CASE Accept \/ Handle \/ Tick
    BY <1>3, <2>1, <2>4, AcceptQuiet, HandleQuiet, TickQuiet
  <2>5. ASSUME NEW st \in Streams, Arrive(st) PROVE Quiet'
    <3>1. PICK d \in {"req", "ans"}, c \in Clients : st = <<d, c>>
      BY DEF Streams
    <3> QED  BY <2>1, <2>5, <3>1, ArriveQuiet
  <2>6. ASSUME NEW c \in Clients, Call(c) PROVE Quiet'
    BY <1>3, <2>6, CallQuiet
  <2>7. /\ ~Leave /\ ~Stop /\ \A c \in Clients : ~Refused(c)
        /\ \A st \in Streams : ~Lose(st)
    BY <1>3, <2>1 DEF Leave, Stop, Refused, Lose, Quiet, Fine
  <2> QED  BY <1>3, <2>2, <2>3, <2>4, <2>5, <2>6, <2>7 DEF Next, Proceed
<1> QED  BY <1>1, <1>2, <1>3

\* When messages arrive at once, for any number of clients and calls and any
\* sizes: as long as nothing is lost, no request fills its last packet and the
\* thread is not stopped, the server thread ends only by an exception of its own
\* handler, and a client only by one of its own or after the server thread.
THEOREM OnlyOwnHandlersRaise ==
    Whole => (Spec => []OnlyHandlersRaise)
<1> SUFFICES ASSUME Whole PROVE Spec => []OnlyHandlersRaise
  OBVIOUS
<1>1. Init => Quiet
  <2> SUFFICES ASSUME Init PROVE Quiet
    OBVIOUS
  <2>1. Amounts /\ ~stopping /\ at[Server] = "off"
    BY StreamsAre DEF Init, Amounts
  <2>2. \A c \in Clients : Off(c)
    BY StreamsAre DEF Init, Off
  <2> QED  BY <2>1, <2>2 DEF Quiet
<1>2. Inv /\ Quiet /\ [Next]_vars => Quiet'
  BY QuietStep
<1>3. Quiet => OnlyHandlersRaise
  <2> SUFFICES ASSUME Quiet, smooth, NEW x \in Receivers, at[x] = "raised", Server \notin failed
               PROVE  x \in failed
    BY DEF OnlyHandlersRaise
  <2>1. Fine
    BY DEF Fine
  <2>2. x # Server
    BY <2>1 DEF Quiet
  <2>3. x \in Clients /\ ~Off(x) /\ ~Asked(x) /\ ~Answered(x)
    BY <2>2 DEF Receivers, Off, Asked, Answered
  <2>4. Failed(x)
    BY <2>1, <2>3 DEF Quiet
  <2> QED  BY <2>4 DEF Failed
<1>4. Spec => [](Inv /\ ClientsOpen)
  BY ConnectionsRight
<1> QED  BY <1>1, <1>2, <1>3, <1>4, PTL DEF Spec
=============================================================================
