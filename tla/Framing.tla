------------------------------ MODULE Framing ------------------------------
(***************************************************************************)
(* NodeServerThread on a TCP stream: send_request of the clients (the main *)
(* loops of other nodes) and the server thread of one node, which serves   *)
(* one connection after the other. A message is a number of bytes, counted *)
(* in some unit of which Chunk make a full packet of recv. There is no     *)
(* length in the stream: receive takes a packet that is not full for the   *)
(* end of the message, and goes on waiting after a full one.               *)
(*                                                                         *)
(* An operator M_... is the one after it with an error, as in module Node. *)
(***************************************************************************)
EXTENDS Integers, Sequences

CONSTANTS
    Clients,        \* nodes that send requests
    Server,         \* the server thread
    Nil,            \* Python's None
    Chunk,          \* size of a full packet (4096 bytes in the code)
    Timeout,        \* of every recv (50 s in the code)
    RequestSizes,   \* sizes of a pickled request
    AnswerSizes,    \* sizes of a pickled answer
    Whole,          \* TRUE: a message arrives at once, FALSE: in any pieces
    MaxCalls        \* bound: calls of a client

ASSUME FramingAssumption ==
    /\ Server \notin Clients /\ Nil \notin Clients
    /\ Chunk \in Nat \ {0, 1} /\ Timeout \in Nat \ {0} /\ MaxCalls \in Nat
    /\ RequestSizes \cup AnswerSizes \subseteq Nat \ {0}
    /\ Whole \in BOOLEAN

VARIABLES
    at,       \* at[x]: "off", "recv", "loads" (unpickles), "raised" or "closed"
    got,      \* got[x]: size of what receive has collected
    waited,   \* waited[x]: time since x called recv
    size,     \* size[d, c]: size of the request or answer of c's call, 0 before it is sent
    flight,   \* flight[d, c]: part of it that has been sent and has not arrived
    buffer,   \* buffer[d, c]: part of it that has arrived and is not read
    queue,    \* connections that wait for accept
    current,  \* client_sock: the connection served, or the last one
    stopping, \* terminate_flag
    calls,    \* calls[c]: calls that c has made
    failed,   \* for a property: threads that an exception of a handler ended
    smooth    \* for a property: nothing was lost, no request has filled its
              \* last packet, and the thread was not stopped

threads == <<at, got, waited>>
wires   == <<size, flight, buffer>>
rest    == <<queue, current, stopping, calls, failed, smooth>>
vars    == <<threads, wires, rest>>

Receivers == Clients \cup {Server}
Streams == {"req", "ans"} \X Clients

\* The stream that x reads.
Stream(x) == IF x = Server THEN <<"req", current>> ELSE <<"ans", x>>

\* The server's end of c's connection is open until accept returns the next
\* one: then the variable client_sock no longer refers to it.
ServerOpen(c) == c = current \/ \E i \in DOMAIN queue : queue[i] = c

\* The other end of x's connection is closed.
PeerClosed(x) == IF x = Server THEN at[current] \in {"off", "raised"} ELSE ~ServerOpen(x)

Start(x) == /\ at' = [at EXCEPT ![x] = "recv"]
            /\ got' = [got EXCEPT ![x] = 0]
            /\ waited' = [waited EXCEPT ![x] = 0]

Send(d, c, s) == /\ size' = [size EXCEPT ![<<d, c>>] = s]
                 /\ flight' = [flight EXCEPT ![<<d, c>>] = s]

-----------------------------------------------------------------------------
(* receive *)

\* What recv returns: all there is, up to a full packet.
Packet(st) == IF buffer[st] < Chunk THEN buffer[st] ELSE Chunk

M_NeverLast(k) == FALSE
LastPacket(k) == k < Chunk

Receive(x) ==
    /\ at[x] = "recv" /\ buffer[Stream(x)] > 0
    /\ LET k == Packet(Stream(x))
       IN  /\ got' = [got EXCEPT ![x] = @ + k]
           /\ buffer' = [buffer EXCEPT ![Stream(x)] = @ - k]
           /\ at' = [at EXCEPT ![x] = IF LastPacket(k) THEN "loads" ELSE "recv"]
    /\ waited' = [waited EXCEPT ![x] = 0]
    /\ UNCHANGED <<size, flight, rest>>

\* receive ends without a packet: the peer has closed, or the time is over.
M_NoTimeout(x) == PeerClosed(x) /\ flight[Stream(x)] = 0
GivesUp(x) == \/ PeerClosed(x) /\ flight[Stream(x)] = 0
              \/ waited[x] = Timeout

ReceiveEnds(x) ==
    /\ at[x] = "recv" /\ buffer[Stream(x)] = 0 /\ GivesUp(x)
    /\ at' = [at EXCEPT ![x] = "loads"]
    /\ waited' = [waited EXCEPT ![x] = 0]
    /\ UNCHANGED <<got, wires, rest>>

\* The data is the message that was sent, so that pickle.loads succeeds.
M_AnyData(x) == TRUE
Complete(x) == LET s == size[Stream(x)] IN s > 0 /\ got[x] = s

-----------------------------------------------------------------------------
(* send_request *)

Call(c) ==
    /\ at[c] = "off" /\ calls[c] < MaxCalls /\ at[Server] # "closed"
    /\ calls' = [calls EXCEPT ![c] = @ + 1]
    /\ \E s \in RequestSizes :
          /\ Send("req", c, s)
          /\ smooth' = (smooth /\ s % Chunk # 0)
    /\ Start(c)
    /\ queue' = Append(queue, c)
    /\ UNCHANGED <<buffer, current, stopping, failed>>

\* Nobody listens any more: connect raises.
Refused(c) ==
    /\ at[c] = "off" /\ calls[c] < MaxCalls /\ at[Server] = "closed"
    /\ at' = [at EXCEPT ![c] = "raised"]
    /\ UNCHANGED <<got, waited, wires, rest>>

\* The answer is handled and the socket closed ...
Return(c) ==
    /\ at[c] = "loads" /\ Complete(c)
    /\ at' = [at EXCEPT ![c] = "off"]
    /\ size' = [st \in Streams |-> IF st[2] = c THEN 0 ELSE size[st]]
    /\ current' = IF current = c THEN Nil ELSE current
    /\ UNCHANGED <<got, waited, flight, buffer, queue, stopping, calls, failed, smooth>>

\* ... or unpickling or the handler raises, and the socket goes with the frames.
Raise(c) ==
    /\ at[c] = "loads"
    /\ \/ ~Complete(c) /\ UNCHANGED failed
       \/ Complete(c) /\ failed' = failed \cup {c}
    /\ at' = [at EXCEPT ![c] = "raised"]
    /\ current' = IF current = c /\ at[Server] = "off" THEN Nil ELSE current
    /\ UNCHANGED <<got, waited, wires, queue, stopping, calls, smooth>>

-----------------------------------------------------------------------------
(* The server thread *)

Accept ==
    /\ at[Server] = "off" /\ queue # <<>>
    /\ current' = Head(queue) /\ queue' = Tail(queue)
    /\ Start(Server)
    /\ UNCHANGED <<wires, stopping, calls, failed, smooth>>

\* The thread ends: its frames are gone and client_sock with them, while the
\* listening socket goes on taking connections.
ServerRaises ==
    /\ at' = [at EXCEPT ![Server] = "raised"]
    /\ current' = Nil
    /\ UNCHANGED <<size, flight>>

\* handle_connection with what receive returned: it answers, or unpickling
\* raises, or handle_request. sendall to a client that has closed its socket
\* may raise too, or go unnoticed.
Handle ==
    /\ at[Server] = "loads"
    /\ \/ /\ Complete(Server)
          /\ \E s \in AnswerSizes : Send("ans", current, s)
          /\ at' = [at EXCEPT ![Server] = "off"]
          /\ current' = IF at[current] = "raised" THEN Nil ELSE current
          /\ UNCHANGED failed
       \/ /\ ~Complete(Server) \/ at[current] = "raised"
          /\ ServerRaises /\ UNCHANGED failed
       \/ /\ Complete(Server)
          /\ ServerRaises /\ failed' = failed \cup {Server}
    /\ UNCHANGED <<got, waited, buffer, queue, stopping, calls, smooth>>

Stop ==
    /\ ~stopping
    /\ stopping' = TRUE /\ smooth' = FALSE
    /\ UNCHANGED <<threads, wires, queue, current, calls, failed>>

\* The loop of run ends: the listening socket is closed, and with it every
\* connection that waits for accept.
Leave ==
    /\ stopping /\ at[Server] = "off"
    /\ at' = [at EXCEPT ![Server] = "closed"]
    /\ queue' = <<>> /\ current' = Nil
    /\ UNCHANGED <<got, waited, wires, stopping, calls, failed, smooth>>

-----------------------------------------------------------------------------
(* Network and time *)

Arrive(st) ==
    /\ flight[st] > 0
    /\ \E k \in 1..flight[st] :
          /\ Whole => k = flight[st]
          /\ flight' = [flight EXCEPT ![st] = @ - k]
          /\ buffer' = [buffer EXCEPT ![st] = @ + k]
    /\ UNCHANGED <<threads, size, rest>>

\* The robots are out of range for longer than the timeout.
Lose(st) ==
    /\ flight[st] > 0
    /\ flight' = [flight EXCEPT ![st] = 0] /\ smooth' = FALSE
    /\ UNCHANGED <<threads, size, buffer, queue, current, stopping, calls, failed>>

\* x waits and nothing is there for it.
Idle(x) == at[x] = "recv" /\ buffer[Stream(x)] = 0 /\ ~GivesUp(x)

\* Time passes when nobody has anything to do: threads and network are far
\* faster than the timeout.
Tick ==
    /\ \E x \in Receivers : Idle(x)
    /\ \A x \in Receivers : at[x] \in {"recv", "loads"} => Idle(x)
    /\ \A st \in Streams : flight[st] = 0
    /\ ~(at[Server] = "off" /\ queue # <<>>)
    /\ waited' = [x \in Receivers |-> IF at[x] = "recv" /\ waited[x] < Timeout
                                       THEN waited[x] + 1 ELSE waited[x]]
    /\ UNCHANGED <<at, got, wires, rest>>

-----------------------------------------------------------------------------
(* The specification *)

Init ==
    /\ at       = [x \in Receivers |-> "off"]
    /\ got      = [x \in Receivers |-> 0]
    /\ waited   = [x \in Receivers |-> 0]
    /\ size     = [st \in Streams |-> 0]
    /\ flight   = [st \in Streams |-> 0]
    /\ buffer   = [st \in Streams |-> 0]
    /\ queue    = <<>>
    /\ current  = Nil
    /\ stopping = FALSE
    /\ calls    = [c \in Clients |-> 0]
    /\ failed   = {}
    /\ smooth   = TRUE

\* What threads and network do on their own.
Proceed == \/ \E x \in Receivers : Receive(x) \/ ReceiveEnds(x)
           \/ \E c \in Clients : Return(c) \/ Raise(c)
           \/ Accept \/ Handle \/ Leave \/ Tick
           \/ \E st \in Streams : Arrive(st)

Next == \/ Proceed
        \/ \E c \in Clients : Call(c) \/ Refused(c)
        \/ \E st \in Streams : Lose(st)
        \/ Stop

Spec == Init /\ [][Next]_vars

\* Threads are scheduled, packets travel and clocks run.
FairSpec == Spec /\ WF_vars(Proceed)
=============================================================================
