------------------------- MODULE FramingProperties -------------------------
(***************************************************************************)
(* What module Framing is checked for and, in module FramingProofs, proved *)
(* to satisfy.                                                             *)
(***************************************************************************)
EXTENDS Framing

\* A packet that is not full is the end of the message: what receive hands on
\* after one is all that was sent.
ShortPacketEnds ==
    [][\A x \in Receivers :
          at[x] = "recv" /\ at'[x] = "loads" /\ buffer[Stream(x)] > 0
              => got'[x] = size[Stream(x)]]_vars

\* As long as nothing is lost, no request fills its last packet and the thread
\* is not stopped, only handlers raise: the server thread ends by an exception of
\* its own handler, and a client by one of its own or after the server thread has
\* ended. An answer that fills its last packet, for which the caller waits until
\* the timeout or until the server turns to another connection, is none the less
\* received, and what a client's handler raises harms nobody else.
OnlyHandlersRaise ==
    smooth => \A x \in Receivers : at[x] = "raised" => {x, Server} \cap failed # {}

\* The calls of the clients: a handler has run to its end when there is an answer.
CallState == [c \in Clients |->
                 [at     |-> IF at[c] \in {"recv", "loads"} THEN "waiting" ELSE at[c],
                  served |-> size[<<"ans", c>>] > 0]]

\* At most one handler runs to its end per call, and an answer comes from it.
Calls == INSTANCE Rpc WITH call <- CallState
ImplementsRpc == Calls!Spec

\* The timeout prevents getting stuck indefinitely: every call returns or
\* raises, and the server thread is free again after every connection.
NobodyStuck == \A x \in Receivers : at[x] = "recv" ~> at[x] # "recv"
=============================================================================
