-------------------------------- MODULE Rpc --------------------------------
(***************************************************************************)
(* What send_request promises its caller, whatever the network does: the   *)
(* handler of the peer runs to its end at most once for a call, the caller *)
(* goes on only with the answer of a handler that has, and otherwise an    *)
(* exception ends the caller. A handler may still run for a caller that    *)
(* has given up. One that raises serves no call, and none runs after it.   *)
(***************************************************************************)
EXTENDS Integers

CONSTANT Clients

VARIABLE call     \* call[c]: [at, served]

Call(c)  == call[c].at = "off" /\ call' = [call EXCEPT ![c] = [at |-> "waiting", served |-> FALSE]]
Serve(c) == /\ call[c].at \in {"waiting", "raised"} /\ ~call[c].served
            /\ call' = [call EXCEPT ![c] = [at |-> call[c].at, served |-> TRUE]]
Return(c) == /\ call[c] = [at |-> "waiting", served |-> TRUE]
             /\ call' = [call EXCEPT ![c] = [at |-> "off", served |-> FALSE]]
Raise(c) == call[c].at # "raised" /\ call' = [call EXCEPT ![c].at = "raised"]

Init == call = [c \in Clients |-> [at |-> "off", served |-> FALSE]]
Next == \E c \in Clients : Call(c) \/ Serve(c) \/ Return(c) \/ Raise(c)

Spec == Init /\ [][Next]_call
=============================================================================
