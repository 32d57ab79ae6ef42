--------------------------- MODULE ReplicatedLog ---------------------------
(***************************************************************************)
(* What the chains of a toychain network promise, whatever the consensus   *)
(* does: every replica has a log that only grows, one entry at a time. It  *)
(* either creates an entry nobody has yet, with items its log does not     *)
(* hold, or copies the next entry of a replica whose log extends its own.  *)
(* Nothing is promised about two replicas that create an entry at the same *)
(* place: the logs may fork there, and then they never merge again.        *)
(***************************************************************************)
EXTENDS Integers, Sequences

CONSTANT Replicas

VARIABLE log     \* log[r]: sequence of entries [id, items]

Items(l) == UNION {l[i].items : i \in DOMAIN l}

\* The log l after one more entry, whatever the entry is.
Extends(l, longer) ==
    /\ Len(longer) = Len(l) + 1
    /\ SubSeq(longer, 1, Len(l)) = l

Init == log = [r \in Replicas |-> <<>>]

Create(r) ==
    LET entry == log'[r][Len(log[r]) + 1]
    IN  /\ Extends(log[r], log'[r])
        /\ \A q \in Replicas : \A i \in DOMAIN log[q] : log[q][i].id # entry.id
        /\ entry.items \cap Items(log[r]) = {}

Copy(r, q) ==
    /\ Extends(log[r], log'[r])
    /\ Len(log[q]) >= Len(log[r]) + 1
    /\ log'[r] = SubSeq(log[q], 1, Len(log[r]) + 1)

Next == \E r \in Replicas :
          /\ Create(r) \/ \E q \in Replicas \ {r} : Copy(r, q)
          /\ \A q \in Replicas \ {r} : log'[q] = log[q]

Spec == Init /\ [][Next]_log
=============================================================================
