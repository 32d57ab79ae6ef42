-------------------------- MODULE SharedTransaction --------------------------
(***************************************************************************)
(* One Transaction object that the main loop and the server thread of a    *)
(* node share without a lock, at the grain of the statements that convert  *)
(* its signature chain to JSON and back in place. Every hash of a block    *)
(* and every answer with transactions or blocks makes the two conversions, *)
(* a vote converts the entry it names; the scan for the lowest signature   *)
(* only reads.                                                             *)
(*                                                                         *)
(* An operator M_... is the one after it with an error, as in module Node. *)
(***************************************************************************)
EXTENDS Integers, SequencesExt

CONSTANTS
    Hops,      \* length of the signature chain
    MaxOps     \* bound: operations of a thread

ASSUME SharedAssumption ==
    Hops \in Nat \ {0} /\ MaxOps \in Nat

VARIABLES
    items,     \* signature_chain: references to entries, or JSON texts
    json,      \* the tag self.json
    entry,     \* entry[e]: the fields [pk, sg] of a SignatureChainEntry
    thread,    \* thread[t]: what t is doing
    ops,       \* ops[t]: operations that t has begun
    results,   \* what the operations have read: hashes, sent lists, scans
    mode       \* how the threads meet, in the whole behaviour: "serial", one works
               \* at a time (the single loop of sync_test.py, which waits for the
               \* answers of server threads); "mining", the main loop only scans the
               \* mempool; "free", anything

vars == <<items, json, entry, thread, ops, results, mode>>

Threads == {"main", "server"}

\* hash: transactions_hash, by any thread. sign, forward: the answer with a
\* transaction on its way, or with a completed one (also block_to_list).
\* vote: vote_to_dict, of the first entry, which an earlier scan has cached.
\* scan: calculate_lowest_signature.
OpsOf(t) == IF t = "server" THEN {"hash", "sign", "forward", "vote"}
            ELSE IF mode = "mining" THEN {"scan"} ELSE {"hash", "scan"}

\* References: entry k of the list that t made in its operation number o.
Refs == (Threads \cup {"init"}) \X (0..MaxOps) \X (1..Hops)

\* An entry holds a key object or its text, and a signature in bytes, as text,
\* or what decoding the bytes once more makes of them ("wrong").
Entries == [pk : {"key", "text"}, sg : {"bytes", "text", "wrong", "wrongtext"}]
Genuine == [pk |-> "key", sg |-> "bytes"]

\* What stands for the JSON text of entry k: its signature, in base64.
Text(sg, k) == <<sg, 0, k>>

IsRef(item) == item \in Refs

Cached == <<"init", 0, 1>>

Idle == [op |-> "none", pc |-> "idle", i |-> 0, reg |-> "none", list |-> <<>>, out |-> <<>>]

-----------------------------------------------------------------------------
(* Conversions: what the four functions make of a field, "raise" included *)

\* pub_key_to_json(bytes(str)) and b64encode(str) raise a TypeError; decoding
\* bytes that are no base64 gives other bytes or raises.
Convert(fn, v) ==
    CASE fn = "pk>" -> IF v = "key" THEN {"text"} ELSE {"raise"}
      [] fn = "sg>" -> IF v = "bytes" THEN {"text"}
                       ELSE IF v = "wrong" THEN {"wrongtext"} ELSE {"raise"}
      [] fn = "pk<" -> IF v = "text" THEN {"key"} ELSE {"raise"}
      [] fn = "sg<" -> IF v = "text" THEN {"bytes"}
                       ELSE IF v = "wrongtext" THEN {"wrong"} ELSE {"wrong", "raise"}

Field(fn) == IF fn \in {"pk>", "pk<"} THEN "pk" ELSE "sg"

Raised(t) == thread' = [thread EXCEPT ![t] = [Idle EXCEPT !.pc = "raised"]]
Goto(t, pc) == thread' = [thread EXCEPT ![t].pc = pc]

-----------------------------------------------------------------------------
(* sig_chain_to_json *)

Begin(t, op) ==
    /\ thread[t] = Idle /\ ops[t] < MaxOps /\ op \in OpsOf(t)
    /\ mode = "serial" => \A u \in Threads : thread[u] = Idle
    /\ ops' = [ops EXCEPT ![t] = @ + 1]
    /\ thread' = [thread EXCEPT ![t] =
                     [Idle EXCEPT !.op = op, !.i = 1,
                                  !.list = IF op = "vote" THEN <<Cached>> ELSE items,
                                  !.pc = IF op = "scan" THEN "scan" ELSE "pk>"]]
    /\ UNCHANGED <<items, json, entry, results, mode>>

Entry(t) == thread[t].list[thread[t].i]

\* One field of one entry is read and converted ...
Read(t) ==
    /\ thread[t].pc \in {"pk>", "sg>", "pk<", "sg<"} /\ thread[t].reg = "none"
    /\ IF IsRef(Entry(t))
       THEN \E v \in Convert(thread[t].pc, entry[Entry(t)][Field(thread[t].pc)]) :
               IF v = "raise" THEN Raised(t)
                              ELSE thread' = [thread EXCEPT ![t].reg = v]
       ELSE Raised(t)     \* a str has no sig_to_json
    /\ UNCHANGED <<items, json, entry, ops, results, mode>>

After == [fn \in {"pk>", "sg>", "pk<"} |->
            CASE fn = "pk>" -> "sg>" [] fn = "sg>" -> "dump" [] fn = "pk<" -> "sg<"]

\* ... and written back.
Write(t) ==
    /\ thread[t].reg # "none"
    /\ LET fn   == thread[t].pc
           last == thread[t].i = Len(thread[t].list)
       IN  /\ entry' = [entry EXCEPT ![Entry(t)][Field(fn)] = thread[t].reg]
           /\ thread' = [thread EXCEPT ![t] =
                 [thread[t] EXCEPT !.reg = "none",
                                   !.i  = IF fn = "sg<" THEN @ + 1 ELSE @,
                                   !.pc = IF fn # "sg<" THEN After[fn]
                                          ELSE IF ~last THEN "pk>"
                                          ELSE IF thread[t].op = "vote" THEN "use" ELSE "assign"]]
    /\ UNCHANGED <<items, json, ops, results, mode>>

\* json.dumps(sig.__dict__) raises unless both fields are texts: at once for a
\* chain, from a copy and after the entry is restored for a vote, where nothing
\* else of the entry is read.
Dump(t) ==
    /\ thread[t].pc = "dump"
    /\ LET e    == entry[Entry(t)]
           text == e.pk = "text" /\ e.sg \in {"text", "wrongtext"}
       IN  IF text \/ thread[t].op = "vote"
           THEN thread' = [thread EXCEPT ![t] =
                   [thread[t] EXCEPT !.pc = "pk<",
                       !.out = Append(@, Text(IF text THEN e.sg ELSE "none", Entry(t)[3]))]]
           ELSE Raised(t)
    /\ UNCHANGED <<items, json, entry, ops, results, mode>>

Assign(t) ==
    /\ thread[t].pc = "assign"
    /\ items' = thread[t].out
    /\ Goto(t, "tag")
    /\ UNCHANGED <<json, entry, ops, results, mode>>

Tag(t) ==
    /\ thread[t].pc = "tag"
    /\ json' = TRUE
    /\ Goto(t, "use")
    /\ UNCHANGED <<items, entry, ops, results, mode>>

-----------------------------------------------------------------------------
(* What the conversion is for *)

InJson(list) == \A k \in DOMAIN list : ~IsRef(list[k])

\* compute_hash puts the length of the chain and the tag into the hash.
Hash(t) ==
    /\ thread[t].pc = "use" /\ thread[t].op = "hash"
    /\ results' = [results EXCEPT !.hashed = @ \cup {json}]
    /\ Goto(t, "load")
    /\ UNCHANGED <<items, json, entry, ops, mode>>

\* deepcopy of the transaction. To sign it, the copy is turned back, which
\* raises if it is not in JSON; a completed one is sent as it is.
Send(t) ==
    /\ thread[t].pc = "use" /\ thread[t].op \in {"sign", "forward"}
    /\ \/ /\ thread[t].op = "sign" /\ ~InJson(items)
          /\ Raised(t) /\ UNCHANGED results
       \/ /\ thread[t].op = "sign" => InJson(items)
          /\ results' = [results EXCEPT !.sent = @ \cup {items[k] : k \in DOMAIN items}]
          /\ Goto(t, "load")
    /\ UNCHANGED <<items, json, entry, ops, mode>>

\* The answer with the vote, made from the copy.
Answer(t) ==
    /\ thread[t].pc = "use" /\ thread[t].op = "vote"
    /\ IF thread[t].out = <<Text("none", 1)>>
       THEN Raised(t) /\ UNCHANGED results
       ELSE /\ results' = [results EXCEPT !.sent = @ \cup {thread[t].out[1]}]
            /\ thread' = [thread EXCEPT ![t] = Idle]
    /\ UNCHANGED <<items, json, entry, ops, mode>>

\* compute_sig_value of one entry after the other.
Scan(t) ==
    /\ thread[t].pc = "scan"
    /\ IF IsRef(Entry(t)) /\ entry[Entry(t)].sg \in {"bytes", "wrong"}
       THEN /\ results' = [results EXCEPT !.scanned = @ \cup {entry[Entry(t)].sg}]
            /\ thread' = [thread EXCEPT ![t] = IF thread[t].i < Hops
                                               THEN [thread[t] EXCEPT !.i = @ + 1] ELSE Idle]
       ELSE Raised(t) /\ UNCHANGED results
    /\ UNCHANGED <<items, json, entry, ops, mode>>

-----------------------------------------------------------------------------
(* json_to_sig_chain *)

M_NotDecoded(text) == [pk |-> "text", sg |-> text[1]]
Decoded(text) == [pk |-> "key", sg |-> IF text[1] = "text" THEN "bytes" ELSE "wrong"]

\* New entries are made from the texts; json.loads raises on an entry.
Load(t) ==
    /\ thread[t].pc = "load"
    /\ IF InJson(items)
       THEN LET new == [k \in 1..Hops |-> <<t, ops[t], k>>]
            IN  /\ entry' = [e \in Refs |-> IF e \in {new[k] : k \in 1..Hops}
                                            THEN Decoded(items[e[3]]) ELSE entry[e]]
                /\ thread' = [thread EXCEPT ![t] = [thread[t] EXCEPT !.out = new, !.pc = "restore"]]
       ELSE Raised(t) /\ UNCHANGED entry
    /\ UNCHANGED <<items, json, ops, results, mode>>

M_Prepend(t) == Reverse(thread[t].out)
NewChain(t) == thread[t].out

Restore(t) ==
    /\ thread[t].pc = "restore"
    /\ items' = NewChain(t)
    /\ Goto(t, "untag")
    /\ UNCHANGED <<json, entry, ops, results, mode>>

M_Tagged(t) ==
    /\ thread[t].pc = "untag"
    /\ thread' = [thread EXCEPT ![t] = Idle]
    /\ UNCHANGED <<items, json, entry, ops, results, mode>>
Untag(t) ==
    /\ thread[t].pc = "untag"
    /\ json' = FALSE
    /\ thread' = [thread EXCEPT ![t] = Idle]
    /\ UNCHANGED <<items, entry, ops, results, mode>>

-----------------------------------------------------------------------------
(* The specification *)

Init ==
    /\ items   = [k \in 1..Hops |-> <<"init", 0, k>>]
    /\ json    = FALSE
    /\ entry   = [e \in Refs |-> Genuine]
    /\ thread  = [t \in Threads |-> Idle]
    /\ ops     = [t \in Threads |-> 0]
    /\ results = [hashed |-> {}, sent |-> {}, scanned |-> {}]
    /\ mode \in {"serial", "mining", "free"}

Next == \E t \in Threads :
          \/ \E op \in OpsOf(t) : Begin(t, op)
          \/ Read(t) \/ Write(t) \/ Dump(t) \/ Assign(t) \/ Tag(t)
          \/ Hash(t) \/ Send(t) \/ Answer(t) \/ Scan(t)
          \/ Load(t) \/ Restore(t) \/ Untag(t)

Spec == Init /\ [][Next]_vars

-----------------------------------------------------------------------------
(* Properties *)

\* Whatever two threads convert at a time, no entry of the chain is lost, doubled
\* or moved (validate_chain compares each entry with its neighbour).
OrderKept == \A k \in 1..Hops : items[k][3] = k

Restored == \A k \in 1..Hops : IsRef(items[k]) /\ entry[items[k]] = Genuine

\* While only one thread works at a time, nothing raises, every hash is taken
\* with the tag set, only texts of genuine signatures leave the node, and each
\* operation leaves the transaction as it was.
SerialWorks == mode = "serial" =>
    /\ \A t \in Threads : thread[t].pc # "raised"
    /\ results.hashed \subseteq {TRUE}
    /\ results.sent \subseteq {Text("text", k) : k \in 1..Hops}
    /\ (\A t \in Threads : thread[t] = Idle) => ~json /\ Restored

\* A main loop that only scans may raise on a transaction that the server thread
\* has in JSON, but it compares no other signature than the genuine ones, and
\* what the server thread does is as if it were alone.
ReaderHarmless == mode = "mining" =>
    /\ thread["server"].pc # "raised" /\ results.scanned \subseteq {"bytes"}
    /\ results.sent \subseteq {Text("text", k) : k \in 1..Hops}
    /\ thread["server"] = Idle => ~json /\ Restored
=============================================================================
