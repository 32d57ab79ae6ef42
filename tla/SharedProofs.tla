---------------------------- MODULE SharedProofs ----------------------------
(***************************************************************************)
(* Proofs about module SharedTransaction: the order of a shared signature  *)
(* chain, and the two ways of sharing it that are safe, for chains of any  *)
(* length and any number of operations.                                    *)
(***************************************************************************)
EXTENDS SharedTransaction, SequenceTheorems, TLAPS

-----------------------------------------------------------------------------
(* Order: what every interleaving keeps *)

Texts == {"text", "wrongtext", "none"} \X {0} \X (1..Hops)
Items == Refs \cup Texts

\* A list of n items, each at the place that it names.
InOrder(list, n) ==
    list \in Seq(Items) /\ Len(list) = n /\ \A k \in 1..n : list[k][3] = k

Forth == {"pk>", "sg>", "dump"}
Back  == {"pk<", "sg<"}

\* How many items an operation converts.
Size(op) == IF op = "vote" THEN 1 ELSE Hops

\* The values that a conversion leaves in a field.
Values(fn) == CASE fn = "pk>" -> {"text"}
                [] fn = "sg>" -> {"text", "wrongtext"}
                [] fn = "pk<" -> {"key"}
                [] fn = "sg<" -> {"bytes", "wrong"}

Converting(r) ==
    /\ r.op \in {"hash", "sign", "forward", "vote"}
    /\ r.i \in 1..Size(r.op)
    /\ InOrder(r.list, Size(r.op))
    /\ InOrder(r.out, IF r.pc \in Back THEN r.i ELSE r.i - 1)
    /\ r.reg # "none" => r.pc # "dump" /\ r.list[r.i] \in Refs /\ r.reg \in Values(r.pc)

\* What a thread holds, by where it is.
Holds(r) ==
    /\ r.pc \in Forth \cup Back => Converting(r)
    /\ r.pc \notin Forth \cup Back => r.reg = "none"
    /\ r.pc = "scan" => r.i \in 1..Hops /\ InOrder(r.list, Hops)
    /\ r.pc \in {"assign", "restore"} => InOrder(r.out, Hops)
    /\ r.pc \in {"assign", "tag", "load", "restore", "untag"} => r.op \in {"hash", "sign", "forward"}
    /\ r.pc = "use" => r.op \in {"hash", "sign", "forward", "vote"}
    /\ r.pc = "use" /\ r.op = "vote" => InOrder(r.out, 1)
    /\ r.pc = "idle" => r = Idle

Records ==
    [op : {"none", "hash", "sign", "forward", "vote", "scan"},
     pc : {"idle", "scan", "assign", "tag", "use", "load", "restore", "untag", "raised"} \cup Forth \cup Back,
     i : Int, reg : {"none", "key", "bytes", "text", "wrong", "wrongtext"},
     list : Seq(Items), out : Seq(Items)]

Typed ==
    /\ InOrder(items, Hops)
    /\ json \in BOOLEAN
    /\ entry \in [Refs -> Entries]
    /\ thread \in [Threads -> Records]
    /\ ops \in [Threads -> 0..MaxOps]
    /\ mode \in {"serial", "mining", "free"}

OrderInv == Typed /\ \A t \in Threads : Holds(thread[t])

-----------------------------------------------------------------------------
(* Work: what a thread finds that nobody else disturbs *)

\* The entry in conversion, by the field that is next.
Stage(pc) == [pk |-> IF pc \in {"sg>", "dump", "pk<"} THEN "text" ELSE "key",
              sg |-> IF pc \in {"dump", "pk<", "sg<"} THEN "text" ELSE "bytes"]

\* The value that the conversion of such a field gives.
Result == [fn \in {"pk>", "sg>", "pk<", "sg<"} |->
             CASE fn \in {"pk>", "sg>"} -> "text" [] fn = "pk<" -> "key" [] fn = "sg<" -> "bytes"]

AllTexts(list) == \A k \in DOMAIN list : list[k] = Text("text", k)
AllRefs(list)  == \A k \in DOMAIN list : list[k] \in Refs

\* Only the entry that r converts is not as it was made.
EntriesOf(r) ==
    \A e \in Refs : entry[e] = IF r.pc \in Forth \cup Back /\ e = r.list[r.i]
                               THEN Stage(r.pc) ELSE Genuine

\* r uses the chain that it has converted.
Shows(r) == r.pc = "use" /\ r.op # "vote"

\* The chain and its tag, by where r is.
ChainOf(r) ==
    /\ json <=> (r.pc \in {"load", "restore", "untag"} \/ Shows(r))
    /\ IF r.pc \in {"tag", "load", "restore"} \/ Shows(r)
       THEN AllTexts(items) ELSE AllRefs(items)

\* What r has in hand.
HandOf(r) ==
    /\ r.pc # "raised"
    /\ r.pc \in Forth \cup Back \cup {"assign"} => AllTexts(r.out)
    /\ r.pc = "use" /\ r.op = "vote" => AllTexts(r.out)
    /\ r.pc \in Forth \cup Back \cup {"scan"} => AllRefs(r.list)
    /\ r.reg # "none" => r.reg = Result[r.pc]
    /\ r.pc = "restore" => AllRefs(r.out)

Undisturbed(t) == EntriesOf(thread[t]) /\ ChainOf(thread[t]) /\ HandOf(thread[t])

ResultsRight ==
    /\ results \in [hashed : SUBSET {TRUE}, sent : SUBSET {Text("text", k) : k \in 1..Hops},
                    scanned : SUBSET {"bytes"}]

Alone(t) == \A u \in Threads : u # t => thread[u] = Idle

\* In the single loop one thread works at a time; while mining, the main loop
\* does nothing that the server thread would notice.
WorkInv ==
    /\ mode = "serial" => /\ \E t \in Threads : Alone(t)
                          /\ \A t \in Threads : Alone(t) => Undisturbed(t)
    /\ mode = "mining" => /\ Undisturbed("server")
                          /\ thread["main"].pc \in {"idle", "scan", "raised"}
    /\ mode # "free" => ResultsRight

-----------------------------------------------------------------------------
(* Lemmas about the lists *)

\* Reference k is at place k, whoever made it, and it is no text.
LEMMA Places ==
    /\ Cached \in Refs /\ Cached[3] = 1
    /\ \A t \in Threads \cup {"init"}, o \in 0..MaxOps, k \in 1..Hops :
          <<t, o, k>> \in Refs /\ <<t, o, k>>[3] = k
    /\ \A e \in Refs : e[3] \in 1..Hops
    /\ \A sg \in {"text", "wrongtext", "none"}, k \in 1..Hops :
          Text(sg, k) \in Texts /\ Text(sg, k)[3] = k /\ Text(sg, k)[1] = sg
    /\ \A x \in Texts : x \notin Refs
    /\ Refs \subseteq Items /\ Texts \subseteq Items
BY SharedAssumption DEF Cached, Refs, Text, Texts, Threads, Items

\* A list given place by place.
LEMMA Listed ==
    ASSUME NEW n \in Nat, NEW list \in [1..n -> Items], \A k \in 1..n : list[k][3] = k
    PROVE  InOrder(list, n)
<1>1. list \in Seq(Items) /\ Len(list) = n
  BY IsASeq, LenProperties
<1> QED  BY <1>1 DEF InOrder

\* One item more.
LEMMA Longer ==
    ASSUME NEW n \in Nat, NEW list, InOrder(list, n), NEW x \in Items, x[3] = n + 1
    PROVE  /\ InOrder(Append(list, x), n + 1)
           /\ \A k \in 1..n : Append(list, x)[k] = list[k]
           /\ Append(list, x)[n + 1] = x
<1>1. /\ Append(list, x) \in Seq(Items) /\ Len(Append(list, x)) = n + 1
      /\ \A k \in 1..n : Append(list, x)[k] = list[k]
      /\ Append(list, x)[n + 1] = x
  BY AppendProperties DEF InOrder
<1>2. 1..(n + 1) = 1..n \cup {n + 1}
  OBVIOUS
<1> QED  BY <1>1, <1>2 DEF InOrder

\* An item of a list in order.
LEMMA AtPlace ==
    ASSUME NEW n \in Nat, NEW list, InOrder(list, n), NEW k \in 1..n
    PROVE  list[k] \in Items /\ list[k][3] = k /\ DOMAIN list = 1..n
BY ElementOfSeq, LenProperties DEF InOrder

\* A step of one thread leaves the others as they are.
LEMMA OneStep ==
    ASSUME OrderInv, NEW t \in Threads, NEW r \in Records, Holds(r),
           thread' = [thread EXCEPT ![t] = r]
    PROVE  /\ thread' \in [Threads -> Records] /\ \A u \in Threads : Holds(thread'[u])
           /\ thread'[t] = r /\ \A u \in Threads : u # t => thread'[u] = thread[u]
BY DEF OrderInv, Typed

\* The records that mark a thread as free or as ended.
LEMMA Ended ==
    /\ Idle \in Records /\ Holds(Idle)
    /\ [Idle EXCEPT !.pc = "raised"] \in Records /\ Holds([Idle EXCEPT !.pc = "raised"])
    /\ [Idle EXCEPT !.pc = "raised"].pc = "raised"
<1>1. <<>> \in Seq(Items)
  BY EmptySeq
<1>2. Idle \in Records
  BY <1>1 DEF Idle, Records
<1>3. Idle.pc = "idle" /\ Idle.reg = "none"
  BY DEF Idle
<1>4. /\ [Idle EXCEPT !.pc = "raised"] \in Records
      /\ [Idle EXCEPT !.pc = "raised"].pc = "raised" /\ [Idle EXCEPT !.pc = "raised"].reg = "none"
  BY <1>2, <1>3 DEF Records
<1> QED  BY <1>2, <1>3, <1>4 DEF Holds, Forth, Back

-----------------------------------------------------------------------------
(* Every step keeps the order *)

\* Where an operation is, its record is as OrderInv says.
LEMMA Held ==
    ASSUME OrderInv, NEW t \in Threads
    PROVE  /\ thread[t] \in Records /\ Holds(thread[t]) /\ ops[t] \in 0..MaxOps
           /\ InOrder(items, Hops) /\ Hops \in Nat /\ Hops > 0 /\ MaxOps \in Nat
           /\ entry \in [Refs -> Entries]
           /\ \A op : Size(op) \in 1..Hops
BY SharedAssumption DEF OrderInv, Typed, Size

\* At first the chain is the references as they were made.
LEMMA InitOrder ==
    Init => OrderInv
<1> SUFFICES ASSUME Init PROVE OrderInv
  OBVIOUS
<1>1. Hops \in Nat /\ 0 \in 0..MaxOps
  BY SharedAssumption
<1>2. items \in [1..Hops -> Items] /\ \A k \in 1..Hops : items[k][3] = k
  BY <1>1, Places DEF Init
<1>3. InOrder(items, Hops)
  BY <1>1, <1>2, Listed
<1>4. entry \in [Refs -> Entries]
  BY DEF Init, Genuine, Entries
<1>5. thread \in [Threads -> Records] /\ \A t \in Threads : Holds(thread[t])
  BY Ended DEF Init
<1>6. ops \in [Threads -> 0..MaxOps] /\ json \in BOOLEAN /\ mode \in {"serial", "mining", "free"}
  BY <1>1 DEF Init
<1> QED  BY <1>3, <1>4, <1>5, <1>6 DEF OrderInv, Typed

\* An operation starts from the list that it takes.
LEMMA BeginOrder ==
    ASSUME OrderInv, NEW t \in Threads, NEW op \in OpsOf(t), Begin(t, op)
    PROVE  OrderInv'
<1> DEFINE list == IF op = "vote" THEN <<Cached>> ELSE items
           r == [Idle EXCEPT !.op = op, !.i = 1, !.list = list,
                             !.pc = IF op = "scan" THEN "scan" ELSE "pk>"]
<1>1. op \in {"hash", "sign", "forward", "vote", "scan"}
  BY DEF OpsOf
<1>2. InOrder(<<Cached>>, 1) /\ InOrder(<<>>, 0)
  BY Places, EmptySeq DEF InOrder
<1>3. InOrder(list, Size(op)) /\ Size(op) \in 1..Hops /\ (op = "scan" => Size(op) = Hops)
  BY <1>1, <1>2, Held DEF Size
<1>4. /\ r.op = op /\ r.i = 1 /\ r.list = list /\ r.out = <<>> /\ r.reg = "none"
      /\ r.pc = IF op = "scan" THEN "scan" ELSE "pk>"
      /\ r \in Records
  <2>1. Idle \in Records /\ Idle.out = <<>> /\ Idle.reg = "none" /\ list \in Seq(Items)
    BY <1>3, Ended DEF Idle, InOrder
  <2>2. Idle \in [op : {"none"}, pc : {"idle"}, i : {0}, reg : {"none"}, list : {<<>>}, out : {<<>>}]
    BY DEF Idle
  <2> HIDE DEF list
  <2>3. (IF op = "scan" THEN "scan" ELSE "pk>") \in {"scan", "pk>"} /\ 1 \in Int /\ <<>> \in Seq(Items)
    BY EmptySeq
  <2> QED  BY <2>1, <2>2, <2>3, <1>1 DEF Records, Forth
<1> HIDE DEF r, list
<1>5. Holds(r)
  <2>1. r.pc \in Forth \cup Back => Converting(r)
    BY <1>1, <1>2, <1>3, <1>4, Held DEF Converting, Forth, Back
  <2>2. r.pc = "scan" => r.i \in 1..Hops /\ InOrder(r.list, Hops)
    BY <1>3, <1>4, Held
  <2> QED  BY <1>4, <2>1, <2>2 DEF Holds
<1>6. thread' = [thread EXCEPT ![t] = r]
  BY DEF Begin, r, list
<1>7. thread' \in [Threads -> Records] /\ \A u \in Threads : Holds(thread'[u])
  BY <1>4, <1>5, <1>6, OneStep
<1>8. ops' \in [Threads -> 0..MaxOps]
  BY Held DEF Begin, OrderInv, Typed
<1> QED  BY <1>7, <1>8 DEF Begin, OrderInv, Typed

\* A step that raises.
LEMMA RaisedOrder ==
    ASSUME OrderInv, NEW t \in Threads, Raised(t), UNCHANGED <<items, json, entry, ops, mode>>
    PROVE  OrderInv'
<1>1. thread' \in [Threads -> Records] /\ \A u \in Threads : Holds(thread'[u])
  BY Ended, OneStep DEF Raised
<1> QED  BY <1>1 DEF OrderInv, Typed

\* A step that ends an operation.
LEMMA IdleOrder ==
    ASSUME OrderInv, NEW t \in Threads, thread' = [thread EXCEPT ![t] = Idle],
           json' \in BOOLEAN, UNCHANGED <<items, entry, ops, mode>>
    PROVE  OrderInv'
<1>1. thread' \in [Threads -> Records] /\ \A u \in Threads : Holds(thread'[u])
  BY Ended, OneStep
<1> QED  BY <1>1 DEF OrderInv, Typed

\* A field that is converted has a value that fits it.
LEMMA Fits ==
    ASSUME NEW fn \in {"pk>", "sg>", "pk<", "sg<"}, NEW e \in Entries,
           NEW v \in Convert(fn, e[Field(fn)]), v # "raise"
    PROVE  v \in Values(fn) /\ v \in {"key", "bytes", "text", "wrong", "wrongtext"}
BY DEF Convert, Field, Values

\* A conversion gives a value of the field, or raises.
LEMMA ReadOrder ==
    ASSUME OrderInv, NEW t \in Threads, Read(t)
    PROVE  OrderInv'
<1>1. CASE Raised(t)
  BY <1>1, RaisedOrder DEF Read
<1>2. ASSUME IsRef(Entry(t)), NEW v \in Convert(thread[t].pc, entry[Entry(t)][Field(thread[t].pc)]),
             v # "raise", thread' = [thread EXCEPT ![t].reg = v]
      PROVE  OrderInv'
  <2> DEFINE r == [thread[t] EXCEPT !.reg = v]
  <2>1. thread[t].pc \in {"pk>", "sg>", "pk<", "sg<"} /\ entry[Entry(t)] \in Entries
    BY <1>2, Held DEF Read, IsRef
  <2>2. v \in Values(thread[t].pc) /\ v \in {"key", "bytes", "text", "wrong", "wrongtext"}
    BY <1>2, <2>1, Fits
  <2>3. /\ r \in Records /\ r.op = thread[t].op /\ r.pc = thread[t].pc /\ r.i = thread[t].i
        /\ r.list = thread[t].list /\ r.out = thread[t].out /\ r.reg = v
    BY <2>2, Held DEF Records
  <2>4. thread' = [thread EXCEPT ![t] = r]
    BY <1>2
  <2> HIDE DEF r
  <2>5. Holds(r)
    <3>1. Converting(thread[t]) /\ thread[t].list[thread[t].i] \in Refs
      BY <1>2, <2>1, Held DEF Holds, Forth, Back, IsRef, Entry
    <3> QED  BY <3>1, <2>1, <2>2, <2>3 DEF Holds, Converting, Forth, Back
  <2>6. thread' \in [Threads -> Records] /\ \A u \in Threads : Holds(thread'[u])
    BY <2>3, <2>4, <2>5, OneStep
  <2> QED  BY <2>6 DEF Read, OrderInv, Typed
<1> QED  BY <1>1, <1>2 DEF Read

\* An entry with a field of its own kind changed is an entry.
LEMMA FieldSet ==
    ASSUME NEW fn \in {"pk>", "sg>", "pk<", "sg<"}, NEW v \in Values(fn), NEW e \in Entries
    PROVE  [e EXCEPT ![Field(fn)] = v] \in Entries
<1>1. CASE fn \in {"pk>", "pk<"}
  BY <1>1 DEF Values, Field, Entries
<1>2. CASE fn \in {"sg>", "sg<"}
  BY <1>2 DEF Values, Field, Entries
<1> QED  BY <1>1, <1>2

\* The value is written to an entry, and the list goes on by one after the last field.
LEMMA WriteOrder ==
    ASSUME OrderInv, NEW t \in Threads, Write(t)
    PROVE  OrderInv'
<1> DEFINE fn == thread[t].pc
           last == thread[t].i = Len(thread[t].list)
           to == IF fn # "sg<" THEN After[fn]
                 ELSE IF ~last THEN "pk>" ELSE IF thread[t].op = "vote" THEN "use" ELSE "assign"
           at == IF fn = "sg<" THEN thread[t].i + 1 ELSE thread[t].i
           r == [thread[t] EXCEPT !.reg = "none", !.i = at, !.pc = to]
<1>1. /\ fn \in {"pk>", "sg>", "pk<", "sg<"} /\ Converting(thread[t])
      /\ Entry(t) \in Refs /\ thread[t].reg \in Values(fn)
  BY Held DEF Write, Holds, Converting, Forth, Back, Entry
<1>2. thread[t].i \in 1..Size(thread[t].op) /\ Size(thread[t].op) \in 1..Hops
      /\ Len(thread[t].list) = Size(thread[t].op)
  BY <1>1, Held DEF Converting, InOrder
<1>3. /\ fn = "pk>" => to = "sg>"
      /\ fn = "sg>" => to = "dump"
      /\ fn = "pk<" => to = "sg<"
      /\ fn = "sg<" => to = IF ~last THEN "pk>" ELSE IF thread[t].op = "vote" THEN "use" ELSE "assign"
  BY DEF After
<1>4. to \in {"sg>", "dump", "sg<", "pk>", "use", "assign"}
  BY <1>1, <1>3
<1>5. thread' = [thread EXCEPT ![t] = r]
  BY DEF Write
<1> HIDE DEF to, at
<1>6. /\ r \in Records /\ r.op = thread[t].op /\ r.pc = to /\ r.list = thread[t].list
      /\ r.out = thread[t].out /\ r.reg = "none"
      /\ r.i = IF fn = "sg<" THEN thread[t].i + 1 ELSE thread[t].i
  <2>1. at \in Int /\ at = IF fn = "sg<" THEN thread[t].i + 1 ELSE thread[t].i
    BY <1>2, Held DEF at
  <2> QED  BY <2>1, <1>4, Held DEF Records, Forth, Back
<1> HIDE DEF r
<1>7. Holds(r)
  <2>1. InOrder(thread[t].list, Size(thread[t].op))
        /\ InOrder(thread[t].out, IF fn \in Back THEN thread[t].i ELSE thread[t].i - 1)
        /\ thread[t].op \in {"hash", "sign", "forward", "vote"}
    BY <1>1 DEF Converting
  <2>2. CASE fn # "sg<"
    BY <2>1, <2>2, <1>1, <1>2, <1>3, <1>6 DEF Holds, Converting, Forth, Back
  <2>3. CASE fn = "sg<" /\ ~last
    <3>1. thread[t].i + 1 \in 1..Size(thread[t].op)
      BY <1>2, <2>3, Held
    <3>2. InOrder(r.out, r.i - 1)
      BY <1>2, <1>6, <2>1, <2>3, Held DEF Back
    <3> QED  BY <3>1, <3>2, <2>1, <2>3, <1>3, <1>6 DEF Holds, Converting, Forth, Back
  <2>4. CASE fn = "sg<" /\ last
    <3>1. InOrder(r.out, Size(r.op))
      BY <1>2, <1>6, <2>1, <2>4 DEF Back
    <3> QED  BY <3>1, <2>1, <2>4, <1>3, <1>6 DEF Holds, Forth, Back, Size
  <2> QED  BY <2>2, <2>3, <2>4
<1>8. thread' \in [Threads -> Records] /\ \A u \in Threads : Holds(thread'[u])
  BY <1>5, <1>6, <1>7, OneStep
<1>9. entry' \in [Refs -> Entries]
  <2>1. entry' = [entry EXCEPT ![Entry(t)][Field(fn)] = thread[t].reg]
    BY DEF Write
  <2>2. [entry[Entry(t)] EXCEPT ![Field(fn)] = thread[t].reg] \in Entries
    BY <1>1, Held, FieldSet
  <2> QED  BY <2>1, <2>2, <1>1, Held
<1> QED  BY <1>8, <1>9 DEF Write, OrderInv, Typed

\* One text more is at the place of its entry.
LEMMA DumpOrder ==
    ASSUME OrderInv, NEW t \in Threads, Dump(t)
    PROVE  OrderInv'
<1>1. CASE Raised(t)
  BY <1>1, RaisedOrder DEF Dump
<1>2. ASSUME NEW sg, thread' = [thread EXCEPT ![t] =
                 [thread[t] EXCEPT !.pc = "pk<", !.out = Append(@, Text(sg, Entry(t)[3]))]],
             sg \in {"text", "wrongtext", "none"}
      PROVE  OrderInv'
  <2> DEFINE x == Text(sg, Entry(t)[3])
             r == [thread[t] EXCEPT !.pc = "pk<", !.out = Append(@, x)]
  <2>1. thread[t].pc = "dump" /\ Converting(thread[t])
    BY Held DEF Dump, Holds, Forth, Back
  <2>2. /\ thread[t].i \in 1..Size(thread[t].op) /\ Size(thread[t].op) \in 1..Hops
        /\ thread[t].i - 1 \in Nat /\ thread[t].i \in 1..Hops
    BY <2>1, Held DEF Converting
  <2>3. InOrder(thread[t].list, Size(thread[t].op)) /\ InOrder(thread[t].out, thread[t].i - 1)
    BY <2>1 DEF Converting, Back
  <2>4. Entry(t)[3] = thread[t].i
    BY <2>2, <2>3, AtPlace DEF Entry
  <2>5. x \in Items /\ x[3] = thread[t].i
    BY <2>2, <2>4, <1>2, Places
  <2> HIDE DEF x
  <2>6. InOrder(Append(thread[t].out, x), thread[t].i)
    BY <2>2, <2>3, <2>5, Longer
  <2>7. /\ r \in Records /\ r.op = thread[t].op /\ r.pc = "pk<" /\ r.list = thread[t].list
        /\ r.out = Append(thread[t].out, x) /\ r.reg = thread[t].reg /\ r.i = thread[t].i
    BY <2>6, Held DEF Records, Forth, Back, InOrder
  <2>8. thread' = [thread EXCEPT ![t] = r]
    BY <1>2 DEF x
  <2> HIDE DEF r
  <2>9. Holds(r)
    <3>1. thread[t].reg = "none"
      BY <2>1 DEF Converting
    <3> QED  BY <3>1, <2>1, <2>2, <2>3, <2>6, <2>7 DEF Holds, Converting, Forth, Back
  <2>10. thread' \in [Threads -> Records] /\ \A u \in Threads : Holds(thread'[u])
    BY <2>7, <2>8, <2>9, OneStep
  <2> QED  BY <2>10 DEF Dump, OrderInv, Typed
<1>3. LET e == entry[Entry(t)]
          text == e.pk = "text" /\ e.sg \in {"text", "wrongtext"}
      IN  (IF text THEN e.sg ELSE "none") \in {"text", "wrongtext", "none"}
  OBVIOUS
<1> QED  BY <1>1, <1>2, <1>3 DEF Dump

\* A step that only goes on.
LEMMA GotoOrder ==
    ASSUME OrderInv, NEW t \in Threads, thread[t].pc \in {"assign", "tag", "use", "load", "restore"},
           thread[t].op \in {"hash", "sign", "forward"}, NEW pc \in {"tag", "use", "load", "untag"},
           Goto(t, pc), InOrder(items, Hops)', json' \in BOOLEAN, UNCHANGED <<entry, ops, mode>>
    PROVE  OrderInv'
<1> DEFINE r == [thread[t] EXCEPT !.pc = pc]
<1>1. r \in Records /\ r.op = thread[t].op /\ r.pc = pc /\ r.reg = thread[t].reg
  BY Held DEF Records
<1>2. thread' = [thread EXCEPT ![t] = r]
  BY DEF Goto
<1> HIDE DEF r
<1>3. Holds(r)
  BY <1>1, Held DEF Holds, Forth, Back
<1>4. thread' \in [Threads -> Records] /\ \A u \in Threads : Holds(thread'[u])
  BY <1>1, <1>2, <1>3, OneStep
<1> QED  BY <1>4 DEF OrderInv, Typed

\* The chain becomes the list that a thread has built, whatever it was before.
LEMMA ChainOrder ==
    ASSUME OrderInv, NEW t \in Threads, Assign(t) \/ Tag(t) \/ Hash(t) \/ Send(t) \/ Restore(t) \/ Untag(t)
    PROVE  OrderInv'
<1>1. InOrder(items, Hops) /\ json \in BOOLEAN
  BY DEF OrderInv, Typed
<1>2. CASE Assign(t)
  <2>1. InOrder(items', Hops) /\ thread[t].op \in {"hash", "sign", "forward"}
    BY <1>2, Held DEF Assign, Holds
  <2> QED  BY <2>1, <1>1, <1>2, GotoOrder DEF Assign
<1>3. CASE Tag(t)
  <2>1. thread[t].op \in {"hash", "sign", "forward"}
    BY <1>3, Held DEF Tag, Holds
  <2> QED  BY <2>1, <1>1, <1>3, GotoOrder DEF Tag
<1>4. CASE Hash(t)
  BY <1>4, <1>1, GotoOrder DEF Hash
<1>5. CASE Send(t)
  <2>1. CASE Raised(t)
    BY <2>1, <1>5, RaisedOrder DEF Send
  <2>2. CASE Goto(t, "load")
    BY <2>2, <1>5, <1>1, GotoOrder DEF Send
  <2> QED  BY <2>1, <2>2, <1>5 DEF Send
<1>6. CASE Restore(t)
  <2>1. InOrder(items', Hops) /\ thread[t].op \in {"hash", "sign", "forward"}
    BY <1>6, Held DEF Restore, Holds, NewChain
  <2> QED  BY <2>1, <1>1, <1>6, GotoOrder DEF Restore
<1>7. CASE Untag(t)
  BY <1>7, IdleOrder DEF Untag
<1> QED  BY <1>2, <1>3, <1>4, <1>5, <1>6, <1>7

\* A vote is sent.
LEMMA AnswerOrder ==
    ASSUME OrderInv, NEW t \in Threads, Answer(t)
    PROVE  OrderInv'
<1>1. json \in BOOLEAN
  BY DEF OrderInv, Typed
<1> QED  BY <1>1, RaisedOrder, IdleOrder DEF Answer

\* A scan goes on to the next entry, ends, or raises.
LEMMA ScanOrder ==
    ASSUME OrderInv, NEW t \in Threads, Scan(t)
    PROVE  OrderInv'
<1>1. CASE Raised(t)
  BY <1>1, RaisedOrder DEF Scan
<1>2. CASE thread' = [thread EXCEPT ![t] = Idle]
  <2>1. json \in BOOLEAN
    BY DEF OrderInv, Typed
  <2> QED  BY <1>2, <2>1, IdleOrder DEF Scan
<1>3. ASSUME thread[t].i < Hops, thread' = [thread EXCEPT ![t] = [thread[t] EXCEPT !.i = @ + 1]]
      PROVE  OrderInv'
  <2> DEFINE r == [thread[t] EXCEPT !.i = @ + 1]
  <2>1. thread[t].pc = "scan" /\ thread[t].i \in 1..Hops /\ InOrder(thread[t].list, Hops)
    BY Held DEF Scan, Holds
  <2>2. /\ r \in Records /\ r.pc = "scan" /\ r.list = thread[t].list
        /\ r.reg = thread[t].reg /\ r.i = thread[t].i + 1
    BY <2>1, Held DEF Records
  <2>3. thread' = [thread EXCEPT ![t] = r]
    BY <1>3
  <2> HIDE DEF r
  <2>4. r.i \in 1..Hops
    BY <1>3, <2>1, <2>2, Held
  <2>5. Holds(r)
    BY <2>1, <2>2, <2>4, Held DEF Holds, Forth, Back
  <2>6. thread' \in [Threads -> Records] /\ \A u \in Threads : Holds(thread'[u])
    BY <2>2, <2>3, <2>5, OneStep
  <2> QED  BY <2>6 DEF Scan, OrderInv, Typed
<1> QED  BY <1>1, <1>2, <1>3 DEF Scan

\* A text of a chain is decoded to an entry.
LEMMA DecodedEntry ==
    \A x : Decoded(x) \in Entries
BY DEF Decoded, Entries

\* New entries are made for the texts, each at its place.
LEMMA LoadOrder ==
    ASSUME OrderInv, NEW t \in Threads, Load(t)
    PROVE  OrderInv'
<1>1. CASE Raised(t) /\ UNCHANGED entry
  BY <1>1, RaisedOrder DEF Load
<1>2. CASE ~(Raised(t) /\ UNCHANGED entry)
  <2> DEFINE new == [k \in 1..Hops |-> <<t, ops[t], k>>]
             r == [thread[t] EXCEPT !.out = new, !.pc = "restore"]
  <2>1. /\ thread' = [thread EXCEPT ![t] = r]
        /\ entry' = [e \in Refs |-> IF e \in {new[k] : k \in 1..Hops} THEN Decoded(items[e[3]]) ELSE entry[e]]
    BY <1>2 DEF Load
  <2>2. InOrder(new, Hops)
    <3>1. new \in [1..Hops -> Items] /\ \A k \in 1..Hops : new[k][3] = k
      BY Held, Places
    <3> QED  BY <3>1, Held, Listed
  <2> HIDE DEF new
  <2>3. thread[t].pc = "load" /\ thread[t].op \in {"hash", "sign", "forward"}
    BY Held DEF Load, Holds
  <2>4. r \in Records /\ r.op = thread[t].op /\ r.pc = "restore" /\ r.out = new /\ r.reg = thread[t].reg
    BY <2>2, Held DEF Records, InOrder
  <2> HIDE DEF r
  <2>5. Holds(r)
    BY <2>2, <2>3, <2>4, Held DEF Holds, Forth, Back
  <2>6. thread' \in [Threads -> Records] /\ \A u \in Threads : Holds(thread'[u])
    BY <2>1, <2>4, <2>5, OneStep
  <2>7. entry' \in [Refs -> Entries]
    BY <2>1, Held, DecodedEntry
  <2> QED  BY <2>6, <2>7 DEF Load, OrderInv, Typed
<1> QED  BY <1>1, <1>2

\* OrderInv is inductive.
LEMMA NextOrder ==
    OrderInv /\ [Next]_vars => OrderInv'
<1> SUFFICES ASSUME OrderInv, [Next]_vars PROVE OrderInv'
  OBVIOUS
<1>1. ASSUME NEW t \in Threads, \E op \in OpsOf(t) : Begin(t, op)
      PROVE  OrderInv'
  BY <1>1, BeginOrder
<1>2. ASSUME NEW t \in Threads, Read(t) \/ Write(t) \/ Dump(t)
      PROVE  OrderInv'
  BY <1>2, ReadOrder, WriteOrder, DumpOrder
<1>3. ASSUME NEW t \in Threads, Assign(t) \/ Tag(t) \/ Hash(t) \/ Send(t) \/ Restore(t) \/ Untag(t)
      PROVE  OrderInv'
  BY <1>3, ChainOrder
<1>4. ASSUME NEW t \in Threads, Answer(t) \/ Scan(t) \/ Load(t)
      PROVE  OrderInv'
  BY <1>4, AnswerOrder, ScanOrder, LoadOrder
<1>5. ASSUME UNCHANGED vars
      PROVE  OrderInv'
  BY <1>5 DEF vars, OrderInv, Typed
<1> QED  BY <1>1, <1>2, <1>3, <1>4, <1>5 DEF Next

\* Whatever two threads convert at a time, for chains of any length and any number
\* of operations, no entry of the chain is lost, doubled or moved.
THEOREM OrderAlwaysKept ==
    Spec => []OrderKept
<1>1. OrderInv => OrderKept
  BY DEF OrderInv, Typed, InOrder, OrderKept
<1> QED  BY <1>1, InitOrder, NextOrder, PTL DEF Spec

-----------------------------------------------------------------------------
(* Every step of an undisturbed thread *)

\* What a step of t that sets its record to r has to show.
LEMMA NowAt ==
    ASSUME OrderInv, NEW t \in Threads, NEW r, thread' = [thread EXCEPT ![t] = r]
    PROVE  thread'[t] = r
BY DEF OrderInv, Typed

\* An entry in conversion, field by field.
LEMMA Stages ==
    /\ Stage("pk>") = Genuine
    /\ Stage("pk>").pk = "key" /\ Stage("sg>").sg = "bytes"
    /\ Stage("dump").pk = "text" /\ Stage("dump").sg = "text"
    /\ Stage("pk<").pk = "text" /\ Stage("sg<").sg = "text"
    /\ [Stage("pk>") EXCEPT !.pk = "text"] = Stage("sg>")
    /\ [Stage("sg>") EXCEPT !.sg = "text"] = Stage("dump")
    /\ Stage("dump") = Stage("pk<")
    /\ [Stage("pk<") EXCEPT !.pk = "key"] = Stage("sg<")
    /\ [Stage("sg<") EXCEPT !.sg = "bytes"] = Genuine
    /\ Genuine.sg = "bytes"
BY DEF Stage, Genuine

\* Nothing is in conversion before an operation begins.
LEMMA BeginWork ==
    ASSUME OrderInv, NEW t \in Threads, NEW op \in OpsOf(t), Begin(t, op), Undisturbed(t)
    PROVE  Undisturbed(t)'
<1> DEFINE list == IF op = "vote" THEN <<Cached>> ELSE items
           r == [Idle EXCEPT !.op = op, !.i = 1, !.list = list,
                             !.pc = IF op = "scan" THEN "scan" ELSE "pk>"]
<1>1. thread' = [thread EXCEPT ![t] = r]
  BY DEF Begin
<1> HIDE DEF list
<1>2. /\ r.op = op /\ r.i = 1 /\ r.list = list /\ r.out = <<>> /\ r.reg = "none"
      /\ r.pc = IF op = "scan" THEN "scan" ELSE "pk>"
  BY DEF Idle
<1> HIDE DEF r
<1>3. thread'[t] = r
  BY <1>1, NowAt
<1>4. thread[t].pc = "idle"
  BY DEF Begin, Idle
<1>5. /\ \A e \in Refs : entry[e] = Genuine
      /\ ~json /\ AllRefs(items)
  BY <1>4 DEF Undisturbed, EntriesOf, ChainOf, Shows, Forth, Back
<1>6. AllRefs(list) /\ AllTexts(<<>>)
  <2>1. AllRefs(<<Cached>>)
    BY Places DEF AllRefs
  <2> QED  BY <2>1, <1>5 DEF list, AllTexts
<1>7. EntriesOf(thread[t])'
  BY <1>2, <1>3, <1>5, Stages DEF Begin, EntriesOf, Forth, Back
<1>8. ChainOf(thread[t])'
  BY <1>2, <1>3, <1>5 DEF Begin, ChainOf, Shows
<1>9. HandOf(thread[t])'
  BY <1>2, <1>3, <1>6 DEF HandOf, Forth, Back
<1> QED  BY <1>7, <1>8, <1>9 DEF Undisturbed

\* The entry that an undisturbed thread converts.
LEMMA InHand ==
    ASSUME OrderInv, NEW t \in Threads, Undisturbed(t), thread[t].pc \in Forth \cup Back
    PROVE  /\ Converting(thread[t]) /\ AllRefs(thread[t].list) /\ AllTexts(thread[t].out)
           /\ Entry(t) \in Refs /\ Entry(t)[3] = thread[t].i /\ entry[Entry(t)] = Stage(thread[t].pc)
<1>1. Converting(thread[t]) /\ AllRefs(thread[t].list) /\ AllTexts(thread[t].out)
  BY Held DEF Holds, Undisturbed, HandOf
<1>2. Entry(t) \in Refs /\ Entry(t)[3] = thread[t].i
  BY <1>1, AtPlace, Held DEF Converting, Entry, AllRefs
<1>3. entry[Entry(t)] = Stage(thread[t].pc)
  BY <1>2 DEF Undisturbed, EntriesOf, Entry
<1> QED  BY <1>1, <1>2, <1>3

\* The field of an undisturbed entry converts to the one right value.
LEMMA ReadWork ==
    ASSUME OrderInv, NEW t \in Threads, Read(t), Undisturbed(t)
    PROVE  Undisturbed(t)'
<1>1. thread[t].pc \in {"pk>", "sg>", "pk<", "sg<"}
  BY DEF Read
<1>2. Entry(t) \in Refs /\ entry[Entry(t)] = Stage(thread[t].pc)
  BY <1>1, InHand DEF Forth, Back
<1>3. Convert(thread[t].pc, entry[Entry(t)][Field(thread[t].pc)]) = {Result[thread[t].pc]}
      /\ Result[thread[t].pc] # "raise"
  <2>1. CASE thread[t].pc = "pk>"
    BY <2>1, <1>2, Stages DEF Convert, Field, Result
  <2>2. CASE thread[t].pc = "sg>"
    BY <2>2, <1>2, Stages DEF Convert, Field, Result
  <2>3. CASE thread[t].pc = "pk<"
    BY <2>3, <1>2, Stages DEF Convert, Field, Result
  <2>4. CASE thread[t].pc = "sg<"
    BY <2>4, <1>2, Stages DEF Convert, Field, Result
  <2> QED  BY <1>1, <2>1, <2>2, <2>3, <2>4
<1> DEFINE r == [thread[t] EXCEPT !.reg = Result[thread[t].pc]]
<1>4. thread' = [thread EXCEPT ![t] = r]
  BY <1>2, <1>3 DEF Read, IsRef
<1>5. /\ r.op = thread[t].op /\ r.pc = thread[t].pc /\ r.i = thread[t].i
      /\ r.list = thread[t].list /\ r.out = thread[t].out /\ r.reg = Result[r.pc]
  BY Held DEF Records
<1>6. thread'[t] = r
  BY <1>4, NowAt
<1> HIDE DEF r
<1>7. EntriesOf(thread[t])'
  BY <1>5, <1>6 DEF Read, Undisturbed, EntriesOf
<1>8. ChainOf(thread[t])'
  BY <1>5, <1>6 DEF Read, Undisturbed, ChainOf, Shows
<1>9. HandOf(thread[t])'
  BY <1>5, <1>6 DEF Undisturbed, HandOf
<1> QED  BY <1>7, <1>8, <1>9 DEF Undisturbed

\* Writing it moves the entry to its next stage.
LEMMA WriteWork ==
    ASSUME OrderInv, NEW t \in Threads, Write(t), Undisturbed(t)
    PROVE  Undisturbed(t)'
<1> DEFINE fn == thread[t].pc
           last == thread[t].i = Len(thread[t].list)
           to == IF fn # "sg<" THEN After[fn]
                 ELSE IF ~last THEN "pk>" ELSE IF thread[t].op = "vote" THEN "use" ELSE "assign"
           at == IF fn = "sg<" THEN thread[t].i + 1 ELSE thread[t].i
           r == [thread[t] EXCEPT !.reg = "none", !.i = at, !.pc = to]
<1>1. fn \in {"pk>", "sg>", "pk<", "sg<"} /\ thread[t].reg = Result[fn]
  BY Held DEF Write, Undisturbed, HandOf, Holds, Converting, Forth, Back
<1>2. /\ Converting(thread[t]) /\ AllRefs(thread[t].list) /\ AllTexts(thread[t].out)
      /\ Entry(t) \in Refs /\ entry[Entry(t)] = Stage(fn) /\ Entry(t) = thread[t].list[thread[t].i]
  BY <1>1, InHand DEF Forth, Back, Entry
<1>3. /\ fn = "pk>" => to = "sg>"
      /\ fn = "sg>" => to = "dump"
      /\ fn = "pk<" => to = "sg<"
      /\ fn = "sg<" => to \in {"pk>", "assign"} \/ (to = "use" /\ thread[t].op = "vote")
  BY DEF After
<1>4. thread' = [thread EXCEPT ![t] = r]
  BY DEF Write
<1>5. thread'[t] = r
  BY <1>4, NowAt
<1> HIDE DEF to, at
<1>6. /\ r.op = thread[t].op /\ r.pc = to /\ r.list = thread[t].list /\ r.out = thread[t].out
      /\ r.reg = "none" /\ r.i = at
  BY Held DEF Records
<1>7. fn # "sg<" => at = thread[t].i
  BY DEF at
<1> HIDE DEF r
<1>8. entry' = [entry EXCEPT ![Entry(t)] = [Stage(fn) EXCEPT ![Field(fn)] = Result[fn]]]
  BY <1>1, <1>2 DEF Write
<1>9. [Stage(fn) EXCEPT ![Field(fn)] = Result[fn]] = IF fn = "sg<" THEN Genuine ELSE Stage(to)
  <2>1. CASE fn = "pk>"
    BY <2>1, <1>3, Stages DEF Field, Result
  <2>2. CASE fn = "sg>"
    BY <2>2, <1>3, Stages DEF Field, Result
  <2>3. CASE fn = "pk<"
    BY <2>3, <1>3, Stages DEF Field, Result
  <2>4. CASE fn = "sg<"
    BY <2>4, <1>3, Stages DEF Field, Result
  <2> QED  BY <1>1, <2>1, <2>2, <2>3, <2>4
<1>10. \A e \in Refs : e # Entry(t) => entry[e] = Genuine
  BY <1>1, <1>2 DEF Undisturbed, EntriesOf
<1>11. EntriesOf(thread[t])'
  <2>1. \A e \in Refs : entry'[e] = IF e = Entry(t) THEN (IF fn = "sg<" THEN Genuine ELSE Stage(to)) ELSE Genuine
    BY <1>2, <1>8, <1>9, <1>10, Held
  <2>2. CASE fn # "sg<"
    BY <2>1, <2>2, <1>1, <1>2, <1>3, <1>5, <1>6, <1>7 DEF EntriesOf, Forth, Back
  <2>3. CASE fn = "sg<"
    BY <2>1, <2>3, <1>3, <1>5, <1>6, Stages DEF EntriesOf, Forth, Back
  <2> QED  BY <2>2, <2>3
<1>12. ChainOf(thread[t])'
  BY <1>1, <1>3, <1>5, <1>6 DEF Write, Undisturbed, ChainOf, Shows
<1>13. HandOf(thread[t])'
  BY <1>1, <1>2, <1>3, <1>5, <1>6 DEF HandOf, Forth, Back
<1> QED  BY <1>11, <1>12, <1>13 DEF Undisturbed

\* The text of an undisturbed entry is that of its genuine signature.
LEMMA DumpWork ==
    ASSUME OrderInv, NEW t \in Threads, Dump(t), Undisturbed(t)
    PROVE  Undisturbed(t)'
<1> DEFINE x == Text("text", thread[t].i)
           r == [thread[t] EXCEPT !.pc = "pk<", !.out = Append(@, x)]
<1>1. thread[t].pc = "dump"
  BY DEF Dump
<1>2. /\ Converting(thread[t]) /\ AllRefs(thread[t].list) /\ AllTexts(thread[t].out)
      /\ Entry(t) \in Refs /\ Entry(t)[3] = thread[t].i /\ entry[Entry(t)] = Stage("dump")
  BY <1>1, InHand DEF Forth
<1>3. thread' = [thread EXCEPT ![t] = r]
  BY <1>2, Stages DEF Dump
<1>4. thread'[t] = r
  BY <1>3, NowAt
<1>5. /\ r.op = thread[t].op /\ r.pc = "pk<" /\ r.list = thread[t].list
      /\ r.out = Append(thread[t].out, x) /\ r.reg = thread[t].reg /\ r.i = thread[t].i
  BY Held DEF Records
<1>6. AllTexts(Append(thread[t].out, x))
  <2>1. thread[t].i - 1 \in Nat /\ thread[t].i \in 1..Hops /\ InOrder(thread[t].out, thread[t].i - 1)
    BY <1>1, <1>2, Held DEF Converting, Back
  <2>2. x \in Items /\ x[3] = thread[t].i
    BY <2>1, Places
  <2> HIDE DEF x
  <2>3. /\ InOrder(Append(thread[t].out, x), thread[t].i)
        /\ \A k \in 1..(thread[t].i - 1) : Append(thread[t].out, x)[k] = thread[t].out[k]
        /\ Append(thread[t].out, x)[thread[t].i] = x
    <3> DEFINE n == thread[t].i - 1
    <3>1. n \in Nat /\ n + 1 = thread[t].i /\ InOrder(thread[t].out, n)
      BY <2>1
    <3> HIDE DEF n
    <3>2. /\ InOrder(Append(thread[t].out, x), n + 1)
          /\ \A k \in 1..n : Append(thread[t].out, x)[k] = thread[t].out[k]
          /\ Append(thread[t].out, x)[n + 1] = x
      <4>1. x \in Items /\ x[3] = n + 1
        BY <3>1, <2>2
      <4> QED  BY ONLY <4>1, <3>1, Longer
    <3> QED  BY <3>1, <3>2 DEF n
  <2>4. DOMAIN Append(thread[t].out, x) = 1..thread[t].i /\ DOMAIN thread[t].out = 1..(thread[t].i - 1)
    BY <2>1, <2>3, LenProperties DEF InOrder
  <2>5. \A k \in 1..thread[t].i : k \in 1..(thread[t].i - 1) \/ k = thread[t].i
    BY <2>1
  <2> QED  BY <1>2, <2>3, <2>4, <2>5 DEF AllTexts, x
<1>7. thread[t].reg = "none"
  BY <1>1, <1>2 DEF Converting
<1> HIDE DEF r
<1>8. EntriesOf(thread[t])'
  BY <1>1, <1>4, <1>5, Stages DEF Dump, Undisturbed, EntriesOf, Forth, Back
<1>9. ChainOf(thread[t])'
  BY <1>1, <1>4, <1>5 DEF Dump, Undisturbed, ChainOf, Shows
<1>10. HandOf(thread[t])'
  BY <1>2, <1>4, <1>5, <1>6, <1>7 DEF HandOf, Forth, Back
<1> QED  BY <1>8, <1>9, <1>10 DEF Undisturbed

\* A step that goes on or ends, and changes no entry.
LEMMA GotoWork ==
    ASSUME OrderInv, NEW t \in Threads, Undisturbed(t), NEW pc \in {"tag", "use", "load", "untag"},
           thread[t].pc \notin Forth \cup Back, Goto(t, pc), UNCHANGED entry,
           thread[t].op \in {"hash", "sign", "forward"},
           json' <=> pc \in {"use", "load", "untag"},
           IF pc = "untag" THEN AllRefs(items') ELSE AllTexts(items')
    PROVE  Undisturbed(t)'
<1> DEFINE r == [thread[t] EXCEPT !.pc = pc]
<1>1. thread'[t] = r
  BY NowAt DEF Goto
<1>2. r.op = thread[t].op /\ r.pc = pc /\ r.reg = thread[t].reg
  BY Held DEF Records
<1>3. thread[t].reg = "none"
  BY Held DEF Holds
<1> HIDE DEF r
<1>4. EntriesOf(thread[t])'
  BY <1>1, <1>2 DEF Undisturbed, EntriesOf, Forth, Back
<1>5. ChainOf(thread[t])'
  BY <1>1, <1>2 DEF ChainOf, Shows
<1>6. HandOf(thread[t])'
  BY <1>1, <1>2, <1>3 DEF HandOf, Forth, Back
<1> QED  BY <1>4, <1>5, <1>6 DEF Undisturbed

\* A step that ends an operation.
LEMMA IdleWork ==
    ASSUME OrderInv, NEW t \in Threads, Undisturbed(t), thread' = [thread EXCEPT ![t] = Idle],
           thread[t].pc \notin Forth \cup Back, UNCHANGED entry, ~json', AllRefs(items')
    PROVE  Undisturbed(t)'
<1>1. thread'[t] = Idle /\ Idle.pc = "idle" /\ Idle.reg = "none"
  BY NowAt DEF Idle
<1>2. EntriesOf(thread[t])'
  BY <1>1 DEF Undisturbed, EntriesOf, Forth, Back
<1>3. ChainOf(thread[t])'
  BY <1>1 DEF ChainOf, Shows
<1>4. HandOf(thread[t])'
  BY <1>1 DEF HandOf, Forth, Back
<1> QED  BY <1>2, <1>3, <1>4 DEF Undisturbed

\* What an undisturbed thread finds when it uses the chain or makes entries of it.
LEMMA Found ==
    ASSUME OrderInv, NEW t \in Threads, Undisturbed(t)
    PROVE  /\ thread[t].pc \in {"tag", "load", "restore"} \/ Shows(thread[t]) =>
                 AllTexts(items) /\ DOMAIN items = 1..Hops /\ InJson(items)
           /\ thread[t].pc \notin Forth \cup Back => \A e \in Refs : entry[e] = Genuine
<1>1. DOMAIN items = 1..Hops
  BY Held, LenProperties DEF InOrder
<1>2. AllTexts(items) => InJson(items)
  BY <1>1, Places DEF AllTexts, InJson, IsRef
<1> QED  BY <1>1, <1>2 DEF Undisturbed, EntriesOf, ChainOf

\* The chain and its tag follow the operation.
LEMMA ChainWork ==
    ASSUME OrderInv, NEW t \in Threads, Undisturbed(t),
           Assign(t) \/ Tag(t) \/ Hash(t) \/ Send(t) \/ Restore(t) \/ Untag(t)
    PROVE  Undisturbed(t)'
<1>1. CASE Assign(t)
  <2>1. thread[t].op \in {"hash", "sign", "forward"} /\ AllTexts(items') /\ ~json'
    BY <1>1, Held DEF Assign, Holds, Undisturbed, HandOf, ChainOf, Shows
  <2> QED  BY <1>1, <2>1, GotoWork DEF Assign, Forth, Back
<1>2. CASE Tag(t)
  <2>1. thread[t].op \in {"hash", "sign", "forward"} /\ AllTexts(items') /\ json'
    BY <1>2, Held DEF Tag, Holds, Undisturbed, ChainOf
  <2> QED  BY <1>2, <2>1, GotoWork DEF Tag, Forth, Back
<1>3. CASE Hash(t)
  <2>1. AllTexts(items') /\ json'
    BY <1>3 DEF Hash, Undisturbed, ChainOf, Shows
  <2> QED  BY <1>3, <2>1, GotoWork DEF Hash, Forth, Back
<1>4. CASE Send(t)
  <2>1. AllTexts(items') /\ json' /\ InJson(items)
    BY <1>4, Found DEF Send, Undisturbed, ChainOf, Shows
  <2> QED  BY <1>4, <2>1, GotoWork DEF Send, Forth, Back
<1>5. CASE Restore(t)
  <2>1. thread[t].op \in {"hash", "sign", "forward"} /\ AllRefs(items') /\ json'
    BY <1>5, Held DEF Restore, Holds, NewChain, Undisturbed, HandOf, ChainOf
  <2> QED  BY <1>5, <2>1, GotoWork DEF Restore, Forth, Back
<1>6. CASE Untag(t)
  <2>1. AllRefs(items')
    BY <1>6 DEF Untag, Undisturbed, ChainOf, Shows
  <2> QED  BY <1>6, <2>1, IdleWork DEF Untag, Forth, Back
<1> QED  BY <1>1, <1>2, <1>3, <1>4, <1>5, <1>6

\* A vote is answered with the genuine text.
LEMMA AnswerWork ==
    ASSUME OrderInv, NEW t \in Threads, Answer(t), Undisturbed(t)
    PROVE  Undisturbed(t)' /\ thread[t].out[1] = Text("text", 1)
<1>1. thread[t].pc = "use" /\ thread[t].op = "vote"
  BY DEF Answer
<1>2. InOrder(thread[t].out, 1) /\ AllTexts(thread[t].out)
  BY <1>1, Held DEF Holds, Undisturbed, HandOf
<1>3. thread[t].out[1] = Text("text", 1)
  BY <1>2, AtPlace DEF AllTexts
<1>4. thread[t].out # <<Text("none", 1)>>
  BY <1>3 DEF Text
<1>5. ~json' /\ AllRefs(items')
  BY <1>1 DEF Answer, Undisturbed, ChainOf, Shows
<1> QED  BY <1>1, <1>3, <1>4, <1>5, IdleWork DEF Answer, Forth, Back

\* A scan that nobody disturbs never raises.
LEMMA ScanWork ==
    ASSUME OrderInv, NEW t \in Threads, Scan(t), Undisturbed(t)
    PROVE  Undisturbed(t)'
<1>1. /\ thread[t].pc = "scan" /\ AllRefs(thread[t].list) /\ thread[t].i \in 1..Hops
      /\ InOrder(thread[t].list, Hops) /\ thread[t].reg = "none"
  BY Held DEF Scan, Holds, Undisturbed, HandOf, Forth, Back
<1>2. Entry(t) \in Refs
  BY <1>1, AtPlace, Held DEF Entry, AllRefs
<1>3. entry[Entry(t)].sg = "bytes"
  BY <1>1, <1>2, Found, Stages DEF Forth, Back
<1>4. ~json' /\ AllRefs(items')
  BY <1>1 DEF Scan, Undisturbed, ChainOf, Shows
<1>5. CASE thread[t].i < Hops
  <2> DEFINE r == [thread[t] EXCEPT !.i = @ + 1]
  <2>1. thread' = [thread EXCEPT ![t] = r]
    BY <1>2, <1>3, <1>5 DEF Scan, IsRef
  <2>2. r.op = thread[t].op /\ r.pc = "scan" /\ r.list = thread[t].list /\ r.reg = "none"
    BY <1>1, Held DEF Records
  <2>3. thread'[t] = r
    BY <2>1, NowAt
  <2> HIDE DEF r
  <2>4. EntriesOf(thread[t])'
    BY <1>1, <2>2, <2>3, Found DEF Scan, EntriesOf, Forth, Back
  <2>5. ChainOf(thread[t])'
    BY <1>4, <2>2, <2>3 DEF ChainOf, Shows
  <2>6. HandOf(thread[t])'
    BY <1>1, <2>2, <2>3 DEF HandOf, Forth, Back
  <2> QED  BY <2>4, <2>5, <2>6 DEF Undisturbed
<1>6. CASE ~(thread[t].i < Hops)
  <2>1. thread' = [thread EXCEPT ![t] = Idle]
    BY <1>2, <1>3, <1>6 DEF Scan, IsRef
  <2> QED  BY <1>1, <1>4, <2>1, IdleWork DEF Scan, Forth, Back
<1> QED  BY <1>5, <1>6

\* Genuine texts are decoded to genuine entries.
LEMMA LoadWork ==
    ASSUME OrderInv, NEW t \in Threads, Load(t), Undisturbed(t)
    PROVE  Undisturbed(t)'
<1> DEFINE new == [k \in 1..Hops |-> <<t, ops[t], k>>]
           r == [thread[t] EXCEPT !.out = new, !.pc = "restore"]
<1>1. thread[t].pc = "load" /\ thread[t].op \in {"hash", "sign", "forward"} /\ thread[t].reg = "none"
  BY Held DEF Load, Holds, Forth, Back
<1>2. AllTexts(items) /\ DOMAIN items = 1..Hops /\ InJson(items)
  BY <1>1, Found
<1>3. /\ thread' = [thread EXCEPT ![t] = r]
      /\ entry' = [e \in Refs |-> IF e \in {new[k] : k \in 1..Hops} THEN Decoded(items[e[3]]) ELSE entry[e]]
  BY <1>2 DEF Load
<1>4. AllRefs(new)
  BY Held, Places DEF AllRefs
<1> HIDE DEF new
<1>5. /\ r.op = thread[t].op /\ r.pc = "restore" /\ r.out = new /\ r.reg = "none"
  BY <1>1, Held DEF Records
<1>6. thread'[t] = r
  BY <1>3, NowAt
<1> HIDE DEF r
<1>7. \A e \in Refs : entry'[e] = Genuine
  <2>1. \A e \in Refs : Decoded(items[e[3]]) = Genuine
    BY <1>2, Places DEF AllTexts, Decoded, Genuine
  <2>2. \A e \in Refs : entry[e] = Genuine
    BY <1>1, Found DEF Forth, Back
  <2> QED  BY <1>3, <2>1, <2>2
<1>8. EntriesOf(thread[t])'
  BY <1>5, <1>6, <1>7 DEF EntriesOf, Forth, Back
<1>9. ChainOf(thread[t])'
  BY <1>1, <1>5, <1>6 DEF Load, Undisturbed, ChainOf, Shows
<1>10. HandOf(thread[t])'
  BY <1>4, <1>5, <1>6 DEF HandOf, Forth, Back
<1> QED  BY <1>8, <1>9, <1>10 DEF Undisturbed

-----------------------------------------------------------------------------
(* Two threads *)

\* A step of t within its operation.
Works(t) ==
    \/ Read(t) \/ Write(t) \/ Dump(t) \/ Assign(t) \/ Tag(t)
    \/ Hash(t) \/ Send(t) \/ Answer(t) \/ Scan(t)
    \/ Load(t) \/ Restore(t) \/ Untag(t)

Steps(t) == (\E op \in OpsOf(t) : Begin(t, op)) \/ Works(t)

\* No step of an undisturbed thread disturbs it.
LEMMA StepWork ==
    ASSUME OrderInv, NEW t \in Threads, Steps(t), Undisturbed(t)
    PROVE  Undisturbed(t)'
<1>1. CASE \E op \in OpsOf(t) : Begin(t, op)
  BY <1>1, BeginWork
<1>2. CASE Read(t) \/ Write(t) \/ Dump(t)
  BY <1>2, ReadWork, WriteWork, DumpWork
<1>3. CASE Assign(t) \/ Tag(t) \/ Hash(t) \/ Send(t) \/ Restore(t) \/ Untag(t)
  BY <1>3, ChainWork
<1>4. CASE Answer(t) \/ Scan(t) \/ Load(t)
  BY <1>4, AnswerWork, ScanWork, LoadWork
<1> QED  BY <1>1, <1>2, <1>3, <1>4 DEF Steps, Works

\* What an undisturbed thread reads is right.
LEMMA StepResults ==
    ASSUME OrderInv, NEW t \in Threads, Steps(t), Undisturbed(t), ResultsRight
    PROVE  ResultsRight'
<1>1. CASE Hash(t)
  <2>1. json = TRUE
    BY <1>1 DEF Hash, Undisturbed, ChainOf, Shows, OrderInv, Typed
  <2> QED  BY <2>1, <1>1 DEF Hash, ResultsRight
<1>2. CASE Send(t)
  <2>1. AllTexts(items) /\ DOMAIN items = 1..Hops
    BY <1>2, Found DEF Send, Shows
  <2>2. {items[k] : k \in DOMAIN items} \subseteq {Text("text", k) : k \in 1..Hops}
    BY <2>1 DEF AllTexts
  <2> QED  BY <2>2, <1>2 DEF Send, ResultsRight
<1>3. CASE Answer(t)
  <2>1. thread[t].out[1] = Text("text", 1) /\ 1 \in 1..Hops
    BY <1>3, AnswerWork, Held
  <2>2. \/ results' = results
        \/ results' = [results EXCEPT !.sent = @ \cup {Text("text", 1)}]
    BY <2>1, <1>3 DEF Answer
  <2>3. Text("text", 1) \in {Text("text", k) : k \in 1..Hops}
    BY <2>1
  <2> QED  BY <2>2, <2>3 DEF ResultsRight
<1>4. CASE Scan(t)
  <2>1. /\ thread[t].pc = "scan" /\ AllRefs(thread[t].list) /\ thread[t].i \in 1..Hops
        /\ InOrder(thread[t].list, Hops)
    BY <1>4, Held DEF Scan, Holds, Undisturbed, HandOf
  <2>2. Entry(t) \in Refs
    BY <2>1, AtPlace, Held DEF Entry, AllRefs
  <2>3. entry[Entry(t)].sg = "bytes"
    BY <2>1, <2>2, Found, Stages DEF Forth, Back
  <2>4. \/ results' = results
        \/ results' = [results EXCEPT !.scanned = @ \cup {"bytes"}]
    BY <2>3, <1>4 DEF Scan
  <2> QED  BY <2>4 DEF ResultsRight
<1>5. CASE UNCHANGED results
  BY <1>5 DEF ResultsRight
<1> QED  BY <1>1, <1>2, <1>3, <1>4, <1>5 DEF Steps, Works, Begin, Read, Write, Dump, Assign, Tag,
            Load, Restore, Untag

\* A thread that works is not idle, and a step changes no other thread.
LEMMA OneMoves ==
    ASSUME OrderInv, NEW t \in Threads, Steps(t)
    PROVE  /\ Works(t) => thread[t] # Idle
           /\ \A u \in Threads : u # t => thread'[u] = thread[u]
           /\ mode' = mode
<1>1. Works(t) => thread[t] # Idle
  BY DEF Works, Read, Write, Dump, Assign, Tag, Hash, Send, Answer, Scan, Load, Restore, Untag, Idle
<1>2. ASSUME NEW u \in Threads, u # t PROVE thread'[u] = thread[u]
  <2>1. CASE \E op \in OpsOf(t) : Begin(t, op)
    BY <1>2, <2>1 DEF Begin, OrderInv, Typed
  <2>2. CASE Read(t) \/ Write(t) \/ Dump(t)
    BY <1>2, <2>2 DEF Read, Write, Dump, Raised, OrderInv, Typed
  <2>3. CASE Assign(t) \/ Tag(t) \/ Hash(t) \/ Send(t) \/ Restore(t) \/ Untag(t)
    BY <1>2, <2>3 DEF Assign, Tag, Hash, Send, Restore, Untag, Goto, Raised, OrderInv, Typed
  <2>4. CASE Answer(t) \/ Scan(t) \/ Load(t)
    BY <1>2, <2>4 DEF Answer, Scan, Load, Raised, OrderInv, Typed
  <2> QED  BY <2>1, <2>2, <2>3, <2>4 DEF Steps, Works
<1>3. mode' = mode
  BY DEF Steps, Works, Begin, Read, Write, Dump, Assign, Tag, Hash, Send, Answer, Scan, Load, Restore, Untag
<1> QED  BY <1>1, <1>2, <1>3

\* In the single loop, one thread at a time.
LEMMA SerialWork ==
    ASSUME OrderInv, WorkInv, mode = "serial", NEW t \in Threads, Steps(t)
    PROVE  WorkInv'
<1>1. Alone(t)
  <2>1. CASE \E op \in OpsOf(t) : Begin(t, op)
    BY <2>1 DEF Begin, Alone
  <2>2. CASE Works(t)
    BY <2>2, OneMoves DEF WorkInv, Alone
  <2> QED  BY <2>1, <2>2 DEF Steps
<1>2. Undisturbed(t) /\ ResultsRight
  BY <1>1 DEF WorkInv
<1>3. Undisturbed(t)' /\ ResultsRight'
  BY <1>2, StepWork, StepResults
<1>4. Alone(t)'
  BY <1>1, OneMoves DEF Alone
<1>5. ASSUME NEW u \in Threads, Alone(u)' PROVE Undisturbed(u)'
  <2>1. CASE u = t
    BY <2>1, <1>3
  <2>2. CASE u # t
    <3>1. thread'[u] = Idle /\ thread'[t] = Idle
      BY <2>2, <1>4, <1>5 DEF Alone
    <3> QED  BY <3>1, <1>3 DEF Undisturbed, EntriesOf, ChainOf, HandOf, Shows
  <2> QED  BY <2>1, <2>2
<1>6. mode' = "serial"
  BY OneMoves
<1> QED  BY <1>3, <1>4, <1>5, <1>6 DEF WorkInv

\* A main loop that only scans.
LEMMA MiningWork ==
    ASSUME OrderInv, WorkInv, mode = "mining", NEW t \in Threads, Steps(t)
    PROVE  WorkInv'
<1>1. /\ Undisturbed("server") /\ ResultsRight /\ thread["main"].pc \in {"idle", "scan", "raised"}
      /\ mode' = "mining" /\ "server" \in Threads /\ "main" \in Threads
  BY OneMoves DEF WorkInv, Threads
<1>2. CASE t = "server"
  <2>1. Undisturbed("server")' /\ ResultsRight'
    BY <1>1, <1>2, StepWork, StepResults
  <2>2. thread'["main"] = thread["main"]
    BY <1>1, <1>2, OneMoves
  <2> QED  BY <1>1, <2>1, <2>2 DEF WorkInv
<1>3. CASE t = "main"
  <2>1. Begin("main", "scan") \/ Scan("main")
    <3>1. thread["main"].reg = "none"
      BY <1>1, Held DEF Holds, Forth, Back
    <3>2. Works("main") => Scan("main")
      BY <1>1, <3>1 DEF Works, Read, Write, Dump, Assign, Tag, Hash, Send, Answer, Load, Restore, Untag
    <3>3. OpsOf("main") = {"scan"}
      BY DEF OpsOf
    <3> QED  BY <3>2, <3>3, <1>3 DEF Steps
  <2>2. UNCHANGED <<items, json, entry>> /\ thread'["server"] = thread["server"]
    BY <1>1, <1>3, <2>1, OneMoves DEF Begin, Scan
  <2>3. Undisturbed("server")'
    BY <1>1, <2>2 DEF Undisturbed, EntriesOf, ChainOf, HandOf
  <2>4. thread'["main"].pc \in {"idle", "scan", "raised"}
    <3>1. CASE Begin("main", "scan")
      <4>1. thread'["main"].pc = "scan"
        BY <3>1, <1>1 DEF Begin, OrderInv, Typed, Idle
      <4> QED  BY <4>1
    <3>2. CASE Scan("main")
      <4>1. CASE Raised("main")
        BY <4>1, <1>1, NowAt, Ended DEF Raised
      <4>2. CASE thread' = [thread EXCEPT !["main"] = Idle]
        BY <4>2, <1>1, NowAt DEF Idle
      <4>3. CASE thread' = [thread EXCEPT !["main"] = [thread["main"] EXCEPT !.i = @ + 1]]
        <5>1. thread'["main"] = [thread["main"] EXCEPT !.i = @ + 1]
          BY <4>3, <1>1, NowAt
        <5> QED  BY <5>1, <1>1, Held DEF Records
      <4> QED  BY <3>2, <4>1, <4>2, <4>3 DEF Scan
    <3> QED  BY <2>1, <3>1, <3>2
  <2>5. ResultsRight'
    <3>1. CASE results' = results
      BY <3>1, <1>1 DEF ResultsRight
    <3>2. CASE results' # results
      <4>1. /\ Entry("main") \in Refs /\ entry[Entry("main")].sg \in {"bytes", "wrong"}
            /\ results' = [results EXCEPT !.scanned = @ \cup {entry[Entry("main")].sg}]
        BY <3>2, <2>1 DEF Begin, Scan, IsRef
      <4>2. entry[Entry("main")].sg \in {"bytes", "text"}
        BY <4>1, <1>1 DEF Undisturbed, EntriesOf, Stage, Genuine
      <4> QED  BY <4>1, <4>2, <1>1 DEF ResultsRight
    <3> QED  BY <3>1, <3>2
  <2> QED  BY <1>1, <2>3, <2>4, <2>5 DEF WorkInv
<1> QED  BY <1>2, <1>3 DEF Threads

\* At first nobody works.
LEMMA InitWork ==
    Init => WorkInv
<1> SUFFICES ASSUME Init PROVE WorkInv
  OBVIOUS
<1>1. \A t \in Threads : thread[t] = Idle /\ thread[t].pc = "idle" /\ thread[t].reg = "none"
  BY DEF Init, Idle
<1>2. AllRefs(items) /\ ~json /\ \A e \in Refs : entry[e] = Genuine
  <2>1. \A k \in 1..Hops : <<"init", 0, k>> \in Refs
    BY SharedAssumption, Places
  <2> QED  BY <2>1 DEF Init, AllRefs
<1>3. \A t \in Threads : Undisturbed(t) /\ Alone(t)
  BY <1>1, <1>2 DEF Undisturbed, EntriesOf, ChainOf, HandOf, Shows, Alone, Forth, Back
<1>4. ResultsRight
  BY DEF Init, ResultsRight
<1> QED  BY <1>1, <1>3, <1>4 DEF WorkInv, Threads

\* With OrderInv, WorkInv is inductive.
LEMMA NextWork ==
    OrderInv /\ WorkInv /\ [Next]_vars => WorkInv'
<1> SUFFICES ASSUME OrderInv, WorkInv, [Next]_vars PROVE WorkInv'
  OBVIOUS
<1>1. ASSUME NEW t \in Threads, Steps(t) PROVE WorkInv'
  <2>1. mode' = mode /\ mode \in {"serial", "mining", "free"}
    BY <1>1, OneMoves DEF OrderInv, Typed
  <2>2. CASE mode = "free"
    BY <2>1, <2>2 DEF WorkInv
  <2> QED  BY <1>1, <2>1, <2>2, SerialWork, MiningWork
<1>2. CASE UNCHANGED vars
  <2>1. \A t \in Threads : Undisturbed(t) => Undisturbed(t)'
    BY <1>2 DEF vars, Undisturbed, EntriesOf, ChainOf, HandOf
  <2>2. (\A t \in Threads : Alone(t) <=> Alone(t)') /\ (ResultsRight <=> ResultsRight')
    BY <1>2 DEF vars, Alone, ResultsRight
  <2>3. mode' = mode /\ thread' = thread /\ "server" \in Threads
    BY <1>2 DEF vars, Threads
  <2> QED  BY <2>1, <2>2, <2>3 DEF WorkInv
<1> QED  BY <1>1, <1>2 DEF Next, Steps, Works

\* Both invariants hold always.
LEMMA AlwaysShared ==
    Spec => [](OrderInv /\ WorkInv)
<1>1. Init => OrderInv /\ WorkInv
  BY InitOrder, InitWork
<1>2. OrderInv /\ WorkInv /\ [Next]_vars => (OrderInv /\ WorkInv)'
  BY NextOrder, NextWork
<1> QED  BY <1>1, <1>2, PTL DEF Spec

\* An undisturbed thread at rest leaves the transaction as it was.
LEMMA RestRestored ==
    ASSUME OrderInv, NEW t \in Threads, Undisturbed(t), thread[t] = Idle
    PROVE  ~json /\ Restored
<1>1. thread[t].pc = "idle" /\ DOMAIN items = 1..Hops
  BY Held, LenProperties DEF Idle, InOrder
<1>2. ~json /\ AllRefs(items) /\ \A e \in Refs : entry[e] = Genuine
  BY <1>1 DEF Undisturbed, EntriesOf, ChainOf, Shows, Forth, Back
<1> QED  BY <1>1, <1>2 DEF Restored, AllRefs, IsRef

\* While only one thread works at a time, for chains of any length: nothing raises,
\* every hash is taken with the tag set, only texts of genuine signatures leave the
\* node, and each operation leaves the transaction as it was.
THEOREM SerialAlwaysWorks ==
    Spec => []SerialWorks
<1>1. OrderInv /\ WorkInv => SerialWorks
  <2> SUFFICES ASSUME OrderInv, WorkInv, mode = "serial" PROVE SerialWorks
    BY DEF SerialWorks
  <2>1. ASSUME NEW t \in Threads PROVE thread[t].pc # "raised"
    BY <2>1 DEF WorkInv, Alone, Undisturbed, HandOf, Idle
  <2>2. ResultsRight
    BY DEF WorkInv
  <2>3. (\A t \in Threads : thread[t] = Idle) => ~json /\ Restored
    BY RestRestored DEF WorkInv
  <2> QED  BY <2>1, <2>2, <2>3 DEF SerialWorks, ResultsRight
<1> QED  BY <1>1, AlwaysShared, PTL

\* A main loop that only scans the mempool, however its scans fall between the
\* statements of the server thread, compares genuine signatures only, and the
\* server thread never raises, sends genuine texts and leaves the transaction as
\* it was.
THEOREM ReaderAlwaysHarmless ==
    Spec => []ReaderHarmless
<1>1. OrderInv /\ WorkInv => ReaderHarmless
  <2> SUFFICES ASSUME OrderInv, WorkInv, mode = "mining" PROVE ReaderHarmless
    BY DEF ReaderHarmless
  <2>1. Undisturbed("server") /\ ResultsRight /\ "server" \in Threads
    BY DEF WorkInv, Threads
  <2>2. thread["server"] = Idle => ~json /\ Restored
    BY <2>1, RestRestored
  <2>3. thread["server"].pc # "raised"
    BY <2>1 DEF Undisturbed, HandOf
  <2> QED  BY <2>1, <2>2, <2>3 DEF ReaderHarmless, ResultsRight
<1> QED  BY <1>1, AlwaysShared, PTL
=============================================================================
