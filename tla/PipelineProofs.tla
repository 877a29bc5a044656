--------------------------- MODULE PipelineProofs ---------------------------
(***************************************************************************)
(* Theorems about Pipeline, for all flags and any number of invocations.    *)
(***************************************************************************)
EXTENDS Pipeline, SumsProofs, SequenceTheorems

PP == INSTANCE ProducerProofs

-----------------------------------------------------------------------------
(* The command.  P and PP are two instances of Producer.                   *)

LEMMA SameEvent ==
    /\ \A r, i : P!BuildEvent(r, i) = PP!BuildEvent(r, i)
    /\ \A r, i : P!Key(r, i) = PP!Key(r, i)
    /\ \A f : P!BadFlags(f) = PP!BadFlags(f) /\ P!BadEvent(f) = PP!BadEvent(f)
    /\ P!flags = PP!flags
BY Zenon DEF P!BuildEvent, PP!BuildEvent, P!EventId, PP!EventId, P!BaseId, PP!BaseId,
       P!Timestamp, PP!Timestamp, P!BaseTimestamp, PP!BaseTimestamp,
       P!Payload, PP!Payload, P!OrderOf, PP!OrderOf, P!ParseItems,
       PP!ParseItems, P!Int32, PP!Int32, P!Key, PP!Key, P!BadFlags,
       PP!BadFlags, P!BadEvent, PP!BadEvent, P!Types, PP!Types, P!flags,
       PP!flags

LEMMA SameCommandInit == P!Init => PP!Init
BY Zenon DEF P!Init, PP!Init

LEMMA SameCommand ==
    ASSUME [P!Next]_(P!vars)
    PROVE  [PP!Next]_(PP!vars)
<1> USE DEF P!bounds, PP!bounds, P!Exit, PP!Exit, P!Stored, PP!Stored, P!Report,
            PP!Report
<1>1. P!vars = PP!vars /\ P!vars' = PP!vars'
  BY DEF P!vars, PP!vars
<1>2. CASE P!Start
  BY <1>2, SameEvent, Zenon DEF P!Start, PP!Start, PP!Next
<1>3. CASE P!BuildAndProduce
  <2>1. PP!BuildAndProduce
    BY <1>3, SameEvent, Zenon DEF P!BuildAndProduce, PP!BuildAndProduce, P!Choices,
       PP!Choices
  <2> QED BY <2>1, Zenon DEF PP!Next, PP!Main
<1>4. CASE P!LoopFails
  BY <1>4, SameEvent, Zenon DEF P!LoopFails, PP!LoopFails, PP!Main, PP!Next
<1>5. CASE P!LoopEnds
  BY <1>5, SameEvent, Zenon DEF P!LoopEnds, PP!LoopEnds, PP!Main, PP!Next
<1>6. CASE P!ReceiveReport
  BY <1>6, SameEvent, Zenon DEF P!ReceiveReport, PP!ReceiveReport, PP!Main, PP!Next
<1>7. CASE P!TimeOut
  BY <1>7, SameEvent, Zenon DEF P!TimeOut, PP!TimeOut, PP!Main, PP!Next, P!Cardinality, PP!Cardinality
<1>8. CASE P!Announce
  BY <1>8, SameEvent, Zenon DEF P!Announce, PP!Announce, PP!Main, PP!Next, P!Cardinality, PP!Cardinality
<1>9. ASSUME NEW p \in Partitions, P!Deliver(p)
      PROVE  PP!Next
  BY <1>9, SameEvent, Zenon DEF P!Deliver, PP!Deliver, PP!Broker, PP!Next
<1>10. ASSUME NEW p \in Partitions, P!DeliveryFails(p)
       PROVE  PP!Next
  BY <1>10, SameEvent, Zenon
     DEF P!DeliveryFails, PP!DeliveryFails, PP!Broker, PP!Next
<1>11. ASSUME NEW p \in Partitions, P!LoseAck(p)
       PROVE  PP!Next
  BY <1>11, SameEvent, Zenon DEF P!LoseAck, PP!LoseAck, PP!Broker, PP!Next
<1>12. ASSUME NEW p \in Partitions, P!Delay(p)
       PROVE  PP!Next
  BY <1>12, SameEvent, Zenon DEF P!Delay, PP!Delay, PP!Broker, PP!Next
<1> QED BY <1>1, <1>2, <1>3, <1>4, <1>5, <1>6, <1>7, <1>8, <1>9, <1>10, <1>11,
        <1>12 DEF P!Next, P!Main, P!Broker

LEMMA CommandStep ==
    ASSUME [Next]_vars
    PROVE  [P!Next]_(P!vars)
BY DEF Next, Produce, Consume, vars, command, P!vars, P!bounds

LEMMA FlagsAreTyped == PP!FlagsTyped
BY FlagsAssumption DEF PP!FlagsTyped

\* An invocation that says it published n events has n events in the topic,
\* however far the consumer is with them (main.go:86-123).
THEOREM PublishedAlwaysStored == Spec => []PublishedStored
<1>1. Init => PP!StoredInv
  BY FlagsAreTyped, SameCommandInit, PP!InitStored DEF Init
<1>2. PP!StoredInv /\ [Next]_vars => PP!StoredInv'
  BY FlagsAreTyped, CommandStep, SameCommand, PP!StoredStep
<1>3. PP!StoredInv => PublishedStored
  BY SameEvent
     DEF PP!StoredInv, PP!AllStored, PP!Has, PP!Numbers, PublishedStored,
         P!PublishedStored, P!InTopic, P!Numbers
<1> QED BY <1>1, <1>2, <1>3, PTL DEF Spec

-----------------------------------------------------------------------------
(* What is in the topic.                                                   *)

\* The events the invocations so far may have sent, by invocation and number.
Sent == UNION {{r} \X P!Numbers(r) : r \in 1 .. run}

Message(x) == P!BuildEvent(x[1], x[2])

Id(x) == P!EventId(x[1], x[2])

SentOK ==
    /\ built > 0 => ~P!BadEvent(P!flags)
    /\ \A p \in Partitions : \A j \in DOMAIN topic[p] :
         \E x \in Sent : /\ topic[p][j] = Message(x)
                         /\ ~P!BadEvent(Invocations[x[1]])

LEMMA SentMember ==
    /\ \A x : x \in Sent <=> \E r \in 1 .. run : \E i \in P!Numbers(r) : x = <<r, i>>
    /\ \A x : x \in Sent' <=> \E r \in 1 .. run' : \E i \in P!Numbers(r) : x = <<r, i>>
BY DEF Sent, P!Numbers

\* The first message of a queue is one of the running invocation.
LEMMA HeadSent ==
    ASSUME PP!RunOK, SentOK, NEW p \in Partitions, queue[p] # << >>
    PROVE  /\ <<run, Head(queue[p])>> \in Sent
           /\ ~P!BadEvent(Invocations[run])
           /\ Head(queue[p]) = queue[p][1] /\ 1 \in DOMAIN queue[p]
           /\ Head(queue[p]) \in 1 .. built
           /\ queue[p] \in Seq(Int) /\ built \in Nat
<1>1. /\ run \in 0 .. Len(Invocations) /\ Len(Invocations) \in Nat
      /\ built \in Nat /\ queue[p] \in Seq(1 .. built)
      /\ pc # "exited" => run > 0 /\ built =< P!flags.count
      /\ pc # "exited"
  BY FlagsAssumption, SameEvent DEF PP!RunOK
<1>2. Head(queue[p]) \in 1 .. built
  BY <1>1, HeadTailProperties
<1>3. run \in 1 .. run /\ built =< P!flags.count /\ built > 0
  BY <1>1, <1>2
<1>4. Head(queue[p]) \in P!Numbers(run)
  BY <1>1, <1>2, <1>3, FlagsAssumption DEF P!Numbers, P!flags
<1>5. ~P!BadEvent(Invocations[run])
  BY <1>3 DEF SentOK, P!flags
<1>6. Head(queue[p]) = queue[p][1] /\ 1 \in DOMAIN queue[p]
      /\ queue[p] \in Seq(Int)
  BY <1>1
<1> QED BY <1>1, <1>2, <1>3, <1>4, <1>5, <1>6, SentMember

LEMMA SentStep ==
    ASSUME PP!RunOK, SentOK, [P!Next]_(P!vars)
    PROVE  /\ SentOK' /\ Sent \subseteq Sent'
           /\ run' = run \/ run' = run + 1
<1>1. /\ run \in 0 .. Len(Invocations) /\ Len(Invocations) \in Nat
      /\ built \in Nat
      /\ queue \in [Partitions -> Seq(1 .. built)]
      /\ topic \in [Partitions -> Seq(PP!Messages)]
      /\ pc = "exited" => \A p \in Partitions : queue[p] = << >>
      /\ pc # "exited" => run > 0 /\ built =< P!flags.count
  BY FlagsAssumption, SameEvent DEF PP!RunOK
<1>2. CASE P!Start
  <2>1. run' = run + 1 /\ built' = 0 /\ topic' = topic
    BY <1>2 DEF P!Start
  <2>2. Sent \subseteq Sent'
    BY <1>1, <2>1, SentMember
  <2> QED BY <2>1, <2>2 DEF SentOK
<1>3. CASE P!BuildAndProduce
  <2>1. run' = run /\ topic' = topic /\ ~P!BadEvent(P!flags)
    BY <1>3 DEF P!BuildAndProduce
  <2>2. Sent' = Sent /\ P!flags' = P!flags
    BY <2>1 DEF Sent, P!flags, P!Numbers
  <2> QED BY <2>1, <2>2 DEF SentOK, P!BadEvent, P!Types
<1>4. CASE UNCHANGED <<run, built, topic>>
  <2>1. Sent' = Sent /\ P!flags' = P!flags
    BY <1>4 DEF Sent, P!flags, P!Numbers
  <2> QED BY <1>4, <2>1 DEF SentOK, P!BadEvent, P!Types
<1>5. ASSUME NEW p \in Partitions, P!Deliver(p) \/ P!LoseAck(p)
      PROVE  SentOK' /\ Sent \subseteq Sent' /\ run' = run
  <2>1. /\ queue[p] # << >> /\ P!Stored(p)
        /\ UNCHANGED <<run, built>>
    BY <1>5 DEF P!Deliver, P!LoseAck
  <2>2. Sent' = Sent /\ P!flags' = P!flags
    BY <2>1 DEF Sent, P!flags, P!Numbers
  <2> DEFINE x == <<run, Head(queue[p])>>
  <2>3. x \in Sent /\ ~P!BadEvent(Invocations[x[1]])
    BY <2>1, HeadSent
  <2>4. topic' = [topic EXCEPT ![p] = Append(@, Message(x))]
    BY <2>1 DEF P!Stored, Message
  <2> HIDE DEF x
  <2>5. ASSUME NEW q \in Partitions, NEW j \in DOMAIN topic'[q]
        PROVE  \/ j \in DOMAIN topic[q] /\ topic'[q][j] = topic[q][j]
               \/ topic'[q][j] = Message(x)
    BY <1>1, <2>4
  <2>6. \A q \in Partitions : \A j \in DOMAIN topic'[q] :
          \E y \in Sent : /\ topic'[q][j] = Message(y)
                          /\ ~P!BadEvent(Invocations[y[1]])
    BY <2>3, <2>5 DEF SentOK
  <2>7. SentOK'
    BY <2>1, <2>2, <2>6
       DEF SentOK, P!BadEvent, P!Types, Message, P!BuildEvent
  <2> QED BY <2>1, <2>2, <2>7
<1>6. ASSUME NEW p \in Partitions, P!DeliveryFails(p) \/ P!Delay(p)
      PROVE  UNCHANGED <<run, built, topic>>
  BY <1>6 DEF P!DeliveryFails, P!Delay
<1>7. CASE \/ P!LoopFails \/ P!LoopEnds \/ P!ReceiveReport \/ P!TimeOut
           \/ P!Announce \/ UNCHANGED P!vars
  BY <1>4, <1>7 DEF P!LoopFails, P!LoopEnds, P!ReceiveReport, P!TimeOut,
                    P!Announce, P!vars
<1> QED BY <1>2, <1>3, <1>4, <1>5, <1>6, <1>7 DEF P!Next, P!Main, P!Broker

LEMMA IdsDistinct ==
    ASSUME OwnIds,
           NEW r \in 1 .. Len(Invocations), NEW s \in 1 .. Len(Invocations),
           NEW i \in P!Numbers(r), NEW j \in P!Numbers(s),
           P!EventId(r, i) = P!EventId(s, j)
    PROVE  r = s /\ i = j
<1>1. r = s
  BY DEF OwnIds, P!EventId
<1>2. Invocations[r].count \in Int
  BY FlagsAssumption
<1>3. i \in 1 .. Invocations[r].count /\ j \in 1 .. Invocations[r].count
  BY <1>1 DEF P!Numbers
<1>4. CASE Invocations[r].count > 1
  BY <1>1, <1>4 DEF P!EventId
<1>5. CASE ~(Invocations[r].count > 1)
  BY <1>1, <1>2, <1>3, <1>5
<1> QED BY <1>4, <1>5

\* No two events have one id.
LEMMA SameId ==
    ASSUME OwnIds, NEW n \in 0 .. Len(Invocations), NEW x, NEW y,
           \E r \in 1 .. n : \E i \in P!Numbers(r) : x = <<r, i>>,
           \E r \in 1 .. n : \E i \in P!Numbers(r) : y = <<r, i>>,
           Id(x) = Id(y)
    PROVE  x = y
<1>1. PICK r \in 1 .. n : \E i \in P!Numbers(r) : x = <<r, i>>
  OBVIOUS
<1>2. PICK i \in P!Numbers(r) : x = <<r, i>>
  BY <1>1
<1>3. PICK s \in 1 .. n : \E j \in P!Numbers(s) : y = <<s, j>>
  OBVIOUS
<1>4. PICK j \in P!Numbers(s) : y = <<s, j>>
  BY <1>3
<1>5. r \in 1 .. Len(Invocations) /\ s \in 1 .. Len(Invocations)
  BY FlagsAssumption
<1>6. P!EventId(r, i) = P!EventId(s, j)
  BY <1>2, <1>4 DEF Id
<1> QED BY <1>2, <1>4, <1>5, <1>6, IdsDistinct

-----------------------------------------------------------------------------
(* Quantities.                                                             *)

\* A quantity below 2^32 keeps its value as an int32, or becomes negative.
LEMMA Int32Value ==
    ASSUME NEW n \in Int
    PROVE  /\ P!Int32(n) \in Int
           /\ n \in -Half .. 2 * Half - 1 => P!Int32(n) = n \/ P!Int32(n) < 0
<1>1. Half \in Int /\ Half > 0
  BY FlagsAssumption
<1> DEFINE w == 2 * Half
<1>2. w \in Int /\ w > 0 /\ w = Half + Half
  BY <1>1
<1>3. ASSUME NEW a \in Int
      PROVE  a % w \in Int
  BY <1>2
<1>4. ASSUME NEW a \in 0 .. w - 1
      PROVE  a % w = a
  BY <1>2
<1>5. ASSUME NEW a \in w .. w + w - 1
      PROVE  a % w = a - w
  BY <1>2
<1> HIDE DEF w
<1>6. P!Int32(n) = ((n + Half) % w) - Half
  BY DEF P!Int32, w
<1>7. CASE n \in -Half .. Half - 1
  <2>1. n + Half \in 0 .. w - 1
    BY <1>1, <1>2, <1>7
  <2> QED BY <1>1, <1>4, <1>6, <2>1
<1>8. CASE n \in Half .. 2 * Half - 1
  <2>1. n + Half \in w .. w + w - 1
    BY <1>1, <1>2, <1>8
  <2> QED BY <1>1, <1>2, <1>5, <1>6, <1>8, <2>1
<1>9. P!Int32(n) \in Int
  BY <1>1, <1>3, <1>6
<1> QED BY <1>1, <1>7, <1>8, <1>9

\* The payload of an event of these types.
LEMMA PayloadOf ==
    ASSUME NEW x
    PROVE  LET f == Invocations[x[1]]
               m == Message(x).payload
           IN  /\ Message(x).id = Id(x)
               /\ f.type = "PRODUCT_RECEIVED" =>
                    m = [type |-> f.type, product |-> f.product, zone |-> f.zone,
                         quantity |-> P!Int32(f.quantity), supplier |-> f.supplier]
               /\ f.type = "PRODUCT_RESERVED" =>
                    m = [type |-> f.type, product |-> f.product, zone |-> f.zone,
                         quantity |-> P!Int32(f.quantity), order |-> f.order]
               /\ f.type = "ORDER_CREATED" =>
                    m = [type |-> f.type, order |-> P!OrderOf(x[1], x[2]),
                         items |-> P!ParseItems(f)]
<1> DEFINE f == Invocations[x[1]]
           m == Message(x).payload
<1>1. Message(x).id = Id(x) /\ m = P!Payload(x[1], x[2])
  BY DEF Message, P!BuildEvent, Id
<1>2. ASSUME f.type = "PRODUCT_RECEIVED"
      PROVE  m = [type |-> f.type, product |-> f.product, zone |-> f.zone,
                  quantity |-> P!Int32(f.quantity), supplier |-> f.supplier]
  BY <1>1, <1>2 DEF P!Payload
<1>3. ASSUME f.type = "PRODUCT_RESERVED"
      PROVE  m = [type |-> f.type, product |-> f.product, zone |-> f.zone,
                  quantity |-> P!Int32(f.quantity), order |-> f.order]
  BY <1>1, <1>3 DEF P!Payload
<1>4. ASSUME f.type = "ORDER_CREATED"
      PROVE  m = [type |-> f.type, order |-> P!OrderOf(x[1], x[2]),
                  items |-> P!ParseItems(f)]
  BY <1>1, <1>4 DEF P!Payload
<1> HIDE DEF f, m
<1>5. f = Invocations[x[1]] /\ m = Message(x).payload
  BY DEF f, m
<1> QED BY <1>1, <1>2, <1>3, <1>4, <1>5

\* The items of an order are finitely many, with numbers for quantities.
LEMMA ItemsType ==
    ASSUME NEW r \in 1 .. Len(Invocations), ~P!BadEvent(Invocations[r]),
           Invocations[r].type = "ORDER_CREATED"
    PROVE  LET items == P!ParseItems(Invocations[r])
           IN  /\ IsFiniteSet(DOMAIN items)
               /\ \A j \in DOMAIN items : items[j].quantity \in Int
<1> DEFINE f == Invocations[r]
           items == P!ParseItems(f)
<1>1. /\ f.items \in Seq(Item \cup {None}) /\ f.quantity \in Int
      /\ \A j \in DOMAIN f.items : f.items[j] # None
  BY FlagsAssumption DEF P!BadEvent
<1>2. DOMAIN f.items = 1 .. Len(f.items) /\ Len(f.items) \in Nat
  BY <1>1
<1>3. \A n \in Nat : IsFiniteSet(1 .. n)
  BY FS_Interval
<1>4. CASE f.items = << >>
  <2>1. items = << [product |-> f.product, zone |-> f.zone,
                    quantity |-> P!Int32(f.quantity)] >>
    BY <1>4 DEF P!ParseItems
  <2>2. DOMAIN items = 1 .. 1 /\ items[1].quantity = P!Int32(f.quantity)
    BY <2>1
  <2> HIDE DEF items, f
  <2>3. IsFiniteSet(DOMAIN items)
    BY <1>3, <2>2
  <2>4. \A j \in DOMAIN items : items[j].quantity \in Int
    BY <1>1, <2>2, Int32Value
  <2> QED BY <2>3, <2>4 DEF items, f
<1>5. CASE f.items # << >>
  <2>1. items = [j \in DOMAIN f.items |->
                   [f.items[j] EXCEPT !.quantity = P!Int32(@)]]
    BY <1>5 DEF P!ParseItems
  <2>2. ASSUME NEW j \in DOMAIN items
        PROVE  items[j].quantity \in Int
    <3>1. f.items[j] \in Item
      BY <1>1, <2>1, <2>2
    <3>2. f.items[j].quantity \in Int
      BY <3>1 DEF Item
    <3>3. items[j] = [f.items[j] EXCEPT !.quantity = P!Int32(f.items[j].quantity)]
      BY <2>1, <2>2
    <3>4. items[j].quantity = P!Int32(f.items[j].quantity)
      BY <3>1, <3>3 DEF Item
    <3> QED BY <3>2, <3>4, Int32Value
  <2>3. IsFiniteSet(DOMAIN items)
    BY <1>3, <1>2, <2>1
  <2> QED BY <2>2, <2>3
<1> QED BY <1>4, <1>5

-----------------------------------------------------------------------------
(* What a call of Handle does to the rows.                                 *)

\* The quantities of all rows are numbers.
RowsOK == \A k \in H!Keys : /\ inventory[k].available \in Int
                            /\ inventory[k].reserved \in Int

Held(k) == inventory[k].available + inventory[k].reserved

\* Event e has been written: a receipt adds its quantity to its row.
Recorded(x, e) ==
    LET f == Invocations[x[1]]
    IN  /\ e.id \notin processed
        /\ processed' = processed \cup {e.id}
        /\ RowsOK'
        /\ f.type = "PRODUCT_RECEIVED" => f.quantity \in Nat
        /\ \A k \in H!Keys :
             Held(k)' = Held(k) +
               (IF f.type = "PRODUCT_RECEIVED" /\ <<f.product, f.zone>> = k
                  THEN f.quantity ELSE 0)

\* Event e has been written and adds n to row k0.
Adds(e, k0, n) ==
    /\ RowsOK' /\ processed' = processed \cup {e.id}
    /\ \A k \in H!Keys : Held(k)' = Held(k) + (IF k = k0 THEN n ELSE 0)

LEMMA BatchHolds ==
    ASSUME RowsOK, NEW e, NEW lines, NEW supplier, NEW summed, NEW newOrders,
           H!ExecBatch(e, lines, supplier, summed, newOrders),
           \A k \in DOMAIN lines : /\ lines[k].available \in Int
                                   /\ lines[k].reserved \in Int
    PROVE  /\ RowsOK' /\ processed' = processed \cup {e.id}
           /\ \A k \in H!Keys :
                Held(k)' = Held(k) +
                  (IF k \in DOMAIN lines
                     THEN lines[k].available + lines[k].reserved ELSE 0)
<1>1. ASSUME NEW k \in H!Keys
      PROVE  /\ inventory'[k].available = inventory[k].available +
                  (IF k \in DOMAIN lines THEN lines[k].available ELSE 0)
             /\ inventory'[k].reserved = inventory[k].reserved +
                  (IF k \in DOMAIN lines THEN lines[k].reserved ELSE 0)
  <2>1. inventory'[k] = IF k \in DOMAIN lines
                          THEN H!PutInventory(inventory[k], lines[k], e, supplier)
                          ELSE inventory[k]
    BY DEF H!ExecBatch
  <2> QED BY <2>1 DEF H!PutInventory, RowsOK
<1>2. ASSUME NEW k \in H!Keys
      PROVE  /\ inventory'[k].available \in Int /\ inventory'[k].reserved \in Int
             /\ Held(k)' = Held(k) +
                  (IF k \in DOMAIN lines
                     THEN lines[k].available + lines[k].reserved ELSE 0)
  BY <1>1 DEF RowsOK, Held
<1>3. processed' = processed \cup {e.id}
  BY DEF H!ExecBatch
<1> QED BY <1>2, <1>3 DEF RowsOK

LEMMA OneRowHolds ==
    ASSUME RowsOK, NEW e, NEW valid, NEW short, NEW a \in Int, NEW r \in Int,
           NEW supplier, NEW summed,
           H!OneRow(e, valid, short, a, r, supplier, summed)
    PROVE  \/ UNCHANGED H!tables
           \/ valid /\ Adds(e, <<e.payload.product, e.payload.zone>>, a + r)
<1> DEFINE k0 == <<e.payload.product, e.payload.zone>>
           lines == H!OneLine(k0, a, r)
<1>1. CASE H!Decline(valid, H!IsOldZoneEvent(e, e.payload.product, e.payload.zone),
                     short)
  BY <1>1 DEF H!Decline, H!Return
<1>2. CASE valid /\ H!ExecBatch(e, lines, supplier, summed, orders)
  <2>1. /\ DOMAIN lines = {k0}
        /\ lines[k0].available = a /\ lines[k0].reserved = r
    BY DEF H!OneLine, H!Change
  <2> HIDE DEF lines
  <2>2. \A k \in DOMAIN lines : /\ lines[k].available \in Int
                                /\ lines[k].reserved \in Int
    BY <2>1
  <2>3. /\ RowsOK' /\ processed' = processed \cup {e.id}
        /\ \A k \in H!Keys :
             Held(k)' = Held(k) +
               (IF k \in DOMAIN lines
                  THEN lines[k].available + lines[k].reserved ELSE 0)
    BY <1>2, <2>2, BatchHolds
  <2> HIDE DEF k0
  <2>4. \A k \in H!Keys : Held(k)' = Held(k) + (IF k = k0 THEN a + r ELSE 0)
    BY <2>1, <2>3
  <2> QED BY <1>2, <2>3, <2>4 DEF k0, Adds
<1> QED BY <1>1, <1>2 DEF H!OneRow, H!Checked, H!Accepted

LEMMA SameSum == \A g : H!SumOver(g) = SumOver(g)
BY Zenon DEF H!SumOver, SumOver, H!Units, Units, H!Cardinality, Cardinality

\* Normalised items are numbers.
LEMMA NormalizedType ==
    ASSUME NEW items, IsFiniteSet(DOMAIN items),
           \A j \in DOMAIN items : items[j].quantity \in Int,
           H!ValidItems(items), NEW k \in H!Keys
    PROVE  H!NormalizeOrderItems(items)[k] \in Nat
<1> DEFINE linesOf == {i \in DOMAIN items :
                         <<items[i].product, items[i].zone>> = k}
           term == [i \in linesOf |-> items[i].quantity]
<1>1. IsFiniteSet(linesOf)
  BY FS_Subset
<1>2. \A i \in linesOf : items[i].quantity \in Nat
  BY DEF H!ValidItems, H!ValidProductZoneQty
<1>3. term \in [linesOf -> Nat]
  BY <1>2
<1>4. H!NormalizeOrderItems(items)[k] = SumOver(term)
  <2> DEFINE T(l) == [i \in {i \in DOMAIN items :
                             <<items[i].product, items[i].zone>> = l}
                        |-> items[i].quantity]
  <2>1. H!NormalizeOrderItems(items) = [l \in H!Keys |-> H!SumOver(T(l))]
    BY DEF H!NormalizeOrderItems
  <2>2. H!SumOver(T(k)) = SumOver(T(k))
    BY SameSum
  <2>3. T(k) = term
    OBVIOUS
  <2> HIDE DEF T, term
  <2> QED BY <2>1, <2>2, <2>3
<1> HIDE DEF linesOf, term
<1> QED BY <1>1, <1>3, <1>4, SumType

\* A created order takes from the available stock what it reserves.
LEMMA CreatedHolds ==
    ASSUME RowsOK, NEW e, H!HandleOrderCreated(e),
           IsFiniteSet(DOMAIN e.payload.items),
           \A j \in DOMAIN e.payload.items : e.payload.items[j].quantity \in Int
    PROVE  \/ UNCHANGED H!tables
           \/ /\ RowsOK' /\ processed' = processed \cup {e.id}
              /\ \A k \in H!Keys : Held(k)' = Held(k)
<1> DEFINE m == e.payload
           items == H!NormalizeOrderItems(m.items)
           used == {k \in H!Keys : items[k] > 0}
           lines == [k \in used |-> H!Change(-items[k], items[k])]
           row == [status |-> "CREATED", items |-> items, last |-> e.timestamp]
           valid == m.order # None /\ H!ValidItems(m.items)
           old == H!IsOldOrderEvent(e, m.order)
           short == \E k \in used : H!TooFewAvailable(k, items[k])
<1>1. CASE H!Decline(valid, old, short)
  BY <1>1 DEF H!Decline, H!Return
<1>2. CASE /\ valid
           /\ H!ExecBatch(e, lines, None, H!ProductsOf(lines),
                          [orders EXCEPT ![m.order] = row])
  <2>1. \A k \in H!Keys : items[k] \in Nat
    BY <1>2, NormalizedType
  <2> HIDE DEF items
  <2>2. ASSUME NEW k \in DOMAIN lines
        PROVE  /\ lines[k].available \in Int /\ lines[k].reserved \in Int
               /\ lines[k].available + lines[k].reserved = 0
    <3>1. k \in H!Keys /\ items[k] \in Nat
      BY <2>1
    <3>2. lines[k].available = -items[k] /\ lines[k].reserved = items[k]
      BY <2>2 DEF H!Change
    <3> QED BY <3>1, <3>2
  <2> HIDE DEF lines, row
  <2>3. /\ RowsOK' /\ processed' = processed \cup {e.id}
        /\ \A k \in H!Keys :
             Held(k)' = Held(k) +
               (IF k \in DOMAIN lines
                  THEN lines[k].available + lines[k].reserved ELSE 0)
    BY <1>2, <2>2, BatchHolds
  <2>4. \A k \in H!Keys : Held(k) \in Int
    BY DEF RowsOK, Held
  <2> QED BY <2>2, <2>3, <2>4
<1> QED BY <1>1, <1>2 DEF H!HandleOrderCreated, H!Checked, H!Accepted

LEMMA ConsumeCases ==
    ASSUME ReceiveAndReserve, RowsOK, NEW x,
           x[1] \in 1 .. Len(Invocations), ~P!BadEvent(Invocations[x[1]]),
           H!Handle(Message(x))
    PROVE  UNCHANGED H!tables \/ Recorded(x, Message(x))
<1> DEFINE f == Invocations[x[1]]
           e == Message(x)
<1>1. /\ f.type \in {"PRODUCT_RECEIVED", "PRODUCT_RESERVED", "ORDER_CREATED"}
      /\ f.type = "PRODUCT_RECEIVED" => f.quantity \in -Half .. 2 * Half - 1
      /\ f.quantity \in Int /\ Half \in Nat
  BY FlagsAssumption DEF ReceiveAndReserve
<1>2. /\ f.type = "PRODUCT_RECEIVED" =>
           e.payload = [type |-> f.type, product |-> f.product, zone |-> f.zone,
                        quantity |-> P!Int32(f.quantity), supplier |-> f.supplier]
      /\ f.type = "PRODUCT_RESERVED" =>
           e.payload = [type |-> f.type, product |-> f.product, zone |-> f.zone,
                        quantity |-> P!Int32(f.quantity), order |-> f.order]
      /\ f.type = "ORDER_CREATED" =>
           e.payload = [type |-> f.type, order |-> P!OrderOf(x[1], x[2]),
                        items |-> P!ParseItems(f)]
  BY PayloadOf
<1>3. e.payload.type = f.type
  BY <1>1, <1>2
<1>4. P!Int32(f.quantity) \in Int
      /\ (f.quantity \in -Half .. 2 * Half - 1
            => P!Int32(f.quantity) = f.quantity \/ P!Int32(f.quantity) < 0)
  BY <1>1, Int32Value
<1> HIDE DEF f, e
<1>5. \A k \in H!Keys : Held(k) \in Int
  BY DEF RowsOK, Held
<1>6. CASE H!HandleProductReceived(e)
  <2>1. /\ f.type = "PRODUCT_RECEIVED" /\ e.id \notin processed
        /\ e.payload.product = f.product /\ e.payload.zone = f.zone
        /\ e.payload.quantity = P!Int32(f.quantity)
    BY <1>2, <1>3, <1>6 DEF H!HandleProductReceived, H!Dispatched
  <2> DEFINE valid == H!ValidProductZoneQty(e.payload)
             short == FALSE
  <2>2. H!OneRow(e, valid, short, e.payload.quantity, 0, e.payload.supplier,
                 {e.payload.product})
    BY <1>6 DEF H!HandleProductReceived
  <2>3. e.payload.quantity \in Int /\ 0 \in Int
    BY <1>4, <2>1
  <2> HIDE DEF valid, short
  <2>4. \/ UNCHANGED H!tables
        \/ /\ valid
           /\ Adds(e, <<e.payload.product, e.payload.zone>>,
                   e.payload.quantity + 0)
    BY <2>2, <2>3, OneRowHolds
  <2>5. H!ValidProductZoneQty(e.payload) =>
          e.payload.quantity = f.quantity /\ f.quantity \in Nat
    BY <1>1, <1>4, <2>1 DEF H!ValidProductZoneQty
  <2>6. CASE /\ valid
             /\ Adds(e, <<e.payload.product, e.payload.zone>>,
                     e.payload.quantity + 0)
    <3>1. f.quantity + 0 = f.quantity /\ f.quantity \in Nat
          /\ e.payload.quantity = f.quantity
      BY <1>1, <2>5, <2>6 DEF valid
    <3>2. \A k \in H!Keys :
            Held(k)' = Held(k) +
              (IF f.type = "PRODUCT_RECEIVED" /\ <<f.product, f.zone>> = k
                 THEN f.quantity ELSE 0)
      BY <2>1, <2>6, <3>1 DEF Adds
    <3>3. RowsOK' /\ processed' = processed \cup {e.id}
      BY <2>6 DEF Adds
    <3> QED BY <2>1, <3>1, <3>2, <3>3 DEF Recorded, f, e
  <2> QED BY <2>4, <2>6 DEF e
<1>7. CASE H!HandleProductReserved(e)
  <2>1. /\ f.type = "PRODUCT_RESERVED" /\ e.id \notin processed
        /\ e.payload.quantity = P!Int32(f.quantity)
    BY <1>2, <1>3, <1>7 DEF H!HandleProductReserved, H!Dispatched
  <2> DEFINE valid == H!ValidProductZoneQty(e.payload) /\ e.payload.order # None
             short == H!TooFewAvailable(<<e.payload.product, e.payload.zone>>,
                                        e.payload.quantity)
  <2>2. H!OneRow(e, valid, short, -e.payload.quantity, e.payload.quantity,
                 None, {e.payload.product})
    BY <1>7 DEF H!HandleProductReserved
  <2> HIDE DEF valid, short
  <2>3. -e.payload.quantity \in Int /\ e.payload.quantity \in Int
        /\ -e.payload.quantity + e.payload.quantity = 0
    BY <1>4, <2>1
  <2>4. \/ UNCHANGED H!tables
        \/ Adds(e, <<e.payload.product, e.payload.zone>>,
                -e.payload.quantity + e.payload.quantity)
    BY <2>2, <2>3, OneRowHolds
  <2>5. CASE Adds(e, <<e.payload.product, e.payload.zone>>,
                  -e.payload.quantity + e.payload.quantity)
    BY <1>5, <2>1, <2>3, <2>5 DEF Adds, Recorded, f, e
  <2> QED BY <2>4, <2>5 DEF e
<1>8. CASE H!HandleOrderCreated(e)
  <2>1. /\ f.type = "ORDER_CREATED" /\ e.id \notin processed
        /\ e.payload.items = P!ParseItems(f)
    BY <1>2, <1>3, <1>8 DEF H!HandleOrderCreated, H!Dispatched
  <2>2. /\ IsFiniteSet(DOMAIN e.payload.items)
        /\ \A j \in DOMAIN e.payload.items : e.payload.items[j].quantity \in Int
    BY <2>1, ItemsType DEF f
  <2>3. \/ UNCHANGED H!tables
        \/ /\ RowsOK' /\ processed' = processed \cup {e.id}
           /\ \A k \in H!Keys : Held(k)' = Held(k)
    BY <1>8, <2>2, CreatedHolds
  <2>4. CASE /\ RowsOK' /\ processed' = processed \cup {e.id}
             /\ \A k \in H!Keys : Held(k)' = Held(k)
    BY <1>5, <2>1, <2>4 DEF Recorded, f, e
  <2> QED BY <2>3, <2>4 DEF e
<1>9. CASE \/ H!RejectUnstamped(e) \/ H!StoreFails(e) \/ H!SkipDuplicate(e)
           \/ H!RejectUnknown(e)
  BY <1>9 DEF H!RejectUnstamped, H!StoreFails, H!SkipDuplicate,
              H!RejectUnknown, H!Return
<1>10. /\ ~H!HandleProductShipped(e) /\ ~H!HandleProductMoved(e)
       /\ ~H!HandleProductReleased(e) /\ ~H!HandleInventoryCounted(e)
       /\ ~H!HandleOrderCompleted(e)
  BY <1>1, <1>3
     DEF H!HandleProductShipped, H!HandleProductMoved, H!HandleProductReleased,
         H!HandleInventoryCounted, H!HandleOrderCompleted, H!Dispatched
<1>11. H!Handle(e)
  BY DEF e
<1> QED BY <1>6, <1>7, <1>8, <1>9, <1>10, <1>11 DEF H!Handle

-----------------------------------------------------------------------------
(* The receipts.                                                           *)

LEMMA SentFinite ==
    ASSUME run \in 0 .. Len(Invocations)
    PROVE  IsFiniteSet(Sent)
<1> DEFINE R == 1 .. run
           g == [r \in R |-> IF Invocations[r].count \in Nat
                               THEN Invocations[r].count ELSE 0]
<1>1. run \in Nat /\ \A r \in R : Invocations[r].count \in Int
  BY FlagsAssumption
<1>2. \A n \in Nat : IsFiniteSet(1 .. n)
  BY FS_Interval
<1>3. IsFiniteSet(R)
  BY <1>2, <1>1
<1>4. \A r \in R : 1 .. g[r] = P!Numbers(r)
  BY <1>1 DEF P!Numbers
<1>5. g \in [R -> Nat]
  OBVIOUS
<1>6. \A x : x \in Sent <=> \E r \in R : \E i \in P!Numbers(r) : x = <<r, i>>
  BY SentMember
<1> HIDE DEF g, R
<1>7. \A x : x \in Units(g) <=> x \in Sent
  <2>1. ASSUME NEW x
        PROVE  x \in Units(g) <=> \E r \in R : \E i \in 1 .. g[r] : x = <<r, i>>
    BY <1>5, UnitsMember
  <2> QED BY <1>4, <1>6, <2>1
<1>8. IsFiniteSet(Units(g))
  BY <1>3, <1>5, SumType
<1>9. Units(g) = Sent
  BY <1>7
<1> QED BY <1>8, <1>9

AppliedOK ==
    /\ position \in [Partitions -> Nat]
    /\ processed \subseteq {Id(x) : x \in Sent}
    /\ \A x \in Sent :
         /\ Id(x) \in processed
         /\ Invocations[x[1]].type = "PRODUCT_RECEIVED"
         => Invocations[x[1]].quantity \in Nat

ReceiptsInv == PP!StoredInv /\ SentOK /\ RowsOK /\ AppliedOK /\ ReceiptsAddUp

IsReceipt(x, k) ==
    /\ Invocations[x[1]].type = "PRODUCT_RECEIVED"
    /\ <<Invocations[x[1]].product, Invocations[x[1]].zone>> = k

LEMMA ReceiptsMember ==
    /\ \A k, x : x \in Receipts(k) <=>
         x \in Sent /\ IsReceipt(x, k) /\ Id(x) \in processed
    /\ \A k, x : x \in Receipts(k)' <=>
         x \in Sent' /\ IsReceipt(x, k) /\ Id(x) \in processed'
BY DEF Receipts, Sent, IsReceipt, Id, P!EventId, P!Numbers, P!BaseId

LEMMA RunInvocations ==
    ASSUME PP!StoredInv
    PROVE  /\ run \in 0 .. Len(Invocations) /\ Len(Invocations) \in Nat
           /\ \A r \in 1 .. run : r \in 1 .. Len(Invocations)
BY FlagsAssumption DEF PP!StoredInv, PP!RunOK

LEMMA ProduceAddsNothing ==
    ASSUME ReceiveAndReserve, ReceiptsInv, PP!StoredInv', Sent \subseteq Sent',
           UNCHANGED <<inventory, processed, position>>
    PROVE  RowsOK' /\ AppliedOK' /\ ReceiptsAddUp'
<1>1. ASSUME NEW x \in Sent', Id(x) \in processed
      PROVE  x \in Sent
  <2>1. PICK y \in Sent : Id(y) = Id(x)
    BY <1>1 DEF ReceiptsInv, AppliedOK
  <2>2. run' \in 0 .. Len(Invocations) /\ y \in Sent'
    BY <2>1, FlagsAssumption DEF PP!StoredInv, PP!RunOK
  <2>6. x = y
    BY <2>1, <2>2, SentMember, SameId DEF ReceiveAndReserve
  <2> QED BY <2>1, <2>6
<1>2. \A k : Receipts(k)' = Receipts(k)
  <2>1. ASSUME NEW k, NEW x
        PROVE  x \in Receipts(k)' <=> x \in Receipts(k)
    BY <1>1, ReceiptsMember
  <2> QED BY <2>1
<1>3. RowsOK'
  BY DEF ReceiptsInv, RowsOK, H!Keys
<1>4. AppliedOK'
  BY <1>1 DEF ReceiptsInv, AppliedOK, Id, P!EventId, P!BaseId
<1>5. ReceiptsAddUp'
  BY <1>2 DEF ReceiptsInv, ReceiptsAddUp, H!Keys
<1> QED BY <1>3, <1>4, <1>5

\* An applied event is a new receipt of its row, and changes no other row.
LEMMA AppliedAddsUp ==
    ASSUME ReceiveAndReserve, ReceiptsInv, UNCHANGED run,
           NEW x \in Sent, Recorded(x, Message(x)), NEW k \in H!Keys
    PROVE  Held(k)' = SumOver([y \in Receipts(k)' |-> Invocations[y[1]].quantity])
<1> DEFINE quantity(y) == Invocations[y[1]].quantity
           g == [y \in Receipts(k) |-> quantity(y)]
           h == [y \in Receipts(k)' |-> quantity(y)]
<1>1. Sent' = Sent
  BY DEF Sent, P!Numbers
<1>2. Id(x) \notin processed /\ processed' = processed \cup {Id(x)}
  BY PayloadOf DEF Recorded
<1>3. ASSUME NEW y \in Sent, Id(y) = Id(x)
      PROVE  y = x
  BY <1>3, SentMember, RunInvocations, SameId DEF ReceiptsInv, ReceiveAndReserve
<1>4. \A y : y \in Receipts(k)' <=> y \in Receipts(k) \/ (y = x /\ IsReceipt(x, k))
  BY <1>1, <1>2, <1>3, ReceiptsMember
<1>5. x \notin Receipts(k)
  BY <1>2, ReceiptsMember
<1>6. IsFiniteSet(Receipts(k))
  <2>1. Receipts(k) \subseteq Sent
    BY ReceiptsMember
  <2>2. IsFiniteSet(Sent)
    BY RunInvocations, SentFinite DEF ReceiptsInv
  <2> QED BY <2>1, <2>2, FS_Subset
<1>7. \A y \in Receipts(k) : quantity(y) \in Nat
  BY ReceiptsMember DEF ReceiptsInv, AppliedOK, IsReceipt
<1>8. g \in [Receipts(k) -> Nat]
  BY <1>7
<1>9. Held(k) = SumOver(g) /\ SumOver(g) \in Nat
  BY <1>6, <1>8, SumType DEF ReceiptsInv, ReceiptsAddUp, Held
<1>10. CASE IsReceipt(x, k)
  <2>1. quantity(x) \in Nat /\ Held(k)' = Held(k) + quantity(x)
    BY <1>10 DEF Recorded, IsReceipt
  <2>2. Receipts(k)' = Receipts(k) \cup {x}
    BY <1>4, <1>10
  <2>3. h \in [Receipts(k) \cup {x} -> Nat] /\ h[x] = quantity(x)
    BY <1>7, <2>1, <2>2
  <2>4. \A y \in Receipts(k) : h[y] = g[y]
    BY <2>2
  <2> HIDE DEF g, h
  <2>5. SumOver(h) = SumOver(g) + h[x]
    BY <1>5, <1>6, <1>8, <2>3, <2>4, SumExtend
  <2>6. Held(k)' = SumOver(h)
    BY <1>9, <2>1, <2>3, <2>5
  <2> QED BY <2>6 DEF h
<1>11. CASE ~IsReceipt(x, k)
  <2>1. Held(k)' = Held(k) + 0
    BY <1>11 DEF Recorded, IsReceipt
  <2>2. Receipts(k)' = Receipts(k)
    BY <1>4, <1>11
  <2> QED BY <1>9, <2>1, <2>2
<1> QED BY <1>10, <1>11

LEMMA InitReceipts == Init => ReceiptsInv
<1> SUFFICES ASSUME Init PROVE ReceiptsInv
  OBVIOUS
<1>1. PP!StoredInv
  BY FlagsAreTyped, SameCommandInit, PP!InitStored DEF Init
<1>2. /\ run = 0 /\ built = 0 /\ processed = {}
      /\ topic = [p \in Partitions |-> << >>]
      /\ position = [p \in Partitions |-> 0]
      /\ \A k \in H!Keys : inventory[k].available = 0 /\ inventory[k].reserved = 0
  BY DEF Init, P!Init, H!Init, H!ZeroRow
<1>3. SentOK /\ RowsOK
  BY <1>2 DEF SentOK, RowsOK
<1>4. Sent = {}
  BY <1>2, SentMember
<1>5. AppliedOK
  BY <1>2, <1>4 DEF AppliedOK
<1>6. ASSUME NEW k \in H!Keys
      PROVE  inventory[k].available + inventory[k].reserved =
                 SumOver([x \in Receipts(k) |-> Invocations[x[1]].quantity])
  <2>1. Receipts(k) = {}
    BY <1>4, ReceiptsMember
  <2> DEFINE g == [x \in Receipts(k) |-> Invocations[x[1]].quantity]
  <2>2. g \in [{} -> Nat]
    BY <2>1
  <2>3. SumOver(g) = 0
    BY <2>2, FS_EmptySet, SumZero
  <2> QED BY <1>2, <2>3
<1> QED BY <1>1, <1>3, <1>5, <1>6 DEF ReceiptsInv, ReceiptsAddUp

\* A consumed message is one that an invocation sent.
LEMMA ConsumeReceipts ==
    ASSUME ReceiveAndReserve, ReceiptsInv, PP!StoredInv', Sent \subseteq Sent',
           NEW p \in Partitions, Consume(p)
    PROVE  RowsOK' /\ AppliedOK' /\ ReceiptsAddUp'
<1> DEFINE e == topic[p][position'[p]]
<1>1. /\ H!Handle(e) \/ H!Return(H!Processing)
      /\ UNCHANGED <<run, topic>>
      /\ position' = [position EXCEPT ![p] = @ + 1]
      /\ position[p] < Len(topic[p])
  BY DEF Consume, command
<1>2. /\ position \in [Partitions -> Nat]
      /\ topic \in [Partitions -> Seq(PP!Messages)]
  BY DEF ReceiptsInv, AppliedOK, PP!StoredInv, PP!RunOK
<1>3. position' \in [Partitions -> Nat] /\ position'[p] = position[p] + 1
  BY <1>1, <1>2
<1>4. position'[p] \in DOMAIN topic[p]
  <2>1. topic[p] \in Seq(PP!Messages) /\ position[p] \in Nat
    BY <1>2
  <2> QED BY <1>1, <1>3, <2>1
<1>5. PICK x \in Sent : e = Message(x) /\ ~P!BadEvent(Invocations[x[1]])
  BY <1>4 DEF ReceiptsInv, SentOK
<1>6. x[1] \in 1 .. Len(Invocations)
  BY SentMember, RunInvocations DEF ReceiptsInv
<1> HIDE DEF e
<1>7. H!Handle(Message(x)) \/ H!Return(H!Processing)
  BY <1>1, <1>5 DEF e
<1>8. UNCHANGED H!tables \/ Recorded(x, Message(x))
  BY <1>5, <1>6, <1>7, ConsumeCases DEF ReceiptsInv, H!Return
<1>9. Sent' = Sent
  BY <1>1 DEF Sent, P!Numbers
<1>10. CASE UNCHANGED H!tables
  <2>1. UNCHANGED <<inventory, processed>>
    BY <1>10 DEF H!tables
  <2>2. \A k : Receipts(k)' = Receipts(k)
    <3>1. ASSUME NEW k, NEW y
          PROVE  y \in Receipts(k)' <=> y \in Receipts(k)
      BY <1>9, <2>1, ReceiptsMember
    <3> QED BY <3>1
  <2>3. RowsOK' /\ ReceiptsAddUp'
    BY <2>1, <2>2 DEF ReceiptsInv, RowsOK, ReceiptsAddUp, H!Keys
  <2>4. AppliedOK'
    BY <1>3, <1>9, <2>1 DEF ReceiptsInv, AppliedOK, Id, P!EventId, P!BaseId
  <2> QED BY <2>3, <2>4
<1>11. CASE Recorded(x, Message(x))
  <2>1. RowsOK' /\ processed' = processed \cup {Id(x)}
    BY <1>11, PayloadOf DEF Recorded
  <2>2. ReceiptsAddUp'
    <3>1. ASSUME NEW k \in H!Keys
          PROVE  Held(k)' =
                   SumOver([y \in Receipts(k)' |-> Invocations[y[1]].quantity])
      BY <1>1, <1>11, AppliedAddsUp
    <3> QED BY <3>1 DEF ReceiptsAddUp, Held, H!Keys
  <2>3. processed' \subseteq {Id(y) : y \in Sent}
    BY <2>1 DEF ReceiptsInv, AppliedOK
  <2>4. ASSUME NEW y \in Sent, Id(y) \in processed',
               Invocations[y[1]].type = "PRODUCT_RECEIVED"
        PROVE  Invocations[y[1]].quantity \in Nat
    <3>1. CASE Id(y) \in processed
      BY <2>4, <3>1 DEF ReceiptsInv, AppliedOK
    <3>2. CASE Id(y) = Id(x)
      <4>1. y = x
        BY <3>2, SentMember, RunInvocations, SameId DEF ReceiptsInv, ReceiveAndReserve
      <4> QED BY <1>11, <2>4, <4>1 DEF Recorded
    <3> QED BY <2>1, <2>4, <3>1, <3>2
  <2>5. AppliedOK'
    BY <1>3, <1>9, <2>3, <2>4 DEF AppliedOK, Id, P!EventId, P!BaseId
  <2> QED BY <2>1, <2>2, <2>5
<1> QED BY <1>8, <1>10, <1>11

LEMMA ReceiptsStep ==
    ASSUME ReceiveAndReserve, ReceiptsInv, [Next]_vars
    PROVE  ReceiptsInv'
<1>1. [P!Next]_(P!vars)
  BY CommandStep
<1>2. PP!StoredInv'
  BY <1>1, FlagsAreTyped, SameCommand, PP!StoredStep DEF ReceiptsInv
<1>3. SentOK' /\ Sent \subseteq Sent'
  BY <1>1, SentStep DEF ReceiptsInv, PP!StoredInv
<1>4. CASE Produce \/ UNCHANGED vars
  <2>1. UNCHANGED <<inventory, processed, position>>
    BY <1>4 DEF Produce, vars, store
  <2> QED BY <1>2, <1>3, <2>1, ProduceAddsNothing DEF ReceiptsInv
<1>5. ASSUME NEW p \in Partitions, Consume(p)
      PROVE  ReceiptsInv'
  BY <1>2, <1>3, <1>5, ConsumeReceipts DEF ReceiptsInv
<1> QED BY <1>4, <1>5 DEF Next

\* Where the invocations receive stock or reserve it, a row holds what the
\* applied receipts brought, each once, whatever was sent twice or failed
\* (main.go:91, 212; handler.go:75-103, 275-318).
THEOREM ReceiptsAlwaysAddUp ==
    ASSUME ReceiveAndReserve
    PROVE  Spec => []ReceiptsAddUp
<1>1. ReceiptsInv /\ [Next]_vars => ReceiptsInv'
  BY ReceiptsStep
<1>2. ReceiptsInv => ReceiptsAddUp
  BY DEF ReceiptsInv
<1> QED BY <1>1, <1>2, InitReceipts, PTL DEF Spec

-----------------------------------------------------------------------------
(* What is handled stays handled, and what is applied stays applied.       *)

LEMMA HandledMember ==
    /\ \A s : s \in Handled <=>
         \E p \in Partitions : \E j \in 1 .. position[p] : s = <<p, j>>
    /\ \A s : s \in Handled' <=>
         \E p \in Partitions : \E j \in 1 .. position'[p] : s = <<p, j>>
BY DEF Handled

PositionsOK ==
    /\ position \in [Partitions -> Nat]
    /\ \A p \in Partitions : position[p] =< Len(topic[p])

\* No step takes back what was handled before.
Kept ==
    /\ Handled \subseteq Handled' /\ Applied \subseteq Applied'
    /\ \A s \in Handled : At(s)' = At(s)
    /\ processed \subseteq processed' /\ reported \subseteq reported'

LEMMA HandledKept ==
    ASSUME \A p \in Partitions : \A j \in 1 .. position[p] :
             j \in 1 .. position'[p] /\ topic'[p][j] = topic[p][j],
           processed \subseteq processed', reported \subseteq reported'
    PROVE  Kept
<1>1. ASSUME NEW s \in Handled
      PROVE  s \in Handled' /\ At(s)' = At(s)
  <2>1. PICK p \in Partitions : \E j \in 1 .. position[p] : s = <<p, j>>
    BY HandledMember
  <2>2. PICK j \in 1 .. position[p] : s = <<p, j>>
    BY <2>1
  <2>3. j \in 1 .. position'[p] /\ topic'[p][j] = topic[p][j]
    OBVIOUS
  <2>4. s \in Handled'
    BY <2>2, <2>3, HandledMember
  <2> QED BY <2>2, <2>3, <2>4 DEF At
<1>2. ASSUME NEW e \in Applied
      PROVE  e \in Applied'
  <2>1. PICK s \in Handled : e = At(s) /\ e.id \in processed
    BY <1>2 DEF Applied
  <2>2. s \in Handled' /\ At(s)' = e /\ e.id \in processed'
    BY <1>1, <2>1
  <2> QED BY <2>2 DEF Applied
<1> QED BY <1>1, <1>2 DEF Kept

Creates(d, o) == d.payload.type = "ORDER_CREATED" /\ d.payload.order = o

Completes(d, o) == d.payload.type = "ORDER_COMPLETED" /\ d.payload.order = o

\* What reasons there are to drop an event remains.
LEMMA ReasonsKept ==
    ASSUME Kept
    PROVE  /\ \A d, k : Stamps(d, k) => Stamps(d, k)'
           /\ \A d, e : Supersedes(d, e) => Supersedes(d, e)'
<1>1. Applied \subseteq Applied'
  BY DEF Kept
<1>2. /\ \A d : Names(d)' = Names(d) /\ OfOrder(d)' = OfOrder(d)
      /\ \A d, e : SameOrder(d, e)' = SameOrder(d, e)
  BY DEF Names, OfOrder, SameOrder
<1>3. ASSUME NEW d, NEW k, Stamps(d, k)
      PROVE  Stamps(d, k)'
  BY <1>1, <1>2, <1>3 DEF Stamps
<1>4. ASSUME NEW d, NEW e, Supersedes(d, e)
      PROVE  Supersedes(d, e)'
  BY <1>2, <1>3, <1>4 DEF Supersedes
<1> QED BY <1>3, <1>4

-----------------------------------------------------------------------------
(* The clocks of the tables are the times of applied events.               *)

OrdersOK ==
    /\ orders \in [Orders -> [status : {"ABSENT", "CREATED", "COMPLETED"},
                              items : [H!Keys -> Nat], last : Int]]
    /\ \A o \in Orders :
         /\ orders[o].status # "ABSENT" =>
              \E d \in Applied : /\ Creates(d, o) \/ Completes(d, o)
                                 /\ d.timestamp = orders[o].last
         /\ orders[o].status = "COMPLETED" => \E d \in Applied : Completes(d, o)
         /\ \A k \in H!Keys : orders[o].items[k] > 0 =>
              \E c \in Applied : Creates(c, o) /\ k \in Names(c)

RowsStamped ==
    \A k \in H!Keys :
        \/ inventory[k].last = 0
        \/ \E d \in Applied : Stamps(d, k) /\ d.timestamp = inventory[k].last

DropsInv ==
    /\ PP!StoredInv /\ SentOK /\ PositionsOK
    /\ OrdersOK /\ RowsStamped /\ OnlyOldDropped

RowTypes == {"PRODUCT_RECEIVED", "PRODUCT_SHIPPED", "PRODUCT_RESERVED",
             "PRODUCT_RELEASED", "INVENTORY_COUNTED"}

LEMMA NamesOf ==
    ASSUME NEW e
    PROVE  LET m == e.payload
           IN  /\ m.type \in RowTypes =>
                    Names(e) = {<<m.product, m.zone>>} /\ ~OfOrder(e)
               /\ m.type = "PRODUCT_MOVED" =>
                    /\ Names(e) = {<<m.product, m.from>>, <<m.product, m.to>>}
                    /\ ~OfOrder(e)
               /\ m.type = "ORDER_CREATED" =>
                    /\ Names(e) = {<<m.items[j].product, m.items[j].zone>> :
                                      j \in DOMAIN m.items}
                    /\ OfOrder(e)
               /\ m.type = "ORDER_COMPLETED" => OfOrder(e)
BY DEF Names, OfOrder, RowTypes

\* The message of an event has fields of these types.
Fields(e) ==
    LET m == e.payload
    IN  /\ e.timestamp \in Int
        /\ m.type \in RowTypes =>
             m.product \in Products \cup {None} /\ m.zone \in Zones \cup {None}
        /\ m.type = "PRODUCT_MOVED" =>
             /\ m.product \in Products \cup {None}
             /\ {m.from, m.to} \subseteq Zones \cup {None}
        /\ m.type \in {"ORDER_CREATED", "ORDER_COMPLETED"} =>
             m.order \in Orders \cup {None}
        /\ m.type = "ORDER_CREATED" =>
             /\ IsFiniteSet(DOMAIN m.items)
             /\ \A j \in DOMAIN m.items : m.items[j].quantity \in Int

LEMMA TimeType ==
    ASSUME NEW r \in 1 .. Len(Invocations), NEW i \in Int
    PROVE  P!Timestamp(r, i) \in Int
<1>1. r \in Nat /\ Gap \in Nat /\ Invocations[r].timestamp \in Int
  BY FlagsAssumption
<1>2. r * Gap \in Int
  BY <1>1
<1>3. P!BaseTimestamp(r) \in Int
  BY <1>1, <1>2 DEF P!BaseTimestamp
<1> QED BY <1>3 DEF P!Timestamp

LEMMA MessageFields ==
    ASSUME run \in 0 .. Len(Invocations),
           NEW x \in Sent, ~P!BadEvent(Invocations[x[1]])
    PROVE  Fields(Message(x))
<1> DEFINE e == Message(x)
           m == e.payload
<1>1. PICK r \in 1 .. run : \E i \in P!Numbers(r) : x = <<r, i>>
  BY SentMember
<1>2. PICK i \in P!Numbers(r) : x = <<r, i>>
  BY <1>1
<1> DEFINE f == Invocations[r]
<1>3. r \in 1 .. Len(Invocations)
  BY FlagsAssumption
<1>4. e.timestamp = P!Timestamp(r, i) /\ m = P!Payload(r, i)
  BY <1>2 DEF Message, P!BuildEvent
<1>5. e.timestamp \in Int
  <2>1. i \in Int
    BY <1>3, FlagsAssumption DEF P!Numbers
  <2> QED BY <1>3, <1>4, <2>1, TimeType
<1>6. /\ f.type \in P!Types /\ f.product \in Products \cup {None}
      /\ f.zone \in Zones \cup {None} /\ f.from \in Zones \cup {None}
      /\ f.to \in Zones \cup {None}
      /\ P!OrderOf(r, i) \in Orders \cup {None}
  <2>1. f.type \in P!Types
    BY <1>2 DEF P!BadEvent
  <2>2. P!OrderOf(r, i) \in Orders \cup {None}
    BY <1>3, FlagsAssumption DEF P!Numbers
  <2> QED BY <1>3, <2>1, <2>2, FlagsAssumption
<1>7. f.type = "ORDER_CREATED" =>
        /\ IsFiniteSet(DOMAIN P!ParseItems(f))
        /\ \A j \in DOMAIN P!ParseItems(f) : P!ParseItems(f)[j].quantity \in Int
  BY <1>2, <1>3, ItemsType
<1>8. f.type # "ORDER_CREATED" => P!OrderOf(r, i) = f.order
  BY DEF P!OrderOf
<1> HIDE DEF e, f
<1>9. CASE f.type \in {"PRODUCT_SHIPPED", "INVENTORY_COUNTED"}
  <2>1. m = [type |-> f.type, product |-> f.product, zone |-> f.zone,
             quantity |-> P!Int32(f.quantity)]
    BY <1>4, <1>9 DEF P!Payload, f
  <2> QED BY <1>5, <1>6, <1>9, <2>1 DEF Fields, RowTypes, e
<1>10. CASE f.type = "PRODUCT_RECEIVED"
  <2>1. m = [type |-> f.type, product |-> f.product, zone |-> f.zone,
             quantity |-> P!Int32(f.quantity), supplier |-> f.supplier]
    BY <1>4, <1>10 DEF P!Payload, f
  <2> QED BY <1>5, <1>6, <1>10, <2>1 DEF Fields, RowTypes, e
<1>11. CASE f.type \in {"PRODUCT_RESERVED", "PRODUCT_RELEASED"}
  <2>1. m = [type |-> f.type, product |-> f.product, zone |-> f.zone,
             quantity |-> P!Int32(f.quantity), order |-> f.order]
    BY <1>4, <1>11 DEF P!Payload, f
  <2> QED BY <1>5, <1>6, <1>11, <2>1 DEF Fields, RowTypes, e
<1>12. CASE f.type = "PRODUCT_MOVED"
  <2>1. m = [type |-> f.type, product |-> f.product,
             from |-> IF f.from = None THEN f.zone ELSE f.from,
             to |-> f.to, quantity |-> P!Int32(f.quantity)]
    BY <1>4, <1>12 DEF P!Payload, f
  <2> QED BY <1>5, <1>6, <1>12, <2>1 DEF Fields, RowTypes, e
<1>13. CASE f.type = "ORDER_CREATED"
  <2>1. m = [type |-> f.type, order |-> P!OrderOf(r, i), items |-> P!ParseItems(f)]
    BY <1>4, <1>13 DEF P!Payload, f
  <2> QED BY <1>5, <1>6, <1>7, <1>13, <2>1 DEF Fields, RowTypes, e
<1>14. CASE f.type = "ORDER_COMPLETED"
  <2>1. m = [type |-> f.type, order |-> f.order]
    BY <1>4, <1>14 DEF P!Payload, f
  <2> QED BY <1>5, <1>6, <1>8, <1>14, <2>1 DEF Fields, RowTypes, e
<1> QED BY <1>6, <1>9, <1>10, <1>11, <1>12, <1>13, <1>14 DEF P!Types

\* What the topic has stays in its place.
LEMMA TopicKept ==
    ASSUME PP!RunOK, [P!Next]_(P!vars)
    PROVE  \A p \in Partitions :
             /\ Len(topic[p]) \in Nat /\ Len(topic'[p]) \in Nat
             /\ Len(topic[p]) =< Len(topic'[p])
             /\ \A j \in 1 .. Len(topic[p]) : topic'[p][j] = topic[p][j]
<1>1. topic \in [Partitions -> Seq(PP!Messages)]
  BY DEF PP!RunOK
<1>2. ASSUME UNCHANGED topic, NEW p \in Partitions
      PROVE  /\ Len(topic[p]) \in Nat /\ topic'[p] = topic[p]
  BY <1>1, <1>2
<1>3. ASSUME NEW q \in Partitions, P!Stored(q), NEW p \in Partitions
      PROVE  /\ Len(topic[p]) \in Nat /\ Len(topic'[p]) \in Nat
             /\ Len(topic[p]) =< Len(topic'[p])
             /\ \A j \in 1 .. Len(topic[p]) : topic'[p][j] = topic[p][j]
  <2> DEFINE m == P!BuildEvent(run, Head(queue[q]))
  <2>1. topic[p] \in Seq(PP!Messages)
    BY <1>1
  <2>2. topic' = [topic EXCEPT ![q] = Append(@, m)]
    BY <1>3 DEF P!Stored
  <2> HIDE DEF m
  <2>3. topic'[p] = topic[p] \/ topic'[p] = Append(topic[p], m)
    BY <1>1, <2>2
  <2> QED BY <2>1, <2>3
<1>4. UNCHANGED topic \/ \E q \in Partitions : P!Stored(q)
  BY DEF P!Next, P!Main, P!Broker, P!Start, P!BuildAndProduce, P!LoopFails,
         P!LoopEnds, P!ReceiveReport, P!TimeOut, P!Announce, P!Deliver,
         P!DeliveryFails, P!LoseAck, P!Delay, P!vars
<1> QED BY <1>2, <1>3, <1>4

-----------------------------------------------------------------------------
(* What a call of Handle leaves behind.                                    *)

Failed(e) == err' # H!Ok /\ UNCHANGED H!tables

Known(e) == e.id \in processed /\ UNCHANGED H!tables

\* A clock of the tables is as late as e, or its order is done.
Late(e) ==
    \/ /\ OfOrder(e) /\ e.payload.order \in Orders
       /\ LET order == orders[e.payload.order]
          IN  \/ order.status # "ABSENT" /\ e.timestamp =< order.last
              \/ /\ order.status = "COMPLETED"
                 /\ e.payload.type = "ORDER_COMPLETED"
    \/ /\ ~OfOrder(e)
       /\ \E k \in Names(e) \cap H!Keys :
            inventory[k].last # 0 /\ e.timestamp =< inventory[k].last

Old(e) == Late(e) /\ UNCHANGED H!tables

\* The batch of e stamps rows that e or its order names.
RowsWritten(e) ==
    \A k \in H!Keys :
        \/ inventory'[k].last = inventory[k].last
        \/ /\ inventory'[k].last = e.timestamp
           /\ \/ k \in Names(e)
              \/ \E o \in Orders : Completes(e, o) /\ orders[o].items[k] > 0

OrderWritten(e, o) ==
    /\ orders'[o].last = e.timestamp
    /\ \/ /\ Creates(e, o) /\ orders'[o].status = "CREATED"
          /\ \A k \in H!Keys : orders'[o].items[k] > 0 => k \in Names(e)
       \/ Completes(e, o) /\ orders'[o].items = orders[o].items

Written(e) ==
    /\ processed' = processed \cup {e.id}
    /\ RowsWritten(e)
    /\ orders' \in [Orders -> [status : {"ABSENT", "CREATED", "COMPLETED"},
                               items : [H!Keys -> Nat], last : Int]]
    /\ \A o \in Orders : orders'[o] = orders[o] \/ OrderWritten(e, o)

Outcome(e) == Failed(e) \/ Known(e) \/ Old(e) \/ Written(e)

\* A batch stamps its rows with the time of its event.
LEMMA BatchStamps ==
    ASSUME NEW e, NEW lines, NEW supplier, NEW summed, NEW newOrders,
           H!ExecBatch(e, lines, supplier, summed, newOrders)
    PROVE  /\ processed' = processed \cup {e.id} /\ orders' = newOrders
           /\ \A k \in H!Keys :
                inventory'[k].last = IF k \in DOMAIN lines THEN e.timestamp
                                                           ELSE inventory[k].last
<1>1. ASSUME NEW k \in H!Keys
      PROVE  inventory'[k].last = IF k \in DOMAIN lines THEN e.timestamp
                                                        ELSE inventory[k].last
  <2>1. inventory'[k] = IF k \in DOMAIN lines
                          THEN H!PutInventory(inventory[k], lines[k], e, supplier)
                          ELSE inventory[k]
    BY DEF H!ExecBatch
  <2> QED BY <2>1 DEF H!PutInventory
<1> QED BY <1>1 DEF H!ExecBatch

LEMMA DeclineOutcome ==
    ASSUME NEW e, NEW valid, NEW old, NEW short, H!Decline(valid, old, short),
           valid /\ old => Late(e)
    PROVE  Outcome(e)
<1>1. H!Validation # H!Ok
  BY DEF H!Validation, H!Ok
<1> QED BY <1>1 DEF H!Decline, H!Return, Outcome, Failed, Old

\* A batch of rows that the event names, without the orders.
LEMMA RowsOutcome ==
    ASSUME OrdersOK, NEW e, NEW lines, NEW supplier, NEW summed,
           H!ExecBatch(e, lines, supplier, summed, orders),
           \A k \in DOMAIN lines : k \in Names(e)
    PROVE  Outcome(e)
<1>1. /\ processed' = processed \cup {e.id} /\ orders' = orders
      /\ \A k \in H!Keys :
           inventory'[k].last = IF k \in DOMAIN lines THEN e.timestamp
                                                      ELSE inventory[k].last
  BY BatchStamps
<1> QED BY <1>1 DEF Outcome, Written, RowsWritten, OrdersOK

LEMMA OneRowOutcome ==
    ASSUME OrdersOK, NEW e, Fields(e), e.payload.type \in RowTypes,
           NEW valid, NEW short, NEW a, NEW r, NEW supplier, NEW summed,
           H!OneRow(e, valid, short, a, r, supplier, summed),
           valid => e.payload.product # None /\ e.payload.zone # None
    PROVE  Outcome(e)
<1> DEFINE k0 == <<e.payload.product, e.payload.zone>>
           old == H!IsOldZoneEvent(e, e.payload.product, e.payload.zone)
           lines == H!OneLine(k0, a, r)
<1>1. Names(e) = {k0} /\ ~OfOrder(e)
  BY NamesOf
<1>2. valid => k0 \in H!Keys
  BY DEF Fields, H!Keys
<1>3. CASE H!Decline(valid, old, short)
  <2>1. ASSUME valid, old
        PROVE  Late(e)
    <3>1. inventory[k0].last # 0 /\ e.timestamp =< inventory[k0].last
      BY <2>1 DEF H!IsOldZoneEvent, H!IsOld
    <3> QED BY <1>1, <1>2, <2>1, <3>1 DEF Late
  <2> HIDE DEF old
  <2> QED BY <1>3, <2>1, DeclineOutcome
<1>4. CASE H!ExecBatch(e, lines, supplier, summed, orders)
  <2>1. \A k \in DOMAIN lines : k \in Names(e)
    BY <1>1 DEF H!OneLine
  <2> HIDE DEF lines
  <2> QED BY <1>4, <2>1, RowsOutcome
<1> QED BY <1>3, <1>4 DEF H!OneRow, H!Checked, H!Accepted

LEMMA MoveOutcome ==
    ASSUME OrdersOK, NEW e, Fields(e), H!HandleProductMoved(e)
    PROVE  Outcome(e)
<1> DEFINE m == e.payload
           valid == /\ m.product # None /\ m.from # None /\ m.to # None
                    /\ m.from # m.to
                    /\ m.quantity > 0
           old == \E z \in {m.from, m.to} : H!IsOldZoneEvent(e, m.product, z)
           short == inventory[<<m.product, m.from>>].available < m.quantity
           lines == [k \in {<<m.product, m.from>>, <<m.product, m.to>>} |->
                       IF k[2] = m.from THEN H!Change(-m.quantity, 0)
                                        ELSE H!Change(m.quantity, 0)]
<1>1. m.type = "PRODUCT_MOVED"
  BY DEF H!HandleProductMoved, H!Dispatched
<1>2. /\ Names(e) = {<<m.product, m.from>>, <<m.product, m.to>>}
      /\ ~OfOrder(e)
  BY <1>1, NamesOf
<1>3. CASE H!Decline(valid, old, short)
  <2>1. ASSUME valid, old
        PROVE  Late(e)
    <3>1. PICK z \in {m.from, m.to} : H!IsOldZoneEvent(e, m.product, z)
      BY <2>1
    <3>2. <<m.product, z>> \in Names(e) \cap H!Keys
      BY <1>1, <1>2, <2>1 DEF Fields, H!Keys
    <3>3. inventory[<<m.product, z>>].last # 0
          /\ e.timestamp =< inventory[<<m.product, z>>].last
      BY <3>1 DEF H!IsOldZoneEvent, H!IsOld
    <3> QED BY <1>2, <3>2, <3>3 DEF Late
  <2> HIDE DEF valid, old, short
  <2> QED BY <1>3, <2>1, DeclineOutcome
<1>4. CASE H!ExecBatch(e, lines, None, {}, orders)
  <2>1. \A k \in DOMAIN lines : k \in Names(e)
    BY <1>2
  <2> HIDE DEF lines
  <2> QED BY <1>4, <2>1, RowsOutcome
<1> QED BY <1>3, <1>4 DEF H!HandleProductMoved, H!MoveBetween, H!Checked, H!Accepted

\* A row of which an order takes something is named in its items.
LEMMA ItemsNamed ==
    ASSUME NEW items, NEW k \in H!Keys, H!NormalizeOrderItems(items)[k] > 0
    PROVE  k \in {<<items[j].product, items[j].zone>> : j \in DOMAIN items}
<1> DEFINE T(l) == [i \in {i \in DOMAIN items :
                             <<items[i].product, items[i].zone>> = l}
                        |-> items[i].quantity]
<1> SUFFICES ASSUME k \notin {<<items[j].product, items[j].zone>> :
                                 j \in DOMAIN items}
             PROVE  FALSE
  OBVIOUS
<1>1. H!NormalizeOrderItems(items) = [l \in H!Keys |-> H!SumOver(T(l))]
  BY DEF H!NormalizeOrderItems
<1>2. T(k) \in [{} -> Nat]
  OBVIOUS
<1> HIDE DEF T
<1>3. SumOver(T(k)) = 0
  BY <1>2, FS_EmptySet, SumZero
<1>4. H!SumOver(T(k)) = SumOver(T(k))
  BY SameSum
<1> QED BY <1>1, <1>3, <1>4

LEMMA OrderLate ==
    ASSUME NEW e, OfOrder(e), e.payload.order \in Orders,
           \/ H!IsOldOrderEvent(e, e.payload.order)
           \/ /\ orders[e.payload.order].status = "COMPLETED"
              /\ e.payload.type = "ORDER_COMPLETED"
    PROVE  Late(e)
BY DEF Late, H!IsOldOrderEvent, H!IsOld

LEMMA CreatedOutcome ==
    ASSUME OrdersOK, NEW e, Fields(e), H!HandleOrderCreated(e)
    PROVE  Outcome(e)
<1> DEFINE m == e.payload
           items == H!NormalizeOrderItems(m.items)
           used == {k \in H!Keys : items[k] > 0}
           lines == [k \in used |-> H!Change(-items[k], items[k])]
           row == [status |-> "CREATED", items |-> items, last |-> e.timestamp]
           valid == m.order # None /\ H!ValidItems(m.items)
           old == H!IsOldOrderEvent(e, m.order)
           short == \E k \in used : H!TooFewAvailable(k, items[k])
           newOrders == [orders EXCEPT ![m.order] = row]
<1>1. m.type = "ORDER_CREATED"
  BY DEF H!HandleOrderCreated, H!Dispatched
<1>2. /\ Names(e) = {<<m.items[j].product, m.items[j].zone>> : j \in DOMAIN m.items}
      /\ OfOrder(e)
  BY <1>1, NamesOf
<1>3. valid => m.order \in Orders
  BY <1>1 DEF Fields
<1>4. CASE H!Decline(valid, old, short)
  <2>1. valid /\ old => Late(e)
    BY <1>2, <1>3, OrderLate
  <2> HIDE DEF valid, old, short
  <2> QED BY <1>4, <2>1, DeclineOutcome
<1>5. CASE /\ valid
           /\ H!ExecBatch(e, lines, None, H!ProductsOf(lines), newOrders)
  <2>1. m.order \in Orders /\ e.timestamp \in Int
    BY <1>3, <1>5 DEF Fields
  <2>2. items \in [H!Keys -> Nat]
    <3>1. \A k \in H!Keys : items[k] \in Nat
      BY <1>1, <1>5, NormalizedType DEF Fields
    <3>2. items = [k \in H!Keys |-> items[k]]
      BY DEF H!NormalizeOrderItems
    <3> HIDE DEF items
    <3> QED BY <3>1, <3>2
  <2>3. \A k \in H!Keys : items[k] > 0 => k \in Names(e)
    BY <1>2, ItemsNamed
  <2> HIDE DEF items
  <2>4. /\ row \in [status : {"ABSENT", "CREATED", "COMPLETED"},
                    items : [H!Keys -> Nat], last : Int]
        /\ row.status = "CREATED" /\ row.last = e.timestamp /\ row.items = items
    BY <2>1, <2>2
  <2>5. \A k \in DOMAIN lines : k \in Names(e)
    BY <2>3
  <2> HIDE DEF row, lines
  <2>6. /\ newOrders \in [Orders -> [status : {"ABSENT", "CREATED", "COMPLETED"},
                                     items : [H!Keys -> Nat], last : Int]]
        /\ newOrders[m.order] = row
        /\ \A o \in Orders \ {m.order} : newOrders[o] = orders[o]
    BY <2>1, <2>4 DEF OrdersOK
  <2> HIDE DEF newOrders
  <2>7. /\ processed' = processed \cup {e.id} /\ orders' = newOrders
        /\ \A k \in H!Keys :
             inventory'[k].last = IF k \in DOMAIN lines THEN e.timestamp
                                                        ELSE inventory[k].last
    BY <1>5, BatchStamps
  <2>8. RowsWritten(e)
    BY <2>5, <2>7 DEF RowsWritten
  <2>9. ASSUME NEW o \in Orders
        PROVE  orders'[o] = orders[o] \/ OrderWritten(e, o)
    <3>1. CASE o = m.order
      BY <1>1, <2>3, <2>4, <2>6, <2>7, <3>1 DEF OrderWritten, Creates
    <3>2. CASE o # m.order
      BY <2>6, <2>7, <3>2
    <3> QED BY <3>1, <3>2
  <2> QED BY <2>6, <2>7, <2>8, <2>9 DEF Outcome, Written
<1> QED BY <1>4, <1>5 DEF H!HandleOrderCreated, H!Checked, H!Accepted

LEMMA CompletedOutcome ==
    ASSUME OrdersOK, NEW e, Fields(e), H!HandleOrderCompleted(e)
    PROVE  Outcome(e)
<1> DEFINE m == e.payload
           items == orders[m.order].items
           used == {k \in H!Keys : items[k] > 0}
           lines == [k \in used |-> H!Change(0, -items[k])]
           valid == m.order # None /\ orders[m.order].status # "ABSENT"
           old == \/ H!IsOldOrderEvent(e, m.order)
                  \/ orders[m.order].status = "COMPLETED"
           short == \E k \in used : H!TooFewReserved(k, items[k])
           newOrders == [orders EXCEPT ![m.order].status = "COMPLETED",
                                       ![m.order].last = e.timestamp]
<1>1. m.type = "ORDER_COMPLETED"
  BY DEF H!HandleOrderCompleted, H!Dispatched
<1>2. OfOrder(e)
  BY <1>1, NamesOf
<1>3. valid => m.order \in Orders
  BY <1>1 DEF Fields
<1>4. CASE H!Decline(valid, old, short)
  <2>1. valid /\ old => Late(e)
    BY <1>1, <1>2, <1>3, OrderLate
  <2> HIDE DEF valid, old, short
  <2> QED BY <1>4, <2>1, DeclineOutcome
<1>5. CASE /\ valid
           /\ H!ExecBatch(e, lines, None, H!ProductsOf(lines), newOrders)
  <2>1. m.order \in Orders /\ e.timestamp \in Int
    BY <1>3, <1>5 DEF Fields
  <2>2. /\ newOrders \in [Orders -> [status : {"ABSENT", "CREATED", "COMPLETED"},
                                     items : [H!Keys -> Nat], last : Int]]
        /\ newOrders[m.order].last = e.timestamp
        /\ newOrders[m.order].items = orders[m.order].items
        /\ \A o \in Orders \ {m.order} : newOrders[o] = orders[o]
    BY <2>1 DEF OrdersOK
  <2>3. \A k \in DOMAIN lines : orders[m.order].items[k] > 0
    OBVIOUS
  <2> HIDE DEF newOrders, lines
  <2>4. /\ processed' = processed \cup {e.id} /\ orders' = newOrders
        /\ \A k \in H!Keys :
             inventory'[k].last = IF k \in DOMAIN lines THEN e.timestamp
                                                        ELSE inventory[k].last
    BY <1>5, BatchStamps
  <2>5. Completes(e, m.order)
    BY <1>1 DEF Completes
  <2>6. RowsWritten(e)
    BY <2>1, <2>3, <2>4, <2>5 DEF RowsWritten
  <2>7. ASSUME NEW o \in Orders
        PROVE  orders'[o] = orders[o] \/ OrderWritten(e, o)
    BY <2>2, <2>4, <2>5 DEF OrderWritten
  <2> QED BY <2>2, <2>4, <2>6, <2>7 DEF Outcome, Written
<1> QED BY <1>4, <1>5 DEF H!HandleOrderCompleted, H!CompleteOrder, H!Checked, H!Accepted

LEMMA HandleOutcome ==
    ASSUME OrdersOK, NEW e, Fields(e), H!Handle(e)
    PROVE  Outcome(e)
<1> DEFINE m == e.payload
           k0 == <<m.product, m.zone>>
<1>1. H!Validation # H!Ok /\ H!Processing # H!Ok
  BY DEF H!Validation, H!Processing, H!Ok
<1>2. CASE H!RejectUnstamped(e) \/ H!StoreFails(e) \/ H!RejectUnknown(e)
  BY <1>1, <1>2 DEF H!RejectUnstamped, H!StoreFails, H!RejectUnknown, H!Return,
                    Outcome, Failed
<1>3. CASE H!SkipDuplicate(e)
  BY <1>3 DEF H!SkipDuplicate, H!Return, Outcome, Known
\* A handler of one row.
<1>4. ASSUME NEW type \in RowTypes, H!Dispatched(e, type),
             NEW valid, NEW short, NEW a, NEW r, NEW supplier, NEW summed,
             H!OneRow(e, valid, short, a, r, supplier, summed),
             valid => m.product # None /\ m.zone # None
      PROVE  Outcome(e)
  <2>1. m.type \in RowTypes
    BY <1>4 DEF H!Dispatched
  <2> QED BY <1>4, <2>1, OneRowOutcome
<1>5. CASE H!HandleProductReceived(e)
  <2> DEFINE valid == H!ValidProductZoneQty(m)
             short == FALSE
  <2>1. /\ H!Dispatched(e, "PRODUCT_RECEIVED")
        /\ H!OneRow(e, valid, short, m.quantity, 0, m.supplier, {m.product})
    BY <1>5 DEF H!HandleProductReceived
  <2>2. valid => m.product # None /\ m.zone # None
    BY DEF H!ValidProductZoneQty
  <2> HIDE DEF valid, short
  <2> QED BY <1>4, <2>1, <2>2 DEF RowTypes
<1>6. CASE H!HandleProductShipped(e)
  <2> DEFINE valid == H!ValidProductZoneQty(m)
             short == H!TooFewAvailable(k0, m.quantity)
  <2>1. /\ H!Dispatched(e, "PRODUCT_SHIPPED")
        /\ H!OneRow(e, valid, short, -m.quantity, 0, None, {m.product})
    BY <1>6 DEF H!HandleProductShipped
  <2>2. valid => m.product # None /\ m.zone # None
    BY DEF H!ValidProductZoneQty
  <2> HIDE DEF valid, short
  <2> QED BY <1>4, <2>1, <2>2 DEF RowTypes
<1>7. CASE H!HandleProductReserved(e)
  <2> DEFINE valid == H!ValidProductZoneQty(m) /\ m.order # None
             short == H!TooFewAvailable(k0, m.quantity)
  <2>1. /\ H!Dispatched(e, "PRODUCT_RESERVED")
        /\ H!OneRow(e, valid, short, -m.quantity, m.quantity, None, {m.product})
    BY <1>7 DEF H!HandleProductReserved
  <2>2. valid => m.product # None /\ m.zone # None
    BY DEF H!ValidProductZoneQty
  <2> HIDE DEF valid, short
  <2> QED BY <1>4, <2>1, <2>2 DEF RowTypes
<1>8. CASE H!HandleProductReleased(e)
  <2> DEFINE valid == H!ValidProductZoneQty(m) /\ m.order # None
             short == H!TooFewReserved(k0, m.quantity)
  <2>1. /\ H!Dispatched(e, "PRODUCT_RELEASED")
        /\ H!OneRow(e, valid, short, m.quantity, -m.quantity, None, {m.product})
    BY <1>8 DEF H!HandleProductReleased
  <2>2. valid => m.product # None /\ m.zone # None
    BY DEF H!ValidProductZoneQty
  <2> HIDE DEF valid, short
  <2> QED BY <1>4, <2>1, <2>2 DEF RowTypes
<1>9. CASE H!HandleInventoryCounted(e)
  <2> DEFINE valid == m.product # None /\ m.zone # None /\ m.quantity >= 0
             short == FALSE
  <2>1. /\ H!Dispatched(e, "INVENTORY_COUNTED")
        /\ H!OneRow(e, valid, short, m.quantity - inventory[k0].available, 0,
                    None, {m.product})
    BY <1>9 DEF H!HandleInventoryCounted, H!Count
  <2>2. valid => m.product # None /\ m.zone # None
    OBVIOUS
  <2> HIDE DEF valid, short
  <2> QED BY <1>4, <2>1, <2>2 DEF RowTypes
<1> QED BY <1>2, <1>3, <1>5, <1>6, <1>7, <1>8, <1>9, MoveOutcome, CreatedOutcome,
           CompletedOutcome DEF H!Handle

-----------------------------------------------------------------------------
(* Only old messages are dropped.                                          *)

LEMMA InitDrops == Init => DropsInv
<1> SUFFICES ASSUME Init PROVE DropsInv
  OBVIOUS
<1>1. PP!StoredInv
  BY FlagsAreTyped, SameCommandInit, PP!InitStored DEF Init
<1>2. /\ built = 0
      /\ orders = [o \in Orders |-> H!NoOrder]
      /\ \A k \in H!Keys : inventory[k].last = 0
      /\ position = [p \in Partitions |-> 0]
      /\ topic = [p \in Partitions |-> << >>]
  BY DEF Init, P!Init, H!Init, H!ZeroRow
<1>3. SentOK /\ PositionsOK
  BY <1>2 DEF SentOK, PositionsOK
<1>4. OrdersOK
  <2>1. /\ H!NoOrder \in [status : {"ABSENT", "CREATED", "COMPLETED"},
                          items : [H!Keys -> Nat], last : Int]
        /\ H!NoOrder.status = "ABSENT"
        /\ \A k \in H!Keys : H!NoOrder.items[k] = 0
    BY DEF H!NoOrder
  <2> HIDE DEF H!NoOrder
  <2> QED BY <1>2, <2>1 DEF OrdersOK
<1>5. RowsStamped
  BY <1>2 DEF RowsStamped
<1>6. OnlyOldDropped
  <2>1. Handled = {}
    BY <1>2, HandledMember
  <2> QED BY <2>1 DEF OnlyOldDropped
<1> QED BY <1>1, <1>3, <1>4, <1>5, <1>6 DEF DropsInv

\* What is later than e in the tables is the time of an applied event.
LEMMA LateSuperseded ==
    ASSUME OrdersOK, RowsStamped, NEW e, Late(e)
    PROVE  \E d \in Applied : Supersedes(d, e)
<1> DEFINE o == e.payload.order
<1>1. CASE /\ OfOrder(e) /\ o \in Orders
           /\ orders[o].status # "ABSENT" /\ e.timestamp =< orders[o].last
  <2>1. PICK d \in Applied : /\ Creates(d, o) \/ Completes(d, o)
                             /\ d.timestamp = orders[o].last
    BY <1>1 DEF OrdersOK
  <2>2. SameOrder(d, e)
    BY <1>1, <2>1 DEF SameOrder, OfOrder, Creates, Completes
  <2> QED BY <1>1, <2>1, <2>2 DEF Supersedes
<1>2. CASE /\ OfOrder(e) /\ o \in Orders /\ orders[o].status = "COMPLETED"
           /\ e.payload.type = "ORDER_COMPLETED"
  <2>1. PICK d \in Applied : Completes(d, o)
    BY <1>2 DEF OrdersOK
  <2>2. SameOrder(d, e)
    BY <1>2, <2>1 DEF SameOrder, OfOrder, Completes
  <2>3. {d.payload.type, e.payload.type} = {"ORDER_COMPLETED"}
    BY <1>2, <2>1 DEF Completes
  <2> QED BY <2>2, <2>3 DEF Supersedes
<1>3. CASE /\ ~OfOrder(e)
           /\ \E k \in Names(e) \cap H!Keys :
                inventory[k].last # 0 /\ e.timestamp =< inventory[k].last
  <2>1. PICK k \in Names(e) \cap H!Keys :
            inventory[k].last # 0 /\ e.timestamp =< inventory[k].last
    BY <1>3
  <2>2. PICK d \in Applied : Stamps(d, k) /\ d.timestamp = inventory[k].last
    BY <2>1 DEF RowsStamped
  <2> QED BY <1>3, <2>1, <2>2 DEF Supersedes
<1> QED BY <1>1, <1>2, <1>3 DEF Late

LEMMA NamesConstant ==
    /\ \A e : Names(e)' = Names(e)
    /\ \A e, o : Creates(e, o)' = Creates(e, o) /\ Completes(e, o)' = Completes(e, o)
    /\ H!Keys' = H!Keys
BY DEF Names, Creates, Completes, H!Keys

\* The tables that do not change remain stamped.
LEMMA TablesKept ==
    ASSUME OrdersOK, RowsStamped, Kept, UNCHANGED <<inventory, orders>>
    PROVE  OrdersOK' /\ RowsStamped'
<1>1. Applied \subseteq Applied' /\ \A d, k : Stamps(d, k) => Stamps(d, k)'
  BY ReasonsKept DEF Kept
<1>2. OrdersOK'
  BY <1>1, NamesConstant DEF OrdersOK
<1>3. RowsStamped'
  BY <1>1, NamesConstant DEF RowsStamped
<1> QED BY <1>2, <1>3

\* A batch stamps the tables with an event that is applied then.
LEMMA TablesWritten ==
    ASSUME OrdersOK, RowsStamped, Kept, NEW e, Written(e), e \in Applied'
    PROVE  OrdersOK' /\ RowsStamped'
<1>1. Applied \subseteq Applied' /\ \A d, k : Stamps(d, k) => Stamps(d, k)'
  BY ReasonsKept DEF Kept
<1>2. ASSUME NEW o \in Orders
      PROVE  /\ orders'[o].status # "ABSENT" =>
                  \E d \in Applied' : /\ Creates(d, o) \/ Completes(d, o)
                                      /\ d.timestamp = orders'[o].last
             /\ orders'[o].status = "COMPLETED" =>
                  \E d \in Applied' : Completes(d, o)
             /\ \A k \in H!Keys : orders'[o].items[k] > 0 =>
                  \E c \in Applied' : Creates(c, o) /\ k \in Names(c)
  <2>1. CASE orders'[o] = orders[o]
    BY <1>1, <2>1 DEF OrdersOK
  <2>2. CASE OrderWritten(e, o)
    BY <1>1, <2>2 DEF OrderWritten, OrdersOK
  <2> QED BY <2>1, <2>2 DEF Written
<1>3. OrdersOK'
  BY <1>2, NamesConstant DEF OrdersOK, Written
<1>4. ASSUME NEW k \in H!Keys
      PROVE  \/ inventory'[k].last = 0
             \/ \E d \in Applied' : Stamps(d, k)' /\ d.timestamp = inventory'[k].last
  <2>1. CASE inventory'[k].last = inventory[k].last
    BY <1>1, <2>1 DEF RowsStamped
  <2>2. CASE inventory'[k].last = e.timestamp /\ k \in Names(e)
    <3>1. Stamps(e, k)'
      BY <2>2, NamesConstant DEF Stamps
    <3> QED BY <2>2, <3>1
  <2>3. ASSUME NEW o \in Orders, Completes(e, o), orders[o].items[k] > 0,
               inventory'[k].last = e.timestamp
        PROVE  \E d \in Applied' : Stamps(d, k)' /\ d.timestamp = inventory'[k].last
    <3>1. PICK c \in Applied : Creates(c, o) /\ k \in Names(c)
      BY <2>3 DEF OrdersOK
    <3>2. SameOrder(c, e)' /\ e.payload.type = "ORDER_COMPLETED"
      BY <2>3, <3>1 DEF SameOrder, OfOrder, Creates, Completes
    <3>3. Stamps(e, k)'
      BY <1>1, <3>1, <3>2, NamesConstant DEF Stamps
    <3> QED BY <2>3, <3>3
  <2> QED BY <2>1, <2>2, <2>3 DEF Written, RowsWritten
<1>5. RowsStamped'
  BY <1>4, NamesConstant DEF RowsStamped
<1> QED BY <1>3, <1>5

\* A handled message that is applied, reported or dropped for a reason.
Settled(s) ==
    \/ At(s).id \in processed
    \/ s \in reported
    \/ \E d \in Applied : Supersedes(d, At(s))

LEMMA SettledKept ==
    ASSUME Kept, NEW s \in Handled, Settled(s)
    PROVE  Settled(s)'
<1>1. /\ At(s)' = At(s) /\ Applied \subseteq Applied'
      /\ processed \subseteq processed' /\ reported \subseteq reported'
  BY DEF Kept
<1>2. CASE At(s).id \in processed \/ s \in reported
  BY <1>1, <1>2 DEF Settled
<1>3. CASE \E d \in Applied : Supersedes(d, At(s))
  <2>1. PICK d \in Applied : Supersedes(d, At(s))
    BY <1>3
  <2> DEFINE e == At(s)
  <2>2. e' = e
    BY <1>1
  <2>3. Supersedes(d, e)'
    <3>1. \A c : Supersedes(d, c) => Supersedes(d, c)'
      BY ReasonsKept
    <3> QED BY <1>1, <2>1, <3>1 DEF Supersedes, SameOrder
  <2> QED BY <1>1, <2>1, <2>3 DEF Settled
<1> QED BY <1>2, <1>3 DEF Settled

LEMMA ProduceDrops ==
    ASSUME DropsInv, PP!StoredInv', SentOK', [P!Next]_(P!vars),
           UNCHANGED <<store, position, reported>>
    PROVE  DropsInv'
<1>1. \A p \in Partitions :
        /\ position[p] \in Nat /\ position[p] =< Len(topic[p])
        /\ Len(topic[p]) \in Nat /\ Len(topic'[p]) \in Nat
        /\ Len(topic[p]) =< Len(topic'[p])
        /\ \A j \in 1 .. Len(topic[p]) : topic'[p][j] = topic[p][j]
  BY TopicKept DEF DropsInv, PP!StoredInv, PositionsOK
<1>2. UNCHANGED <<inventory, orders, processed, position, reported>>
  BY DEF store
<1>3. \A p \in Partitions : \A j \in 1 .. position[p] : topic'[p][j] = topic[p][j]
  BY <1>1
<1>4. Kept
  BY <1>2, <1>3, HandledKept
<1>5. PositionsOK'
  BY <1>1, <1>2 DEF DropsInv, PositionsOK
<1>6. OrdersOK' /\ RowsStamped'
  BY <1>2, <1>4, TablesKept DEF DropsInv
<1>7. OnlyOldDropped'
  <2>1. ASSUME NEW s \in Handled'
        PROVE  Settled(s)'
    <3>1. s \in Handled
      BY <1>2, <2>1, HandledMember
    <3>2. Settled(s)
      BY <3>1 DEF DropsInv, OnlyOldDropped, Settled
    <3> QED BY <1>4, <3>1, <3>2, SettledKept
  <2> QED BY <2>1 DEF OnlyOldDropped, Settled
<1> QED BY <1>5, <1>6, <1>7 DEF DropsInv

\* A message that is handled is applied, reported or dropped for a reason.
LEMMA ConsumeDrops ==
    ASSUME DropsInv, PP!StoredInv', SentOK', NEW p \in Partitions, Consume(p)
    PROVE  DropsInv'
<1>0. \E n, m : n = position'[p] /\ m = topic[p][position'[p]]
  OBVIOUS
<1> PICK j0, e : j0 = position'[p] /\ e = topic[p][j0]
  BY <1>0
<1> DEFINE s0 == <<p, j0>>
<1>1. /\ position[p] < Len(topic[p])
      /\ position' = [position EXCEPT ![p] = @ + 1]
      /\ H!Handle(e) \/ H!Return(H!Processing)
      /\ reported' = IF err' = H!Ok THEN reported ELSE reported \cup {s0}
      /\ UNCHANGED <<run, topic>>
  BY DEF Consume, command
<1>2. /\ position \in [Partitions -> Nat]
      /\ topic \in [Partitions -> Seq(PP!Messages)]
      /\ \A q \in Partitions : position[q] =< Len(topic[q])
  BY DEF DropsInv, PositionsOK, PP!StoredInv, PP!RunOK
<1>3. /\ position' \in [Partitions -> Nat] /\ j0 = position[p] + 1
      /\ \A q \in Partitions \ {p} : position'[q] = position[q]
  BY <1>1, <1>2
<1>4. j0 \in DOMAIN topic[p] /\ Len(topic[p]) \in Nat /\ j0 =< Len(topic[p])
  <2>1. topic[p] \in Seq(PP!Messages) /\ position[p] \in Nat
    BY <1>2
  <2> QED BY <1>1, <1>3, <2>1
<1>5. Fields(e)
  <2>1. PICK x \in Sent : e = Message(x) /\ ~P!BadEvent(Invocations[x[1]])
    BY <1>4 DEF DropsInv, SentOK
  <2> QED BY <2>1, RunInvocations, MessageFields DEF DropsInv
<1>6. Outcome(e)
  <2>1. CASE H!Handle(e)
    BY <1>5, <2>1, HandleOutcome DEF DropsInv
  <2>2. CASE H!Return(H!Processing)
    BY <2>2 DEF H!Return, H!Processing, H!Ok, Outcome, Failed
  <2> QED BY <1>1, <2>1, <2>2
<1>7. processed \subseteq processed' /\ reported \subseteq reported'
  BY <1>1, <1>6 DEF Outcome, Failed, Known, Old, Written, H!tables
<1>8. Kept
  <2>1. \A q \in Partitions : \A j \in 1 .. position[q] :
          j \in 1 .. position'[q] /\ topic'[q][j] = topic[q][j]
    <3>1. \A q \in Partitions : /\ position[q] \in Nat /\ position'[q] \in Nat
                                /\ position[q] =< position'[q]
      <4>1. \A q \in Partitions : position[q] \in Nat /\ position'[q] \in Nat
        BY <1>2, <1>3
      <4>2. position'[p] = position[p] + 1
        BY <1>3
      <4> QED BY <1>3, <4>1, <4>2
    <3> QED BY <1>1, <3>1
  <2> QED BY <1>7, <2>1, HandledKept
<1>9. s0 \in Handled' /\ At(s0)' = e
  <2>1. j0 \in 1 .. position'[p]
    BY <1>2, <1>3
  <2> QED BY <1>1, <2>1, HandledMember DEF At
<1>10. ASSUME NEW s \in Handled'
       PROVE  s \in Handled \/ s = s0
  <2>1. PICK q \in Partitions : \E j \in 1 .. position'[q] : s = <<q, j>>
    BY HandledMember
  <2>2. PICK j \in 1 .. position'[q] : s = <<q, j>>
    BY <2>1
  <2>3. j \in 1 .. position[q] \/ (q = p /\ j = j0)
    <3>1. CASE q = p
      <4>1. position[p] \in Nat /\ position'[p] = position[p] + 1
        BY <1>2, <1>3
      <4> QED BY <1>3, <3>1, <4>1
    <3>2. CASE q # p
      BY <1>3, <3>2
    <3> QED BY <3>1, <3>2
  <2> QED BY <2>2, <2>3, HandledMember
<1> HIDE DEF s0
<1>11. e.id \in processed' => e \in Applied'
  BY <1>9 DEF Applied
<1>12. PositionsOK'
  BY <1>1, <1>2, <1>3, <1>4 DEF PositionsOK
<1>13. OrdersOK' /\ RowsStamped'
  <2>1. CASE UNCHANGED H!tables
    BY <1>8, <2>1, TablesKept DEF DropsInv, H!tables
  <2>2. CASE Written(e)
    <3>1. e \in Applied'
      BY <1>11, <2>2 DEF Written
    <3> QED BY <1>8, <2>2, <3>1, TablesWritten DEF DropsInv
  <2> QED BY <1>6, <2>1, <2>2 DEF Outcome, Failed, Known, Old
<1>14. Settled(s0)'
  <2>1. CASE Failed(e)
    <3>1. s0 \in reported'
      BY <1>1, <2>1 DEF Failed
    <3> QED BY <3>1 DEF Settled
  <2>2. CASE Known(e) \/ Written(e)
    <3>1. e.id \in processed'
      BY <1>7, <2>2 DEF Known, Written
    <3> QED BY <1>9, <3>1 DEF Settled
  <2>3. CASE Old(e)
    <3>1. PICK d \in Applied : Supersedes(d, e)
      BY <2>3, LateSuperseded DEF Old, DropsInv
    <3>2. d \in Applied' /\ \A c : Supersedes(d, c) => Supersedes(d, c)'
      BY <1>8, <3>1, ReasonsKept DEF Kept
    <3>3. Supersedes(d, At(s0))'
      BY <1>1, <1>9, <3>1, <3>2 DEF Supersedes, SameOrder
    <3> QED BY <3>2, <3>3 DEF Settled
  <2> QED BY <1>6, <2>1, <2>2, <2>3 DEF Outcome
<1>15. OnlyOldDropped'
  <2>1. ASSUME NEW s \in Handled'
        PROVE  Settled(s)'
    <3>1. CASE s \in Handled
      <4>1. Settled(s)
        BY <3>1 DEF DropsInv, OnlyOldDropped, Settled
      <4> QED BY <1>8, <3>1, <4>1, SettledKept
    <3>2. CASE s = s0
      BY <1>14, <3>2 DEF Settled, At
    <3> QED BY <1>10, <2>1, <3>1, <3>2
  <2> QED BY <2>1 DEF OnlyOldDropped, Settled
<1> QED BY <1>12, <1>13, <1>15 DEF DropsInv

LEMMA DropsStep ==
    ASSUME DropsInv, [Next]_vars
    PROVE  DropsInv'
<1>1. [P!Next]_(P!vars)
  BY CommandStep
<1>2. PP!StoredInv'
  BY <1>1, FlagsAreTyped, SameCommand, PP!StoredStep DEF DropsInv
<1>3. SentOK'
  BY <1>1, SentStep DEF DropsInv, PP!StoredInv
<1>4. CASE Produce \/ UNCHANGED vars
  <2>1. UNCHANGED <<store, position, reported>>
    BY <1>4 DEF Produce, vars
  <2> QED BY <1>1, <1>2, <1>3, <2>1, ProduceDrops
<1>5. ASSUME NEW p \in Partitions, Consume(p)
      PROVE  DropsInv'
  BY <1>2, <1>3, <1>5, ConsumeDrops
<1> QED BY <1>4, <1>5 DEF Next

\* Whatever was published, sent twice, delayed or refused: a message that the
\* consumer has handled is applied, reported, or as old as an applied event on
\* a row it names or of its order (handler.go:48, 335, 434-444,
\* consumer.go:108-125).
THEOREM OnlyOldEverDropped == Spec => []OnlyOldDropped
<1>1. DropsInv /\ [Next]_vars => DropsInv'
  BY DropsStep
<1>2. DropsInv => OnlyOldDropped
  BY DEF DropsInv
<1> QED BY <1>1, <1>2, InitDrops, PTL DEF Spec
=============================================================================
