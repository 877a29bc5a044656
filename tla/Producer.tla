------------------------------ MODULE Producer ------------------------------
(***************************************************************************)
(* The event producer (cmd/wms-producer/main.go): a command that builds    *)
(* count events from its flags, hands them to librdkafka and waits for     *)
(* their delivery reports.  Invocations run one after another.             *)
(*                                                                         *)
(* librdkafka and the broker are external: a queue for each partition, in  *)
(* which a message whose acknowledgement is lost is sent again, and one    *)
(* that is not acknowledged in time may fall behind its successor, because *)
(* main sets neither enable.idempotence nor max.in.flight (main.go:67).    *)
(***************************************************************************)
EXTENDS Integers, FiniteSets, Sequences

CONSTANTS
    Products, Orders, None,
    Partitions,   \* the partitions of warehouse-events
    PartitionOf,  \* the partitioner: a partition for each key
    Invocations,  \* the flags of each run of the command, in order
    GeneratedId,  \* what newEventID returns in each run
    Gap,          \* milliseconds from the start of one run to the next
    Half,         \* 2^31: an int32 is in -Half .. Half - 1
    MaxLostAcks,  \* bound: acknowledgements that are lost
    MaxDelays     \* bound: messages that fall behind their successor

VARIABLES
    run,        \* the current invocation, 0 before the first
    pc,         \* where main is
    built,      \* how many messages the count loop has produced
    queue,      \* the messages of each partition librdkafka holds, by number
    delivery,   \* the delivery channel
    waited,     \* the messages whose reports main has received
    topic,      \* the messages the broker has stored
    published,  \* the invocations that printed "published"
    lostAcks, delays    \* counters for the bounds

bounds == <<lostAcks, delays>>
vars == <<run, pc, built, queue, delivery, waited, topic, published, bounds>>

Types == {"PRODUCT_RECEIVED", "PRODUCT_SHIPPED", "PRODUCT_MOVED",
          "PRODUCT_RESERVED", "PRODUCT_RELEASED", "INVENTORY_COUNTED",
          "ORDER_CREATED", "ORDER_COMPLETED"}

-----------------------------------------------------------------------------
(* Building an event from the flags f of an invocation.                    *)

Int32(n) == ((n + Half) % (2 * Half)) - Half

BadFlags(f) ==
    f.count < 1 \/ f.version \notin {1, 2} \/ (f.version = 1 /\ f.supplier # None)

\* An item that is not product:zone:qty, or whose qty is no number, is None.
BadEvent(f) ==
    \/ f.type \notin Types
    \/ f.type = "PRODUCT_MOVED" /\ f.to = None
    \/ f.type = "ORDER_COMPLETED" /\ f.order = None
    \/ f.type = "ORDER_CREATED" /\ \E j \in DOMAIN f.items : f.items[j] = None

BaseId(r) ==
    IF Invocations[r].id = None THEN GeneratedId[r] ELSE Invocations[r].id

\* Mutant of EventId: the events of a loop share their id.
SharedEventId(r, i) == << BaseId(r), 0 >>

\* The i-th event of invocation r; 0 stands for an id without a suffix.
EventId(r, i) == << BaseId(r), IF Invocations[r].count > 1 THEN i ELSE 0 >>

BaseTimestamp(r) ==
    IF Invocations[r].timestamp = 0 THEN r * Gap ELSE Invocations[r].timestamp

Timestamp(r, i) == BaseTimestamp(r) + i - 1

OrderOf(r, i) ==
    LET f == Invocations[r]
    IN  IF f.order = None /\ f.type = "ORDER_CREATED"
          THEN << "ORD", EventId(r, i) >> ELSE f.order

ParseItems(f) ==
    IF f.items = << >>
      THEN << [product |-> f.product, zone |-> f.zone,
               quantity |-> Int32(f.quantity)] >>
      ELSE [j \in DOMAIN f.items |->
              [f.items[j] EXCEPT !.quantity = Int32(@)]]

Payload(r, i) ==
    LET f == Invocations[r]
        n == Int32(f.quantity)
    IN  CASE f.type \in {"PRODUCT_SHIPPED", "INVENTORY_COUNTED"} ->
               [type |-> f.type, product |-> f.product, zone |-> f.zone,
                quantity |-> n]
          [] f.type = "PRODUCT_RECEIVED" ->
               [type |-> f.type, product |-> f.product, zone |-> f.zone,
                quantity |-> n, supplier |-> f.supplier]
          [] f.type \in {"PRODUCT_RESERVED", "PRODUCT_RELEASED"} ->
               [type |-> f.type, product |-> f.product, zone |-> f.zone,
                quantity |-> n, order |-> f.order]
          [] f.type = "PRODUCT_MOVED" ->
               [type |-> f.type, product |-> f.product,
                from |-> IF f.from = None THEN f.zone ELSE f.from,
                to |-> f.to, quantity |-> n]
          [] f.type = "ORDER_CREATED" ->
               [type |-> f.type, order |-> OrderOf(r, i), items |-> ParseItems(f)]
          [] f.type = "ORDER_COMPLETED" -> [type |-> f.type, order |-> f.order]

BuildEvent(r, i) ==
    [id |-> EventId(r, i), timestamp |-> Timestamp(r, i), payload |-> Payload(r, i)]

Key(r, i) ==
    IF Invocations[r].type \in {"ORDER_CREATED", "ORDER_COMPLETED"}
      THEN OrderOf(r, i) ELSE Invocations[r].product

\* A message without a key goes to any partition.
Choices(key) == IF key = None THEN Partitions ELSE {PartitionOf[key]}

-----------------------------------------------------------------------------
Init ==
    /\ run = 0 /\ pc = "exited"
    /\ built = 0
    /\ queue = [p \in Partitions |-> << >>]
    /\ delivery = << >> /\ waited = {}
    /\ topic = [p \in Partitions |-> << >>]
    /\ published = {}
    /\ lostAcks = 0 /\ delays = 0

flags == Invocations[run]

\* log.Fatal and the end of main: what librdkafka still holds is lost.
Exit ==
    /\ pc' = "exited"
    /\ queue' = [p \in Partitions |-> << >>]

\* The command is started; its flags may be refused.
Start ==
    /\ pc = "exited"
    /\ run < Len(Invocations)
    /\ run' = run + 1
    /\ pc' = IF BadFlags(Invocations[run + 1]) THEN "exited" ELSE "loop"
    /\ built' = 0 /\ delivery' = << >> /\ waited' = {}
    /\ UNCHANGED <<queue, topic, published, bounds>>

\* One turn of the count loop.
BuildAndProduce ==
    /\ pc = "loop"
    /\ built < flags.count
    /\ ~BadEvent(flags)
    /\ built' = built + 1
    /\ \E p \in Choices(Key(run, built')) :
           queue' = [queue EXCEPT ![p] = Append(@, built')]
    /\ UNCHANGED <<run, pc, delivery, waited, topic, published, bounds>>

\* The event cannot be built, or Schema Registry does not answer, or the queue
\* of librdkafka is full; in the first turn, also a client that is not created.
LoopFails ==
    /\ pc = "loop"
    /\ built < flags.count
    /\ Exit
    /\ UNCHANGED <<run, built, delivery, waited, topic, published, bounds>>

LoopEnds ==
    /\ pc = "loop"
    /\ built = flags.count
    /\ pc' = "wait"
    /\ UNCHANGED <<run, built, queue, delivery, waited, topic, published, bounds>>

\* Mutant of ReceiveReport: a failed delivery counts as delivered.
ReceiveAnyReport ==
    /\ pc = "wait"
    /\ delivery # << >>
    /\ delivery' = Tail(delivery)
    /\ waited' = waited \cup {Head(delivery).number}
    /\ UNCHANGED <<run, pc, built, queue, topic, published, bounds>>

\* main takes the next report; an error in it is fatal.
ReceiveReport ==
    /\ pc = "wait"
    /\ delivery # << >>
    /\ delivery' = Tail(delivery)
    /\ \/ /\ Head(delivery).stored
          /\ waited' = waited \cup {Head(delivery).number}
          /\ UNCHANGED <<pc, queue>>
       \/ /\ ~Head(delivery).stored
          /\ Exit
          /\ UNCHANGED waited
    /\ UNCHANGED <<run, built, topic, published, bounds>>

\* Mutant of TimeOut: main waits for a report however long it takes.
NoTimeOut == pc = "wait" /\ delivery # << >> /\ UNCHANGED vars

\* No report for 30 seconds.
TimeOut ==
    /\ pc = "wait"
    /\ Cardinality(waited) < flags.count
    /\ Exit
    /\ UNCHANGED <<run, built, delivery, waited, topic, published, bounds>>

\* All reports are in: main prints what it published and returns.
Announce ==
    /\ pc = "wait"
    /\ Cardinality(waited) = flags.count
    /\ published' = published \cup {run}
    /\ Exit
    /\ UNCHANGED <<run, built, delivery, waited, topic, bounds>>

-----------------------------------------------------------------------------
(* librdkafka and the broker, for the first message of a partition's queue. *)

Stored(p) == topic' = [topic EXCEPT ![p] = Append(@, BuildEvent(run, Head(queue[p])))]

Report(p, stored) ==
    /\ queue' = [queue EXCEPT ![p] = Tail(@)]
    /\ delivery' = Append(delivery, [number |-> Head(queue[p]), stored |-> stored])

Deliver(p) ==
    /\ queue[p] # << >>
    /\ Stored(p) /\ Report(p, TRUE)
    /\ UNCHANGED <<run, pc, built, waited, published, bounds>>

\* The message is refused, or expires in the queue.
DeliveryFails(p) ==
    /\ queue[p] # << >>
    /\ Report(p, FALSE)
    /\ UNCHANGED <<run, pc, built, waited, topic, published, bounds>>

\* The message is stored and its acknowledgement lost: it is sent again.
LoseAck(p) ==
    /\ queue[p] # << >>
    /\ lostAcks < MaxLostAcks
    /\ lostAcks' = lostAcks + 1
    /\ Stored(p)
    /\ UNCHANGED <<run, pc, built, queue, delivery, waited, published, delays>>

\* The message is sent again after its successor, which was in flight too.
Delay(p) ==
    /\ Len(queue[p]) > 1
    /\ delays < MaxDelays
    /\ delays' = delays + 1
    /\ queue' = [queue EXCEPT ![p] = << @[2], @[1] >> \o SubSeq(@, 3, Len(@))]
    /\ UNCHANGED <<run, pc, built, delivery, waited, topic, published, lostAcks>>

Main ==
    \/ BuildAndProduce \/ LoopFails \/ LoopEnds
    \/ ReceiveReport \/ TimeOut \/ Announce

Broker ==
    \E p \in Partitions : Deliver(p) \/ DeliveryFails(p) \/ LoseAck(p) \/ Delay(p)

Next == Start \/ Main \/ Broker

\* main is one goroutine and waits 30 seconds at most for each report.
\* Nothing promises that a broker answers or that the command is run again.
Fairness == WF_vars(Main)

Spec == Init /\ [][Next]_vars /\ Fairness

-----------------------------------------------------------------------------
(* Properties.                                                             *)

Numbers(r) == 1 .. Invocations[r].count

InTopic(e) == \E p \in Partitions : \E j \in DOMAIN topic[p] : topic[p][j] = e

\* An invocation that says "published count=n" has all its n events in the
\* topic, whatever was retried, refused or late (main.go:86-123).
PublishedStored ==
    \A r \in published : \A i \in Numbers(r) : InTopic(BuildEvent(r, i))

\* Every invocation ends, with the broker down too (main.go:109-122).
InvocationEnds == pc # "exited" ~> pc = "exited"
=============================================================================
