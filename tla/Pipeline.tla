------------------------------ MODULE Pipeline ------------------------------
(***************************************************************************)
(* From the producer's flags to the tables: Producer, and a consumer that  *)
(* hands the messages of each partition to Handler in their order and      *)
(* reports the failed ones.  Crashes, redelivery and a record that the DLQ *)
(* does not take are in Consumer.                                          *)
(***************************************************************************)
EXTENDS Integers, FiniteSets, Sequences, Sums

CONSTANTS
    Products, Zones, Orders, None,
    Partitions, PartitionOf, Invocations, GeneratedId, Gap, Half,
    MaxLostAcks, MaxDelays

VARIABLES
    run, pc, built, queue, delivery, waited, topic, published, lostAcks, delays,
    inventory, byZone, totals, orders, processed, history, err,
    position,   \* how many messages of each partition are handled
    reported    \* the messages sent to the DLQ, by partition and place

P == INSTANCE Producer
H == INSTANCE Handler WITH Events <- {}, EventIds <- {}, Suppliers <- {}

Item == [product : Products \cup {None}, zone : Zones \cup {None}, quantity : Int]

\* The flags have their types; empty ones are None.
ASSUME FlagsAssumption ==
    /\ Half \in Nat \ {0} /\ Gap \in Nat
    /\ Len(Invocations) \in Nat
    /\ \A r \in 1 .. Len(Invocations) :
         LET f == Invocations[r]
         IN  /\ {f.count, f.quantity, f.timestamp} \subseteq Int
             /\ f.product \in Products \cup {None}
             /\ {f.zone, f.from, f.to} \subseteq Zones \cup {None}
             /\ f.items \in Seq(Item \cup {None})
             /\ \A i \in 1 .. f.count : P!OrderOf(r, i) \in Orders \cup {None}

command == <<run, pc, built, queue, delivery, waited, topic, published,
             lostAcks, delays>>
store == <<inventory, byZone, totals, orders, processed, history, err>>
vars  == <<command, store, position, reported>>

Init ==
    /\ P!Init /\ H!Init
    /\ position = [p \in Partitions |-> 0]
    /\ reported = {}

Produce == P!Next /\ UNCHANGED <<store, position, reported>>

\* The next message of partition p is handled, or cannot be decoded.
Consume(p) ==
    /\ position[p] < Len(topic[p])
    /\ position' = [position EXCEPT ![p] = @ + 1]
    /\ H!Handle(topic[p][position'[p]]) \/ H!Return(H!Processing)
    /\ reported' = IF err' = H!Ok THEN reported
                                  ELSE reported \cup {<<p, position'[p]>>}
    /\ UNCHANGED command

Next == Produce \/ \E p \in Partitions : Consume(p)

Spec == Init /\ [][Next]_vars /\ P!Fairness

-----------------------------------------------------------------------------
(* Properties.                                                             *)

Drained == \A p \in Partitions : position[p] = Len(topic[p])

\* What the command says it published is in the topic (main.go:86-123).
PublishedStored == P!PublishedStored

\* Every invocation of the command ends (main.go:109-122).
InvocationEnds == P!InvocationEnds

\* The messages that were handled, by partition and place, and the events of
\* those that are applied.
Handled == UNION {{p} \X (1 .. position[p]) : p \in Partitions}

At(s) == topic[s[1]][s[2]]

Applied == {e \in {At(s) : s \in Handled} : e.id \in processed}

\* When the consumer has read everything, each event that an invocation says it
\* published was applied or reported: a burst of receipts shows in full
\* (scripts/e2e.py:622).
NothingDropped ==
    Drained => \A r \in published : \A i \in P!Numbers(r) :
                   \/ P!EventId(r, i) \in processed
                   \/ \E s \in reported : At(s).id = P!EventId(r, i)

\* The rows that the payload of e names.
Names(e) ==
    LET m == e.payload
    IN  CASE m.type = "PRODUCT_MOVED" -> {<<m.product, m.from>>, <<m.product, m.to>>}
          [] m.type = "ORDER_CREATED" ->
               {<<m.items[j].product, m.items[j].zone>> : j \in DOMAIN m.items}
          [] m.type = "ORDER_COMPLETED" -> {}
          [] OTHER -> {<<m.product, m.zone>>}

OfOrder(e) == e.payload.type \in {"ORDER_CREATED", "ORDER_COMPLETED"}

SameOrder(d, e) ==
    OfOrder(d) /\ OfOrder(e) /\ d.payload.order = e.payload.order

\* An event stamps the rows it names; the completion of an order stamps rows
\* that a creation of the order named.
Stamps(d, k) ==
    \/ k \in Names(d)
    \/ /\ d.payload.type = "ORDER_COMPLETED"
       /\ \E c \in Applied : SameOrder(c, d) /\ k \in Names(c)

\* Event d is a reason to drop e: it is as new and stamps a row that e names,
\* or is of the same order, or both complete the order.
Supersedes(d, e) ==
    \/ /\ d.timestamp >= e.timestamp
       /\ SameOrder(d, e) \/ (~OfOrder(e) /\ \E k \in Names(e) : Stamps(d, k))
    \/ /\ SameOrder(d, e)
       /\ {d.payload.type, e.payload.type} = {"ORDER_COMPLETED"}

\* A message that was handled is applied or reported, or there was a reason to
\* drop it among the events applied so far: one as new on a row it names, or
\* the end of its order.  Neither an event of another zone or another product,
\* nor one of another order, nor a failure makes the consumer pass over a
\* message without a trace (handler.go:48, 335, 434-444, consumer.go:108-125).
OnlyOldDropped ==
    \A s \in Handled :
        \/ At(s).id \in processed
        \/ s \in reported
        \/ \E d \in Applied : Supersedes(d, At(s))

\* The events of different invocations have different ids.
OwnIds ==
    \A r, s \in 1 .. Len(Invocations) : P!BaseId(r) = P!BaseId(s) => r = s

\* The invocations receive stock or reserve it, with ids of their own, and the
\* quantity of a receipt is below 2^32: int32 leaves it as it is or turns it
\* negative.
ReceiveAndReserve ==
    /\ OwnIds
    /\ \A r \in 1 .. Len(Invocations) :
         /\ Invocations[r].type \in
              {"PRODUCT_RECEIVED", "PRODUCT_RESERVED", "ORDER_CREATED"}
         /\ Invocations[r].type = "PRODUCT_RECEIVED" =>
              Invocations[r].quantity \in -Half .. 2 * Half - 1

\* The receipts for row k that were applied, by invocation and number.
Receipts(k) ==
    {x \in UNION {{r} \X P!Numbers(r) : r \in 1 .. run} :
        LET f == Invocations[x[1]]
        IN  /\ f.type = "PRODUCT_RECEIVED"
            /\ <<f.product, f.zone>> = k
            /\ P!EventId(x[1], x[2]) \in processed}

\* A row holds the quantities given to the applied receipts, each once, however
\* often its message was sent; a quantity that does not fit int32 and turns
\* negative is in no row.  For invocations that only receive stock, or reserve
\* it for orders (main.go:91, 212; handler.go:75-103, 275-318).
ReceiptsAddUp ==
    \A k \in H!Keys :
        inventory[k].available + inventory[k].reserved =
            SumOver([x \in Receipts(k) |-> Invocations[x[1]].quantity])
=============================================================================
