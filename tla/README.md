# Warehouse state service: TLA+ models, checks and proofs

The repository is a small warehouse system. A command-line producer
(`cmd/wms-producer`) publishes `WarehouseEvent` messages to the Kafka topic
`warehouse-events`; one consumer process (`cmd/warehouse-consumer`) applies each
of them to denormalised Cassandra tables in one logged batch, reports what it
cannot apply to `warehouse-events-dlq`, and commits the offset. This directory
holds models of both programs and of what lies between them, the TLC runs that
check the models and the proofs that TLAPS checks.

## 1. Inventory

| Component | Code | State | Operations | Modelled in |
|---|---|---|---|---|
| state handler | `internal/handler/handler.go`, `errors.go` | none of its own; the tables | `Handle` and eight handlers, one for each payload | `Handler` |
| store | `internal/cassandra/session.go`, `migrations/*.cql` | six tables: `inventory_by_product_zone`, `inventory_by_zone`, `inventory_totals`, `orders`, `processed_events`, `event_history` | five reads and `ExecuteBatch` | `Handler`, `LateBatch` |
| event schema | `proto/warehouse/v1/events.proto` | - | - | `Handler` (`Event`) |
| consumer loop | `internal/kafka/consumer.go`, `main.go` | position in memory, committed offsets at the broker | read, decode, handle, report, commit; crash, restart, rejoin | `Consumer` |
| dead letter queue | `internal/kafka/dlq.go` | the DLQ topic; records still in the producer | `SendToDLQ` | `Consumer` |
| event producer | `cmd/wms-producer/main.go` | loop counter, messages in flight, delivery reports | build, key, serialise, publish, wait | `Producer`, `Pipeline` |
| metrics and lag | `internal/metrics/metrics.go` | counters, a lag gauge for each partition; the offsets last asked for | the increments, `TrackLag` | `Metrics` |
| health, Schema Registry, generated code, compose files, scripts | several | - | - | no |

How they interact. `Run` calls `handleMessage`, which calls `Handle` and then
either `CommitMessage`, or `SendToDLQ` and `CommitMessage`. `Handle` reads
`processed_events` first, then the rows that the payload names, then writes one
batch. The topic has three partitions; product events are keyed by product and
order events by order (`main.go:151, 184, 190`), so that Kafka orders neither
against the other although they write the same rows.

What is hard here:

* **order.** Product events are compared with the clock of the row they write
  (`last_event_timestamp`), order events only with the clock of their order;
  both stamp the row.
* **denormalisation.** Each handler updates two views of a row and the totals of
  the product from values it read apart.
* **redelivery.** Offsets are committed after the write, so a crash repeats
  messages, and only `processed_events` tells that an event was applied.
* **partial failure.** A batch may be written although its answer is a timeout,
  and later than the next event is read; a DLQ send and a commit may fail, and
  their errors are only logged.
* **what the producer may do to a stream.** It sends a message again whose
  acknowledgement is lost, may store it behind its successor, truncates
  quantities to int32, and gives the events of a loop timestamps of the future.
* **two goroutines.** `TrackLag` asks the broker for offsets and watermarks in
  several calls while the loop commits.

What makes the components correct: the tables agree with each other (`ViewsAgree`,
`TotalsMatchZones`, `AuditTrail`), no quantity is negative (`NonNegative`), stock
moves only by legal postings, one per event id (`LedgerSpec`), open orders stay
covered but for releases (`OpenOrdersCovered`), no message is skipped (`CommittedSettled`,
`EverySettled`), and commits only advance (`CommitsForward`). What the producer
says it published is stored (`PublishedStored`) and counts once (`ReceiptsAddUp`), and
a message that reaches neither the tables nor the DLQ was older than another on its row
or order (`OnlyOldDropped`); the counters and gauges tell
the truth (`CountersTrue`, `NeverUnderstated`, `LagShown`); and the tables agree again
after a batch that came late (`ViewsAgreeAgain`, `AuditAgrees`).

`PROJECT.json` lists the hazards of the code with their lines and the properties
that watch them.

## 2. Modules

| Module | What it is |
|---|---|
| `Sums` | the sum of a function with natural values, without recursion (it counts units), and the maximum of a set |
| `Handler` | `Handle` over the six tables; one step is one call |
| `StockLedger` | what the handler promises: books of available and reserved stock, and postings with an event id that is used once |
| `MCHandler` | messages and vocabularies for TLC |
| `Consumer` | the loop, the offsets and the DLQ around `Handler` (`H == INSTANCE Handler`) |
| `MCConsumer` | topics of two partitions for TLC |
| `Metrics`, `MCMetrics` | the loop's counters and the goroutine of the lag gauges around `Consumer` (`C == INSTANCE Consumer`) |
| `Producer` | the command, librdkafka's queue and the broker |
| `Pipeline`, `MCPipeline` | `Producer`, the topic and `Handler` |
| `LateBatch`, `MCLateBatch` | the reads of a call, its batch and late statements as separate steps; what a call computes is `Handler`'s (`V == INSTANCE Handler`) |
| `SumsProofs` | lemmas on sums, maxima and finite sets |
| `HandlerProofs`, `LedgerProofs`, `ConsumerProofs`, `ProducerProofs`, `PipelineProofs`, `MetricsProofs`, `LateBatchProofs` | the theorems about each module |

### Handler

Variables are the tables, plus `err`, the code of the error the last call
returned. A row that Cassandra does not hold reads as zeros
(`session.go:96, 113`), so a missing row is a zero row; a missing order has the
status `ABSENT`, because the code does tell `ErrNotFound` from a row there.

`Handle(e)` is the disjunction of Handle's own returns (`RejectUnstamped`,
`StoreFails`, `SkipDuplicate`, `RejectUnknown`) and one action per payload. Each
of those has the shape of the code: the payload check, the comparison of clocks,
the stock check, and then one batch. `Decline` names the three early returns in
their order; `Accepted` is what is left.

A batch is a function `lines` from row keys to changes of the two quantities.
`ExecBatch` writes it: `putInventory`, `putZoneInventory`, `putTotals`,
`putHistory`, the orders statement and the `processed_events` row of `newBatch`.
All statements of a batch carry one write timestamp; when two of them write one
cell Cassandra keeps the larger value (`Reconcile`, external). This matters in
one place: an order that takes one product from two zones puts two totals rows,
each computed from the same row as read. `err'` is free in `ExecBatch`, because
the coordinator may time out on a batch it has written; a batch of which nothing
is written is `StoreFails`.

The order of the items of an order is that of a Go map. The outcome does not
depend on it, which is why `lines` is a function and `short` a quantifier.
Items are kept as quantities by row, the column's JSON being the same map.
Timestamps are natural numbers of milliseconds; 0 is the zero `time.Time`.
Integers are unbounded: quantities are int32 and the handler widens them to
int64 before it adds, so that an overflow takes more than 2^32 events.

### StockLedger and the refinement

`StockLedger` has `books` (available and reserved by row) and `posted` (event
ids). Its steps receive, ship, move, reserve, release, recount or consume stock,
each with its own legality, and add a fresh event id. `Handler` maps
`books` to the two columns of `inventory_by_product_zone` and `posted` to
`processed_events`. `LedgerSpec` says that each call of `Handle` is one posting
or changes neither.

### Consumer

`position[p]` and `committed[p]` count messages of partition `p`. `pc` is the
place in the loop: `poll`, `handle` (between ReadMessage and the end of Handle),
`dlq` (before or within SendToDLQ), `commit`, or `down`. `Topic` is a constant:
the producers are done before the behaviour starts, and a message that has not
been read yet cannot be told from one that has not been published.

| Action | Code |
|---|---|
| `Read`, `ReadNothing` | `ReadMessage`, consumer.go:73-80 |
| `DecodeFails` | consumer.go:115-118; any message may fail when Schema Registry does not answer |
| `HandleMessage` | consumer.go:120-127, the whole `Handle` |
| `DlqDelivered`, `DlqFails`, `DlqTimesOut` | dlq.go:25-66 and consumer.go:150-153 |
| `DeliverLate` | a record the producer still held when its caller stopped waiting (external) |
| `Commit`, `CommitFails` | consumer.go:128, 155 |
| `Crash`, `Start` | the process ends and docker restarts it (docker-compose.yml:164); `Close` does not flush the DLQ producer |
| `Rejoin` | the group has dropped the consumer and it joins again (external) |

SIGTERM ends the loop at its next turn and cancels the context of a running
call; that is `StoreFails` followed by the DLQ path and a `Crash`. `answered` and
`abandoned` are ghosts: which messages Handle returned nil for, and which were
dropped after a failed DLQ send.

### Metrics

The loop's steps are `Consumer`'s, with the increments of `consumer.go:122-127` and
`154` (`HandleMessage`, `Report`). `TrackLag` is a second process: `AskCommitted` reads
the committed offsets of all partitions; then, for one partition after the other, the
broker answers with the watermark (`AnswerQuery`, `metrics.go:75`) and the gauge is set
(`SetLag`, `metrics.go:79-81`), or `QueryFails`. The loop may commit and a producer publish
between any two of these steps. What is published after the answer is not in the
gauge, which is why `NeverUnderstated` compares it with the lag at that moment: the ghost
`lag` in `answer` keeps it. The order of the partitions is fixed by `CHOOSE`. `Publish` lets the topic grow, so that
the watermark differs from its end. A crash clears what the process has in memory:
gauges, counters and what the broker answered. `CassandraWriteErrorsTotal` is incremented
for every error of `Handle`, validation errors included (`consumer.go:123`), although
its help text says "Cassandra write errors." (`metrics.go:32`). An empty assignment or a
failed call of `Committed` skips the tick, which is a tick that has not come yet.

### Producer and Pipeline

`Invocations` are the flags of successive runs of the command. `BuildEvent(r, i)` is the
`i`-th event of run `r`; ids and order ids are tuples that stand for the strings
`base-i` and `ORD-id`. `BaseTimestamp` is `r * Gap`: the clock at the start of run `r`.
`Int32` wraps at `Half`, which stands for 2^31. main's loop is `BuildAndProduce`,
`LoopFails` and `LoopEnds`, its wait `ReceiveReport`, `TimeOut` and `Announce`. librdkafka
and the broker are external: `Deliver`, `DeliveryFails`, `LoseAck` (stored, but sent
again) and `Delay` (stored behind its successor). `log.Fatal` drops what is queued.

`Pipeline` adds the consumer: the messages of a partition are handled in their order,
those of two partitions in any. A message that fails, or that
`Consume` cannot decode, is reported; `reported` holds partitions and places, because a
record of an undecodable message has no event id. Crashes, redelivery and a record
that the DLQ does not take are in `Consumer`, and left out here.

`Supersedes(d, e)` says what the handler may take for a reason to drop `e`: an applied
event `d` that is as new and stamps a row that `e` names (`Stamps`: the completion of an
order stamps the rows its creation named), or is of the same order, or has completed
it. `NothingDropped` is the claim that nothing is dropped at all, and is refuted.

### LateBatch

A call has three steps: `Check` (`IsProcessed`, `isOldZoneEvent`), `Read`
(`readInventoryAndTotals`) and one of `Decline`, `ExecuteInTime`, `ExecuteLate` (the batch
times out and is written later). The driver does not execute it again: its retry policy
(`session.go:52`) is for idempotent statements, and `newBatch` marks none. `ArriveLate` writes one
statement of a late batch, at any moment. A cell keeps the value with the latest
write timestamp (`stamps`, external). What the call computes is `Handle` of `Handler`
over the tables as they were read (the `saw` variables), so that nothing of the handlers
is repeated; the clock that decides is that of the first read, the quantities are
those of the second. Order events are left out: they read the totals once for each
item, which would need a step for each read. A read returns the latest statement
that has arrived, which is what `QUORUM` reads and writes give; the replicas behind it
are Cassandra's, and are not modelled.

## 3. Runs

| Run | Checks | What it shows |
|---|---|---|
| `handler_core` | `TypeOK`, `NonNegative`, `TotalsMatchZones`, `ViewsAgree`, `AuditTrail`, `OnlyOrdersRewindZone`, `LedgerSpec` | all handlers and all early returns: one product, two zones, one order, quantities 1 and 2, timestamps 1 to 3, every event at any moment and any number of times, each check's malformed message |
| `handler_orders` | `OpenOrdersCovered`, `TotalsCoverZones`, `NonNegative` | two products, two zones, two orders, one of one product in both zones, created, created again and completed with equal, later and earlier timestamps, against counts, receipts, reservations and a release |
| `totals_two_zones` | `TotalsMatchZones` (violated) | the totals stop being the sum: finding 1 |
| `zone_clock` | `ZoneClockForward` (violated) | an order event sets a row's clock back: finding 2 |
| `consumer_safety` | `TypeOK`, `CommittedSettled`, `CommitsForward`, `LedgerSpec` | two partitions of three messages, with a duplicate and a value that does not decode; two crashes or rejoins, one failed DLQ send or commit |
| `lag_stuck` | `LagReturnsToZero` (violated) | one failure on a last message: finding 4 |
| `lost_event` | `CommittedAcknowledged` (violated) | an event is committed that is nowhere: finding 3 |
| `metrics` | `CountersTrue`, `NeverUnderstated`, `LagShown`, `GaugesReturnToZero`, `EverySettled` | a receipt and a value that does not decode, published at any moment; one crash or rejoin, one failed DLQ send or commit, any number of failed queries |
| `pipeline` | `PublishedStored`, `OnlyOldDropped`, `ReceiptsAddUp`, `InvocationEnds` | a burst of two receipts, an order under its default id, a quantity of 2^32 - 1 and a refused combination of flags; one lost acknowledgement, one delayed message, any number of failed deliveries, store failures and timeouts; an order that has the time of a receipt, and is handled before or after it |
| `reordered` | `NothingDropped` (violated) | a burst of three receipts, one of which is delayed: finding 5 |
| `late_batch` | `ViewsAgreeAgain`, `AuditAgrees` | a receipt, a move, a count and a shipment over two zones, each handled at any moment and any number of times; one batch late |
| `late_totals` | `TotalsMatchAgain` (violated) | a call that sees half of a late batch: finding 6 |

Every property of a passing run has a mutant in `PROJECT.json`: a variant of one
definition with a plausible bug (a check on the totals alone, a view put from
the row as read, an offset committed at the read), defined just before the
definition it replaces, which TLC finds to break the property.

**Bounds.** In the handler runs nothing is bounded but the messages. A product
event must be newer than its rows, so behaviours end when the timestamps of the
vocabulary are used up; order events lengthen them by setting clocks back. Three
timestamps give an earlier, an equal and a later event for each row. Two zones
are what a move, and a sum, need; two orders, what two reservations of one row
need. In `late_batch` one batch may be late (`MaxLate`), which any later call may meet
half written; with two late batches and two events the properties were found to hold
too. `Gap` is 1 and the burst of `pipeline` is of two, so that the
next run of the command starts at the time of the burst's last event. `OnlyOldDropped` was
found to hold, too, with a second zone, an earlier timestamp and the completion of the order
instead of lost acknowledgements (0.9 million states); the theorem covers all of them.
`Half` is 8, and the quantity 15 is -1 as an int32. `MaxLostAcks` and `MaxDelays` bound
what librdkafka may do; one of each is enough to duplicate and to reorder,
and with both in `pipeline` other messages come to lie between a message and its duplicate.
`MaxResets` bounds crashes and rejoins, `MaxFailures` failed DLQ sends and
commits: with two resets a message can be interrupted again while it is
redelivered, and one failure is enough to leave a hole in a partition. The
theorems have none of these bounds.

**Deadlock** is checked in every run but those of `Pipeline`, where all messages are
handled at the end and nothing is left to do. An idle consumer polls
(`ReadNothing`), and a handler can always be given its last event again.

**Fairness.** `WF_vars(Loop)`: the loop is one goroutine, each call in it returns
(`ReadMessage` after 500 ms, a query after 10 s, `SendToDLQ`
after 10 s, the commit when the broker answers or its request times out), and a
message that is there is returned by some poll. `WF_vars(Start)`: docker restarts
the process. No fairness is assumed for `DeliverLate`, and none makes a send to
the DLQ succeed. `Metrics` has the same, and for `TrackLag`: the ticker fires
(`WF` of `AskCommitted`), each query returns within 5 s (`WF` of
`AnswerQuery` or `QueryFails` for each partition), an answer is used (`WF` of `SetLag`), and
of the queries repeated for a partition some succeed (`SF` of `AnswerQuery`). `GaugesReturnToZero` is about the behaviours in which no DLQ send or commit
fails; the others are `lag_stuck`. `Producer` has `WF_vars(Main)`: main is one goroutine,
and waits 30 s at most for a report; nothing makes the broker answer, which is why
`InvocationEnds` needs the timeout. The handler's properties are safety and need none.

## 4. Findings

1. **Totals of a two-zone order** (`handler.go:299, 303, 351`). The totals are read
   again for every item while the earlier items' totals wait in the batch.
   `inventory_totals` then differs from the sum of the zones for good; the
   available total is too high, the reserved total too low or too high.
   `DEMO.md:147` and `scripts/e2e.py:381` say the tables agree.
2. **Order events rewind a row's clock** (`handler.go:284, 310, 325, 360`).
   `README.md:95` says events out of order are cut off.
3. **A failed DLQ send loses the event** (`consumer.go:150-153`): the next commit of
   the partition covers it. `README.md:91` says offsets are committed after the
   write or a confirmed send.
4. **The lag may stay above 0** (`consumer.go:128, 152, 155`) after a failed send or
   commit on the last message of a partition. `DEMO.md:344` says it returns to 0.
5. **A retried message is dropped** (`cmd/wms-producer/main.go:67, 91`,
   `handler.go:434-444`). The producer is not idempotent, so that librdkafka may store
   a message behind its successor, whose timestamp is later. `scripts/e2e.py:622`
   expects all 120 receipts of a loop in the table.
6. **Totals after a late batch** (`handler.go:370-393`). A call that reads half of a
   batch that timed out writes totals that differ from the sum of the zones for good.
   `DEMO.md:147` and `scripts/e2e.py:381` say the tables agree.

While building `Pipeline` TLC found one more loss, which no document excludes: an order
event is in another partition than the events of its product and stamps the row
with its own time, so that a receipt published before it and handled after it is
dropped as old. `OnlyOldDropped` allows this (`Stamps`), and no more: an event of another
row, or an order event for another order, is no reason to drop it.

## 5. Proofs

For every choice of the constants that meets the assumptions of `Handler` (finite sets
of products, zones and orders, `None` outside the names, events of the message type),
of `Consumer` (`TopicAssumption`), of `LateBatch` (`EventsAssumption`: product events with
names of the sets or empty) and of the producer (`FlagsTyped` in `ProducerProofs`,
`FlagsAssumption` in `Pipeline`: every flag has its type). TLC evaluates the assumptions, and
the hypothesis `ReceiveAndReserve`, on the instances of the runs.

| Theorem | Establishes |
|---|---|
| `TypeCorrect` | `[]TypeOK` |
| `ViewsAlwaysAgree` | `[]ViewsAgree` |
| `AuditTrailComplete` | `[]AuditTrail` |
| `NeverNegative` | `[]NonNegative`, two-zone orders included |
| `TotalsCover` | `[]TotalsCoverZones`, for all events |
| `TotalsExact` | `[]TotalsMatchZones`, if no `ORDER_CREATED` names one product in two zones |
| `HandlerImplementsLedger` | `LedgerSpec`: `Handler` implements `StockLedger` |
| `OnlyOrdersRewind` | `OnlyOrdersRewindZone` |
| `OrdersStayCovered` | `[]OpenOrdersCovered`, if the `PRODUCT_RELEASED` events are finitely many |
| `PublishedIsStored` | `[]PublishedStored` of `Producer`, for all flags, partitions and faults |
| `CommittedAlwaysSettled` | `[]CommittedSettled`, for every topic and any number of crashes, whatever `Handle` does |
| `CommitsNeverRewind` | `CommitsForward`, likewise |
| `ConsumerTypeCorrect` | `[]TypeOK` of `Consumer` |
| `PublishedAlwaysStored` | `[]PublishedStored` of `Pipeline`: the same with a consumer running |
| `ReceiptsAlwaysAddUp` | `[]ReceiptsAddUp`, for any invocations that receive stock or reserve it (`ReceiveAndReserve`) |
| `OnlyOldEverDropped` | `[]OnlyOldDropped`, for all flags and event types, whatever is delayed, repeated, lost or refused |
| `LagNotUnderstated` | `NeverUnderstated`, for any interleaving of `TrackLag` with the loop and the producers |
| `CountersAlwaysTrue` | `[]CountersTrue` |
| `ViewsAgreeAgainAlways` | `[]ViewsAgreeAgain`, for any number of late batches |
| `AuditAgreesAlways` | `[]AuditAgrees`, likewise |
| `ConsumerImplementsLedger` | `LedgerSpec` of `Consumer`: the loop, redeliveries included, implements `StockLedger` |

**Handler.** The lemma `HandleCases` says once what each handler contributes: a call
leaves the tables alone, or executes a batch that is `WellFormed` (its rows exist,
its event is stamped) and `Sound` (its lines take no more than the rows have, at
most one line of a product brings stock into the totals it puts, and a product
whose totals are not put is only moved). Every invariant is then proved for one
such batch instead of eight handlers. `NonNegative` is not inductive alone:
`INVENTORY_COUNTED` and `PRODUCT_MOVED` never look at the totals, and what keeps
the available total from going below zero is that it covers the sum of the zones.
`StockInv` is therefore `NonNegative /\ TotalsCoverZones`, and both theorems come
from it. `TotalsExact` strengthens `TotalsMatchZones` with `OrdersStoreProductOnce`:
the stored items of an order name a product once, which is what ORDER_COMPLETED
relies on. `SumsProofs` proves the facts about sums that these steps need
(`SumUpdate`, `SumTransfer`, `SumMonotone`) from the cardinality theorems; the sum is
the cardinality of a set of units so that no recursion has to be unfolded.

**Consumer.** `CommittedSettled` is not inductive: a commit covers everything below
the message, read in steps long past. `SettledInv` adds that everything the
running loop has read is settled, but for the message it works on
(`ReadSettled`), and that this message is the last one read of its partition
(`OffsetsOK`). A restart goes back to `committed`, where `CommittedSettled` gives
`ReadSettled` back. `CommitsForward` follows, because `committed` never exceeds
`position`.

**Ledger.** `LedgerProofs` needs what a step does, not what a state looks like. The lemma
`Postings` says it once: a call leaves the tables alone or `Posts` — one row, a move,
the items of a new order, or those of a created order being completed — with a fresh
event id. The three theorems are read off it. For `HandlerImplementsLedger` each kind of
posting is a step of `StockLedger` (`RowInLedger`, `MoveInLedger`, `CreateInLedger`,
`CompleteInLedger`); that a consumption takes something needs `OrdersHaveItems`, that the
books stay natural numbers needs `StockInv`, so that the invariant is `StoreInv`, all
of them together. `OnlyOrdersRewind` holds because a row or a move is compared with
each row it stamps, and because an order event that changes no order would have been old.
`OrdersStayCovered` sums over all orders (`OpenItemsSum`) and follows one order through
`SumUpdate`; an order that is created again drops what it held before, which only helps. A
release lowers the reserved stock of a row by its quantity and adds as much to
`ReleasedFrom` of that row (`ReleasedGrows`), which has a sum because the releases are
finitely many; nothing else lowers the reserved stock but a completion, whose order is open
no more.

**Producer.** `PublishedIsStored` counts: `Announce` needs as many reports as messages, and
`StoredInv` says that the reports are for different numbers in `1 .. built`
(`ReportsTrue`) and that each confirmed one names a stored message, so that `waited`
is all of them. What makes this inductive is that nothing is in flight between two
invocations (`RunOK`): a report of the run before would be counted in the next.

**Consumer over the ledger.** `HandleInLedger` speaks of one call of `Handle`, so that it
can be used in another program of which such calls are steps. `Consumer` reaches `Handler`
through the instance `H`, and `ConsumerProofs` the lemmas through the instance `L`;
the prover does not identify two instances of one module, and `SameHandle`, `SamePost` and
their neighbours show the definitions equal by expanding both. The invariant is `StoreInv`
with the types of the loop; it adds to `TypeOK` that `err` is an error code while the loop
reports to the DLQ, which the type of the records rests on. The assumptions of `Handler` on
its sets and events are hypotheses of both theorems; `CommittedAlwaysSettled` and
`CommitsNeverRewind` need none of this.

**Pipeline.** `ReceiptsAddUp` follows one message from the loop counter to a row. `SentOK`
says that every message of the topic is that of an event some invocation built, with flags
the program accepts; `AppliedOK`, that every processed id is the id of such an event, and
that an applied receipt had a quantity that is no negative number. The second is what makes
the sum one of natural numbers, and comes from `Int32Value`: below 2^32 an int32 is the
quantity itself or negative, and the handler refuses the negative one. `ConsumeCases` says
what a call does with such a message: nothing, or it writes its id, which is fresh, and adds
the quantity of a receipt to its row; what is reserved only moves within a row
(`CreatedHolds`). `AppliedAddsUp` then extends the sum by one term (`SumExtend`). That one id
is one event (`SameId`) needs the ids of the invocations to differ, which is why
`ReceiveAndReserve` demands it (`OwnIds`): with one `--event-id` for two invocations only the
first is applied. Other event types take stock out of a row, of which the receipts know nothing.

`OnlyOldDropped` alone is not inductive, because the handler looks at clocks and the
property at events. `DropsInv` ties them: every clock of a row is 0 or the time of an applied
event that stamps the row (`RowsStamped`), every stored order has the time of an applied event
of it, a completed one was completed by an applied event, and its items are of rows that an
applied creation named (`OrdersOK`). `HandleOutcome` says of each handler that a call fails, finds a
known id, finds an old event or writes; an event found old is superseded
(`LateSuperseded`), and a batch leaves clocks that its own event explains
(`TablesWritten`). What is applied stays applied and a place in the topic keeps its message
(`ReasonsKept`, `HandledKept`), so that a reason once found remains. Nothing is assumed of the
order of a partition, of timestamps or of ids.

**Metrics.** The offsets TrackLag asked for (`asked`) may be old when the broker answers with a
watermark. `LagInv` says that they are no larger than the committed ones and, once there is an
answer, that the watermark less the offset asked for is no less than the lag at that moment
(`TrackerOK`), for which commits must only advance, and for that the loop must not be behind its own commits
(`OffsetsOK`). `CountersInv` adds to `CountersTrue` that a message goes to the DLQ with one of
the error codes: the error counter is compared with the DLQ counters of two codes. Neither
theorem has hypotheses on the constants.

**LateBatch.** While statements are under way the tables are in no particular relation, so that
the properties, which speak of quiet moments, are far from inductive. `LateInv` speaks of all
versions of a row, the stored one and those of late statements: `ViewsMatch` says that the
newest version of a row in one view is what the newest version in the other shows, and
`AuditMatches` that the ids and history entries with those under way belong together. An
arriving statement only changes which version is stored, a batch adds versions that are newer
than all others (`CallOK`: no write timestamp is used twice), and when nothing is under way
the only version is the stored one. What the calls read is hardly in the invariant: a batch
agrees with itself whatever it was computed from. This fails for the totals, which are
computed from what was read: finding 6.

**Only model-checked.** All liveness properties (`LagShown`, `GaugesReturnToZero`,
`EverySettled`, `InvocationEnds`): the prover does not handle fairness or ENABLED. Every
invariant and every safety action property of a passing run is stated by a theorem, some of
them under the hypotheses named above. `NothingDropped` and the other properties of the
violated runs are only refuted. No module declares a RECURSIVE operator.

## 6. Not modelled, and why

* The replicas behind `QUORUM`: the repository only chooses the level, so that a model
  would have no code to be compared with. `LateBatch` assumes that a read returns the
  latest statement that has arrived.
* Order events in `LateBatch`: they read the totals once for each item.
* Crashes and redelivery in `Pipeline`, a growing topic in `Consumer`: each is in the other
  (`Metrics` has both, for one partition's worth of messages).
* A quantity of 2^32 + n, which the producer truncates to n and the handler books: the
  code has no check that could be stated.
* The health endpoint (stateless), the Schema Registry client and its scripts
  (configuration; a failing registry is `DecodeFails`), generated code, compose and
  monitoring files, `scripts/e2e.py` (its assertions are quoted in the findings).
* Texts of errors, logs, the JSON of a DLQ record beyond its slot and code, payload
  copies in `event_history`, `created_at` and `completed_at`, the duration histogram: no
  property is about them.

## 7. What is left

1. `NormalizeOrderItems` against a fold over the items, over bounded lists.
2. Refutations for the reservation that leaks when an order is created again, and for a
   legal release that is refused after a two-zone order. No document excludes either.
3. `LateBatch` with the order events, one step for each read of the totals.
4. Proofs: that `Pipeline` implements `StockLedger`, as `Consumer` does; that a created order
   and its completion leave the receipts minus what was shipped, for all event types.
