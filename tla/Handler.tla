------------------------------ MODULE Handler ------------------------------
(***************************************************************************)
(* The state handler of the warehouse consumer                             *)
(* (internal/handler/handler.go) over the Cassandra tables of              *)
(* migrations/001_init.cql, reached through internal/cassandra/session.go. *)
(*                                                                         *)
(* One step is one call of Handler.Handle: the consumer is one goroutine   *)
(* and the only writer of the tables, so the reads of a call and its       *)
(* logged batch are not interleaved with another call's.  Which event is   *)
(* handled next is left open: the topic has several partitions, product    *)
(* events and order events are keyed differently, and a message may be     *)
(* read again after a restart.                                             *)
(*                                                                         *)
(* A row that Cassandra does not hold reads as zeros (session.go:96, :113) *)
(* and is a zero row here.  0 is the zero time.Time of LastEvent.          *)
(***************************************************************************)
EXTENDS Integers, FiniteSets, Sequences, Sums

CONSTANTS
    Products,   \* non-empty product_id strings
    Zones,      \* non-empty zone_id strings
    Orders,     \* non-empty order_id strings
    EventIds,   \* non-empty event_id strings
    Suppliers,  \* supplier_id values a schema v2 event may carry
    None,       \* the empty string, or an absent optional field
    Events      \* the decoded messages that may reach Handle

VARIABLES
    inventory,  \* inventory_by_product_zone, by <<product, zone>>
    byZone,     \* inventory_by_zone, by <<zone, product>>
    totals,     \* inventory_totals, by product
    orders,     \* orders, by order
    processed,  \* processed_events: the event ids
    history,    \* event_history: its primary keys
    err         \* the code of the error the last call of Handle returned

tables == <<inventory, byZone, totals, orders, processed, history>>
vars   == <<inventory, byZone, totals, orders, processed, history, err>>

Keys == Products \X Zones

-----------------------------------------------------------------------------
(* Messages: event_id, timestamp (Unix ms) and the oneof payload.          *)

Quantity == Int    \* int32; the handler widens it to int64 before any sum

Line == [product : Products \cup {None}, zone : Zones \cup {None},
         quantity : Quantity]

Payload ==
         [type : {"PRODUCT_RECEIVED"}, product : Products \cup {None},
          zone : Zones \cup {None}, quantity : Quantity,
          supplier : Suppliers \cup {None}]
    \cup [type : {"PRODUCT_SHIPPED", "INVENTORY_COUNTED"},
          product : Products \cup {None}, zone : Zones \cup {None},
          quantity : Quantity]
    \cup [type : {"PRODUCT_MOVED"}, product : Products \cup {None},
          from : Zones \cup {None}, to : Zones \cup {None},
          quantity : Quantity]
    \cup [type : {"PRODUCT_RESERVED", "PRODUCT_RELEASED"},
          product : Products \cup {None}, zone : Zones \cup {None},
          quantity : Quantity, order : Orders \cup {None}]
    \cup [type : {"ORDER_CREATED"}, order : Orders \cup {None},
          items : Seq(Line)]
    \cup [type : {"ORDER_COMPLETED"}, order : Orders \cup {None}]
    \cup [type : {"UNSET"}]

Event == [id : EventIds \cup {None}, timestamp : Int, payload : Payload]

ASSUME EventsAssumption == Events \subseteq Event

ASSUME SetsAssumption ==
    /\ IsFiniteSet(Products)
    /\ IsFiniteSet(Zones)
    /\ IsFiniteSet(Orders)
    /\ None \notin Products \cup Zones \cup Orders \cup EventIds

-----------------------------------------------------------------------------
(* Rows and error codes.                                                   *)

Ok         == ""
Validation == "VALIDATION_ERROR"
Processing == "PROCESSING_ERROR"

Row    == [available : Int, reserved : Int, last : Nat,
           supplier : Suppliers \cup {None}]
Cells  == [available : Int, reserved : Int, last : Nat]
\* The items column: the quantity the order takes from each row, 0 if none.
Order  == [status : {"ABSENT", "CREATED", "COMPLETED"},
           items : [Keys -> Nat], last : Nat]

ZeroRow   == [available |-> 0, reserved |-> 0, last |-> 0, supplier |-> None]
ZeroCells == [available |-> 0, reserved |-> 0, last |-> 0]
NoOrder   == [status |-> "ABSENT", items |-> [k \in Keys |-> 0], last |-> 0]

Init ==
    /\ inventory = [k \in Keys |-> ZeroRow]
    /\ byZone = [k \in Zones \X Products |-> ZeroCells]
    /\ totals = [p \in Products |-> ZeroCells]
    /\ orders = [o \in Orders |-> NoOrder]
    /\ processed = {}
    /\ history = {}
    /\ err = Ok

-----------------------------------------------------------------------------
(* The batch.  A line is the change a handler makes to the quantities of   *)
(* one row; lines is a function from keys to lines.                        *)

Change(a, r) == [available |-> a, reserved |-> r]

OneLine(k, a, r) == [x \in {k} |-> Change(a, r)]

ProductsOf(lines) == {k[1] : k \in DOMAIN lines}

PutInventory(row, line, e, supplier) ==
    [available |-> row.available + line.available,
     reserved  |-> row.reserved + line.reserved,
     last      |-> e.timestamp,
     supplier  |-> IF supplier = None THEN row.supplier ELSE supplier]

\* Mutant of PutZoneInventory: one column is not put.
PutZoneAvailable(row) ==
    [available |-> row.available, reserved |-> 0, last |-> row.last]

PutZoneInventory(row) ==
    [available |-> row.available, reserved |-> row.reserved,
     last |-> row.last]

\* Cassandra keeps the larger of two values written to one cell with one
\* write timestamp; all statements of a batch share theirs.
Reconcile(values) == MaxOf(values)

\* One statement is put for every line of the product, each computed from
\* the totals row as it was read, before the batch.
PutTotals(p, lines, e) ==
    LET own == {k \in DOMAIN lines : k[1] = p}
    IN  [available |->
           Reconcile({totals[p].available + lines[k].available : k \in own}),
         reserved |->
           Reconcile({totals[p].reserved + lines[k].reserved : k \in own}),
         last |-> e.timestamp]

\* Mutant of PutHistory: only changes of the available stock are recorded.
PutAvailableHistory(lines, e) ==
    {[product |-> k[1], timestamp |-> e.timestamp, id |-> e.id] :
        k \in {k \in DOMAIN lines : lines[k].available # 0}}

PutHistory(lines, e) ==
    {[product |-> p, timestamp |-> e.timestamp, id |-> e.id] :
        p \in ProductsOf(lines)}

\* The logged batch is written in full.  The coordinator's answer may be a
\* timeout all the same, which the handler returns as an error.  A batch of
\* which nothing is written is StoreFails.
ExecBatch(e, lines, supplier, summed, newOrders) ==
    /\ inventory' = [k \in Keys |->
           IF k \in DOMAIN lines
             THEN PutInventory(inventory[k], lines[k], e, supplier)
             ELSE inventory[k]]
    /\ byZone' = [k \in Zones \X Products |->
           IF <<k[2], k[1]>> \in DOMAIN lines
             THEN PutZoneInventory(inventory'[<<k[2], k[1]>>])
             ELSE byZone[k]]
    /\ totals' = [p \in Products |->
           IF p \in summed THEN PutTotals(p, lines, e) ELSE totals[p]]
    /\ orders' = newOrders
    /\ processed' = processed \cup {e.id}
    /\ history' = history \cup PutHistory(lines, e)
    /\ err' \in {Ok, Processing}

Return(code) == err' = code /\ UNCHANGED tables

-----------------------------------------------------------------------------
(* Checks.                                                                 *)

\* Mutant of Stamped: an event without an id passes.
StampedWithoutId(e) == e.timestamp > 0

Stamped(e) == e.id # None /\ e.timestamp > 0

\* Mutant of Dispatched: processed_events is not consulted.
DispatchedAgain(e, type) == Stamped(e) /\ e.payload.type = type

\* The event passes Handle's own checks and its payload is of this type.
Dispatched(e, type) ==
    Stamped(e) /\ e.id \notin processed /\ e.payload.type = type

ValidProductZoneQty(line) ==
    line.product # None /\ line.zone # None /\ line.quantity > 0

IsOld(e, last) == last # 0 /\ e.timestamp =< last

IsOldZoneEvent(e, p, z) == IsOld(e, inventory[<<p, z>>].last)

\* Mutant of IsOldOrderEvent: a new order is compared with the clocks of rows.
IsOldItemsEvent(e, o) ==
    \E i \in DOMAIN e.payload.items :
        IsOldZoneEvent(e, e.payload.items[i].product, e.payload.items[i].zone)

IsOldOrderEvent(e, o) == orders[o].status # "ABSENT" /\ IsOld(e, orders[o].last)

ValidItems(items) ==
    items # << >> /\ \A i \in DOMAIN items : ValidProductZoneQty(items[i])

\* Lines of one product and zone are merged and their quantities added.
NormalizeOrderItems(items) ==
    LET linesOf(k) == {i \in DOMAIN items :
                         <<items[i].product, items[i].zone>> = k}
    IN  [k \in Keys |-> SumOver([i \in linesOf(k) |-> items[i].quantity])]

\* The early returns every handler has, in the code's order: a payload error,
\* an event that is not newer than what it would overwrite, a stock error.
Decline(valid, old, short) ==
    \/ ~valid /\ Return(Validation)
    \/ valid /\ old /\ Return(Ok)
    \/ valid /\ ~old /\ short /\ Return(Validation)

Accepted(valid, old, short) == valid /\ ~old /\ ~short

-----------------------------------------------------------------------------
(* Handle: its own returns, then one action per payload.                   *)

RejectUnstamped(e) == ~Stamped(e) /\ Return(Validation)

\* Any store call may fail and leave the tables as they are: a read, or the
\* batch; it does too when the context is cancelled in the middle of a call.
StoreFails(e) == Stamped(e) /\ Return(Processing)

SkipDuplicate(e) == Stamped(e) /\ e.id \in processed /\ Return(Ok)

RejectUnknown(e) == Dispatched(e, "UNSET") /\ Return(Validation)

\* The shape of a handler: the early returns, or the batch.
Checked(valid, old, short, Batch) ==
    \/ Decline(valid, old, short)
    \/ Accepted(valid, old, short) /\ Batch

\* A handler of one row: a and r are added to its quantities and, for the
\* products in summed, to the totals.
OneRow(e, valid, short, a, r, supplier, summed) ==
    LET m == e.payload
    IN  Checked(valid, IsOldZoneEvent(e, m.product, m.zone), short,
                ExecBatch(e, OneLine(<<m.product, m.zone>>, a, r), supplier,
                          summed, orders))

\* The stock checks look at the row and at the totals.
TooFewAvailable(k, n) ==
    inventory[k].available < n \/ totals[k[1]].available < n

TooFewReserved(k, n) ==
    inventory[k].reserved < n \/ totals[k[1]].reserved < n

\* Mutant of HandleProductReceived: the totals are not put.
ReceivedWithoutTotals(e) ==
    LET m == e.payload
    IN  /\ Dispatched(e, "PRODUCT_RECEIVED")
        /\ OneRow(e, ValidProductZoneQty(m), FALSE,
                  m.quantity, 0, m.supplier, {})

HandleProductReceived(e) ==
    LET m == e.payload
    IN  /\ Dispatched(e, "PRODUCT_RECEIVED")
        /\ OneRow(e, ValidProductZoneQty(m), FALSE,
                  m.quantity, 0, m.supplier, {m.product})

\* Mutant of HandleProductShipped: only the totals are checked for stock.
ShippedFromTotals(e) ==
    LET m == e.payload
    IN  /\ Dispatched(e, "PRODUCT_SHIPPED")
        /\ OneRow(e, ValidProductZoneQty(m),
                  totals[m.product].available < m.quantity,
                  -m.quantity, 0, None, {m.product})

HandleProductShipped(e) ==
    LET m == e.payload
    IN  /\ Dispatched(e, "PRODUCT_SHIPPED")
        /\ OneRow(e, ValidProductZoneQty(m),
                  TooFewAvailable(<<m.product, m.zone>>, m.quantity),
                  -m.quantity, 0, None, {m.product})

\* A move is compared with the clocks of these zones.
MoveBetween(e, zones) ==
    LET m == e.payload
        valid == /\ m.product # None /\ m.from # None /\ m.to # None
                 /\ m.from # m.to
                 /\ m.quantity > 0
        lines == [k \in {<<m.product, m.from>>, <<m.product, m.to>>} |->
                    IF k[2] = m.from THEN Change(-m.quantity, 0)
                                     ELSE Change(m.quantity, 0)]
    IN  Checked(valid,
                \E z \in zones : IsOldZoneEvent(e, m.product, z),
                inventory[<<m.product, m.from>>].available < m.quantity,
                ExecBatch(e, lines, None, {}, orders))

\* Mutant of HandleProductMoved: the clock of the destination is not checked.
MovedIntoNewerZone(e) ==
    Dispatched(e, "PRODUCT_MOVED") /\ MoveBetween(e, {e.payload.from})

HandleProductMoved(e) ==
    Dispatched(e, "PRODUCT_MOVED") /\ MoveBetween(e, {e.payload.from, e.payload.to})

HandleProductReserved(e) ==
    LET m == e.payload
    IN  /\ Dispatched(e, "PRODUCT_RESERVED")
        /\ OneRow(e, ValidProductZoneQty(m) /\ m.order # None,
                  TooFewAvailable(<<m.product, m.zone>>, m.quantity),
                  -m.quantity, m.quantity, None, {m.product})

HandleProductReleased(e) ==
    LET m == e.payload
    IN  /\ Dispatched(e, "PRODUCT_RELEASED")
        /\ OneRow(e, ValidProductZoneQty(m) /\ m.order # None,
                  TooFewReserved(<<m.product, m.zone>>, m.quantity),
                  m.quantity, -m.quantity, None, {m.product})

\* The counted row's available quantity becomes m.quantity.
Count(e, summed) ==
    LET m == e.payload
    IN  OneRow(e,
               m.product # None /\ m.zone # None /\ m.quantity >= 0, FALSE,
               m.quantity - inventory[<<m.product, m.zone>>].available, 0,
               None, summed)

\* Mutant of HandleInventoryCounted: the totals keep the old count.
CountedWithoutTotals(e) ==
    Dispatched(e, "INVENTORY_COUNTED") /\ Count(e, {})

HandleInventoryCounted(e) ==
    Dispatched(e, "INVENTORY_COUNTED") /\ Count(e, {e.payload.product})

HandleOrderCreated(e) ==
    LET m == e.payload
        items == NormalizeOrderItems(m.items)
        used == {k \in Keys : items[k] > 0}
        lines == [k \in used |-> Change(-items[k], items[k])]
        row == [status |-> "CREATED", items |-> items, last |-> e.timestamp]
    IN  /\ Dispatched(e, "ORDER_CREATED")
        /\ Checked(m.order # None /\ ValidItems(m.items),
                   IsOldOrderEvent(e, m.order),
                   \E k \in used : TooFewAvailable(k, items[k]),
                   ExecBatch(e, lines, None, ProductsOf(lines),
                             [orders EXCEPT ![m.order] = row]))

\* An order that is done is skipped.
CompleteOrder(e, done) ==
    LET m == e.payload
        items == orders[m.order].items
        used == {k \in Keys : items[k] > 0}
        lines == [k \in used |-> Change(0, -items[k])]
    IN  Checked(m.order # None /\ orders[m.order].status # "ABSENT",
                IsOldOrderEvent(e, m.order) \/ done,
                \E k \in used : TooFewReserved(k, items[k]),
                ExecBatch(e, lines, None, ProductsOf(lines),
                          [orders EXCEPT ![m.order].status = "COMPLETED",
                                         ![m.order].last = e.timestamp]))

\* Mutant of HandleOrderCompleted: a completed order is completed again.
CompletedTwice(e) ==
    Dispatched(e, "ORDER_COMPLETED") /\ CompleteOrder(e, FALSE)

HandleOrderCompleted(e) ==
    /\ Dispatched(e, "ORDER_COMPLETED")
    /\ CompleteOrder(e, orders[e.payload.order].status = "COMPLETED")

Handle(e) ==
    \/ RejectUnstamped(e)
    \/ StoreFails(e)
    \/ SkipDuplicate(e)
    \/ RejectUnknown(e)
    \/ HandleProductReceived(e)
    \/ HandleProductShipped(e)
    \/ HandleProductMoved(e)
    \/ HandleProductReserved(e)
    \/ HandleProductReleased(e)
    \/ HandleInventoryCounted(e)
    \/ HandleOrderCreated(e)
    \/ HandleOrderCompleted(e)

Next == \E e \in Events : Handle(e)

Spec == Init /\ [][Next]_vars

-----------------------------------------------------------------------------
(* Properties.                                                             *)

TypeOK ==
    /\ inventory \in [Keys -> Row]
    /\ byZone \in [Zones \X Products -> Cells]
    /\ totals \in [Products -> Cells]
    /\ orders \in [Orders -> Order]
    /\ processed \subseteq EventIds
    /\ history \subseteq [product : Products, timestamp : Nat, id : EventIds]
    /\ err \in {Ok, Validation, Processing}

\* The quantities of a product, by zone.
AvailableIn(p) == [z \in Zones |-> inventory[<<p, z>>].available]
ReservedIn(p)  == [z \in Zones |-> inventory[<<p, z>>].reserved]

\* No sequence of accepted events drives a quantity below zero, in the rows
\* or in the totals: INVENTORY_COUNTED and PRODUCT_MOVED do not check the
\* totals and PRODUCT_RECEIVED checks nothing (handler.go:75-103, 134-176,
\* 246-273).
NonNegative ==
    /\ \A k \in Keys : inventory[k].available >= 0 /\ inventory[k].reserved >= 0
    /\ \A p \in Products : totals[p].available >= 0 /\ totals[p].reserved >= 0

\* inventory_totals is the sum of the product's rows over all zones.  The
\* handlers keep the two side by side by increments (handler.go:88-90,
\* 117-119, 193-197, 227-231, 261-263, 303-306, 355-356); PRODUCT_MOVED writes
\* no totals.  Holds while no order takes one product from two zones.
TotalsMatchZones ==
    \A p \in Products : /\ totals[p].available = SumOver(AvailableIn(p))
                        /\ totals[p].reserved = SumOver(ReservedIn(p))

\* An order with one product in two zones puts two totals rows in one batch
\* (handler.go:298-316).  What survives of them never understates the stock
\* that is available, so the totals half of the stock checks never refuses
\* what the zone has.
TotalsCoverZones ==
    \A p \in Products : totals[p].available >= SumOver(AvailableIn(p))

\* The two tables keyed by product and by zone hold the same rows, through
\* every handler and every failed batch (putInventory, putZoneInventory).
ViewsAgree ==
    \A k \in Keys :
        byZone[<<k[2], k[1]>>] = [available |-> inventory[k].available,
                                  reserved  |-> inventory[k].reserved,
                                  last      |-> inventory[k].last]

\* An event is marked processed exactly when event_history shows it, and every
\* row's last_event_timestamp is that of an event in its product's history.
AuditTrail ==
    /\ processed = {h.id : h \in history}
    /\ \A k \in Keys : inventory[k].last # 0 =>
         \E h \in history : h.product = k[1] /\ h.timestamp = inventory[k].last

\* The orders still open, and what they hold of row k.
OpenItems(k) ==
    SumOver([o \in {o \in Orders : orders[o].status = "CREATED"} |->
               orders[o].items[k]])

\* What PRODUCT_RELEASED events took back from row k.  They name an order and
\* are not checked against the orders table (handler.go:212-244).
Releases ==
    {e \in Events : /\ e.payload.type = "PRODUCT_RELEASED"
                    /\ ValidProductZoneQty(e.payload)}

ReleasedFrom(k) ==
    SumOver([e \in Releases |->
               IF e.id \in processed /\ <<e.payload.product, e.payload.zone>> = k
                 THEN e.payload.quantity ELSE 0])

\* What open orders took is still reserved in the row they took it from, so
\* that ORDER_COMPLETED can consume it, but for what was released by hand:
\* neither orders that are created again or completed, nor counts and moves,
\* use up the reservation of an open one (handler.go:298-306, 335, 350-356).
OpenOrdersCovered ==
    \A k \in Keys : OpenItems(k) =< inventory[k].reserved + ReleasedFrom(k)

\* Only an order event may set a row's last_event_timestamp back: order events
\* are compared with the order's clock alone (handler.go:284, 325) and stamp
\* the rows they touch (handler.go:310, 360).
OnlyOrdersRewindZone ==
    [][\A k \in Keys : inventory'[k].last < inventory[k].last
                         => orders' # orders]_vars

\* A row's last_event_timestamp never goes back, so that an event older than
\* one already applied to the row is cut off (README.md:95).
ZoneClockForward ==
    [][\A k \in Keys : inventory'[k].last >= inventory[k].last]_vars

\* No order takes one product from two zones.
OrdersNameProductOnce ==
    \A e \in Events : e.payload.type = "ORDER_CREATED" =>
        \A i, j \in DOMAIN e.payload.items :
            e.payload.items[i].product = e.payload.items[j].product
                => e.payload.items[i].zone = e.payload.items[j].zone

-----------------------------------------------------------------------------
(* Handler implements the stock ledger: quantities change only by legal     *)
(* postings, and an event id posts at most once, however often its message  *)
(* is delivered and however its batch is answered.                         *)

Books == [k \in Keys |-> [available |-> inventory[k].available,
                          reserved  |-> inventory[k].reserved]]

Ledger == INSTANCE StockLedger WITH books <- Books, posted <- processed

\* Every step of the handler is a posting of StockLedger or leaves the books
\* and the posted ids alone (handler.go:33-73 and all eight handlers).
LedgerSpec == Ledger!Spec
=============================================================================
