--------------------------- MODULE HandlerProofs ---------------------------
(***************************************************************************)
(* Theorems about Handler, for every choice of its constants.               *)
(*                                                                         *)
(* Every call of Handle either returns without touching the tables or       *)
(* executes one batch that is well formed and backed by stock               *)
(* (HandleCases).  An invariant of the tables is therefore proved once, for *)
(* such a batch.                                                            *)
(***************************************************************************)
EXTENDS Handler, SumsProofs

\* What every handler puts into its batch.
WellFormed(e, lines, supplier, summed, newOrders) ==
    /\ e.id \in EventIds
    /\ e.timestamp \in Nat /\ e.timestamp > 0
    /\ DOMAIN lines \subseteq Keys /\ DOMAIN lines # {}
    /\ lines \in [DOMAIN lines -> [available : Int, reserved : Int]]
    /\ supplier \in Suppliers \cup {None}
    /\ summed \subseteq ProductsOf(lines)
    /\ newOrders \in [Orders -> Order]

LinesOf(lines, p) == {k \in DOMAIN lines : k[1] = p}

\* The stock a batch takes is there: no row and no reserved total it writes
\* goes below zero.
Backed(lines, summed) ==
    /\ \A k \in DOMAIN lines :
         /\ inventory[k].available + lines[k].available >= 0
         /\ inventory[k].reserved + lines[k].reserved >= 0
    /\ \A p \in summed : \A k \in LinesOf(lines, p) :
         totals[p].reserved + lines[k].reserved >= 0

\* At most one line of a product brings available stock into its totals.
OneInflow(lines, summed) ==
    \A p \in summed : \E k0 \in LinesOf(lines, p) :
        \A k \in LinesOf(lines, p) \ {k0} : lines[k].available =< 0

\* A product whose totals the batch does not put is only moved.
OnlyMoved(lines, summed) ==
    \A p \in ProductsOf(lines) \ summed : \E from, to \in Zones :
        /\ from # to
        /\ LinesOf(lines, p) = {<<p, from>>, <<p, to>>}
        /\ lines[<<p, from>>].available + lines[<<p, to>>].available = 0
        /\ lines[<<p, from>>].reserved = 0 /\ lines[<<p, to>>].reserved = 0

\* The orders table names no product of an order in two zones.
OrdersStoreProductOnce ==
    \A o \in Orders : \A k, l \in Keys :
        /\ orders[o].items[k] > 0 /\ orders[o].items[l] > 0
        /\ k[1] = l[1]
        => k = l

\* Each product whose totals the batch puts has one line.
OneLineEach(lines, summed) ==
    \A p \in summed : \E k0 \in Keys : k0[1] = p /\ LinesOf(lines, p) = {k0}

\* What the handlers' checks ensure of a batch.
Sound(lines, summed) ==
    /\ NonNegative => Backed(lines, summed)
    /\ OneInflow(lines, summed)
    /\ OnlyMoved(lines, summed)
    /\ OrdersNameProductOnce /\ OrdersStoreProductOnce
         => OneLineEach(lines, summed)

\* The orders table holds no order without items.
OrdersHaveItems ==
    \A o \in Orders : orders[o].status # "ABSENT"
                        => \E k \in Keys : orders[o].items[k] > 0

-----------------------------------------------------------------------------
(* Messages and helpers.                                                   *)

LEMMA KeysFinite == IsFiniteSet(Keys)
BY SetsAssumption, FS_Product DEF Keys

\* An event Handle gets past its own checks has an id and a positive time.
LEMMA StampedType ==
    ASSUME NEW e \in Events, Stamped(e)
    PROVE  e.id \in EventIds /\ e.timestamp \in Nat /\ e.timestamp > 0
BY EventsAssumption DEF Event, Stamped

\* The fields of the payloads, by type.
LEMMA PayloadType ==
    ASSUME NEW e \in Events
    PROVE  /\ e.payload.type = "PRODUCT_RECEIVED" =>
                /\ e.payload.product \in Products \cup {None}
                /\ e.payload.zone \in Zones \cup {None}
                /\ e.payload.quantity \in Int
                /\ e.payload.supplier \in Suppliers \cup {None}
           /\ e.payload.type \in {"PRODUCT_SHIPPED", "INVENTORY_COUNTED"} =>
                /\ e.payload.product \in Products \cup {None}
                /\ e.payload.zone \in Zones \cup {None}
                /\ e.payload.quantity \in Int
           /\ e.payload.type = "PRODUCT_MOVED" =>
                /\ e.payload.product \in Products \cup {None}
                /\ e.payload.from \in Zones \cup {None}
                /\ e.payload.to \in Zones \cup {None}
                /\ e.payload.quantity \in Int
           /\ e.payload.type \in {"PRODUCT_RESERVED", "PRODUCT_RELEASED"} =>
                /\ e.payload.product \in Products \cup {None}
                /\ e.payload.zone \in Zones \cup {None}
                /\ e.payload.quantity \in Int
           /\ e.payload.type = "ORDER_CREATED" =>
                /\ e.payload.order \in Orders \cup {None}
                /\ e.payload.items \in Seq(Line)
           /\ e.payload.type = "ORDER_COMPLETED" =>
                e.payload.order \in Orders \cup {None}
<1>1. e.payload \in Payload
  BY EventsAssumption DEF Event
<1> QED BY <1>1 DEF Payload, Quantity

\* Normalised items are quantities per row, and a valid order takes something.
LEMMA NormalizeType ==
    ASSUME NEW items \in Seq(Line), ValidItems(items)
    PROVE  /\ NormalizeOrderItems(items) \in [Keys -> Nat]
           /\ \E k \in Keys : NormalizeOrderItems(items)[k] > 0
<1> DEFINE linesOf(k) == {i \in DOMAIN items :
                            <<items[i].product, items[i].zone>> = k}
           term(k) == [i \in linesOf(k) |-> items[i].quantity]
<1>1. ASSUME NEW i \in DOMAIN items
      PROVE  /\ items[i].product \in Products
             /\ items[i].zone \in Zones
             /\ items[i].quantity \in Nat
             /\ items[i].quantity > 0
  <2>1. items[i] \in Line
    OBVIOUS
  <2> QED BY <1>1, <2>1 DEF ValidItems, ValidProductZoneQty, Line, Quantity
<1>2. ASSUME NEW k \in Keys
      PROVE  /\ IsFiniteSet(linesOf(k))
             /\ term(k) \in [linesOf(k) -> Nat]
             /\ SumOver(term(k)) \in Nat
  <2>1. DOMAIN items = 1 .. Len(items) /\ Len(items) \in Nat
    OBVIOUS
  <2>2. IsFiniteSet(DOMAIN items)
    BY <2>1, FS_Interval
  <2>3. IsFiniteSet(linesOf(k))
    BY <2>2, FS_Subset
  <2>4. term(k) \in [linesOf(k) -> Nat]
    BY <1>1
  <2> HIDE DEF linesOf, term
  <2> QED BY <2>3, <2>4, SumType
<1>3. NormalizeOrderItems(items) = [k \in Keys |-> SumOver(term(k))]
  BY DEF NormalizeOrderItems
<1>4. \E k \in Keys : SumOver(term(k)) > 0
  <2>1. 1 \in DOMAIN items
    BY DEF ValidItems
  <2> DEFINE k1 == <<items[1].product, items[1].zone>>
  <2>2. k1 \in Keys
    BY <1>1, <2>1 DEF Keys
  <2>3. 1 \in linesOf(k1) /\ term(k1)[1] = items[1].quantity
    BY <2>1
  <2>4. term(k1)[1] > 0 /\ term(k1)[1] \in Nat
    BY <1>1, <2>1, <2>3
  <2>5. /\ IsFiniteSet(linesOf(k1))
        /\ term(k1) \in [linesOf(k1) -> Nat]
        /\ SumOver(term(k1)) \in Nat
    BY <1>2, <2>2
  <2> HIDE DEF linesOf, term, k1
  <2>6. term(k1)[1] =< SumOver(term(k1))
    BY <2>3, <2>5, SumTerm
  <2> QED BY <2>2, <2>4, <2>5, <2>6
<1> HIDE DEF term
<1> QED BY <1>2, <1>3, <1>4

-----------------------------------------------------------------------------
(* Each handler, when it accepts the event, executes a well-formed batch.   *)

\* What a call of Handle does to the tables.
BatchOrNothing(e) ==
    \/ UNCHANGED tables /\ err' \in {Ok, Validation, Processing}
    \/ \E lines, supplier, summed, newOrders :
         /\ WellFormed(e, lines, supplier, summed, newOrders)
         /\ Sound(lines, summed)
         /\ ExecBatch(e, lines, supplier, summed, newOrders)

LEMMA DeclineCases ==
    ASSUME NEW e, NEW valid, NEW old, NEW short, Decline(valid, old, short)
    PROVE  BatchOrNothing(e)
BY DEF Decline, Return, BatchOrNothing

\* The handlers of one row.
LEMMA OneLineCases ==
    ASSUME NEW e \in Events, Stamped(e),
           NEW p \in Products, NEW z \in Zones, NEW a \in Int, NEW r \in Int,
           NEW supplier \in Suppliers \cup {None}, TypeOK,
           NonNegative =>
             /\ inventory[<<p, z>>].available + a >= 0
             /\ inventory[<<p, z>>].reserved + r >= 0
             /\ totals[p].reserved + r >= 0,
           ExecBatch(e, OneLine(<<p, z>>, a, r), supplier, {p}, orders)
    PROVE  BatchOrNothing(e)
<1> DEFINE lines == OneLine(<<p, z>>, a, r)
<1>1. /\ DOMAIN lines = {<<p, z>>}
      /\ lines \in [DOMAIN lines -> [available : Int, reserved : Int]]
      /\ lines[<<p, z>>].available = a /\ lines[<<p, z>>].reserved = r
  BY DEF OneLine, Change
<1>2. <<p, z>> \in Keys
  BY DEF Keys
<1>3. ProductsOf(lines) = {p} /\ LinesOf(lines, p) = {<<p, z>>}
  <2> HIDE DEF lines
  <2> QED BY <1>1 DEF ProductsOf, LinesOf
<1>4. orders \in [Orders -> Order]
  BY DEF TypeOK
<1> HIDE DEF lines
<1>5. WellFormed(e, lines, supplier, {p}, orders)
  BY <1>1, <1>2, <1>3, <1>4, StampedType DEF WellFormed
<1>6. Sound(lines, {p})
  <2>1. NonNegative => Backed(lines, {p})
    BY <1>1, <1>3 DEF Backed
  <2>2. OneInflow(lines, {p})
    BY <1>3 DEF OneInflow
  <2>3. OnlyMoved(lines, {p})
    BY <1>3 DEF OnlyMoved
  <2>4. OneLineEach(lines, {p})
    BY <1>2, <1>3 DEF OneLineEach
  <2> QED BY <2>1, <2>2, <2>3, <2>4 DEF Sound
<1> QED BY <1>5, <1>6 DEF BatchOrNothing, lines

\* The handlers of orders: a line for every row the items take from.
LEMMA OrderLinesCases ==
    ASSUME NEW e \in Events, Stamped(e),
           NEW items \in [Keys -> Nat], \E k \in Keys : items[k] > 0,
           NEW lines,
           DOMAIN lines = {k \in Keys : items[k] > 0},
           lines \in [DOMAIN lines -> [available : Int, reserved : Int]],
           \A k \in DOMAIN lines : lines[k].available =< 0,
           NonNegative => \A k \in DOMAIN lines :
             /\ inventory[k].available + lines[k].available >= 0
             /\ inventory[k].reserved + lines[k].reserved >= 0
             /\ totals[k[1]].reserved + lines[k].reserved >= 0,
           OrdersNameProductOnce /\ OrdersStoreProductOnce =>
             \A k, l \in Keys : items[k] > 0 /\ items[l] > 0 /\ k[1] = l[1]
                                  => k = l,
           NEW newOrders \in [Orders -> Order],
           ExecBatch(e, lines, None, ProductsOf(lines), newOrders)
    PROVE  BatchOrNothing(e)
<1> DEFINE summed == ProductsOf(lines)
<1>1. WellFormed(e, lines, None, summed, newOrders)
  BY StampedType DEF WellFormed
<1>2. \A p \in summed : \E k \in DOMAIN lines : k[1] = p
  BY DEF ProductsOf
<1>3. NonNegative => Backed(lines, summed)
  BY DEF Backed, LinesOf
<1>4. OneInflow(lines, summed)
  BY <1>2 DEF OneInflow, LinesOf
<1>5. OnlyMoved(lines, summed)
  BY DEF OnlyMoved
<1>6. ASSUME OrdersNameProductOnce, OrdersStoreProductOnce
      PROVE  OneLineEach(lines, summed)
  <2> SUFFICES ASSUME NEW p \in summed
               PROVE  \E k0 \in Keys : k0[1] = p /\ LinesOf(lines, p) = {k0}
    BY DEF OneLineEach
  <2>1. PICK k0 \in DOMAIN lines : k0[1] = p
    BY <1>2
  <2>2. \A k \in LinesOf(lines, p) : k = k0
    BY <1>6, <2>1 DEF LinesOf
  <2>3. k0 \in LinesOf(lines, p)
    BY <2>1 DEF LinesOf
  <2> QED BY <2>1, <2>2, <2>3
<1>7. Sound(lines, summed)
  BY <1>3, <1>4, <1>5, <1>6 DEF Sound
<1> QED BY <1>1, <1>7 DEF BatchOrNothing

\* An order that names each product once takes it from one row.
LEMMA NormalizeOnce ==
    ASSUME NEW e \in Events, e.payload.type = "ORDER_CREATED",
           OrdersNameProductOnce, ValidItems(e.payload.items),
           NEW k \in Keys, NEW l \in Keys, k[1] = l[1],
           NormalizeOrderItems(e.payload.items)[k] > 0,
           NormalizeOrderItems(e.payload.items)[l] > 0
    PROVE  k = l
<1> DEFINE items == e.payload.items
           linesOf(x) == {i \in DOMAIN items :
                            <<items[i].product, items[i].zone>> = x}
           term(x) == [i \in linesOf(x) |-> items[i].quantity]
<1>1. ASSUME NEW x \in Keys, NormalizeOrderItems(items)[x] > 0
      PROVE  linesOf(x) # {}
  <2> SUFFICES ASSUME linesOf(x) = {} PROVE FALSE
    OBVIOUS
  <2>1. NormalizeOrderItems(items)[x] = SumOver(term(x))
    BY DEF NormalizeOrderItems
  <2>2. term(x) \in [{} -> Nat]
    OBVIOUS
  <2>3. SumOver(term(x)) = 0
    <3> HIDE DEF term
    <3>1. IsFiniteSet({})
      BY FS_EmptySet
    <3> QED BY <2>2, <3>1, SumZero
  <2> QED BY <1>1, <2>1, <2>3
<1>2. PICK i \in DOMAIN items : <<items[i].product, items[i].zone>> = k
  BY <1>1
<1>3. PICK j \in DOMAIN items : <<items[j].product, items[j].zone>> = l
  BY <1>1
<1>4. items[i].product = items[j].product
  BY <1>2, <1>3
<1>5. items[i].zone = items[j].zone
  BY <1>4 DEF OrdersNameProductOnce
<1> QED BY <1>2, <1>3, <1>5

\* The quantities of the row and the totals a key leads to are numbers.
LEMMA KeyRowsType ==
    ASSUME TypeOK, NEW k \in Keys
    PROVE  /\ k[1] \in Products
           /\ inventory[k].available \in Int /\ inventory[k].reserved \in Int
           /\ totals[k[1]].available \in Int /\ totals[k[1]].reserved \in Int
BY DEF TypeOK, Row, Cells, Keys

\* What a call of Handle does, one step per action.
LEMMA HandleCases ==
    ASSUME TypeOK, OrdersHaveItems, NEW e \in Events, Handle(e)
    PROVE  BatchOrNothing(e)
<1>1. CASE RejectUnstamped(e)
  BY <1>1 DEF RejectUnstamped, Return, BatchOrNothing
<1>2. CASE StoreFails(e)
  BY <1>2 DEF StoreFails, Return, BatchOrNothing
<1>3. CASE SkipDuplicate(e)
  BY <1>3 DEF SkipDuplicate, Return, BatchOrNothing
<1>4. CASE RejectUnknown(e)
  BY <1>4 DEF RejectUnknown, Return, BatchOrNothing
<1>5. CASE HandleProductReceived(e)
  <2> DEFINE m == e.payload
             k == <<m.product, m.zone>>
  <2>1. Stamped(e) /\ m.type = "PRODUCT_RECEIVED"
    BY <1>5 DEF HandleProductReceived, OneRow, Checked, Dispatched
  <2>2. CASE /\ ValidProductZoneQty(m)
             /\ ExecBatch(e, OneLine(k, m.quantity,
                                     0),
                          m.supplier, {m.product}, orders)
    <3>1. /\ m.product \in Products /\ m.zone \in Zones
          /\ m.quantity \in Int /\ m.quantity >= 0
      BY <2>1, <2>2, PayloadType DEF ValidProductZoneQty
    <3>2. k \in Keys
      BY <3>1 DEF Keys
    <3>3. /\ inventory[k].available \in Int /\ inventory[k].reserved \in Int
          /\ totals[m.product].reserved \in Int
      BY <3>1, <3>2 DEF TypeOK, Row, Cells
    <3>4. (m.quantity) \in Int /\ (0) \in Int
      BY <3>1, <3>3
    <3>5. m.supplier \in Suppliers \cup {None}
      BY <2>1, PayloadType
    <3>6. NonNegative =>
            /\ inventory[k].available + (m.quantity) >= 0
            /\ inventory[k].reserved + (0) >= 0
            /\ totals[m.product].reserved + (0) >= 0
      BY <2>2, <3>1, <3>2, <3>3 DEF NonNegative
    <3> HIDE DEF m
    <3> QED BY <2>1, <2>2, <3>1, <3>4, <3>5, <3>6, OneLineCases
  <2> QED BY <1>5, <2>2, DeclineCases
        DEF HandleProductReceived, OneRow, Checked, Accepted
<1>6. CASE HandleProductShipped(e)
  <2> DEFINE m == e.payload
             k == <<m.product, m.zone>>
  <2>1. Stamped(e) /\ m.type = "PRODUCT_SHIPPED"
    BY <1>6 DEF HandleProductShipped, OneRow, Checked, Dispatched
  <2>2. CASE /\ ValidProductZoneQty(m)
             /\ ~(inventory[k].available < m.quantity)
             /\ ExecBatch(e, OneLine(k, -m.quantity,
                                     0),
                          None, {m.product}, orders)
    <3>1. /\ m.product \in Products /\ m.zone \in Zones
          /\ m.quantity \in Int /\ m.quantity >= 0
      BY <2>1, <2>2, PayloadType DEF ValidProductZoneQty
    <3>2. k \in Keys
      BY <3>1 DEF Keys
    <3>3. /\ inventory[k].available \in Int /\ inventory[k].reserved \in Int
          /\ totals[m.product].reserved \in Int
      BY <3>1, <3>2 DEF TypeOK, Row, Cells
    <3>4. (-m.quantity) \in Int /\ (0) \in Int
      BY <3>1, <3>3
    <3>5. None \in Suppliers \cup {None}
      BY <2>1, PayloadType
    <3>6. NonNegative =>
            /\ inventory[k].available + (-m.quantity) >= 0
            /\ inventory[k].reserved + (0) >= 0
            /\ totals[m.product].reserved + (0) >= 0
      BY <2>2, <3>1, <3>2, <3>3 DEF NonNegative
    <3> HIDE DEF m
    <3> QED BY <2>1, <2>2, <3>1, <3>4, <3>5, <3>6, OneLineCases
  <2> QED BY <1>6, <2>2, DeclineCases
        DEF HandleProductShipped, OneRow, Checked, Accepted, TooFewAvailable
<1>7. CASE HandleProductMoved(e)
  <2> DEFINE m == e.payload
             from == <<m.product, m.from>>
             to == <<m.product, m.to>>
             lines == [k \in {from, to} |->
                         IF k[2] = m.from THEN Change(-m.quantity, 0)
                                          ELSE Change(m.quantity, 0)]
  <2>1. Stamped(e) /\ m.type = "PRODUCT_MOVED"
    BY <1>7 DEF HandleProductMoved, MoveBetween, Checked, Dispatched
  <2>2. CASE /\ m.product # None /\ m.from # None /\ m.to # None
             /\ m.from # m.to /\ m.quantity > 0
             /\ ~(inventory[from].available < m.quantity)
             /\ ExecBatch(e, lines, None, {}, orders)
    <3>1. /\ m.product \in Products /\ m.from \in Zones /\ m.to \in Zones
          /\ m.quantity \in Int
      BY <2>1, <2>2, PayloadType
    <3>2. from \in Keys /\ to \in Keys
      BY <3>1 DEF Keys
    <3>3. /\ DOMAIN lines = {from, to}
          /\ lines \in [DOMAIN lines -> [available : Int, reserved : Int]]
          /\ lines[from] = Change(-m.quantity, 0)
          /\ lines[to] = Change(m.quantity, 0)
      BY <2>2, <3>1 DEF Change
    <3>4. ProductsOf(lines) = {m.product}
      <4> HIDE DEF lines
      <4> QED BY <3>3 DEF ProductsOf
    <3>5. LinesOf(lines, m.product) = {from, to}
      <4> HIDE DEF lines
      <4> QED BY <3>3 DEF LinesOf
    <3> HIDE DEF lines
    <3>6. WellFormed(e, lines, None, {}, orders)
      BY <2>1, <3>2, <3>3, StampedType DEF WellFormed, TypeOK
    <3>7. NonNegative => Backed(lines, {})
      <4>1. /\ inventory[from].available \in Int /\ inventory[from].reserved \in Int
            /\ inventory[to].available \in Int /\ inventory[to].reserved \in Int
        BY <3>2 DEF TypeOK, Row
      <4> HIDE DEF from, to, m
      <4> QED BY <2>2, <3>1, <3>2, <3>3, <4>1
              DEF Backed, NonNegative, Change
    <3>8. OnlyMoved(lines, {})
      <4>1. /\ lines[from].available + lines[to].available = 0
            /\ lines[from].reserved = 0 /\ lines[to].reserved = 0
        BY <3>1, <3>3 DEF Change
      <4> QED BY <2>2, <3>1, <3>4, <3>5, <4>1 DEF OnlyMoved
    <3>9. Sound(lines, {})
      BY <3>7, <3>8 DEF Sound, OneInflow, OneLineEach
    <3> QED BY <2>2, <3>6, <3>9 DEF BatchOrNothing
  <2> QED BY <1>7, <2>2, DeclineCases
        DEF HandleProductMoved, MoveBetween, Checked, Accepted
<1>8. CASE HandleProductReserved(e)
  <2> DEFINE m == e.payload
             k == <<m.product, m.zone>>
  <2>1. Stamped(e) /\ m.type = "PRODUCT_RESERVED"
    BY <1>8 DEF HandleProductReserved, OneRow, Checked, Dispatched
  <2>2. CASE /\ ValidProductZoneQty(m)
             /\ ~(inventory[k].available < m.quantity)
             /\ ExecBatch(e, OneLine(k, -m.quantity,
                                     m.quantity),
                          None, {m.product}, orders)
    <3>1. /\ m.product \in Products /\ m.zone \in Zones
          /\ m.quantity \in Int /\ m.quantity >= 0
      BY <2>1, <2>2, PayloadType DEF ValidProductZoneQty
    <3>2. k \in Keys
      BY <3>1 DEF Keys
    <3>3. /\ inventory[k].available \in Int /\ inventory[k].reserved \in Int
          /\ totals[m.product].reserved \in Int
      BY <3>1, <3>2 DEF TypeOK, Row, Cells
    <3>4. (-m.quantity) \in Int /\ (m.quantity) \in Int
      BY <3>1, <3>3
    <3>5. None \in Suppliers \cup {None}
      BY <2>1, PayloadType
    <3>6. NonNegative =>
            /\ inventory[k].available + (-m.quantity) >= 0
            /\ inventory[k].reserved + (m.quantity) >= 0
            /\ totals[m.product].reserved + (m.quantity) >= 0
      BY <2>2, <3>1, <3>2, <3>3 DEF NonNegative
    <3> HIDE DEF m
    <3> QED BY <2>1, <2>2, <3>1, <3>4, <3>5, <3>6, OneLineCases
  <2> QED BY <1>8, <2>2, DeclineCases
        DEF HandleProductReserved, OneRow, Checked, Accepted, TooFewAvailable
<1>9. CASE HandleProductReleased(e)
  <2> DEFINE m == e.payload
             k == <<m.product, m.zone>>
  <2>1. Stamped(e) /\ m.type = "PRODUCT_RELEASED"
    BY <1>9 DEF HandleProductReleased, OneRow, Checked, Dispatched
  <2>2. CASE /\ ValidProductZoneQty(m)
             /\ ~(inventory[k].reserved < m.quantity)
             /\ ~(totals[m.product].reserved < m.quantity)
             /\ ExecBatch(e, OneLine(k, m.quantity,
                                     -m.quantity),
                          None, {m.product}, orders)
    <3>1. /\ m.product \in Products /\ m.zone \in Zones
          /\ m.quantity \in Int /\ m.quantity >= 0
      BY <2>1, <2>2, PayloadType DEF ValidProductZoneQty
    <3>2. k \in Keys
      BY <3>1 DEF Keys
    <3>3. /\ inventory[k].available \in Int /\ inventory[k].reserved \in Int
          /\ totals[m.product].reserved \in Int
      BY <3>1, <3>2 DEF TypeOK, Row, Cells
    <3>4. (m.quantity) \in Int /\ (-m.quantity) \in Int
      BY <3>1, <3>3
    <3>5. None \in Suppliers \cup {None}
      BY <2>1, PayloadType
    <3>6. NonNegative =>
            /\ inventory[k].available + (m.quantity) >= 0
            /\ inventory[k].reserved + (-m.quantity) >= 0
            /\ totals[m.product].reserved + (-m.quantity) >= 0
      BY <2>2, <3>1, <3>2, <3>3 DEF NonNegative
    <3> HIDE DEF m
    <3> QED BY <2>1, <2>2, <3>1, <3>4, <3>5, <3>6, OneLineCases
  <2> QED BY <1>9, <2>2, DeclineCases
        DEF HandleProductReleased, OneRow, Checked, Accepted, TooFewReserved
<1>10. CASE HandleInventoryCounted(e)
  <2> DEFINE m == e.payload
             k == <<m.product, m.zone>>
  <2>1. Stamped(e) /\ m.type = "INVENTORY_COUNTED"
    BY <1>10 DEF HandleInventoryCounted, Count, OneRow, Checked, Dispatched
  <2>2. CASE /\ m.product # None /\ m.zone # None /\ m.quantity >= 0
             /\ ExecBatch(e, OneLine(k, m.quantity - inventory[k].available,
                                     0),
                          None, {m.product}, orders)
    <3>1. /\ m.product \in Products /\ m.zone \in Zones
          /\ m.quantity \in Int /\ m.quantity >= 0
      BY <2>1, <2>2, PayloadType DEF ValidProductZoneQty
    <3>2. k \in Keys
      BY <3>1 DEF Keys
    <3>3. /\ inventory[k].available \in Int /\ inventory[k].reserved \in Int
          /\ totals[m.product].reserved \in Int
      BY <3>1, <3>2 DEF TypeOK, Row, Cells
    <3>4. (m.quantity - inventory[k].available) \in Int /\ (0) \in Int
      BY <3>1, <3>3
    <3>5. None \in Suppliers \cup {None}
      BY <2>1, PayloadType
    <3>6. NonNegative =>
            /\ inventory[k].available + (m.quantity - inventory[k].available) >= 0
            /\ inventory[k].reserved + (0) >= 0
            /\ totals[m.product].reserved + (0) >= 0
      BY <2>2, <3>1, <3>2, <3>3 DEF NonNegative
    <3> HIDE DEF m
    <3> QED BY <2>1, <2>2, <3>1, <3>4, <3>5, <3>6, OneLineCases
  <2> QED BY <1>10, <2>2, DeclineCases
        DEF HandleInventoryCounted, Count, OneRow, Checked, Accepted
<1>11. CASE HandleOrderCreated(e)
  <2> DEFINE m == e.payload
             items == NormalizeOrderItems(m.items)
             used == {k \in Keys : items[k] > 0}
             lines == [k \in used |-> Change(-items[k], items[k])]
             row == [status |-> "CREATED", items |-> items,
                     last |-> e.timestamp]
             newOrders == [orders EXCEPT ![m.order] = row]
  <2>1. Stamped(e) /\ m.type = "ORDER_CREATED"
    BY <1>11 DEF HandleOrderCreated, Checked, Dispatched
  <2>2. CASE /\ m.order # None /\ ValidItems(m.items)
             /\ ~(\E k \in used : \/ inventory[k].available < items[k]
                                  \/ totals[k[1]].available < items[k])
             /\ ExecBatch(e, lines, None, ProductsOf(lines), newOrders)
    <3>1. m.order \in Orders /\ m.items \in Seq(Line)
      BY <2>1, <2>2, PayloadType
    <3>2. items \in [Keys -> Nat] /\ \E k \in Keys : items[k] > 0
      BY <2>2, <3>1, NormalizeType
    <3>3. OrdersNameProductOnce /\ OrdersStoreProductOnce =>
            \A k, l \in Keys : items[k] > 0 /\ items[l] > 0 /\ k[1] = l[1]
                                 => k = l
      BY <2>1, <2>2, NormalizeOnce
    <3> HIDE DEF items
    <3>4. /\ DOMAIN lines = {k \in Keys : items[k] > 0}
          /\ lines \in [DOMAIN lines -> [available : Int, reserved : Int]]
          /\ \A k \in used : /\ lines[k].available = -items[k]
                             /\ lines[k].reserved = items[k]
      BY <3>2 DEF Change
    <3>5. newOrders \in [Orders -> Order]
      BY <2>1, <3>2, StampedType DEF TypeOK, Order
    <3> HIDE DEF lines, newOrders
    <3>6. \A k \in DOMAIN lines : lines[k].available =< 0
      BY <3>2, <3>4
    <3>7. NonNegative => \A k \in DOMAIN lines :
            /\ inventory[k].available + lines[k].available >= 0
            /\ inventory[k].reserved + lines[k].reserved >= 0
            /\ totals[k[1]].reserved + lines[k].reserved >= 0
      <4> SUFFICES ASSUME NonNegative, NEW k \in used
                   PROVE  /\ inventory[k].available - items[k] >= 0
                          /\ inventory[k].reserved + items[k] >= 0
                          /\ totals[k[1]].reserved + items[k] >= 0
        BY <3>2, <3>4, KeyRowsType
      <4>1. ~(inventory[k].available < items[k])
        BY <2>2
      <4> QED BY <3>2, <4>1, KeyRowsType DEF NonNegative, Keys
    <3> QED BY <2>1, <2>2, <3>2, <3>3, <3>4, <3>5, <3>6, <3>7, OrderLinesCases
  <2> QED BY <1>11, <2>2, DeclineCases
        DEF HandleOrderCreated, Checked, Accepted, TooFewAvailable
<1>12. CASE HandleOrderCompleted(e)
  <2> DEFINE m == e.payload
             items == orders[m.order].items
             used == {k \in Keys : items[k] > 0}
             lines == [k \in used |-> Change(0, -items[k])]
             newOrders == [orders EXCEPT ![m.order].status = "COMPLETED",
                                         ![m.order].last = e.timestamp]
  <2>1. Stamped(e) /\ m.type = "ORDER_COMPLETED"
    BY <1>12 DEF HandleOrderCompleted, CompleteOrder, Checked, Dispatched
  <2>2. CASE /\ m.order # None /\ orders[m.order].status # "ABSENT"
             /\ ~(\E k \in used : \/ inventory[k].reserved < items[k]
                                  \/ totals[k[1]].reserved < items[k])
             /\ ExecBatch(e, lines, None, ProductsOf(lines), newOrders)
    <3>1. m.order \in Orders
      BY <2>1, <2>2, PayloadType
    <3>2. items \in [Keys -> Nat] /\ \E k \in Keys : items[k] > 0
      BY <2>2, <3>1 DEF TypeOK, Order, OrdersHaveItems
    <3>3. OrdersNameProductOnce /\ OrdersStoreProductOnce =>
            \A k, l \in Keys : items[k] > 0 /\ items[l] > 0 /\ k[1] = l[1]
                                 => k = l
      BY <3>1 DEF OrdersStoreProductOnce
    <3>4. newOrders \in [Orders -> Order]
      BY <2>1, <3>1, StampedType DEF TypeOK, Order
    <3> HIDE DEF items
    <3>5. /\ DOMAIN lines = {k \in Keys : items[k] > 0}
          /\ lines \in [DOMAIN lines -> [available : Int, reserved : Int]]
          /\ \A k \in used : /\ lines[k].available = 0
                             /\ lines[k].reserved = -items[k]
      BY <3>2 DEF Change
    <3> HIDE DEF lines, newOrders
    <3>6. \A k \in DOMAIN lines : lines[k].available =< 0
      BY <3>5
    <3>7. NonNegative => \A k \in DOMAIN lines :
            /\ inventory[k].available + lines[k].available >= 0
            /\ inventory[k].reserved + lines[k].reserved >= 0
            /\ totals[k[1]].reserved + lines[k].reserved >= 0
      <4> SUFFICES ASSUME NonNegative, NEW k \in used
                   PROVE  /\ inventory[k].available >= 0
                          /\ inventory[k].reserved - items[k] >= 0
                          /\ totals[k[1]].reserved - items[k] >= 0
        BY <3>2, <3>5, KeyRowsType
      <4>1. /\ ~(inventory[k].reserved < items[k])
            /\ ~(totals[k[1]].reserved < items[k])
        BY <2>2
      <4> QED BY <3>2, <4>1, KeyRowsType DEF NonNegative
    <3> QED BY <2>1, <2>2, <3>2, <3>3, <3>4, <3>5, <3>6, <3>7, OrderLinesCases
  <2> QED BY <1>12, <2>2, DeclineCases
        DEF HandleOrderCompleted, CompleteOrder, Checked, Accepted, TooFewReserved
<1> QED BY <1>1, <1>2, <1>3, <1>4, <1>5, <1>6, <1>7, <1>8, <1>9, <1>10,
           <1>11, <1>12 DEF Handle
-----------------------------------------------------------------------------
(* Type correctness.                                                       *)

\* The totals that survive a batch are those of some line of the product, and
\* none of its lines computed more.
LEMMA PutTotalsMax ==
    ASSUME TypeOK, NEW e, NEW lines, NEW supplier, NEW summed, NEW newOrders,
           WellFormed(e, lines, supplier, summed, newOrders),
           NEW p \in summed
    PROVE  /\ LinesOf(lines, p) # {}
           /\ \A k \in LinesOf(lines, p) :
                totals[p].available + lines[k].available
                  =< PutTotals(p, lines, e).available
           /\ \E k \in LinesOf(lines, p) :
                PutTotals(p, lines, e).available
                  = totals[p].available + lines[k].available
           /\ \E k \in LinesOf(lines, p) :
                PutTotals(p, lines, e).reserved
                  = totals[p].reserved + lines[k].reserved
<1> DEFINE own == {k \in DOMAIN lines : k[1] = p}
           avail == {totals[p].available + lines[k].available : k \in own}
           resrv == {totals[p].reserved + lines[k].reserved : k \in own}
<1>1. own # {} /\ p \in Products
  BY DEF WellFormed, ProductsOf, Keys
<1>2. IsFiniteSet(own)
  <2>1. own \subseteq Keys
    BY DEF WellFormed
  <2> QED BY <2>1, KeysFinite, FS_Subset
<1>3. totals[p].available \in Int /\ totals[p].reserved \in Int
  BY <1>1 DEF TypeOK, Cells
<1>4. \A k \in own : lines[k].available \in Int /\ lines[k].reserved \in Int
  BY DEF WellFormed
<1>5. avail \subseteq Int /\ avail # {} /\ IsFiniteSet(avail)
  <2> DEFINE f == [k \in own |-> totals[p].available + lines[k].available]
  <2>1. f \in Surjection(own, avail)
    BY DEF Surjection
  <2>2. IsFiniteSet(avail)
    BY <1>2, <2>1, FS_Surjection
  <2> QED BY <1>1, <1>3, <1>4, <2>2
<1>6. resrv \subseteq Int /\ resrv # {} /\ IsFiniteSet(resrv)
  <2> DEFINE f == [k \in own |-> totals[p].reserved + lines[k].reserved]
  <2>1. f \in Surjection(own, resrv)
    BY DEF Surjection
  <2>2. IsFiniteSet(resrv)
    BY <1>2, <2>1, FS_Surjection
  <2> QED BY <1>1, <1>3, <1>4, <2>2
<1>7. /\ MaxOf(avail) \in avail /\ \A n \in avail : n =< MaxOf(avail)
      /\ MaxOf(resrv) \in resrv
  <2> HIDE DEF avail, resrv
  <2> QED BY <1>5, <1>6, MaxType
<1>8. /\ PutTotals(p, lines, e).available = MaxOf(avail)
      /\ PutTotals(p, lines, e).reserved = MaxOf(resrv)
  BY DEF PutTotals, Reconcile
<1>9. own = LinesOf(lines, p)
  BY DEF LinesOf
<1> QED BY <1>1, <1>7, <1>8, <1>9

\* Totals put for a product a line names are numbers.
LEMMA PutTotalsType ==
    ASSUME TypeOK, NEW e, NEW lines, NEW supplier, NEW summed, NEW newOrders,
           WellFormed(e, lines, supplier, summed, newOrders),
           NEW p \in summed
    PROVE  PutTotals(p, lines, e) \in Cells
<1>1. p \in Products
  BY DEF WellFormed, ProductsOf, Keys
<1>2. totals[p].available \in Int /\ totals[p].reserved \in Int
  BY <1>1 DEF TypeOK, Cells
<1>3. \A k \in LinesOf(lines, p) :
        lines[k].available \in Int /\ lines[k].reserved \in Int
  BY DEF WellFormed, LinesOf
<1>4. /\ PutTotals(p, lines, e).available \in Int
      /\ PutTotals(p, lines, e).reserved \in Int
  BY <1>2, <1>3, PutTotalsMax
<1>5. e.timestamp \in Nat
  BY DEF WellFormed
<1> QED BY <1>4, <1>5 DEF PutTotals, Cells

\* A well-formed batch keeps the tables well typed.
LEMMA BatchType ==
    ASSUME TypeOK, NEW e, NEW lines, NEW supplier, NEW summed, NEW newOrders,
           WellFormed(e, lines, supplier, summed, newOrders),
           ExecBatch(e, lines, supplier, summed, newOrders)
    PROVE  TypeOK'
<1>1. inventory' \in [Keys -> Row]
  <2>1. ASSUME NEW k \in DOMAIN lines
        PROVE  PutInventory(inventory[k], lines[k], e, supplier) \in Row
    <3>1. k \in Keys /\ lines[k] \in [available : Int, reserved : Int]
      BY <2>1 DEF WellFormed
    <3>2. inventory[k] \in Row
      BY <3>1 DEF TypeOK
    <3>3. e.timestamp \in Nat /\ supplier \in Suppliers \cup {None}
      BY DEF WellFormed
    <3> QED BY <3>1, <3>2, <3>3 DEF PutInventory, Row
  <2> QED BY <2>1 DEF ExecBatch, TypeOK
<1>2. byZone' \in [Zones \X Products -> Cells]
  <2>1. ASSUME NEW k \in Zones \X Products
        PROVE  PutZoneInventory(inventory'[<<k[2], k[1]>>]) \in Cells
    <3>1. <<k[2], k[1]>> \in Keys
      BY DEF Keys
    <3>2. inventory'[<<k[2], k[1]>>] \in Row
      BY <1>1, <3>1
    <3> QED BY <3>2 DEF PutZoneInventory, Row, Cells
  <2> QED BY <2>1 DEF ExecBatch, TypeOK
<1>3. totals' \in [Products -> Cells]
  <2>1. \A p \in summed : PutTotals(p, lines, e) \in Cells
    BY PutTotalsType
  <2> QED BY <2>1 DEF ExecBatch, TypeOK
<1>4. orders' \in [Orders -> Order]
  BY DEF ExecBatch, WellFormed
<1>5. processed' \subseteq EventIds
  BY DEF ExecBatch, WellFormed, TypeOK
<1>6. history' \subseteq [product : Products, timestamp : Nat, id : EventIds]
  <2>1. ProductsOf(lines) \subseteq Products
    BY DEF ProductsOf, WellFormed, Keys
  <2>2. e.timestamp \in Nat /\ e.id \in EventIds
    BY DEF WellFormed
  <2>3. PutHistory(lines, e)
          \subseteq [product : Products, timestamp : Nat, id : EventIds]
    BY <2>1, <2>2 DEF PutHistory
  <2> QED BY <2>3 DEF ExecBatch, TypeOK
<1>7. err' \in {Ok, Validation, Processing}
  BY DEF ExecBatch
<1> QED BY <1>1, <1>2, <1>3, <1>4, <1>5, <1>6, <1>7 DEF TypeOK

\* No handler stores an order without items: ORDER_CREATED refuses an empty
\* list, ORDER_COMPLETED leaves the items alone.
LEMMA OrdersHaveItemsStep ==
    ASSUME TypeOK, OrdersHaveItems, NEW e \in Events, Handle(e)
    PROVE  OrdersHaveItems'
<1>1. CASE UNCHANGED orders
  BY <1>1 DEF OrdersHaveItems
<1>2. CASE HandleOrderCreated(e)
  <2> DEFINE items == NormalizeOrderItems(e.payload.items)
             row == [status |-> "CREATED", items |-> items,
                     last |-> e.timestamp]
  <2>1. CASE /\ ValidItems(e.payload.items)
             /\ e.payload.type = "ORDER_CREATED"
             /\ orders' = [orders EXCEPT ![e.payload.order] = row]
    <3>1. e.payload.items \in Seq(Line)
      BY <2>1, PayloadType
    <3>2. \E k \in Keys : items[k] > 0
      BY <2>1, <3>1, NormalizeType
    <3> HIDE DEF items
    <3> QED BY <2>1, <3>2 DEF OrdersHaveItems, TypeOK
  <2> HIDE DEF row
  <2> QED BY <1>1, <1>2, <2>1
        DEF HandleOrderCreated, Checked, Dispatched, Decline,
                  Accepted, Return, tables, ExecBatch, row
<1>3. CASE HandleOrderCompleted(e)
  <2>1. CASE /\ orders[e.payload.order].status # "ABSENT"
             /\ orders' = [orders EXCEPT
                             ![e.payload.order].status = "COMPLETED",
                             ![e.payload.order].last = e.timestamp]
    <3>1. ASSUME NEW o \in Orders
          PROVE  /\ orders'[o].items = orders[o].items
                 /\ orders'[o].status # "ABSENT" => orders[o].status # "ABSENT"
      BY <2>1 DEF TypeOK, Order
    <3> QED BY <3>1 DEF OrdersHaveItems
  <2> QED BY <1>1, <1>3, <2>1
        DEF HandleOrderCompleted, CompleteOrder, Checked, Decline, Accepted,
                  Return, tables, ExecBatch
<1>4. CASE HandleProductReceived(e)
  BY <1>1, <1>4
        DEF HandleProductReceived, OneRow, Checked, Decline, Return, tables, ExecBatch
<1>5. CASE HandleProductShipped(e)
  BY <1>1, <1>5
        DEF HandleProductShipped, OneRow, Checked, Decline, Return, tables, ExecBatch
<1>6. CASE HandleProductMoved(e)
  BY <1>1, <1>6
        DEF HandleProductMoved, MoveBetween, Checked, Decline, Return, tables, ExecBatch
<1>7. CASE HandleProductReserved(e)
  BY <1>1, <1>7
        DEF HandleProductReserved, OneRow, Checked, Decline, Return, tables, ExecBatch
<1>8. CASE HandleProductReleased(e)
  BY <1>1, <1>8
        DEF HandleProductReleased, OneRow, Checked, Decline, Return, tables, ExecBatch
<1>9. CASE HandleInventoryCounted(e)
  BY <1>1, <1>9
        DEF HandleInventoryCounted, Count, OneRow, Checked, Decline, Return, tables, ExecBatch
<1>10. CASE \/ RejectUnstamped(e) \/ StoreFails(e) \/ SkipDuplicate(e)
            \/ RejectUnknown(e)
  BY <1>1, <1>10 DEF RejectUnstamped, StoreFails, SkipDuplicate,
                     RejectUnknown, Return, tables
<1> QED BY <1>2, <1>3, <1>4, <1>5, <1>6, <1>7, <1>8, <1>9, <1>10 DEF Handle

LEMMA InitType == Init => TypeOK /\ OrdersHaveItems
<1> SUFFICES ASSUME Init PROVE TypeOK /\ OrdersHaveItems
  OBVIOUS
<1>1. ZeroRow \in Row /\ ZeroCells \in Cells /\ NoOrder \in Order
  BY DEF ZeroRow, Row, ZeroCells, Cells, NoOrder, Order
<1>2. TypeOK
  BY <1>1 DEF Init, TypeOK
<1>3. OrdersHaveItems
  BY DEF Init, OrdersHaveItems, NoOrder
<1> QED BY <1>2, <1>3

\* The tables stay well typed, and no stored order is without items.
LEMMA TypeInvariant == Spec => [](TypeOK /\ OrdersHaveItems)
<1>1. Init => TypeOK /\ OrdersHaveItems
  BY InitType
<1>2. TypeOK /\ OrdersHaveItems /\ [Next]_vars => (TypeOK /\ OrdersHaveItems)'
  <2> SUFFICES ASSUME TypeOK, OrdersHaveItems, [Next]_vars
               PROVE  TypeOK' /\ OrdersHaveItems'
    OBVIOUS
  <2>1. CASE UNCHANGED vars
    BY <2>1 DEF vars, TypeOK, OrdersHaveItems
  <2>2. CASE Next
    <3>1. PICK e \in Events : Handle(e)
      BY <2>2 DEF Next
    <3>2. BatchOrNothing(e)
      BY <3>1, HandleCases
    <3>3. TypeOK'
      <4>1. CASE UNCHANGED tables /\ err' \in {Ok, Validation, Processing}
        BY <4>1 DEF tables, TypeOK
      <4>2. CASE \E lines, supplier, summed, newOrders :
                   /\ WellFormed(e, lines, supplier, summed, newOrders)
                   /\ Sound(lines, summed)
                   /\ ExecBatch(e, lines, supplier, summed, newOrders)
        BY <4>2, BatchType
      <4> QED BY <3>2, <4>1, <4>2 DEF BatchOrNothing
    <3>4. OrdersHaveItems'
      BY <3>1, OrdersHaveItemsStep
    <3> QED BY <3>3, <3>4
  <2> QED BY <2>1, <2>2
<1> QED BY <1>1, <1>2, PTL DEF Spec

\* Every table holds values of its type in every reachable state; totals do
\* even where an order puts the totals of a product twice.
THEOREM TypeCorrect == Spec => []TypeOK
BY TypeInvariant, PTL
-----------------------------------------------------------------------------
(* The two views of the rows, and the audit trail.                         *)

LEMMA ViewsStep ==
    ASSUME TypeOK, ViewsAgree,
           NEW e, NEW lines, NEW supplier, NEW summed, NEW newOrders,
           WellFormed(e, lines, supplier, summed, newOrders),
           ExecBatch(e, lines, supplier, summed, newOrders)
    PROVE  ViewsAgree'
<1> SUFFICES ASSUME NEW k \in Keys
             PROVE  byZone'[<<k[2], k[1]>>] =
                      [available |-> inventory'[k].available,
                       reserved  |-> inventory'[k].reserved,
                       last      |-> inventory'[k].last]
  BY DEF ViewsAgree
<1> DEFINE v == <<k[2], k[1]>>
<1>1. v \in Zones \X Products /\ <<v[2], v[1]>> = k
  BY DEF Keys
<1> HIDE DEF v
<1>2. CASE k \in DOMAIN lines
  <2>1. byZone'[v] = PutZoneInventory(inventory'[k])
    BY <1>1, <1>2 DEF ExecBatch
  <2> QED BY <2>1 DEF PutZoneInventory, v
<1>3. CASE k \notin DOMAIN lines
  <2>1. byZone'[v] = byZone[v] /\ inventory'[k] = inventory[k]
    BY <1>1, <1>3 DEF ExecBatch
  <2> QED BY <2>1 DEF ViewsAgree, v
<1> QED BY <1>2, <1>3

LEMMA AuditStep ==
    ASSUME TypeOK, AuditTrail,
           NEW e, NEW lines, NEW supplier, NEW summed, NEW newOrders,
           WellFormed(e, lines, supplier, summed, newOrders),
           ExecBatch(e, lines, supplier, summed, newOrders)
    PROVE  AuditTrail'
<1> DEFINE new == PutHistory(lines, e)
<1>1. history' = history \cup new /\ processed' = processed \cup {e.id}
  BY DEF ExecBatch
<1>2. {h.id : h \in new} = {e.id}
  <2>1. PICK k \in DOMAIN lines : TRUE
    BY DEF WellFormed
  <2>2. [product |-> k[1], timestamp |-> e.timestamp, id |-> e.id] \in new
    BY DEF PutHistory, ProductsOf
  <2>3. \A h \in new : h.id = e.id
    BY DEF PutHistory
  <2> HIDE DEF new
  <2> QED BY <2>2, <2>3
<1>3. processed' = {h.id : h \in history'}
  <2> HIDE DEF new
  <2> QED BY <1>1, <1>2 DEF AuditTrail
<1>4. ASSUME NEW k \in Keys, inventory'[k].last # 0
      PROVE  \E h \in history' : /\ h.product = k[1]
                                 /\ h.timestamp = inventory'[k].last
  <2>1. CASE k \in DOMAIN lines
    <3>1. inventory'[k].last = e.timestamp
      BY <2>1 DEF ExecBatch, PutInventory
    <3>2. [product |-> k[1], timestamp |-> e.timestamp, id |-> e.id] \in new
      BY <2>1 DEF PutHistory, ProductsOf
    <3> HIDE DEF new
    <3> QED BY <1>1, <3>1, <3>2
  <2>2. CASE k \notin DOMAIN lines
    <3>1. inventory'[k] = inventory[k]
      BY <2>2 DEF ExecBatch
    <3> QED BY <1>1, <1>4, <3>1 DEF AuditTrail
  <2> QED BY <2>1, <2>2
<1> QED BY <1>3, <1>4 DEF AuditTrail

\* The stuttering and the unchanged-tables cases of the next two theorems.
LEMMA UnchangedTables ==
    ASSUME UNCHANGED tables
    PROVE  /\ ViewsAgree => ViewsAgree'
           /\ AuditTrail => AuditTrail'
           /\ NonNegative => NonNegative'
           /\ TotalsCoverZones => TotalsCoverZones'
           /\ TotalsMatchZones => TotalsMatchZones'
           /\ OrdersStoreProductOnce => OrdersStoreProductOnce'
BY DEF tables, ViewsAgree, AuditTrail, NonNegative, TotalsCoverZones,
       TotalsMatchZones, AvailableIn, ReservedIn, OrdersStoreProductOnce

\* inventory_by_zone shows every row of inventory_by_product_zone, whatever
\* the order of the events and the fate of the batches.
THEOREM ViewsAlwaysAgree == Spec => []ViewsAgree
<1>1. Init => ViewsAgree
  <2> SUFFICES ASSUME Init, NEW k \in Keys
               PROVE  byZone[<<k[2], k[1]>>] =
                        [available |-> inventory[k].available,
                         reserved  |-> inventory[k].reserved,
                         last      |-> inventory[k].last]
    BY DEF ViewsAgree
  <2>1. <<k[2], k[1]>> \in Zones \X Products
    BY DEF Keys
  <2> QED BY <2>1 DEF Init, ZeroRow, ZeroCells
<1>2. TypeOK /\ OrdersHaveItems /\ ViewsAgree /\ [Next]_vars => ViewsAgree'
  <2> SUFFICES ASSUME TypeOK, OrdersHaveItems, ViewsAgree, [Next]_vars
               PROVE  ViewsAgree'
    OBVIOUS
  <2>1. CASE UNCHANGED vars
    BY <2>1, UnchangedTables DEF vars, tables
  <2>2. CASE Next
    <3>1. PICK e \in Events : Handle(e)
      BY <2>2 DEF Next
    <3>2. BatchOrNothing(e)
      BY <3>1, HandleCases
    <3> QED BY <3>2, ViewsStep, UnchangedTables DEF BatchOrNothing
  <2> QED BY <2>1, <2>2
<1> QED BY <1>1, <1>2, TypeInvariant, PTL DEF Spec

\* processed_events and event_history name the same events, and every row's
\* clock is the time of an event in its product's history.
THEOREM AuditTrailComplete == Spec => []AuditTrail
<1>1. Init => AuditTrail
  BY DEF Init, AuditTrail, ZeroRow
<1>2. TypeOK /\ OrdersHaveItems /\ AuditTrail /\ [Next]_vars => AuditTrail'
  <2> SUFFICES ASSUME TypeOK, OrdersHaveItems, AuditTrail, [Next]_vars
               PROVE  AuditTrail'
    OBVIOUS
  <2>1. CASE UNCHANGED vars
    BY <2>1, UnchangedTables DEF vars, tables
  <2>2. CASE Next
    <3>1. PICK e \in Events : Handle(e)
      BY <2>2 DEF Next
    <3>2. BatchOrNothing(e)
      BY <3>1, HandleCases
    <3> QED BY <3>2, AuditStep, UnchangedTables DEF BatchOrNothing
  <2> QED BY <2>1, <2>2
<1> QED BY <1>1, <1>2, TypeInvariant, PTL DEF Spec
-----------------------------------------------------------------------------
(* Quantities.  NonNegative alone is not inductive: INVENTORY_COUNTED and   *)
(* PRODUCT_MOVED do not look at the totals, which stay above zero because   *)
(* they cover the rows of all zones.                                       *)

StockInv == NonNegative /\ TotalsCoverZones

\* The quantities of a product by zone, before and after a step.
LEMMA ZonesType ==
    ASSUME TypeOK, NonNegative, NEW p \in Products
    PROVE  AvailableIn(p) \in [Zones -> Nat] /\ ReservedIn(p) \in [Zones -> Nat]
<1>1. ASSUME NEW z \in Zones
      PROVE  /\ inventory[<<p, z>>].available \in Nat
             /\ inventory[<<p, z>>].reserved \in Nat
  <2>1. <<p, z>> \in Keys
    BY DEF Keys
  <2> QED BY <2>1, KeyRowsType DEF NonNegative
<1> QED BY <1>1 DEF AvailableIn, ReservedIn

\* The rows after a batch.
LEMMA RowsStep ==
    ASSUME TypeOK, NEW e, NEW lines, NEW supplier, NEW summed, NEW newOrders,
           WellFormed(e, lines, supplier, summed, newOrders),
           ExecBatch(e, lines, supplier, summed, newOrders),
           NEW k \in Keys
    PROVE  /\ k \in DOMAIN lines =>
                /\ inventory'[k].available
                     = inventory[k].available + lines[k].available
                /\ inventory'[k].reserved
                     = inventory[k].reserved + lines[k].reserved
           /\ k \notin DOMAIN lines => inventory'[k] = inventory[k]
BY DEF ExecBatch, PutInventory

LEMMA RowsNonNegative ==
    ASSUME TypeOK, NonNegative,
           NEW e, NEW lines, NEW supplier, NEW summed, NEW newOrders,
           WellFormed(e, lines, supplier, summed, newOrders),
           Sound(lines, summed),
           ExecBatch(e, lines, supplier, summed, newOrders)
    PROVE  \A k \in Keys :
             /\ inventory'[k].available \in Nat
             /\ inventory'[k].reserved \in Nat
<1> SUFFICES ASSUME NEW k \in Keys
             PROVE  /\ inventory'[k].available \in Nat
                    /\ inventory'[k].reserved \in Nat
  OBVIOUS
<1>1. TypeOK'
  BY BatchType
<1>2. inventory'[k].available \in Int /\ inventory'[k].reserved \in Int
  BY <1>1 DEF TypeOK, Row
<1>3. CASE k \in DOMAIN lines
  BY <1>2, <1>3, RowsStep DEF Sound, Backed
<1>4. CASE k \notin DOMAIN lines
  BY <1>2, <1>4, RowsStep DEF NonNegative
<1> QED BY <1>3, <1>4

\* After a batch the totals cover the zones, for each product.
LEMMA CoverStep ==
    ASSUME TypeOK, NonNegative, TotalsCoverZones,
           NEW e, NEW lines, NEW supplier, NEW summed, NEW newOrders,
           WellFormed(e, lines, supplier, summed, newOrders),
           Sound(lines, summed),
           ExecBatch(e, lines, supplier, summed, newOrders),
           NEW p \in Products
    PROVE  /\ SumOver(AvailableIn(p)') \in Nat
           /\ totals'[p].available >= SumOver(AvailableIn(p)')
<1> DEFINE g == AvailableIn(p)
           h == [z \in Zones |-> inventory'[<<p, z>>].available]
<1>1. AvailableIn(p)' = h
  BY DEF AvailableIn
<1>2. g \in [Zones -> Nat]
  BY ZonesType
<1>3. h \in [Zones -> Nat]
  BY RowsNonNegative DEF Keys
<1>4. \A z \in Zones : /\ g[z] = inventory[<<p, z>>].available
                       /\ h[z] = inventory'[<<p, z>>].available
  BY DEF AvailableIn
<1>5. \A z \in Zones :
        /\ <<p, z>> \in DOMAIN lines
             => h[z] = g[z] + lines[<<p, z>>].available
        /\ <<p, z>> \notin DOMAIN lines => h[z] = g[z]
  BY <1>4, RowsStep DEF Keys
<1>6. totals[p].available \in Int /\ totals[p].available >= SumOver(g)
  BY DEF TypeOK, Cells, TotalsCoverZones
<1> HIDE DEF g, h
<1>7. SumOver(g) \in Nat /\ SumOver(h) \in Nat
  BY <1>2, <1>3, SetsAssumption, SumType
<1>8. CASE p \in summed
  <2>1. PICK k0 \in LinesOf(lines, p) :
          \A k \in LinesOf(lines, p) \ {k0} : lines[k].available =< 0
    BY <1>8 DEF Sound, OneInflow
  <2>2. PICK z0 \in Zones : k0 = <<p, z0>>
    BY DEF LinesOf, WellFormed, Keys
  <2>3. lines[k0].available \in Int
    BY DEF LinesOf, WellFormed
  <2>4. h[z0] = g[z0] + lines[k0].available
    BY <1>5, <2>2 DEF LinesOf
  <2>5. \A z \in Zones \ {z0} : h[z] =< g[z]
    <3> SUFFICES ASSUME NEW z \in Zones \ {z0} PROVE h[z] =< g[z]
      OBVIOUS
    <3>1. CASE <<p, z>> \in DOMAIN lines
      <4>1. <<p, z>> \in LinesOf(lines, p) \ {k0}
        BY <2>2, <3>1 DEF LinesOf
      <4>2. lines[<<p, z>>].available =< 0 /\ lines[<<p, z>>].available \in Int
        BY <2>1, <3>1, <4>1 DEF WellFormed
      <4> QED BY <1>2, <1>5, <3>1, <4>2
    <3>2. CASE <<p, z>> \notin DOMAIN lines
      BY <1>2, <1>5, <3>2
    <3> QED BY <3>1, <3>2
  <2>6. SumOver(h) =< SumOver(g) + lines[k0].available
    BY <1>2, <1>3, <2>3, <2>4, <2>5, SetsAssumption, SumShiftBelow
  <2>7. totals'[p] = PutTotals(p, lines, e)
    BY <1>8 DEF ExecBatch
  <2>8. totals[p].available + lines[k0].available =< totals'[p].available
    BY <1>8, <2>7, PutTotalsMax
  <2>9. totals'[p].available \in Int
    BY <1>8, <2>7, PutTotalsType DEF Cells
  <2> QED BY <1>1, <1>6, <1>7, <2>3, <2>6, <2>8, <2>9
<1>9. CASE p \in ProductsOf(lines) \ summed
  <2>1. totals'[p] = totals[p]
    BY <1>9 DEF ExecBatch
  <2>2. PICK from \in Zones, to \in Zones :
          /\ from # to
          /\ LinesOf(lines, p) = {<<p, from>>, <<p, to>>}
          /\ lines[<<p, from>>].available + lines[<<p, to>>].available = 0
    BY <1>9 DEF Sound, OnlyMoved
  <2>3. \A z \in Zones : <<p, z>> \in DOMAIN lines <=> z \in {from, to}
    BY <2>2 DEF LinesOf
  <2>4. /\ lines[<<p, from>>].available \in Int
        /\ lines[<<p, to>>].available \in Int
    BY <2>3 DEF WellFormed
  <2>5. h[from] = g[from] + lines[<<p, from>>].available
    BY <1>5, <2>3
  <2>6. h[to] = g[to] - lines[<<p, from>>].available
    <3>1. g[to] \in Nat
      BY <1>2
    <3> QED BY <1>5, <2>2, <2>3, <2>4, <3>1
  <2>7. \A z \in Zones \ {from, to} : h[z] = g[z]
    BY <1>5, <2>3
  <2>8. SumOver(h) = SumOver(g)
    BY <1>2, <1>3, <2>2, <2>4, <2>5, <2>6, <2>7, SetsAssumption, SumTransfer
  <2> QED BY <1>1, <1>6, <1>7, <2>1, <2>8
<1>10. CASE p \notin ProductsOf(lines)
  <2>1. totals'[p] = totals[p]
    BY <1>10 DEF ExecBatch, WellFormed
  <2>2. \A z \in Zones : <<p, z>> \notin DOMAIN lines
    BY <1>10 DEF ProductsOf
  <2>3. \A z \in Zones : h[z] = g[z]
    BY <1>5, <2>2
  <2>4. h = g
    BY <1>2, <1>3, <2>3
  <2> QED BY <1>1, <1>6, <1>7, <2>1, <2>4
<1> QED BY <1>8, <1>9, <1>10

LEMMA StockStep ==
    ASSUME TypeOK, StockInv,
           NEW e, NEW lines, NEW supplier, NEW summed, NEW newOrders,
           WellFormed(e, lines, supplier, summed, newOrders),
           Sound(lines, summed),
           ExecBatch(e, lines, supplier, summed, newOrders)
    PROVE  StockInv'
<1> USE DEF StockInv
<1>1. TotalsCoverZones'
  <2>1. \A p \in Products : totals'[p].available >= SumOver(AvailableIn(p)')
    BY CoverStep
  <2> QED BY <2>1 DEF TotalsCoverZones
<1>2. ASSUME NEW p \in Products
      PROVE  totals'[p].available >= 0 /\ totals'[p].reserved >= 0
  <2>1. totals'[p].available \in Int
    BY BatchType DEF TypeOK, Cells
  <2>2. totals'[p].available >= 0
    <3>1. /\ SumOver(AvailableIn(p)') \in Nat
          /\ totals'[p].available >= SumOver(AvailableIn(p)')
      BY CoverStep
    <3> QED BY <2>1, <3>1
  <2>3. CASE p \in summed
    <3>1. PICK k \in LinesOf(lines, p) :
            PutTotals(p, lines, e).reserved
              = totals[p].reserved + lines[k].reserved
      BY <2>3, PutTotalsMax
    <3>2. totals[p].reserved + lines[k].reserved >= 0
      BY <2>3 DEF Sound, Backed
    <3>3. totals'[p] = PutTotals(p, lines, e)
      BY <2>3 DEF ExecBatch
    <3> QED BY <2>2, <3>1, <3>2, <3>3
  <2>4. CASE p \notin summed
    <3>1. totals'[p] = totals[p]
      BY <2>4 DEF ExecBatch
    <3> QED BY <2>2, <3>1 DEF NonNegative
  <2> QED BY <2>3, <2>4
<1>3. NonNegative'
  BY <1>2, RowsNonNegative DEF NonNegative
<1> QED BY <1>1, <1>3

\* All sums over the rows are zero before the first event.
LEMMA InitSums ==
    ASSUME Init, NEW p \in Products
    PROVE  SumOver(AvailableIn(p)) = 0 /\ SumOver(ReservedIn(p)) = 0
<1>1. /\ AvailableIn(p) \in [Zones -> Nat]
      /\ \A z \in Zones : AvailableIn(p)[z] = 0
  BY DEF Init, AvailableIn, ZeroRow, Keys
<1>2. /\ ReservedIn(p) \in [Zones -> Nat]
      /\ \A z \in Zones : ReservedIn(p)[z] = 0
  BY DEF Init, ReservedIn, ZeroRow, Keys
<1> QED BY <1>1, <1>2, SetsAssumption, SumZero

LEMMA StockInvariant == Spec => []StockInv
<1>1. Init => StockInv
  <2> SUFFICES ASSUME Init PROVE StockInv
    OBVIOUS
  <2>1. NonNegative
    BY DEF Init, NonNegative, ZeroRow, ZeroCells
  <2>2. TotalsCoverZones
    BY InitSums DEF Init, TotalsCoverZones, ZeroCells
  <2> QED BY <2>1, <2>2 DEF StockInv
<1>2. TypeOK /\ OrdersHaveItems /\ StockInv /\ [Next]_vars => StockInv'
  <2> SUFFICES ASSUME TypeOK, OrdersHaveItems, StockInv, [Next]_vars
               PROVE  StockInv'
    OBVIOUS
  <2>1. CASE UNCHANGED vars
    BY <2>1, UnchangedTables DEF vars, tables, StockInv
  <2>2. CASE Next
    <3>1. PICK e \in Events : Handle(e)
      BY <2>2 DEF Next
    <3>2. BatchOrNothing(e)
      BY <3>1, HandleCases
    <3>3. CASE UNCHANGED tables
      BY <3>3, UnchangedTables DEF StockInv
    <3> QED BY <3>2, <3>3, StockStep DEF BatchOrNothing
  <2> QED BY <2>1, <2>2
<1> QED BY <1>1, <1>2, TypeInvariant, PTL DEF Spec

\* No quantity of a row or of a total is ever negative.
THEOREM NeverNegative == Spec => []NonNegative
<1>1. StockInv => NonNegative
  BY DEF StockInv
<1> QED BY <1>1, StockInvariant, PTL

\* The totals never understate the available stock of the zones, orders that
\* take a product from two zones included.
THEOREM TotalsCover == Spec => []TotalsCoverZones
<1>1. StockInv => TotalsCoverZones
  BY DEF StockInv
<1> QED BY <1>1, StockInvariant, PTL
-----------------------------------------------------------------------------
(* Exact totals, for orders that name each product once.                   *)

\* Orders that name each product once are stored that way.
LEMMA StoreOnceStep ==
    ASSUME TypeOK, OrdersNameProductOnce, OrdersStoreProductOnce,
           NEW e \in Events, Handle(e)
    PROVE  OrdersStoreProductOnce'
<1>1. CASE UNCHANGED orders
  BY <1>1 DEF OrdersStoreProductOnce
<1>2. CASE HandleOrderCreated(e)
  <2> DEFINE items == NormalizeOrderItems(e.payload.items)
             row == [status |-> "CREATED", items |-> items,
                     last |-> e.timestamp]
  <2>1. CASE /\ ValidItems(e.payload.items)
             /\ e.payload.type = "ORDER_CREATED"
             /\ orders' = [orders EXCEPT ![e.payload.order] = row]
    <3>1. \A k, l \in Keys : items[k] > 0 /\ items[l] > 0 /\ k[1] = l[1]
                               => k = l
      BY <2>1, NormalizeOnce
    <3> HIDE DEF items
    <3>2. \A o \in Orders : orders'[o].items \in {orders[o].items, items}
      BY <2>1 DEF TypeOK, Order
    <3> QED BY <3>1, <3>2 DEF OrdersStoreProductOnce
  <2> HIDE DEF row
  <2> QED BY <1>1, <1>2, <2>1
        DEF HandleOrderCreated, Checked, Dispatched, Decline,
                  Accepted, Return, tables, ExecBatch, row
<1>3. CASE HandleOrderCompleted(e)
  <2>1. CASE orders' = [orders EXCEPT
                          ![e.payload.order].status = "COMPLETED",
                          ![e.payload.order].last = e.timestamp]
    <3>1. \A o \in Orders : orders'[o].items = orders[o].items
      BY <2>1 DEF TypeOK, Order
    <3> QED BY <3>1 DEF OrdersStoreProductOnce
  <2> QED BY <1>1, <1>3, <2>1
        DEF HandleOrderCompleted, CompleteOrder, Checked, Decline, Return,
                  tables, ExecBatch
<1>4. CASE HandleProductReceived(e)
  BY <1>1, <1>4
        DEF HandleProductReceived, OneRow, Checked, Decline, Return, tables, ExecBatch
<1>5. CASE HandleProductShipped(e)
  BY <1>1, <1>5
        DEF HandleProductShipped, OneRow, Checked, Decline, Return, tables, ExecBatch
<1>6. CASE HandleProductMoved(e)
  BY <1>1, <1>6
        DEF HandleProductMoved, MoveBetween, Checked, Decline, Return, tables, ExecBatch
<1>7. CASE HandleProductReserved(e)
  BY <1>1, <1>7
        DEF HandleProductReserved, OneRow, Checked, Decline, Return, tables, ExecBatch
<1>8. CASE HandleProductReleased(e)
  BY <1>1, <1>8
        DEF HandleProductReleased, OneRow, Checked, Decline, Return, tables, ExecBatch
<1>9. CASE HandleInventoryCounted(e)
  BY <1>1, <1>9
        DEF HandleInventoryCounted, Count, OneRow, Checked, Decline, Return, tables, ExecBatch
<1>10. CASE \/ RejectUnstamped(e) \/ StoreFails(e) \/ SkipDuplicate(e)
            \/ RejectUnknown(e)
  BY <1>1, <1>10 DEF RejectUnstamped, StoreFails, SkipDuplicate,
                     RejectUnknown, Return, tables
<1> QED BY <1>2, <1>3, <1>4, <1>5, <1>6, <1>7, <1>8, <1>9, <1>10 DEF Handle

\* After a batch with one line for each product whose totals it puts, the
\* totals of a product are the sums of its rows.
LEMMA ExactStep ==
    ASSUME TypeOK, NonNegative, TotalsMatchZones,
           NEW e, NEW lines, NEW supplier, NEW summed, NEW newOrders,
           WellFormed(e, lines, supplier, summed, newOrders),
           Sound(lines, summed), OneLineEach(lines, summed),
           ExecBatch(e, lines, supplier, summed, newOrders),
           NEW p \in Products
    PROVE  /\ totals'[p].available = SumOver(AvailableIn(p)')
           /\ totals'[p].reserved = SumOver(ReservedIn(p)')
<1> DEFINE g == AvailableIn(p)
           h == [z \in Zones |-> inventory'[<<p, z>>].available]
           r == ReservedIn(p)
           s == [z \in Zones |-> inventory'[<<p, z>>].reserved]
<1>1. AvailableIn(p)' = h /\ ReservedIn(p)' = s
  BY DEF AvailableIn, ReservedIn
<1>2. g \in [Zones -> Nat] /\ r \in [Zones -> Nat]
  BY ZonesType
<1>3. h \in [Zones -> Nat] /\ s \in [Zones -> Nat]
  BY RowsNonNegative DEF Keys
<1>4. \A z \in Zones : /\ g[z] = inventory[<<p, z>>].available
                       /\ h[z] = inventory'[<<p, z>>].available
                       /\ r[z] = inventory[<<p, z>>].reserved
                       /\ s[z] = inventory'[<<p, z>>].reserved
  BY DEF AvailableIn, ReservedIn
<1>5. \A z \in Zones :
        /\ <<p, z>> \in DOMAIN lines =>
             /\ h[z] = g[z] + lines[<<p, z>>].available
             /\ s[z] = r[z] + lines[<<p, z>>].reserved
        /\ <<p, z>> \notin DOMAIN lines => h[z] = g[z] /\ s[z] = r[z]
  BY <1>4, RowsStep DEF Keys
<1>6. totals[p].available = SumOver(g) /\ totals[p].reserved = SumOver(r)
  BY DEF TotalsMatchZones
<1> HIDE DEF g, h, r, s
<1>7. /\ SumOver(g) \in Nat /\ SumOver(h) \in Nat
      /\ SumOver(r) \in Nat /\ SumOver(s) \in Nat
  BY <1>2, <1>3, SetsAssumption, SumType
<1>8. CASE p \in summed
  <2>1. PICK k0 \in Keys : k0[1] = p /\ LinesOf(lines, p) = {k0}
    BY <1>8 DEF OneLineEach
  <2>2. PICK z0 \in Zones : k0 = <<p, z0>>
    BY <2>1 DEF Keys
  <2>3. \A z \in Zones : <<p, z>> \in DOMAIN lines <=> z = z0
    BY <2>1, <2>2 DEF LinesOf
  <2>4. lines[k0].available \in Int /\ lines[k0].reserved \in Int
    BY <2>2, <2>3 DEF WellFormed
  <2>5. /\ h[z0] = g[z0] + lines[k0].available
        /\ s[z0] = r[z0] + lines[k0].reserved
    BY <1>5, <2>2, <2>3
  <2>6. \A z \in Zones \ {z0} : h[z] = g[z] /\ s[z] = r[z]
    BY <1>5, <2>3
  <2>7. SumOver(h) = SumOver(g) - g[z0] + h[z0]
    BY <1>2, <1>3, <2>6, SetsAssumption, SumUpdate
  <2>8. SumOver(s) = SumOver(r) - r[z0] + s[z0]
    BY <1>2, <1>3, <2>6, SetsAssumption, SumUpdate
  <2>9. /\ totals'[p].available = totals[p].available + lines[k0].available
        /\ totals'[p].reserved = totals[p].reserved + lines[k0].reserved
    <3>1. totals'[p] = PutTotals(p, lines, e)
      BY <1>8 DEF ExecBatch, WellFormed
    <3> QED BY <1>8, <2>1, <3>1, PutTotalsMax
  <2>10. g[z0] \in Nat /\ r[z0] \in Nat
    BY <1>2
  <2> QED BY <1>1, <1>6, <1>7, <2>4, <2>5, <2>7, <2>8, <2>9, <2>10
<1>9. CASE p \in ProductsOf(lines) \ summed
  <2>1. totals'[p] = totals[p]
    BY <1>9 DEF ExecBatch
  <2>2. PICK from \in Zones, to \in Zones :
          /\ from # to
          /\ LinesOf(lines, p) = {<<p, from>>, <<p, to>>}
          /\ lines[<<p, from>>].available + lines[<<p, to>>].available = 0
          /\ lines[<<p, from>>].reserved = 0 /\ lines[<<p, to>>].reserved = 0
    BY <1>9 DEF Sound, OnlyMoved
  <2>3. \A z \in Zones : <<p, z>> \in DOMAIN lines <=> z \in {from, to}
    BY <2>2 DEF LinesOf
  <2>4. /\ lines[<<p, from>>].available \in Int
        /\ lines[<<p, to>>].available \in Int
    BY <2>3 DEF WellFormed
  <2>5. h[from] = g[from] + lines[<<p, from>>].available
    BY <1>5, <2>3
  <2>6. h[to] = g[to] - lines[<<p, from>>].available
    <3>1. g[to] \in Nat
      BY <1>2
    <3> QED BY <1>5, <2>2, <2>3, <2>4, <3>1
  <2>7. \A z \in Zones \ {from, to} : h[z] = g[z]
    BY <1>5, <2>3
  <2>8. SumOver(h) = SumOver(g)
    <3>1. from # to
      BY <2>2
    <3> QED BY <1>2, <1>3, <2>4, <2>5, <2>6, <2>7, <3>1, SetsAssumption,
               SumTransfer
  <2>9. \A z \in Zones : s[z] = r[z]
    <3> SUFFICES ASSUME NEW z \in Zones PROVE s[z] = r[z]
      OBVIOUS
    <3>1. r[z] \in Nat
      BY <1>2
    <3>2. CASE z \notin {from, to}
      BY <1>5, <2>3, <3>2
    <3>3. CASE z = from
      BY <1>5, <2>2, <2>3, <3>1, <3>3
    <3>4. CASE z = to
      BY <1>5, <2>2, <2>3, <3>1, <3>4
    <3> QED BY <3>2, <3>3, <3>4
  <2>10. s = r
    BY <1>2, <1>3, <2>9
  <2> QED BY <1>1, <1>6, <2>1, <2>8, <2>10
<1>10. CASE p \notin ProductsOf(lines)
  <2>1. totals'[p] = totals[p]
    BY <1>10 DEF ExecBatch, WellFormed
  <2>2. \A z \in Zones : <<p, z>> \notin DOMAIN lines
    BY <1>10 DEF ProductsOf
  <2>3. \A z \in Zones : h[z] = g[z] /\ s[z] = r[z]
    BY <1>5, <2>2
  <2>4. h = g /\ s = r
    BY <1>2, <1>3, <2>3
  <2> QED BY <1>1, <1>6, <2>1, <2>4
<1> QED BY <1>8, <1>9, <1>10

\* The inductive invariant of exact totals.  The first conjunct is constant.
ExactInv ==
    OrdersNameProductOnce /\ OrdersStoreProductOnce /\ TotalsMatchZones

\* inventory_totals is the sum of the zones in every reachable state, as long
\* as no ORDER_CREATED takes one product from two zones.
THEOREM TotalsExact == Spec /\ OrdersNameProductOnce => []TotalsMatchZones
<1>1. Init /\ OrdersNameProductOnce => ExactInv
  <2> SUFFICES ASSUME Init, OrdersNameProductOnce PROVE ExactInv
    OBVIOUS
  <2>1. OrdersStoreProductOnce
    BY DEF Init, OrdersStoreProductOnce, NoOrder
  <2>2. TotalsMatchZones
    BY InitSums DEF Init, TotalsMatchZones, ZeroCells
  <2> QED BY <2>1, <2>2 DEF ExactInv
<1>2. TypeOK /\ OrdersHaveItems /\ NonNegative /\ ExactInv /\ [Next]_vars => ExactInv'
  <2> SUFFICES ASSUME TypeOK, OrdersHaveItems, NonNegative, ExactInv, [Next]_vars
               PROVE  ExactInv'
    OBVIOUS
  <2> USE DEF ExactInv
  <2>1. CASE UNCHANGED vars
    BY <2>1, UnchangedTables DEF vars, tables
  <2>2. CASE Next
    <3>1. PICK e \in Events : Handle(e)
      BY <2>2 DEF Next
    <3>2. OrdersStoreProductOnce'
      BY <3>1, StoreOnceStep
    <3>3. BatchOrNothing(e)
      BY <3>1, HandleCases
    <3>4. CASE UNCHANGED tables
      BY <3>4, UnchangedTables
    <3>5. CASE \E lines, supplier, summed, newOrders :
                 /\ WellFormed(e, lines, supplier, summed, newOrders)
                 /\ Sound(lines, summed)
                 /\ ExecBatch(e, lines, supplier, summed, newOrders)
      <4>1. PICK lines, supplier, summed, newOrders :
                 /\ WellFormed(e, lines, supplier, summed, newOrders)
                 /\ Sound(lines, summed)
                 /\ ExecBatch(e, lines, supplier, summed, newOrders)
        BY <3>5
      <4>2. OneLineEach(lines, summed)
        BY <4>1 DEF Sound
      <4>3. \A p \in Products :
              /\ totals'[p].available = SumOver(AvailableIn(p)')
              /\ totals'[p].reserved = SumOver(ReservedIn(p)')
        BY <4>1, <4>2, ExactStep
      <4> QED BY <3>2, <4>3 DEF TotalsMatchZones
    <3> QED BY <3>3, <3>4, <3>5 DEF BatchOrNothing
  <2> QED BY <2>1, <2>2
<1>3. Spec /\ OrdersNameProductOnce => []ExactInv
  BY <1>1, <1>2, TypeInvariant, NeverNegative, PTL DEF Spec
<1>4. ExactInv => TotalsMatchZones
  BY DEF ExactInv
<1> QED BY <1>3, <1>4, PTL
=============================================================================
