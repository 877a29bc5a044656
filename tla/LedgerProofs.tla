---------------------------- MODULE LedgerProofs ----------------------------
(***************************************************************************)
(* Theorems about the steps of Handler: it implements StockLedger, only     *)
(* order events set a row's clock back, and what open orders took stays     *)
(* reserved.  All three follow from one description of what a call does to  *)
(* the rows (Postings).                                                     *)
(***************************************************************************)
EXTENDS HandlerProofs

\* What a batch with these lines does to the rows.
Shifts(e, lines) ==
    \A k \in Keys :
        /\ k \in DOMAIN lines =>
             /\ inventory'[k].available
                  = inventory[k].available + lines[k].available
             /\ inventory'[k].reserved
                  = inventory[k].reserved + lines[k].reserved
             /\ inventory'[k].last = e.timestamp
        /\ k \notin DOMAIN lines => inventory'[k] = inventory[k]

MoveLines(p, from, to, n) ==
    [k \in {<<p, from>>, <<p, to>>} |->
       IF k[2] = from THEN Change(-n, 0) ELSE Change(n, 0)]

Used(items) == {k \in Keys : items[k] > 0}

CreateLines(items) == [k \in Used(items) |-> Change(-items[k], items[k])]

CompleteLines(items) == [k \in Used(items) |-> Change(0, -items[k])]

\* The five handlers of one row.
RowPosting(e) ==
    \E k \in Keys : \E a, r \in Int :
        /\ Shifts(e, OneLine(k, a, r))
        /\ orders' = orders
        /\ ~IsOld(e, inventory[k].last)
        /\ r = 0 \/ a + r = 0
        /\ r < 0 => /\ e \in Releases /\ r = -e.payload.quantity
                     /\ k = <<e.payload.product, e.payload.zone>>

MovePosting(e) ==
    \E p \in Products : \E from, to \in Zones : \E n \in Nat :
        /\ from # to /\ n > 0
        /\ Shifts(e, MoveLines(p, from, to, n))
        /\ orders' = orders
        /\ ~IsOld(e, inventory[<<p, from>>].last)
        /\ ~IsOld(e, inventory[<<p, to>>].last)

CreatePosting(e) ==
    \E o \in Orders : \E items \in [Keys -> Nat] :
        /\ \E k \in Keys : items[k] > 0
        /\ Shifts(e, CreateLines(items))
        /\ orders' = [orders EXCEPT ![o] =
             [status |-> "CREATED", items |-> items, last |-> e.timestamp]]
        /\ ~IsOldOrderEvent(e, o)

CompletePosting(e) ==
    \E o \in Orders :
        /\ orders[o].status = "CREATED"
        /\ Shifts(e, CompleteLines(orders[o].items))
        /\ orders' = [orders EXCEPT ![o].status = "COMPLETED",
                                    ![o].last = e.timestamp]

Posts(e) ==
    /\ e.id \in EventIds /\ e.id \notin processed
    /\ e.timestamp \in Nat /\ e.timestamp > 0
    /\ processed' = processed \cup {e.id}
    /\ RowPosting(e) \/ MovePosting(e) \/ CreatePosting(e) \/ CompletePosting(e)

LEMMA BatchShifts ==
    ASSUME NEW e, NEW lines, NEW supplier, NEW summed, NEW newOrders,
           ExecBatch(e, lines, supplier, summed, newOrders)
    PROVE  /\ Shifts(e, lines)
           /\ orders' = newOrders /\ processed' = processed \cup {e.id}
BY DEF ExecBatch, PutInventory, Shifts

LEMMA DeclinedQuietly ==
    ASSUME NEW valid, NEW old, NEW short, Decline(valid, old, short)
    PROVE  UNCHANGED tables
BY DEF Decline, Return

LEMMA DispatchedFresh ==
    ASSUME NEW e \in Events, NEW type, Dispatched(e, type)
    PROVE  /\ e.id \in EventIds /\ e.id \notin processed
           /\ e.timestamp \in Nat /\ e.timestamp > 0
           /\ e.payload.type = type
BY StampedType DEF Dispatched

\* A handler of one row posts to that row.
LEMMA OneRowPosts ==
    ASSUME NEW e \in Events, NEW type, NEW valid, NEW short, NEW a, NEW r,
           NEW supplier, NEW summed,
           Dispatched(e, type),
           OneRow(e, valid, short, a, r, supplier, summed),
           valid => /\ e.payload.product \in Products
                    /\ e.payload.zone \in Zones
                    /\ a \in Int /\ r \in Int
                    /\ r = 0 \/ a + r = 0
                    /\ r < 0 => e \in Releases /\ r = -e.payload.quantity
    PROVE  UNCHANGED tables \/ Posts(e)
<1> DEFINE k == <<e.payload.product, e.payload.zone>>
           old == IsOldZoneEvent(e, e.payload.product, e.payload.zone)
<1>2. CASE Decline(valid, old, short)
  BY <1>2, DeclinedQuietly
<1>3. CASE /\ Accepted(valid, old, short)
           /\ ExecBatch(e, OneLine(k, a, r), supplier, summed, orders)
  <2>1. /\ Shifts(e, OneLine(k, a, r)) /\ orders' = orders
        /\ processed' = processed \cup {e.id}
    BY <1>3, BatchShifts
  <2>2. k \in Keys /\ ~IsOld(e, inventory[k].last)
    BY <1>3 DEF Accepted, IsOldZoneEvent, Keys
  <2>3. RowPosting(e)
    <3>1. /\ a \in Int /\ r \in Int /\ (r = 0 \/ a + r = 0)
          /\ r < 0 => /\ e \in Releases /\ r = -e.payload.quantity
                       /\ k = <<e.payload.product, e.payload.zone>>
      BY <1>3 DEF Accepted
    <3> HIDE DEF k
    <3> QED BY <2>1, <2>2, <3>1 DEF RowPosting
  <2> QED BY <2>1, <2>3, DispatchedFresh DEF Posts
<1> QED BY <1>2, <1>3 DEF OneRow, Checked

LEMMA MovePosts ==
    ASSUME NEW e \in Events, HandleProductMoved(e)
    PROVE  UNCHANGED tables \/ Posts(e)
<1> DEFINE m == e.payload
           lines == MoveLines(m.product, m.from, m.to, m.quantity)
           valid == /\ m.product # None /\ m.from # None /\ m.to # None
                    /\ m.from # m.to
                    /\ m.quantity > 0
           old == \E z \in {m.from, m.to} : IsOldZoneEvent(e, m.product, z)
           short == inventory[<<m.product, m.from>>].available < m.quantity
<1>1. Dispatched(e, "PRODUCT_MOVED")
  BY DEF HandleProductMoved
<1>2. \/ Decline(valid, old, short)
      \/ /\ Accepted(valid, old, short)
         /\ ExecBatch(e, lines, None, {}, orders)
  BY DEF HandleProductMoved, MoveBetween, Checked, MoveLines
<1>3. CASE Decline(valid, old, short)
  BY <1>3, DeclinedQuietly
<1>4. CASE /\ Accepted(valid, old, short)
           /\ ExecBatch(e, lines, None, {}, orders)
  <2>1. /\ Shifts(e, lines) /\ orders' = orders
        /\ processed' = processed \cup {e.id}
    BY <1>4, BatchShifts
  <2>2. valid /\ ~old
    BY <1>4 DEF Accepted
  <2>3. /\ m.product \in Products /\ m.from \in Zones /\ m.to \in Zones
        /\ m.quantity \in Nat /\ m.quantity > 0 /\ m.from # m.to
    BY <1>1, <2>2, DispatchedFresh, PayloadType
  <2>4. /\ ~IsOld(e, inventory[<<m.product, m.from>>].last)
        /\ ~IsOld(e, inventory[<<m.product, m.to>>].last)
    BY <2>2 DEF IsOldZoneEvent
  <2>5. MovePosting(e)
    BY <2>1, <2>3, <2>4 DEF MovePosting
  <2> QED BY <1>1, <2>1, <2>5, DispatchedFresh DEF Posts
<1> QED BY <1>2, <1>3, <1>4

LEMMA CreatePosts ==
    ASSUME NEW e \in Events, HandleOrderCreated(e)
    PROVE  UNCHANGED tables \/ Posts(e)
<1> DEFINE m == e.payload
           items == NormalizeOrderItems(m.items)
           lines == CreateLines(items)
           row == [status |-> "CREATED", items |-> items, last |-> e.timestamp]
           valid == m.order # None /\ ValidItems(m.items)
           short == \E k \in Used(items) : TooFewAvailable(k, items[k])
<1>1. Dispatched(e, "ORDER_CREATED")
  BY DEF HandleOrderCreated
<1>2. \/ Decline(valid, IsOldOrderEvent(e, m.order), short)
      \/ /\ Accepted(valid, IsOldOrderEvent(e, m.order), short)
         /\ ExecBatch(e, lines, None, ProductsOf(lines),
                      [orders EXCEPT ![m.order] = row])
  BY DEF HandleOrderCreated, Checked, CreateLines, Used
<1>3. CASE Decline(valid, IsOldOrderEvent(e, m.order), short)
  BY <1>3, DeclinedQuietly
<1>4. CASE /\ Accepted(valid, IsOldOrderEvent(e, m.order), short)
           /\ ExecBatch(e, lines, None, ProductsOf(lines),
                        [orders EXCEPT ![m.order] = row])
  <2>1. /\ Shifts(e, lines) /\ orders' = [orders EXCEPT ![m.order] = row]
        /\ processed' = processed \cup {e.id}
    BY <1>4, BatchShifts
  <2>2. valid /\ ~IsOldOrderEvent(e, m.order)
    BY <1>4 DEF Accepted
  <2>3. m.order \in Orders /\ m.items \in Seq(Line)
    BY <1>1, <2>2, DispatchedFresh, PayloadType
  <2>4. items \in [Keys -> Nat] /\ \E k \in Keys : items[k] > 0
    BY <2>2, <2>3, NormalizeType
  <2> HIDE DEF items
  <2>5. CreatePosting(e)
    BY <2>1, <2>2, <2>3, <2>4 DEF CreatePosting
  <2> QED BY <1>1, <2>1, <2>5, DispatchedFresh DEF Posts
<1> QED BY <1>2, <1>3, <1>4

LEMMA CompletePosts ==
    ASSUME TypeOK, NEW e \in Events, HandleOrderCompleted(e)
    PROVE  UNCHANGED tables \/ Posts(e)
<1> DEFINE m == e.payload
           lines == CompleteLines(orders[m.order].items)
           newOrders == [orders EXCEPT ![m.order].status = "COMPLETED",
                                       ![m.order].last = e.timestamp]
           valid == m.order # None /\ orders[m.order].status # "ABSENT"
           old == \/ IsOldOrderEvent(e, m.order)
                  \/ orders[m.order].status = "COMPLETED"
           short == \E k \in Used(orders[m.order].items) :
                      TooFewReserved(k, orders[m.order].items[k])
<1>1. Dispatched(e, "ORDER_COMPLETED")
  BY DEF HandleOrderCompleted
<1>2. \/ Decline(valid, old, short)
      \/ /\ Accepted(valid, old, short)
         /\ ExecBatch(e, lines, None, ProductsOf(lines), newOrders)
  BY DEF HandleOrderCompleted, CompleteOrder, Checked, CompleteLines, Used
<1>3. CASE Decline(valid, old, short)
  BY <1>3, DeclinedQuietly
<1>4. CASE /\ Accepted(valid, old, short)
           /\ ExecBatch(e, lines, None, ProductsOf(lines), newOrders)
  <2>1. /\ Shifts(e, lines) /\ orders' = newOrders
        /\ processed' = processed \cup {e.id}
    BY <1>4, BatchShifts
  <2>2. valid /\ ~old
    BY <1>4 DEF Accepted
  <2>3. m.order \in Orders
    BY <1>1, <2>2, DispatchedFresh, PayloadType
  <2>4. orders[m.order].status = "CREATED"
    BY <2>2, <2>3 DEF TypeOK, Order
  <2>5. CompletePosting(e)
    BY <2>1, <2>3, <2>4 DEF CompletePosting
  <2> QED BY <1>1, <2>1, <2>5, DispatchedFresh DEF Posts
<1> QED BY <1>2, <1>3, <1>4

\* A call of Handle leaves the tables alone, or posts once.
LEMMA Postings ==
    ASSUME TypeOK, NEW e \in Events, Handle(e)
    PROVE  UNCHANGED tables \/ Posts(e)
<1> DEFINE m == e.payload
<1>1. ASSUME NEW type, Dispatched(e, type), ValidProductZoneQty(m),
             type \in {"PRODUCT_RECEIVED", "PRODUCT_SHIPPED",
                       "PRODUCT_RESERVED", "PRODUCT_RELEASED"}
      PROVE  /\ m.product \in Products /\ m.zone \in Zones
             /\ m.quantity \in Int /\ m.quantity > 0 /\ -m.quantity \in Int
  BY <1>1, DispatchedFresh, PayloadType DEF ValidProductZoneQty
<1>2. CASE HandleProductReceived(e)
  <2> DEFINE valid == ValidProductZoneQty(m)
             short == FALSE
             a == m.quantity
             r == 0
  <2>1. /\ Dispatched(e, "PRODUCT_RECEIVED")
        /\ OneRow(e, valid, short, a, r, m.supplier, {m.product})
    BY <1>2 DEF HandleProductReceived
  <2>2. valid => /\ m.product \in Products /\ m.zone \in Zones
                 /\ a \in Int /\ r \in Int
                 /\ r = 0 \/ a + r = 0
                 /\ r < 0 => e \in Releases /\ r = -m.quantity
    BY <1>1, <2>1
  <2> HIDE DEF valid, short, a, r
  <2> QED BY <2>1, <2>2, OneRowPosts
<1>3. CASE HandleProductShipped(e)
  <2> DEFINE valid == ValidProductZoneQty(m)
             short == TooFewAvailable(<<m.product, m.zone>>, m.quantity)
             a == -m.quantity
             r == 0
  <2>1. /\ Dispatched(e, "PRODUCT_SHIPPED")
        /\ OneRow(e, valid, short, a, r, None, {m.product})
    BY <1>3 DEF HandleProductShipped
  <2>2. valid => /\ m.product \in Products /\ m.zone \in Zones
                 /\ a \in Int /\ r \in Int
                 /\ r = 0 \/ a + r = 0
                 /\ r < 0 => e \in Releases /\ r = -m.quantity
    BY <1>1, <2>1
  <2> HIDE DEF valid, short, a, r
  <2> QED BY <2>1, <2>2, OneRowPosts
<1>4. CASE HandleProductReserved(e)
  <2> DEFINE valid == ValidProductZoneQty(m) /\ m.order # None
             short == TooFewAvailable(<<m.product, m.zone>>, m.quantity)
             a == -m.quantity
             r == m.quantity
  <2>1. /\ Dispatched(e, "PRODUCT_RESERVED")
        /\ OneRow(e, valid, short, a, r, None, {m.product})
    BY <1>4 DEF HandleProductReserved
  <2>2. valid => /\ m.product \in Products /\ m.zone \in Zones
                 /\ a \in Int /\ r \in Int
                 /\ r = 0 \/ a + r = 0
                 /\ r < 0 => e \in Releases /\ r = -m.quantity
    BY <1>1, <2>1
  <2> HIDE DEF valid, short, a, r
  <2> QED BY <2>1, <2>2, OneRowPosts
<1>5. CASE HandleProductReleased(e)
  <2> DEFINE valid == ValidProductZoneQty(m) /\ m.order # None
             short == TooFewReserved(<<m.product, m.zone>>, m.quantity)
             a == m.quantity
             r == -m.quantity
  <2>1. /\ Dispatched(e, "PRODUCT_RELEASED")
        /\ OneRow(e, valid, short, a, r, None, {m.product})
    BY <1>5 DEF HandleProductReleased
  <2>2. valid => /\ m.product \in Products /\ m.zone \in Zones
                 /\ a \in Int /\ r \in Int
                 /\ r = 0 \/ a + r = 0
                 /\ r < 0 => e \in Releases /\ r = -m.quantity
    BY <1>1, <2>1, DispatchedFresh DEF Releases
  <2> HIDE DEF valid, short, a, r
  <2> QED BY <2>1, <2>2, OneRowPosts
<1>6. CASE HandleInventoryCounted(e)
  <2> DEFINE k == <<m.product, m.zone>>
             valid == m.product # None /\ m.zone # None /\ m.quantity >= 0
             a == m.quantity - inventory[k].available
  <2>1. OneRow(e, valid, FALSE, a, 0, None, {m.product})
    BY <1>6 DEF HandleInventoryCounted, Count
  <2>2. Dispatched(e, "INVENTORY_COUNTED")
    BY <1>6 DEF HandleInventoryCounted
  <2>3. ASSUME valid
        PROVE  m.product \in Products /\ m.zone \in Zones /\ a \in Int
    <3>1. /\ m.product \in Products /\ m.zone \in Zones /\ m.quantity \in Int
      BY <2>2, <2>3, DispatchedFresh, PayloadType
    <3>2. k \in Keys
      BY <3>1 DEF Keys
    <3> QED BY <3>1, <3>2, KeyRowsType
  <2> DEFINE r == 0
  <2>4. valid => /\ m.product \in Products /\ m.zone \in Zones
                 /\ a \in Int /\ r \in Int
                 /\ r = 0 \/ a + r = 0
                 /\ r < 0 => e \in Releases /\ r = -m.quantity
    BY <2>3
  <2>5. OneRow(e, valid, FALSE, a, r, None, {m.product})
    BY <2>1
  <2> HIDE DEF valid, a, r
  <2> QED BY <2>2, <2>4, <2>5, OneRowPosts
<1>7. CASE \/ RejectUnstamped(e) \/ StoreFails(e) \/ SkipDuplicate(e)
           \/ RejectUnknown(e)
  BY <1>7 DEF RejectUnstamped, StoreFails, SkipDuplicate, RejectUnknown, Return,
                tables
<1> QED BY <1>2, <1>3, <1>4, <1>5, <1>6, <1>7, MovePosts, CreatePosts,
           CompletePosts DEF Handle

-----------------------------------------------------------------------------
(* The clocks of the rows.                                                 *)

LEMMA ClockStep ==
    ASSUME TypeOK, NEW e \in Events, Posts(e),
           NEW k \in Keys, inventory'[k].last < inventory[k].last
    PROVE  orders' # orders
<1>1. /\ e.timestamp \in Nat /\ e.timestamp > 0
      /\ inventory[k].last \in Nat
  BY DEF Posts, TypeOK, Row
<1>2. inventory'[k] # inventory[k]
  BY <1>1
<1>3. CASE RowPosting(e)
  <2>1. PICK l \in Keys : \E a, r \in Int :
          Shifts(e, OneLine(l, a, r)) /\ ~IsOld(e, inventory[l].last)
    BY <1>3 DEF RowPosting
  <2>2. k = l /\ inventory'[k].last = e.timestamp
    BY <1>2, <2>1 DEF Shifts, OneLine
  <2> QED BY <1>1, <2>1, <2>2 DEF IsOld
<1>4. CASE MovePosting(e)
  <2>1. PICK p \in Products, from \in Zones, to \in Zones : \E n \in Nat :
          /\ Shifts(e, MoveLines(p, from, to, n))
          /\ ~IsOld(e, inventory[<<p, from>>].last)
          /\ ~IsOld(e, inventory[<<p, to>>].last)
    BY <1>4 DEF MovePosting
  <2>2. k \in {<<p, from>>, <<p, to>>} /\ inventory'[k].last = e.timestamp
    BY <1>2, <2>1 DEF Shifts, MoveLines
  <2> QED BY <1>1, <2>1, <2>2 DEF IsOld
<1>5. CASE CreatePosting(e)
  <2>1. PICK o \in Orders, items \in [Keys -> Nat] :
          /\ orders' = [orders EXCEPT ![o] =
               [status |-> "CREATED", items |-> items, last |-> e.timestamp]]
          /\ ~IsOldOrderEvent(e, o)
    BY <1>5 DEF CreatePosting
  <2>2. /\ orders'[o].status = "CREATED"
        /\ orders'[o].last = e.timestamp
    BY <2>1 DEF TypeOK
  <2> QED BY <1>1, <2>1, <2>2 DEF IsOldOrderEvent, IsOld
<1>6. CASE CompletePosting(e)
  <2>1. PICK o \in Orders :
          /\ orders[o].status = "CREATED"
          /\ orders' = [orders EXCEPT ![o].status = "COMPLETED",
                                      ![o].last = e.timestamp]
    BY <1>6 DEF CompletePosting
  <2>2. orders'[o].status = "COMPLETED"
    BY <2>1 DEF TypeOK, Order
  <2> QED BY <2>1, <2>2
<1> QED BY <1>3, <1>4, <1>5, <1>6 DEF Posts

\* A step of Handler leaves the tables alone or posts one event.
LEMMA NextPosts ==
    ASSUME TypeOK, [Next]_vars
    PROVE  UNCHANGED tables \/ \E e \in Events : Posts(e)
<1>1. CASE UNCHANGED vars
  BY <1>1 DEF vars, tables
<1>2. CASE Next
  BY <1>2, Postings DEF Next
<1> QED BY <1>1, <1>2

\* A row's last_event_timestamp goes back only in a step that changes the
\* orders table: the stale-event check of the product events is complete, and
\* the order events are the one way around it.
THEOREM OnlyOrdersRewind == Spec => OnlyOrdersRewindZone
<1>1. ASSUME TypeOK, [Next]_vars
      PROVE  [\A k \in Keys : inventory'[k].last < inventory[k].last
                                => orders' # orders]_vars
  <2> SUFFICES ASSUME NEW k \in Keys, inventory'[k].last < inventory[k].last
               PROVE  orders' # orders
    OBVIOUS
  <2>1. CASE UNCHANGED tables
    <3>1. inventory'[k].last = inventory[k].last /\ inventory[k].last \in Nat
      BY <1>1, <2>1 DEF tables, TypeOK, Row
    <3> QED BY <3>1
  <2> QED BY <1>1, <2>1, NextPosts, ClockStep
<1> QED BY <1>1, TypeCorrect, PTL DEF Spec, OnlyOrdersRewindZone

-----------------------------------------------------------------------------
(* The stock ledger.                                                       *)

\* The change of the books that lines make.
LEMMA BooksShift ==
    ASSUME TypeOK, NEW e, NEW lines, Shifts(e, lines), NEW k \in Keys
    PROVE  /\ k \in DOMAIN lines
                /\ lines[k].available \in Int /\ lines[k].reserved \in Int
              => /\ Ledger!Available(k) = lines[k].available
                 /\ Ledger!Reserved(k) = lines[k].reserved
           /\ k \notin DOMAIN lines
              => Ledger!Available(k) = 0 /\ Ledger!Reserved(k) = 0
<1>1. /\ Books[k] = [available |-> inventory[k].available,
                     reserved |-> inventory[k].reserved]
      /\ Books'[k] = [available |-> inventory'[k].available,
                      reserved |-> inventory'[k].reserved]
  BY DEF Books
<1>2. inventory[k].available \in Int /\ inventory[k].reserved \in Int
  BY DEF TypeOK, Row
<1>3. /\ Ledger!Available(k) = inventory'[k].available - inventory[k].available
      /\ Ledger!Reserved(k) = inventory'[k].reserved - inventory[k].reserved
  BY <1>1 DEF Ledger!Available, Ledger!Reserved
<1> HIDE DEF Books
<1> QED BY <1>2, <1>3 DEF Shifts

\* A handler of one row sets it, reserves stock of it or releases it.
LEMMA RowInLedger ==
    ASSUME TypeOK, NEW e, RowPosting(e)
    PROVE  Ledger!Recount \/ Ledger!Reserve \/ Ledger!Release
<1>1. PICK k \in Keys, a \in Int, r \in Int :
        Shifts(e, OneLine(k, a, r)) /\ (r = 0 \/ a + r = 0)
  BY DEF RowPosting
<1>2. /\ DOMAIN OneLine(k, a, r) = {k}
      /\ OneLine(k, a, r)[k].available = a
      /\ OneLine(k, a, r)[k].reserved = r
  BY DEF OneLine, Change
<1>3. Ledger!Available(k) = a /\ Ledger!Reserved(k) = r
  BY <1>1, <1>2, BooksShift
<1>4. \A l \in Keys \ {k} : Ledger!Available(l) = 0 /\ Ledger!Reserved(l) = 0
  BY <1>1, <1>2, BooksShift
<1>5. Ledger!Only({k})
  BY <1>4 DEF Ledger!Only, Ledger!Keys, Keys
<1>6. Ledger!Keys = Keys
  BY DEF Ledger!Keys, Keys
<1>7. CASE r = 0
  BY <1>3, <1>5, <1>6, <1>7 DEF Ledger!Recount
<1>8. CASE a + r = 0 /\ r > 0
  BY <1>3, <1>4, <1>6, <1>8 DEF Ledger!Reserve
<1>9. CASE a + r = 0 /\ r < 0
  BY <1>3, <1>5, <1>6, <1>9 DEF Ledger!Release
<1> QED BY <1>1, <1>7, <1>8, <1>9

LEMMA MoveInLedger ==
    ASSUME TypeOK, NEW e, MovePosting(e)
    PROVE  Ledger!Move
<1>1. PICK p \in Products, from \in Zones, to \in Zones, n \in Nat :
        from # to /\ n > 0 /\ Shifts(e, MoveLines(p, from, to, n))
  BY DEF MovePosting
<1> DEFINE lines == MoveLines(p, from, to, n)
<1>2. /\ DOMAIN lines = {<<p, from>>, <<p, to>>}
      /\ lines[<<p, from>>] = [available |-> -n, reserved |-> 0]
      /\ lines[<<p, to>>] = [available |-> n, reserved |-> 0]
  BY <1>1 DEF MoveLines, Change
<1>3. <<p, from>> \in Keys /\ <<p, to>> \in Keys
  BY DEF Keys
<1> HIDE DEF lines
<1>4. /\ Ledger!Available(<<p, from>>) = -n
      /\ Ledger!Reserved(<<p, from>>) = 0
  <2>1. /\ lines[<<p, from>>].available = -n
        /\ lines[<<p, from>>].reserved = 0
    BY <1>2
  <2> QED BY <1>1, <1>2, <1>3, <2>1, BooksShift DEF lines
<1>5. /\ Ledger!Available(<<p, to>>) = n
      /\ Ledger!Reserved(<<p, to>>) = 0
  <2>1. /\ lines[<<p, to>>].available = n
        /\ lines[<<p, to>>].reserved = 0
    BY <1>2
  <2> QED BY <1>1, <1>2, <1>3, <2>1, BooksShift DEF lines
<1>6. Ledger!Only({<<p, from>>, <<p, to>>})
  <2>1. \A l \in Keys \ {<<p, from>>, <<p, to>>} :
          Ledger!Available(l) = 0 /\ Ledger!Reserved(l) = 0
    BY <1>1, <1>2, BooksShift DEF lines
  <2> QED BY <2>1 DEF Ledger!Only, Ledger!Keys, Keys
<1>7. /\ Ledger!Available(<<p, from>>) < 0
      /\ Ledger!Available(<<p, from>>) + Ledger!Available(<<p, to>>) = 0
  BY <1>1, <1>4, <1>5
<1> QED BY <1>4, <1>5, <1>6, <1>7 DEF Ledger!Move

LEMMA CreateInLedger ==
    ASSUME TypeOK, NEW e, CreatePosting(e)
    PROVE  Ledger!Reserve
<1>1. PICK items \in [Keys -> Nat] :
        (\E k \in Keys : items[k] > 0) /\ Shifts(e, CreateLines(items))
  BY DEF CreatePosting
<1> DEFINE lines == CreateLines(items)
<1>2. /\ DOMAIN lines = {k \in Keys : items[k] > 0}
      /\ \A k \in DOMAIN lines : /\ lines[k].available = -items[k]
                                 /\ lines[k].reserved = items[k]
  BY DEF CreateLines, Used, Change
<1> HIDE DEF lines
<1>3. ASSUME NEW k \in Keys
      PROVE  Ledger!Available(k) = -items[k] /\ Ledger!Reserved(k) = items[k]
  <2>1. items[k] \in Nat
    OBVIOUS
  <2>2. CASE items[k] > 0
    BY <1>1, <1>2, <2>1, <2>2, BooksShift DEF lines
  <2>3. CASE items[k] = 0
    BY <1>1, <1>2, <2>3, BooksShift DEF lines
  <2> QED BY <2>1, <2>2, <2>3
<1> QED BY <1>1, <1>3 DEF Ledger!Reserve, Ledger!Keys, Keys

LEMMA CompleteInLedger ==
    ASSUME TypeOK, OrdersHaveItems, NEW e, CompletePosting(e)
    PROVE  Ledger!Consume
<1>1. PICK o \in Orders : /\ orders[o].status = "CREATED"
                          /\ Shifts(e, CompleteLines(orders[o].items))
  BY DEF CompletePosting
<1> DEFINE items == orders[o].items
           lines == CompleteLines(items)
<1>2. items \in [Keys -> Nat] /\ \E k \in Keys : items[k] > 0
  BY <1>1 DEF TypeOK, Order, OrdersHaveItems
<1>3. /\ DOMAIN lines = {k \in Keys : items[k] > 0}
      /\ \A k \in DOMAIN lines : /\ lines[k].available = 0
                                 /\ lines[k].reserved = -items[k]
  BY DEF CompleteLines, Used, Change
<1>4. Shifts(e, lines)
  BY <1>1
<1> HIDE DEF lines, items
<1>5. ASSUME NEW k \in Keys
      PROVE  Ledger!Available(k) = 0 /\ Ledger!Reserved(k) = -items[k]
  <2>1. items[k] \in Nat
    BY <1>2
  <2>2. CASE items[k] > 0
    BY <1>3, <1>4, <2>1, <2>2, BooksShift
  <2>3. CASE items[k] = 0
    BY <1>3, <1>4, <2>3, BooksShift
  <2> QED BY <2>1, <2>2, <2>3
<1> QED BY <1>2, <1>5 DEF Ledger!Consume, Ledger!Keys, Keys

LEMMA PostsInLedger ==
    ASSUME TypeOK, OrdersHaveItems, TypeOK', NonNegative', NEW e, Posts(e)
    PROVE  Ledger!Post(e.id)
<1>1. Books' \in [Ledger!Keys -> Ledger!Account]
  <2>1. \A k \in Keys : /\ inventory'[k].available \in Nat
                        /\ inventory'[k].reserved \in Nat
    BY DEF TypeOK, Row, NonNegative
  <2> QED BY <2>1 DEF Books, Ledger!Keys, Keys, Ledger!Account
<1>2. \/ Ledger!Move \/ Ledger!Reserve \/ Ledger!Release \/ Ledger!Recount
      \/ Ledger!Consume
  BY RowInLedger, MoveInLedger, CreateInLedger, CompleteInLedger DEF Posts
<1> QED BY <1>1, <1>2 DEF Posts, Ledger!Post

\* The invariant of the tables that the refinement rests on.
StoreInv == TypeOK /\ OrdersHaveItems /\ StockInv

\* A call of Handle keeps the invariant and posts once, or leaves the books
\* alone.  Stated for one call, so that it holds in every program of which
\* such calls are steps.
LEMMA HandleInLedger ==
    ASSUME StoreInv, NEW e \in Events, Handle(e)
    PROVE  /\ StoreInv'
           /\ \/ UNCHANGED <<Books, processed>>
              \/ e.id \in EventIds /\ Ledger!Post(e.id)
<1> USE DEF StoreInv
<1>1. BatchOrNothing(e)
  BY HandleCases
<1>2. TypeOK' /\ StockInv'
  <2>1. CASE UNCHANGED tables /\ err' \in {Ok, Validation, Processing}
    <3>1. TypeOK'
      BY <2>1 DEF tables, TypeOK
    <3> QED BY <2>1, <3>1, UnchangedTables DEF StockInv
  <2>2. CASE \E lines, supplier, summed, newOrders :
               /\ WellFormed(e, lines, supplier, summed, newOrders)
               /\ Sound(lines, summed)
               /\ ExecBatch(e, lines, supplier, summed, newOrders)
    BY <2>2, BatchType, StockStep
  <2> QED BY <1>1, <2>1, <2>2 DEF BatchOrNothing
<1>3. OrdersHaveItems'
  BY OrdersHaveItemsStep
<1>4. CASE UNCHANGED tables
  BY <1>2, <1>3, <1>4 DEF tables, Books
<1>5. CASE Posts(e)
  <2>1. Ledger!Post(e.id)
    BY <1>2, <1>5, PostsInLedger DEF StockInv
  <2> QED BY <1>2, <1>3, <1>5, <2>1 DEF Posts
<1> QED BY <1>4, <1>5, Postings

LEMMA InitInLedger == Init => StoreInv /\ Ledger!Init
<1> SUFFICES ASSUME Init PROVE StoreInv /\ Ledger!Init
  OBVIOUS
<1>1. NonNegative
  BY DEF Init, NonNegative, ZeroRow, ZeroCells
<1>2. TotalsCoverZones
  BY InitSums DEF Init, TotalsCoverZones, ZeroCells
<1>3. Ledger!Init
  BY DEF Init, Ledger!Init, Books, ZeroRow, Ledger!Keys, Keys
<1> QED BY <1>1, <1>2, <1>3, InitType DEF StoreInv, StockInv

\* The handler implements the stock ledger: stock changes only by legal
\* postings, each by an event id that has not posted before, and what is not a
\* posting leaves the books alone (handler.go:33-73 and the eight handlers).
THEOREM HandlerImplementsLedger == Spec => LedgerSpec
<1>1. ASSUME StoreInv, [Next]_vars
      PROVE  StoreInv' /\ [Ledger!Next]_<<Books, processed>>
  <2>1. CASE UNCHANGED vars
    BY <1>1, <2>1, UnchangedTables
       DEF vars, tables, StoreInv, StockInv, TypeOK, OrdersHaveItems, Books
  <2>2. CASE Next
    BY <1>1, <2>2, HandleInLedger DEF Next, Ledger!Next
  <2> QED BY <1>1, <2>1, <2>2
<1> QED BY <1>1, InitInLedger, PTL DEF Spec, LedgerSpec, Ledger!Spec

-----------------------------------------------------------------------------
(* The reservations of open orders.                                        *)

\* What an order, if open, holds of row k.
Held(order, k) == IF order.status = "CREATED" THEN order.items[k] ELSE 0

HeldBy(table, k) == [o \in Orders |-> Held(table[o], k)]

\* The sum of OpenItems, as a sum over all orders of the table.
LEMMA OpenItemsSum ==
    ASSUME NEW table \in [Orders -> Order], NEW k \in Keys
    PROVE  /\ HeldBy(table, k) \in [Orders -> Nat]
           /\ SumOver([o \in {o \in Orders : table[o].status = "CREATED"} |->
                         table[o].items[k]])
                = SumOver(HeldBy(table, k))
<1> DEFINE open == {o \in Orders : table[o].status = "CREATED"}
           g == [o \in open |-> table[o].items[k]]
           h == [o \in Orders |-> Held(table[o], k)]
<1>1. \A o \in Orders : table[o].items[k] \in Nat
  BY DEF Order
<1>2. g \in [open -> Nat] /\ h \in [Orders -> Nat]
  BY <1>1 DEF Held
<1>3. \A o \in open : h[o] = g[o]
  BY DEF Held
<1>4. \A o \in Orders \ open : h[o] = 0
  BY DEF Held
<1>5. open \subseteq Orders
  OBVIOUS
<1>6. HeldBy(table, k) = h
  BY DEF HeldBy
<1> HIDE DEF g, h, open
<1>7. ASSUME NEW u PROVE u \in Units(g) <=> u \in Units(h)
  <2>1. u \in Units(g) => u \in Units(h)
    BY <1>2, <1>3, <1>5, UnitsMember
  <2>2. u \in Units(h) => u \in Units(g)
    <3> SUFFICES ASSUME u \in Units(h) PROVE u \in Units(g)
      OBVIOUS
    <3>1. PICK o \in Orders : \E i \in 1 .. h[o] : u = <<o, i>>
      BY <1>2, UnitsMember
    <3>2. o \in open
      BY <1>4, <3>1
    <3> QED BY <1>2, <1>3, <3>1, <3>2, UnitsMember
  <2> QED BY <2>1, <2>2
<1>8. Units(g) = Units(h)
  BY <1>7 DEF Units
<1> QED BY <1>2, <1>6, <1>8 DEF SumOver, g, open

\* What the processed releases of row k add up to.
Taken(done, k) ==
    [e \in Releases |->
       IF e.id \in done /\ <<e.payload.product, e.payload.zone>> = k
         THEN e.payload.quantity ELSE 0]

LEMMA TakenType ==
    ASSUME IsFiniteSet(Releases), NEW done, NEW k
    PROVE  /\ Taken(done, k) \in [Releases -> Nat]
           /\ SumOver(Taken(done, k)) \in Nat
<1>1. ASSUME NEW e \in Releases PROVE e.payload.quantity \in Nat
  BY PayloadType DEF Releases, ValidProductZoneQty
<1>2. Taken(done, k) \in [Releases -> Nat]
  BY <1>1 DEF Taken
<1> QED BY <1>2, SumType

\* What is released of a row only grows, by the quantity of a release when one
\* posts.
LEMMA ReleasedGrows ==
    ASSUME IsFiniteSet(Releases), NEW e \in Events, Posts(e), NEW k
    PROVE  /\ ReleasedFrom(k) \in Nat /\ ReleasedFrom(k)' \in Nat
           /\ ReleasedFrom(k)' >= ReleasedFrom(k)
           /\ e \in Releases /\ k = <<e.payload.product, e.payload.zone>>
                => ReleasedFrom(k)' >= ReleasedFrom(k) + e.payload.quantity
<1> DEFINE g == Taken(processed, k)
           h == Taken(processed', k)
<1>1. ReleasedFrom(k) = SumOver(g) /\ ReleasedFrom(k)' = SumOver(h)
  BY DEF ReleasedFrom, Taken
<1>2. /\ g \in [Releases -> Nat] /\ h \in [Releases -> Nat]
      /\ SumOver(g) \in Nat /\ SumOver(h) \in Nat
  BY TakenType
<1>3. e.id \notin processed /\ processed' = processed \cup {e.id}
  BY DEF Posts
<1>4. \A x \in Releases : g[x] =< h[x]
  <2> SUFFICES ASSUME NEW x \in Releases PROVE g[x] =< h[x]
    OBVIOUS
  <2>1. g[x] \in Nat /\ h[x] \in Nat
    BY <1>2
  <2>2. g[x] = 0 \/ h[x] = g[x]
    BY <1>3 DEF Taken
  <2> QED BY <2>1, <2>2
<1>5. e \in Releases => g[e] = 0
  BY <1>3 DEF Taken
<1>6. e \in Releases /\ k = <<e.payload.product, e.payload.zone>>
        => h[e] = e.payload.quantity
  BY <1>3 DEF Taken
<1> HIDE DEF g, h
<1>7. SumOver(g) =< SumOver(h)
  BY <1>2, <1>4, SumMonotone
<1>8. ASSUME e \in Releases, k = <<e.payload.product, e.payload.zone>>
      PROVE  SumOver(h) >= SumOver(g) + e.payload.quantity
  <2> DEFINE mid == [g EXCEPT ![e] = h[e]]
  <2>1. mid \in [Releases -> Nat] /\ mid[e] = h[e]
    BY <1>2, <1>8
  <2>2. \A x \in Releases \ {e} : mid[x] = g[x]
    BY <1>2
  <2>3. \A x \in Releases : mid[x] =< h[x]
    BY <1>2, <1>4, <2>1, <2>2
  <2> HIDE DEF mid
  <2>4. SumOver(mid) = SumOver(g) - g[e] + mid[e]
    BY <1>2, <1>8, <2>1, <2>2, SumUpdate
  <2>5. SumOver(mid) =< SumOver(h)
    BY <1>2, <2>1, <2>3, SumMonotone
  <2>6. SumOver(mid) \in Nat /\ g[e] = 0 /\ h[e] = e.payload.quantity
    BY <1>5, <1>6, <1>8, <2>1, SumType
  <2> QED BY <1>2, <1>8, <2>1, <2>4, <2>5, <2>6
<1> QED BY <1>1, <1>2, <1>7, <1>8

\* A posting keeps what open orders hold covered.
LEMMA CoveredStep ==
    ASSUME TypeOK, TypeOK', OpenOrdersCovered, IsFiniteSet(Releases),
           NEW e \in Events, Posts(e), NEW k \in Keys
    PROVE  OpenItems(k)' =< inventory'[k].reserved + ReleasedFrom(k)'
<1> DEFINE g == HeldBy(orders, k)
           h == HeldBy(orders', k)
<1>1. /\ inventory[k].reserved \in Int /\ inventory'[k].reserved \in Int
      /\ orders \in [Orders -> Order] /\ orders' \in [Orders -> Order]
  BY DEF TypeOK, Row
<1>2. /\ g \in [Orders -> Nat] /\ h \in [Orders -> Nat]
      /\ OpenItems(k) = SumOver(g) /\ OpenItems(k)' = SumOver(h)
  BY <1>1, OpenItemsSum DEF OpenItems
<1>3. /\ \A o \in Orders : g[o] = Held(orders[o], k)
      /\ \A o \in Orders : h[o] = Held(orders'[o], k)
  BY DEF HeldBy
<1> HIDE DEF g, h
<1>4. /\ SumOver(g) \in Nat /\ SumOver(h) \in Nat
      /\ SumOver(g) =< inventory[k].reserved + ReleasedFrom(k)
      /\ ReleasedFrom(k) \in Nat /\ ReleasedFrom(k)' \in Nat
      /\ ReleasedFrom(k)' >= ReleasedFrom(k)
  BY <1>2, SetsAssumption, SumType, ReleasedGrows DEF OpenOrdersCovered
<1>5. CASE /\ orders' = orders
           /\ inventory'[k].reserved + ReleasedFrom(k)'
                >= inventory[k].reserved + ReleasedFrom(k)
  <2>1. SumOver(h) = SumOver(g)
    BY <1>5 DEF g, h
  <2> QED BY <1>1, <1>2, <1>4, <1>5, <2>1
<1>6. CASE RowPosting(e)
  <2>1. PICK l \in Keys, a \in Int, r \in Int :
          /\ Shifts(e, OneLine(l, a, r)) /\ orders' = orders
          /\ r < 0 => /\ e \in Releases /\ r = -e.payload.quantity
                      /\ l = <<e.payload.product, e.payload.zone>>
    BY <1>6 DEF RowPosting
  <2>2. CASE k = l
    <3>1. inventory'[k].reserved = inventory[k].reserved + r
      BY <2>1, <2>2 DEF Shifts, OneLine, Change
    <3>2. CASE r >= 0
      BY <1>1, <1>4, <1>5, <2>1, <3>1, <3>2
    <3>3. CASE r < 0
      <4>1. ReleasedFrom(k)' >= ReleasedFrom(k) + e.payload.quantity
        BY <2>1, <2>2, <3>3, ReleasedGrows
      <4>2. e.payload.quantity \in Int /\ r = -e.payload.quantity
        BY <2>1, <3>3, PayloadType DEF Releases
      <4> QED BY <1>1, <1>4, <1>5, <2>1, <3>1, <4>1, <4>2
    <3> QED BY <3>2, <3>3
  <2>3. CASE k # l
    <3>1. inventory'[k] = inventory[k]
      BY <2>1, <2>3 DEF Shifts, OneLine
    <3> QED BY <1>1, <1>4, <1>5, <2>1, <3>1
  <2> QED BY <2>2, <2>3
<1>7. CASE MovePosting(e)
  <2>1. PICK p \in Products, from \in Zones, to \in Zones, n \in Nat :
          Shifts(e, MoveLines(p, from, to, n)) /\ orders' = orders
    BY <1>7 DEF MovePosting
  <2> DEFINE lines == MoveLines(p, from, to, n)
  <2>2. \A l \in DOMAIN lines : lines[l].reserved = 0
    BY DEF MoveLines, Change
  <2> HIDE DEF lines
  <2>3. CASE k \in DOMAIN lines
    <3>1. inventory'[k].reserved = inventory[k].reserved + 0
      BY <2>1, <2>2, <2>3 DEF Shifts, lines
    <3> QED BY <1>1, <1>4, <1>5, <2>1, <3>1
  <2>4. CASE k \notin DOMAIN lines
    <3>1. inventory'[k] = inventory[k]
      BY <2>1, <2>4 DEF Shifts, lines
    <3> QED BY <1>1, <1>4, <1>5, <2>1, <3>1
  <2> QED BY <2>3, <2>4
<1>8. ASSUME NEW o \in Orders, \A q \in Orders \ {o} : orders'[q] = orders[q]
      PROVE  SumOver(h) = SumOver(g) - Held(orders[o], k) + Held(orders'[o], k)
  <2>1. \A q \in Orders \ {o} : h[q] = g[q]
    BY <1>3, <1>8
  <2> QED BY <1>2, <1>3, <2>1, SetsAssumption, SumUpdate
<1>9. CASE CreatePosting(e)
  <2>1. PICK o \in Orders, items \in [Keys -> Nat] :
          /\ Shifts(e, CreateLines(items))
          /\ orders' = [orders EXCEPT ![o] =
               [status |-> "CREATED", items |-> items, last |-> e.timestamp]]
    BY <1>9 DEF CreatePosting
  <2>2. /\ Held(orders'[o], k) = items[k] /\ items[k] \in Nat
        /\ Held(orders[o], k) \in Nat
    BY <1>1, <2>1 DEF Held, Order
  <2>3. SumOver(h) = SumOver(g) - Held(orders[o], k) + Held(orders'[o], k)
    BY <1>1, <1>8, <2>1
  <2>4. inventory'[k].reserved = inventory[k].reserved + items[k]
    <3>1. CASE items[k] > 0
      BY <2>1, <3>1 DEF Shifts, CreateLines, Used, Change
    <3>2. CASE items[k] = 0
      <4>1. k \notin DOMAIN CreateLines(items)
        BY <3>2 DEF CreateLines, Used
      <4>2. inventory'[k] = inventory[k]
        BY <2>1, <4>1 DEF Shifts
      <4> QED BY <1>1, <3>2, <4>2
    <3> QED BY <2>2, <3>1, <3>2
  <2> QED BY <1>1, <1>2, <1>4, <2>2, <2>3, <2>4
<1>10. CASE CompletePosting(e)
  <2>1. PICK o \in Orders :
          /\ orders[o].status = "CREATED"
          /\ Shifts(e, CompleteLines(orders[o].items))
          /\ orders' = [orders EXCEPT ![o].status = "COMPLETED",
                                      ![o].last = e.timestamp]
    BY <1>10 DEF CompletePosting
  <2> DEFINE n == orders[o].items[k]
  <2>2. /\ Held(orders[o], k) = n /\ n \in Nat
        /\ Held(orders'[o], k) = 0
    BY <1>1, <2>1 DEF Held, Order
  <2>3. SumOver(h) = SumOver(g) - Held(orders[o], k) + Held(orders'[o], k)
    BY <1>1, <1>8, <2>1
  <2>4. inventory'[k].reserved = inventory[k].reserved - n
    <3>1. CASE n > 0
      <4>1. inventory'[k].reserved = inventory[k].reserved + (-n)
        BY <2>1, <3>1 DEF Shifts, CompleteLines, Used, Change
      <4> QED BY <1>1, <2>2, <4>1
    <3>2. CASE n = 0
      <4>1. k \notin DOMAIN CompleteLines(orders[o].items)
        BY <3>2 DEF CompleteLines, Used
      <4>2. inventory'[k] = inventory[k]
        BY <2>1, <4>1 DEF Shifts
      <4> QED BY <1>1, <3>2, <4>2
    <3> QED BY <2>2, <3>1, <3>2
  <2> QED BY <1>1, <1>2, <1>4, <2>2, <2>3, <2>4
<1> QED BY <1>6, <1>7, <1>9, <1>10 DEF Posts

\* What open orders took stays reserved in the rows they took it from, but for
\* what PRODUCT_RELEASED events took back, whatever else happens: restocks,
\* counts, moves, redeliveries, orders that are created again.  The releases
\* of a stream are finitely many, so that they have a sum.
THEOREM OrdersStayCovered ==
    ASSUME IsFiniteSet(Releases)
    PROVE  Spec => []OpenOrdersCovered
<1>1. Init => OpenOrdersCovered
  <2> SUFFICES ASSUME Init, NEW k \in Keys
               PROVE  OpenItems(k) =< inventory[k].reserved + ReleasedFrom(k)
    BY DEF OpenOrdersCovered
  <2>1. orders \in [Orders -> Order]
    BY InitType DEF TypeOK
  <2>2. /\ HeldBy(orders, k) \in [Orders -> Nat]
        /\ OpenItems(k) = SumOver(HeldBy(orders, k))
    BY <2>1, OpenItemsSum DEF OpenItems
  <2>3. \A o \in Orders : HeldBy(orders, k)[o] = 0
    BY DEF Init, NoOrder, HeldBy, Held
  <2>4. SumOver(HeldBy(orders, k)) = 0
    BY <2>2, <2>3, SetsAssumption, SumZero
  <2>5. ReleasedFrom(k) \in Nat
    BY TakenType DEF ReleasedFrom, Taken
  <2> QED BY <2>2, <2>4, <2>5 DEF Init, ZeroRow
<1>2. ASSUME TypeOK, TypeOK', OpenOrdersCovered, [Next]_vars
      PROVE  OpenOrdersCovered'
  <2>1. CASE UNCHANGED tables
    BY <1>2, <2>1 DEF tables, OpenOrdersCovered, OpenItems, ReleasedFrom
  <2>2. CASE \E e \in Events : Posts(e)
    <3>1. \A k \in Keys :
            OpenItems(k)' =< inventory'[k].reserved + ReleasedFrom(k)'
      BY <1>2, <2>2, CoveredStep
    <3> QED BY <3>1 DEF OpenOrdersCovered, OpenItems, ReleasedFrom
  <2> QED BY <1>2, <2>1, <2>2, NextPosts
<1> QED BY <1>1, <1>2, TypeCorrect, PTL DEF Spec
=============================================================================
