-------------------------- MODULE LateBatchProofs --------------------------
(***************************************************************************)
(* Theorems about LateBatch, for all events and any number of late batches: *)
(* what the views and the log disagree on is on its way.                    *)
(*                                                                         *)
(* A row has its value in the table and those of its late statements.  The  *)
(* newest of these versions is what the row comes to hold, whatever arrives *)
(* first, so that the invariants speak of newest versions.                  *)
(***************************************************************************)
EXTENDS LateBatch, TLAPS

Inventory(k) == <<"inventory", k>>
ByZone(k)    == <<"byZone", k>>

\* The value a row of a view has in its table.
Current(row) ==
    IF row[1] = "inventory" THEN inventory[row[2]]
                            ELSE byZone[<<row[2][2], row[2][1]>>]

Version(value, stamp) == [value |-> value, stamp |-> stamp]

Versions(row) ==
    {Version(Current(row), stamps[row])}
    \cup {Version(s.value, s.stamp) : s \in {s \in late : s.row = row}}

Newest(row, v) ==
    /\ v \in Versions(row)
    /\ \A w \in Versions(row) : w = v \/ w.stamp < v.stamp

\* The newest versions of a row in the two views agree.
ViewsMatch ==
    \A k \in Keys : \E v \in Versions(Inventory(k)) :
        /\ Newest(Inventory(k), v)
        /\ Newest(ByZone(k), Version(V!PutZoneInventory(v.value), v.stamp))

\* The event ids and the history entries, with those under way.
Ids     == processed \cup {s.value : s \in {s \in late : s.row = <<"processed">>}}
Entries == history \cup {s.value : s \in {s \in late : s.row = <<"history">>}}

AuditMatches ==
    /\ Ids = {h.id : h \in Entries}
    /\ \A k \in Keys : \A v \in Versions(Inventory(k)) : v.value.last # 0 =>
         \E h \in Entries : h.product = k[1] /\ h.timestamp = v.value.last

\* No write timestamp is used twice, and a call handles one of the events.
CallOK ==
    /\ clock \in Nat
    /\ \A r \in Rows : stamps[r] \in 0 .. clock
    /\ \A s \in late : s.stamp \in 0 .. clock
    /\ pc \in {"idle", "checked", "read"}
    /\ pc # "idle" => call \in Events /\ sawHistory = {}

LateInv == CallOK /\ ViewsMatch /\ AuditMatches

-----------------------------------------------------------------------------
(* What a call computes.                                                   *)

\* The batch of a call puts its rows in both views with the time of the event,
\* one entry for the product, and the id.
Computed(e) ==
    /\ KeysOf(e) \subseteq Keys
    /\ \A k \in KeysOf(e) :
         /\ sawByZone'[<<k[2], k[1]>>] = V!PutZoneInventory(sawInventory'[k])
         /\ sawInventory'[k].last = e.timestamp
    /\ sawProcessed' = sawProcessed \cup {e.id}
    /\ sawHistory' = sawHistory \cup
         {[product |-> e.payload.product, timestamp |-> e.timestamp, id |-> e.id]}

LEMMA BatchComputed ==
    ASSUME NEW e, NEW lines, NEW supplier, NEW summed, NEW newOrders,
           V!ExecBatch(e, lines, supplier, summed, newOrders),
           DOMAIN lines = KeysOf(e), KeysOf(e) \subseteq Keys,
           \E k \in KeysOf(e) : TRUE,
           \A k \in KeysOf(e) : k[1] = e.payload.product
    PROVE  Computed(e)
<1>1. ASSUME NEW k \in KeysOf(e)
      PROVE  /\ sawByZone'[<<k[2], k[1]>>] = V!PutZoneInventory(sawInventory'[k])
             /\ sawInventory'[k].last = e.timestamp
  <2>1. k \in V!Keys /\ <<k[2], k[1]>> \in Zones \X Products
        /\ << <<k[2], k[1]>>[2], <<k[2], k[1]>>[1] >> = k
    BY DEF V!Keys, Keys
  <2>2. sawInventory'[k] = V!PutInventory(sawInventory[k], lines[k], e, supplier)
    BY <2>1 DEF V!ExecBatch
  <2>3. sawByZone'[<<k[2], k[1]>>] = V!PutZoneInventory(sawInventory'[k])
    BY <2>1 DEF V!ExecBatch
  <2> QED BY <2>2, <2>3 DEF V!PutInventory
<1>2. V!ProductsOf(lines) = {e.payload.product}
  BY DEF V!ProductsOf
<1>3. V!PutHistory(lines, e) =
        {[product |-> e.payload.product, timestamp |-> e.timestamp, id |-> e.id]}
  BY <1>2 DEF V!PutHistory
<1> QED BY <1>1, <1>3 DEF Computed, V!ExecBatch

\* A row handler's batch.
LEMMA OneRowComputed ==
    ASSUME NEW e \in Events, NEW valid, NEW short, NEW a, NEW r, NEW supplier,
           NEW summed, sawProcessed' # sawProcessed,
           e.payload.type # "PRODUCT_MOVED",
           valid => e.payload.product # None /\ e.payload.zone # None,
           V!OneRow(e, valid, short, a, r, supplier, summed)
    PROVE  Computed(e)
<1> DEFINE k == <<e.payload.product, e.payload.zone>>
           old == V!IsOldZoneEvent(e, e.payload.product, e.payload.zone)
           lines == V!OneLine(k, a, r)
<1>1. ~V!Decline(valid, old, short)
  BY DEF V!Decline, V!Return, V!tables
<1>2. /\ V!Accepted(valid, old, short)
      /\ V!ExecBatch(e, lines, supplier, summed, [o \in {} |-> {}])
  BY <1>1 DEF V!OneRow, V!Checked
<1>3. valid
  BY <1>2 DEF V!Accepted
<1>4. e.payload.product \in Products /\ e.payload.zone \in Zones
  BY <1>3, EventsAssumption
<1>5. KeysOf(e) = {k} /\ DOMAIN lines = {k} /\ k \in Keys
  BY <1>4 DEF KeysOf, V!OneLine, Keys
<1>6. /\ DOMAIN lines = KeysOf(e) /\ KeysOf(e) \subseteq Keys
      /\ \E x \in KeysOf(e) : TRUE
      /\ \A x \in KeysOf(e) : x[1] = e.payload.product
  BY <1>5
<1>7. V!ExecBatch(e, lines, supplier, summed, [o \in {} |-> {}])
  BY <1>2
<1> HIDE DEF lines, k, old
<1> QED BY <1>6, <1>7, BatchComputed

LEMMA MoveComputed ==
    ASSUME NEW e \in Events, sawProcessed' # sawProcessed,
           V!HandleProductMoved(e)
    PROVE  Computed(e)
<1> DEFINE m == e.payload
           valid == /\ m.product # None /\ m.from # None /\ m.to # None
                    /\ m.from # m.to
                    /\ m.quantity > 0
           old == \E z \in {m.from, m.to} : V!IsOldZoneEvent(e, m.product, z)
           short == sawInventory[<<m.product, m.from>>].available < m.quantity
           lines == [k \in {<<m.product, m.from>>, <<m.product, m.to>>} |->
                       IF k[2] = m.from THEN V!Change(-m.quantity, 0)
                                        ELSE V!Change(m.quantity, 0)]
<1>1. ~V!Decline(valid, old, short)
  BY DEF V!Decline, V!Return, V!tables
<1>2. /\ V!Accepted(valid, old, short)
      /\ V!ExecBatch(e, lines, None, {}, [o \in {} |-> {}])
  BY <1>1 DEF V!HandleProductMoved, V!MoveBetween, V!Checked
<1>3. valid /\ m.type = "PRODUCT_MOVED"
  BY <1>2 DEF V!Accepted, V!HandleProductMoved, V!Dispatched
<1>4. m.product \in Products /\ m.from \in Zones /\ m.to \in Zones
  BY <1>3, EventsAssumption
<1>5. KeysOf(e) = {<<m.product, m.from>>, <<m.product, m.to>>}
  BY <1>3 DEF KeysOf
<1>6. DOMAIN lines = KeysOf(e)
  BY <1>5
<1> HIDE DEF lines
<1>7. /\ KeysOf(e) \subseteq Keys
      /\ \E x \in KeysOf(e) : TRUE
      /\ \A x \in KeysOf(e) : x[1] = e.payload.product
  BY <1>4, <1>5 DEF Keys
<1>8. V!ExecBatch(e, lines, None, {}, [o \in {} |-> {}])
  BY <1>2
<1> HIDE DEF m, valid, old, short
<1> QED BY <1>6, <1>7, <1>8, BatchComputed

LEMMA HandleComputed ==
    ASSUME NEW e \in Events, V!Handle(e), sawProcessed' # sawProcessed
    PROVE  Computed(e)
<1> DEFINE m == e.payload
<1>1. /\ ~V!RejectUnstamped(e) /\ ~V!StoreFails(e) /\ ~V!SkipDuplicate(e)
      /\ ~V!RejectUnknown(e)
  BY DEF V!RejectUnstamped, V!StoreFails, V!SkipDuplicate, V!RejectUnknown,
         V!Return, V!tables
<1>2. ~V!HandleOrderCreated(e) /\ ~V!HandleOrderCompleted(e)
  BY EventsAssumption DEF V!HandleOrderCreated, V!HandleOrderCompleted, V!Dispatched
<1>3. CASE V!HandleProductReceived(e)
  BY <1>3, OneRowComputed
     DEF V!HandleProductReceived, V!ValidProductZoneQty, V!Dispatched
<1>4. CASE V!HandleProductShipped(e)
  BY <1>4, OneRowComputed
     DEF V!HandleProductShipped, V!ValidProductZoneQty, V!Dispatched
<1>5. CASE V!HandleProductMoved(e)
  BY <1>5, MoveComputed
<1>6. CASE V!HandleProductReserved(e)
  BY <1>6, OneRowComputed
     DEF V!HandleProductReserved, V!ValidProductZoneQty, V!Dispatched
<1>7. CASE V!HandleProductReleased(e)
  BY <1>7, OneRowComputed
     DEF V!HandleProductReleased, V!ValidProductZoneQty, V!Dispatched
<1>8. CASE V!HandleInventoryCounted(e)
  BY <1>8, OneRowComputed DEF V!HandleInventoryCounted, V!Count, V!Dispatched
<1> QED BY <1>1, <1>2, <1>3, <1>4, <1>5, <1>6, <1>7, <1>8 DEF V!Handle

-----------------------------------------------------------------------------
(* What arrives.                                                           *)

\* The statements that replace the value of a row.
Winners(statements, row) == {s \in statements : s.row = row /\ s.stamp > stamps[row]}

Views(k) == {Inventory(k), ByZone(k)}

LEMMA ViewRows ==
    ASSUME NEW k \in Keys
    PROVE  /\ Views(k) \subseteq Rows
           /\ Current(Inventory(k)) = inventory[k]
           /\ Current(Inventory(k))' = inventory'[k]
           /\ Current(ByZone(k)) = byZone[<<k[2], k[1]>>]
           /\ Current(ByZone(k))' = byZone'[<<k[2], k[1]>>]
           /\ <<k[2], k[1]>> \in Zones \X Products
BY DEF Views, Rows, Current, Inventory, ByZone, Keys

\* A row keeps its value and stamp, or takes those of one winner.
LEMMA ArriveRow ==
    ASSUME NEW S, Arrive(S), NEW k \in Keys, NEW row \in Views(k)
    PROVE  \/ /\ Winners(S, row) = {}
              /\ Current(row)' = Current(row) /\ stamps'[row] = stamps[row]
           \/ \E w \in Winners(S, row) :
                Current(row)' = w.value /\ stamps'[row] = w.stamp
<1> DEFINE W == Winners(S, row)
           w == CHOOSE s \in W : TRUE
<1>1. stamps'[row] = IF W = {} THEN stamps[row] ELSE w.stamp
  <2>1. row \in Rows
    BY ViewRows
  <2>2. stamps' = [r \in Rows |-> IF Winners(S, r) = {} THEN stamps[r]
                     ELSE (CHOOSE s \in Winners(S, r) : TRUE).stamp]
    BY Zenon DEF Arrive, Winners
  <2> QED BY <2>1, <2>2
<1>2. Current(row)' = IF W = {} THEN Current(row) ELSE w.value
  <2> DEFINE new(r, old) ==
        IF Winners(S, r) = {} THEN old
                              ELSE (CHOOSE s \in Winners(S, r) : TRUE).value
  <2>1. /\ inventory' = [x \in Keys |-> new(<<"inventory", x>>, inventory[x])]
        /\ byZone' = [x \in Zones \X Products |->
                        new(<<"byZone", <<x[2], x[1]>> >>, byZone[x])]
    BY Zenon DEF Arrive, Winners
  <2>2. new(row, Current(row)) = IF W = {} THEN Current(row) ELSE w.value
    OBVIOUS
  <2> HIDE DEF new
  <2>3. inventory'[k] = new(Inventory(k), inventory[k])
    BY <2>1 DEF Inventory
  <2>4. byZone'[<<k[2], k[1]>>] = new(ByZone(k), byZone[<<k[2], k[1]>>])
    <3>1. <<"byZone", << <<k[2], k[1]>>[2], <<k[2], k[1]>>[1] >> >> = ByZone(k)
      BY DEF ByZone, Keys
    <3> QED BY <2>1, <3>1, ViewRows
  <2> QED BY <2>2, <2>3, <2>4, ViewRows DEF Views
<1>3. W # {} => w \in W
  BY Zenon
<1>4. W = Winners(S, row)
  OBVIOUS
<1> HIDE DEF w, W
<1> QED BY <1>1, <1>2, <1>3, <1>4

\* What a step in which these statements arrive does to the tables.
Arrives(statements) ==
    /\ \A k \in Keys : \A row \in Views(k) :
         \/ /\ Winners(statements, row) = {}
            /\ Current(row)' = Current(row) /\ stamps'[row] = stamps[row]
         \/ \E w \in Winners(statements, row) :
              Current(row)' = w.value /\ stamps'[row] = w.stamp
    /\ \A r \in Rows : \/ stamps'[r] = stamps[r]
                       \/ \E s \in statements : stamps'[r] = s.stamp
    /\ processed' = processed
         \cup {s.value : s \in {s \in statements : s.row = <<"processed">>}}
    /\ history' = history
         \cup {s.value : s \in {s \in statements : s.row = <<"history">>}}

LEMMA ArriveArrives ==
    ASSUME NEW S, Arrive(S)
    PROVE  Arrives(S)
<1>1. ASSUME NEW r \in Rows
      PROVE  stamps'[r] = stamps[r] \/ \E s \in S : stamps'[r] = s.stamp
  <2> DEFINE W == Winners(S, r)
             w == CHOOSE s \in W : TRUE
  <2>1. stamps'[r] = IF W = {} THEN stamps[r] ELSE w.stamp
    <3>1. stamps' = [x \in Rows |-> IF Winners(S, x) = {} THEN stamps[x]
                       ELSE (CHOOSE s \in Winners(S, x) : TRUE).stamp]
      BY Zenon DEF Arrive, Winners
    <3> QED BY <3>1
  <2>2. W # {} => w \in W
    BY Zenon
  <2>3. W \subseteq S
    BY DEF Winners
  <2> HIDE DEF w, W
  <2> QED BY <2>1, <2>2, <2>3
<1>2. /\ processed' = processed
           \cup {s.value : s \in {s \in S : s.row = <<"processed">>}}
      /\ history' = history
           \cup {s.value : s \in {s \in S : s.row = <<"history">>}}
  BY Zenon DEF Arrive
<1> QED BY <1>1, <1>2, ArriveRow DEF Arrives

LEMMA NothingArrives ==
    ASSUME UNCHANGED <<tables, stamps>>
    PROVE  Arrives({})
<1>1. \A k \in Keys : \A row \in Views(k) : Current(row)' = Current(row)
  BY DEF tables, Current
<1> QED BY <1>1 DEF Arrives, Winners, tables

LEMMA VersionMember ==
    ASSUME NEW row
    PROVE  /\ \A v : v \in Versions(row) <=>
                \/ v = Version(Current(row), stamps[row])
                \/ \E s \in late : s.row = row /\ v = Version(s.value, s.stamp)
           /\ \A v : v \in Versions(row)' <=>
                \/ v = Version(Current(row)', stamps'[row])
                \/ \E s \in late' : s.row = row /\ v = Version(s.value, s.stamp)
BY DEF Versions, Version

\* A late statement that arrives leaves a row the versions it had, but for one
\* that is older than another.
LEMMA NewestStays ==
    ASSUME CallOK, NEW s \in late, late' = late \ {s}, Arrives({s}),
           NEW k \in Keys, NEW row \in Views(k)
    PROVE  /\ Versions(row)' \subseteq Versions(row)
           /\ \A v : Newest(row, v) => Newest(row, v)'
<1>1. row \in Rows
  BY ViewRows
<1>2. CASE /\ Winners({s}, row) = {}
           /\ Current(row)' = Current(row) /\ stamps'[row] = stamps[row]
  <2>1. Versions(row)' \subseteq Versions(row)
    BY <1>2, VersionMember
  <2>2. ASSUME NEW v, Newest(row, v)
        PROVE  v \in Versions(row)'
    <3>1. v = Version(Current(row), stamps[row])
          \/ \E x \in late : x.row = row /\ v = Version(x.value, x.stamp)
      BY <2>2, VersionMember DEF Newest
    <3>2. CASE v = Version(Current(row), stamps[row])
      BY <1>2, <3>2, VersionMember
    <3>3. CASE \E x \in late \ {s} : x.row = row /\ v = Version(x.value, x.stamp)
      BY <3>3, VersionMember
    <3>4. CASE s.row = row /\ v = Version(s.value, s.stamp)
      <4>1. ~(s.stamp > stamps[row])
        BY <1>2, <3>4 DEF Winners
      <4>2. ~(stamps[row] < s.stamp)
        BY <1>1, <4>1 DEF CallOK
      <4>3. v = Version(Current(row), stamps[row])
        BY <2>2, <3>4, <4>2, VersionMember DEF Newest, Version
      <4> QED BY <1>2, <4>3, VersionMember
    <3> QED BY <3>1, <3>2, <3>3, <3>4
  <2> QED BY <2>1, <2>2 DEF Newest
<1>3. CASE \E w \in Winners({s}, row) :
             Current(row)' = w.value /\ stamps'[row] = w.stamp
  <2>1. /\ s.row = row /\ s.stamp > stamps[row]
        /\ Current(row)' = s.value /\ stamps'[row] = s.stamp
    BY <1>3 DEF Winners
  <2>2. Versions(row)' \subseteq Versions(row)
    BY <2>1, VersionMember
  <2>3. ASSUME NEW v, Newest(row, v)
        PROVE  v \in Versions(row)'
    <3>1. Version(s.value, s.stamp) \in Versions(row)
      BY <2>1, VersionMember
    <3>2. v # Version(Current(row), stamps[row])
      BY <1>1, <2>1, <2>3, <3>1 DEF Newest, Version, CallOK
    <3>3. \E x \in late : x.row = row /\ v = Version(x.value, x.stamp)
      BY <2>3, <3>2, VersionMember DEF Newest
    <3> QED BY <2>1, <3>3, VersionMember
  <2> QED BY <2>2, <2>3 DEF Newest
<1> QED BY <1>2, <1>3 DEF Arrives

-----------------------------------------------------------------------------
(* A batch.                                                                *)

\* The value a call's batch puts into a row of a view.
NewValue(row) ==
    IF row[1] = "inventory" THEN sawInventory'[row[2]]
                            ELSE sawByZone'[<<row[2][2], row[2][1]>>]

LEMMA BatchStatements ==
    ASSUME NEW e, NEW t, KeysOf(e) \subseteq Keys
    PROVE  /\ \A s \in Batch(e, t) : s.stamp = t
           /\ \A k \in Keys : \A row \in Views(k) :
                /\ \A s \in Batch(e, t) : s.row = row =>
                     k \in KeysOf(e) /\ s.value = NewValue(row)
                /\ k \in KeysOf(e) =>
                     Statement(row, NewValue(row), t) \in Batch(e, t)
           /\ {s.value : s \in {s \in Batch(e, t) : s.row = <<"processed">>}} = {e.id}
           /\ {s.value : s \in {s \in Batch(e, t) : s.row = <<"history">>}}
                = sawHistory'
<1>1. \A k : /\ NewValue(Inventory(k)) = sawInventory'[k]
             /\ NewValue(ByZone(k)) = sawByZone'[<<k[2], k[1]>>]
  BY DEF NewValue, Inventory, ByZone
<1>3. \A s : s \in Batch(e, t) <=>
        \/ \E k \in KeysOf(e) : s = Statement(Inventory(k), NewValue(Inventory(k)), t)
        \/ \E k \in KeysOf(e) : s = Statement(ByZone(k), NewValue(ByZone(k)), t)
        \/ \E p \in SummedOf(e) : s = Statement(<<"totals", p>>, sawTotals'[p], t)
        \/ s = Statement(<<"processed">>, e.id, t)
        \/ \E h \in sawHistory' : s = Statement(<<"history">>, h, t)
  BY <1>1, Zenon DEF Batch, Inventory, ByZone
<1>2. ASSUME NEW s \in Batch(e, t) PROVE s.stamp = t
  BY <1>3 DEF Statement
<1>4. /\ \A k, l : /\ Inventory(k) # ByZone(l)
                   /\ Inventory(k) # <<"totals", l>> /\ ByZone(k) # <<"totals", l>>
                   /\ Inventory(k) = Inventory(l) => k = l
                   /\ ByZone(k) = ByZone(l) => k = l
      /\ \A k, w : <<w>> # Inventory(k) /\ <<w>> # ByZone(k) /\ <<w>> # <<"totals", k>>
      /\ <<"processed">> # <<"history">>
  BY DEF Inventory, ByZone
<1>5. ASSUME NEW row
      PROVE  \A s \in Batch(e, t) : s.row = row =>
               \/ \E k \in KeysOf(e) : row \in Views(k) /\ s.value = NewValue(row)
               \/ \E p \in SummedOf(e) : row = <<"totals", p>>
               \/ row = <<"processed">> /\ s.value = e.id
               \/ row = <<"history">> /\ s.value \in sawHistory'
  BY <1>3 DEF Statement, Views
<1>6. \A k \in KeysOf(e) : \A row \in Views(k) :
        Statement(row, NewValue(row), t) \in Batch(e, t)
  BY <1>3 DEF Views
<1>7. ASSUME NEW k \in Keys, NEW row \in Views(k), NEW s \in Batch(e, t),
             s.row = row
      PROVE  k \in KeysOf(e) /\ s.value = NewValue(row)
  BY <1>4, <1>5, <1>7, Zenon DEF Views
<1>8. \A s \in Batch(e, t) : /\ s.row = <<"processed">> => s.value = e.id
                             /\ s.row = <<"history">> => s.value \in sawHistory'
  BY <1>4, <1>5, Zenon DEF Views
<1>9. /\ Statement(<<"processed">>, e.id, t) \in Batch(e, t)
      /\ \A h \in sawHistory' : Statement(<<"history">>, h, t) \in Batch(e, t)
  BY <1>3
<1>10. /\ \E s \in Batch(e, t) : s.row = <<"processed">> /\ s.value = e.id
       /\ \A h \in sawHistory' : \E s \in Batch(e, t) :
            s.row = <<"history">> /\ s.value = h
  BY <1>9 DEF Statement
<1> QED BY <1>2, <1>6, <1>7, <1>8, <1>10

-----------------------------------------------------------------------------
(* The steps.                                                              *)

\* A call computes its batch, with a later write timestamp than any before;
\* some of its statements arrive, some are late, and none is missing.
Executes(arrived, delayed) ==
    /\ pc = "read" /\ Compute(TRUE)
    /\ clock' \in Nat /\ clock' > clock
    /\ Arrives(arrived) /\ late' = late \cup delayed
    /\ arrived \cup delayed = Batch(call, clock')

LEMMA ExecuteViews ==
    ASSUME LateInv, NEW A, NEW D, Executes(A, D)
    PROVE  CallOK' /\ ViewsMatch' /\ AuditMatches'
<1> DEFINE e == call
<1>1. e \in Events /\ sawHistory = {}
  BY DEF LateInv, CallOK, Executes
<1>2. Computed(e)
  BY <1>1, HandleComputed DEF Executes, Compute
<1>3. KeysOf(e) \subseteq Keys
  BY <1>2 DEF Computed
<1>4. /\ clock \in Nat /\ clock' \in Nat /\ clock < clock'
      /\ \A r \in Rows : stamps[r] \in 0 .. clock
      /\ \A s \in late : s.stamp \in 0 .. clock
      /\ Arrives(A) /\ late' = late \cup D
  BY DEF LateInv, CallOK, Executes
<1>5. \A s \in A \cup D : s \in Batch(e, clock') /\ s.stamp = clock'
  BY <1>3, BatchStatements DEF Executes
<1>6. CallOK'
  <2>1. \A s \in A \cup D : s.stamp \in 0 .. clock'
    BY <1>4, <1>5
  <2>2. \A r \in Rows : stamps'[r] \in 0 .. clock'
    BY <1>4, <2>1 DEF Arrives
  <2>3. \A s \in late' : s.stamp \in 0 .. clock'
    BY <1>4, <2>1
  <2>4. pc' = "idle"
    BY DEF Executes, Compute
  <2> QED BY <1>4, <2>2, <2>3, <2>4 DEF CallOK
\* The versions of a row after the step, and what becomes of the newest.
<1>7. ASSUME NEW k \in Keys, NEW row \in Views(k), NEW v, v \in Versions(row)'
      PROVE  \/ v \in Versions(row)
             \/ /\ k \in KeysOf(e) /\ v.value = NewValue(row)
                /\ v = Version(NewValue(row), v.stamp)
                /\ v.stamp = clock'
  <2>1. \/ \E s \in A \cup D : s.row = row /\ v = Version(s.value, s.stamp)
        \/ v \in Versions(row)
    BY <1>4, <1>7, VersionMember DEF Arrives, Winners
  <2>2. ASSUME NEW s \in A \cup D, s.row = row, v = Version(s.value, s.stamp)
        PROVE  /\ k \in KeysOf(e) /\ v.value = NewValue(row)
               /\ v = Version(NewValue(row), v.stamp)
               /\ v.stamp = clock'
    <3>1. s \in Batch(e, clock') /\ s.stamp = clock'
      BY <1>5
    <3>2. k \in KeysOf(e) /\ s.value = NewValue(row)
      BY <1>3, <2>2, <3>1, BatchStatements
    <3> QED BY <2>2, <3>1, <3>2 DEF Version
  <2> QED BY <2>1, <2>2
<1>8. ASSUME NEW k \in Keys, NEW row \in Views(k), NEW v, v \in Versions(row)
      PROVE  v.stamp \in 0 .. clock
  <2>1. stamps[row] \in 0 .. clock
    BY <1>4, <1>8, ViewRows
  <2>2. (\E s \in late : v.stamp = s.stamp)
        \/ v.stamp = stamps[row]
    BY <1>8, VersionMember DEF Version
  <2> QED BY <1>4, <2>1, <2>2
<1>9. ASSUME NEW k \in KeysOf(e), NEW row \in Views(k),
             NEW new, new = Version(NewValue(row), clock')
      PROVE  Newest(row, new)'
  <2>1. Statement(row, NewValue(row), clock') \in A \cup D
    BY <1>3, BatchStatements DEF Executes
  <2>2. row \in Rows /\ k \in Keys
    BY <1>3, ViewRows
  <2>3. new \in Versions(row)'
    <3>1. CASE Statement(row, NewValue(row), clock') \in D
      <4>1. Statement(row, NewValue(row), clock') \in late'
        BY <1>4, <3>1
      <4> QED BY <1>9, <4>1, VersionMember DEF Statement
    <3>2. CASE Statement(row, NewValue(row), clock') \in A
      <4>1. Statement(row, NewValue(row), clock') \in Winners(A, row)
        BY <1>4, <2>2, <3>2 DEF Winners, Statement
      <4>2. PICK w \in Winners(A, row) :
              Current(row)' = w.value /\ stamps'[row] = w.stamp
        BY <1>4, <2>2, <4>1 DEF Arrives
      <4>3. w \in Batch(e, clock') /\ w.row = row
        BY <4>2 DEF Winners, Executes
      <4>4. w.value = NewValue(row) /\ w.stamp = clock'
        BY <1>3, <2>2, <4>3, BatchStatements
      <4> QED BY <1>9, <4>2, <4>4, VersionMember
    <3> QED BY <2>1, <3>1, <3>2
  <2>4. ASSUME NEW v, v \in Versions(row)'
        PROVE  v = new \/ v.stamp < clock'
    <3>1. CASE v \in Versions(row)
      BY <1>4, <1>8, <2>2, <3>1
    <3>2. CASE /\ v = Version(NewValue(row), v.stamp)
               /\ v.stamp = clock'
      BY <1>9, <3>2
    <3> QED BY <1>7, <2>2, <2>4, <3>1, <3>2
  <2>5. new.stamp = clock'
    BY <1>9 DEF Version
  <2> QED BY <2>3, <2>4, <2>5 DEF Newest
<1>10. ASSUME NEW k \in Keys \ KeysOf(e), NEW row \in Views(k)
       PROVE  Versions(row)' = Versions(row)
  <2>1. \A s \in A \cup D : s.row # row
    BY <1>3, <1>5, <1>10, BatchStatements
  <2>2. Winners(A, row) = {}
    BY <2>1 DEF Winners
  <2>3. Current(row)' = Current(row) /\ stamps'[row] = stamps[row]
    BY <1>4, <1>10, <2>2 DEF Arrives
  <2>4. \A s : s \in late' /\ s.row = row <=> s \in late /\ s.row = row
    BY <1>4, <2>1
  <2>5. \A v : v \in Versions(row)' <=> v \in Versions(row)
    BY <2>3, <2>4, VersionMember
  <2> QED BY <2>5
<1>11. ViewsMatch'
  <2>1. ASSUME NEW k \in KeysOf(e)
        PROVE  \E v \in Versions(Inventory(k))' :
                 /\ Newest(Inventory(k), v)'
                 /\ Newest(ByZone(k), Version(V!PutZoneInventory(v.value), v.stamp))'
    <3>1. PICK v : v = Version(NewValue(Inventory(k)), clock')
      OBVIOUS
    <3>2. Newest(Inventory(k), v)'
      BY <1>9, <2>1, <3>1 DEF Views
    <3>3. NewValue(ByZone(k)) = V!PutZoneInventory(NewValue(Inventory(k)))
      <4>1. NewValue(ByZone(k)) = sawByZone'[<<k[2], k[1]>>]
        BY DEF NewValue, ByZone
      <4>2. NewValue(Inventory(k)) = sawInventory'[k]
        BY DEF NewValue, Inventory
      <4> QED BY <1>2, <2>1, <4>1, <4>2 DEF Computed
    <3>4. Version(V!PutZoneInventory(v.value), v.stamp)
            = Version(NewValue(ByZone(k)), clock')
      BY <3>1, <3>3 DEF Version
    <3>5. Newest(ByZone(k), Version(V!PutZoneInventory(v.value), v.stamp))'
      BY <1>9, <2>1, <3>4 DEF Views
    <3> QED BY <3>2, <3>5 DEF Newest
  <2>2. ASSUME NEW k \in Keys \ KeysOf(e)
        PROVE  \E v \in Versions(Inventory(k))' :
                 /\ Newest(Inventory(k), v)'
                 /\ Newest(ByZone(k), Version(V!PutZoneInventory(v.value), v.stamp))'
    <3>1. PICK v \in Versions(Inventory(k)) :
            /\ Newest(Inventory(k), v)
            /\ Newest(ByZone(k), Version(V!PutZoneInventory(v.value), v.stamp))
      BY <2>2 DEF LateInv, ViewsMatch
    <3>2. /\ Versions(Inventory(k))' = Versions(Inventory(k))
          /\ Versions(ByZone(k))' = Versions(ByZone(k))
      BY <1>10, <2>2 DEF Views
    <3> QED BY <3>1, <3>2 DEF Newest
  <2> QED BY <2>1, <2>2 DEF ViewsMatch, V!PutZoneInventory
<1>12. AuditMatches'
  <2> DEFINE h == [product |-> e.payload.product, timestamp |-> e.timestamp,
                   id |-> e.id]
  <2>1. Ids' = Ids \cup {e.id} /\ Entries' = Entries \cup {h}
    <3> DEFINE Of(S, name) == {s.value : s \in {s \in S : s.row = <<name>>}}
    <3>1. /\ Of(Batch(e, clock'), "processed") = {e.id}
          /\ Of(Batch(e, clock'), "history") = {h}
      BY <1>1, <1>2, <1>3, BatchStatements DEF Computed
    <3>2. ASSUME NEW t
          PROVE  /\ Of(Batch(e, t), "processed") = {e.id}
                 /\ Of(Batch(e, t), "history") = {h}
      BY <1>1, <1>2, <1>3, BatchStatements DEF Computed
    <3>3. /\ Of(A \cup D, "processed") = {e.id}
          /\ Of(A \cup D, "history") = {h}
      <4>1. ASSUME NEW s \in A \cup D
            PROVE  \E t : s \in Batch(e, t)
        BY <1>5
      <4>2. Batch(e, clock') \subseteq A \cup D
        BY DEF Executes
      <4>3. ASSUME NEW s \in A \cup D
            PROVE  /\ s.row = <<"processed">> => s.value = e.id
                   /\ s.row = <<"history">> => s.value = h
        <5>1. PICK t : s \in Batch(e, t)
          BY <4>1
        <5>2. /\ s.row = <<"processed">> => s.value \in Of(Batch(e, t), "processed")
              /\ s.row = <<"history">> => s.value \in Of(Batch(e, t), "history")
          BY <5>1
        <5> HIDE DEF Of, h
        <5> QED BY <3>2, <5>2
      <4>4. /\ \E s \in A \cup D : s.row = <<"processed">> /\ s.value = e.id
            /\ \E s \in A \cup D : s.row = <<"history">> /\ s.value = h
        <5> HIDE DEF h
        <5>1. /\ e.id \in Of(Batch(e, clock'), "processed")
              /\ h \in Of(Batch(e, clock'), "history")
          <6> HIDE DEF Of
          <6> QED BY <3>1
        <5> QED BY <4>2, <5>1
      <4> HIDE DEF h
      <4> QED BY <4>3, <4>4
    <3>4. /\ processed' = processed \cup Of(A, "processed")
          /\ history' = history \cup Of(A, "history")
      BY <1>4 DEF Arrives
    <3>5. Of(late', "processed") = Of(late, "processed") \cup Of(D, "processed")
          /\ Of(late', "history") = Of(late, "history") \cup Of(D, "history")
      BY <1>4
    <3>6. \A name : Of(A \cup D, name) = Of(A, name) \cup Of(D, name)
      OBVIOUS
    <3>7. /\ Ids = processed \cup Of(late, "processed")
          /\ Ids' = processed' \cup Of(late', "processed")
          /\ Entries = history \cup Of(late, "history")
          /\ Entries' = history' \cup Of(late', "history")
      BY DEF Ids, Entries
    <3> HIDE DEF Of, h
    <3> QED BY <3>3, <3>4, <3>5, <3>6, <3>7
  <2>2. Ids' = {x.id : x \in Entries'}
    <3>1. Ids = {x.id : x \in Entries}
      BY DEF LateInv, AuditMatches
    <3>2. h.id = e.id
      OBVIOUS
    <3> HIDE DEF h
    <3> QED BY <2>1, <3>1, <3>2
  <2>3. ASSUME NEW k \in Keys, NEW v \in Versions(Inventory(k))', v.value.last # 0
        PROVE  \E x \in Entries' : x.product = k[1] /\ x.timestamp = v.value.last
    <3>1. CASE v \in Versions(Inventory(k))
      BY <2>1, <2>3, <3>1 DEF LateInv, AuditMatches
    <3>2. CASE k \in KeysOf(e) /\ v.value = NewValue(Inventory(k))
      <4>1. v.value.last = e.timestamp
        <5>1. NewValue(Inventory(k)) = sawInventory'[k]
          BY DEF NewValue, Inventory
        <5> QED BY <1>2, <3>2, <5>1 DEF Computed
      <4>2. k[1] = e.payload.product
        BY <3>2 DEF KeysOf
      <4>3. h \in Entries' /\ h.product = k[1] /\ h.timestamp = v.value.last
        BY <2>1, <4>1, <4>2
      <4> QED BY <4>3
    <3> QED BY <1>7, <2>3, <3>1, <3>2 DEF Views
  <2> QED BY <2>2, <2>3 DEF AuditMatches
<1> QED BY <1>6, <1>11, <1>12

\* Its statements arrive in time, or all late.
LEMMA ExecuteExecutes ==
    ASSUME CallOK, ExecuteInTime \/ ExecuteLate
    PROVE  \E A, D : Executes(A, D)
<1>1. clock \in Nat
  BY DEF CallOK
<1>2. CASE ExecuteInTime
  <2> DEFINE A == Batch(call, clock')
  <2>1. clock' = clock + 1 /\ pc = "read" /\ Compute(TRUE) /\ late' = late
    BY <1>2 DEF ExecuteInTime, Compute
  <2>2. Arrives(A)
    BY <1>2, ArriveArrives DEF ExecuteInTime
  <2> HIDE DEF A
  <2>3. A = Batch(call, clock')
    BY DEF A
  <2>4. clock' \in Nat /\ clock' > clock
    BY <1>1, <2>1
  <2>5. A \cup {} = A /\ late \cup {} = late
    OBVIOUS
  <2>6. Executes(A, {})
    BY <2>1, <2>2, <2>3, <2>4, <2>5 DEF Executes
  <2> QED BY <2>6
<1>3. CASE ExecuteLate
  <2> DEFINE D == Batch(call, clock')
  <2>1. /\ clock' = clock + 1 /\ pc = "read" /\ Compute(TRUE)
        /\ late' = late \cup D /\ UNCHANGED <<tables, stamps>>
    BY <1>3 DEF ExecuteLate, Compute, Delay
  <2>2. Arrives({})
    BY <2>1, NothingArrives
  <2> HIDE DEF D
  <2>3. D = Batch(call, clock')
    BY DEF D
  <2>4. clock' \in Nat /\ clock' > clock
    BY <1>1, <2>1
  <2>5. {} \cup D = D
    OBVIOUS
  <2>6. Executes({}, D)
    BY <2>1, <2>2, <2>3, <2>4, <2>5 DEF Executes
  <2> QED BY <2>6
<1> QED BY <1>2, <1>3

\* A step that leaves the tables, and what is late, as they were.
LEMMA TablesStay ==
    ASSUME LateInv, UNCHANGED <<tables, stamps, clock, late>>,
           pc' \in {"idle", "checked", "read"},
           pc' # "idle" => call' \in Events /\ sawHistory' = {}
    PROVE  LateInv'
<1>1. CallOK'
  BY DEF LateInv, CallOK
<1>2. \A row : Versions(row)' = Versions(row)
  BY DEF Versions, Current, tables
<1>3. \A row, v : Newest(row, v)' <=> Newest(row, v)
  BY <1>2 DEF Newest
<1>4. ViewsMatch'
  BY <1>2, <1>3 DEF LateInv, ViewsMatch, V!PutZoneInventory
<1>5. Ids' = Ids /\ Entries' = Entries
  BY DEF Ids, Entries, tables
<1>6. AuditMatches'
  BY <1>2, <1>5 DEF LateInv, AuditMatches
<1> QED BY <1>1, <1>4, <1>6 DEF LateInv

LEMMA ArriveLateKeeps ==
    ASSUME LateInv, ArriveLate
    PROVE  LateInv'
<1>1. PICK s \in late : /\ late' = late \ {s} /\ Arrive({s})
                        /\ UNCHANGED <<saw, call, pc, clock, lateBatches>>
  BY DEF ArriveLate
<1>2. Arrives({s})
  BY <1>1, ArriveArrives
<1>3. CallOK
  BY DEF LateInv
<1>4. CallOK'
  <2>1. \A r \in Rows : stamps'[r] \in 0 .. clock'
    BY <1>1, <1>2, <1>3 DEF CallOK, Arrives
  <2> QED BY <1>1, <1>3, <2>1 DEF CallOK, saw
<1>5. ASSUME NEW k \in Keys, NEW row \in Views(k)
      PROVE  /\ Versions(row)' \subseteq Versions(row)
             /\ \A v : Newest(row, v) => Newest(row, v)'
  BY <1>1, <1>2, <1>3, NewestStays
<1>6. ViewsMatch'
  <2>1. ASSUME NEW k \in Keys
        PROVE  \E v \in Versions(Inventory(k))' :
                 /\ Newest(Inventory(k), v)'
                 /\ Newest(ByZone(k), Version(V!PutZoneInventory(v.value), v.stamp))'
    <3>1. PICK v \in Versions(Inventory(k)) :
            /\ Newest(Inventory(k), v)
            /\ Newest(ByZone(k), Version(V!PutZoneInventory(v.value), v.stamp))
      BY <2>1 DEF LateInv, ViewsMatch
    <3>2. Newest(Inventory(k), v)'
      BY <1>5, <3>1 DEF Views
    <3>3. Newest(ByZone(k), Version(V!PutZoneInventory(v.value), v.stamp))'
      BY <1>5, <3>1 DEF Views
    <3> QED BY <3>2, <3>3 DEF Newest
  <2> QED BY <2>1 DEF ViewsMatch, V!PutZoneInventory
<1>7. Ids' = Ids /\ Entries' = Entries
  BY <1>1, <1>2 DEF Ids, Entries, Arrives
<1>8. AuditMatches'
  <2>1. \A k \in Keys : Versions(Inventory(k))' \subseteq Versions(Inventory(k))
    BY <1>5 DEF Views
  <2> QED BY <1>7, <2>1 DEF LateInv, AuditMatches
<1> QED BY <1>4, <1>6, <1>8 DEF LateInv

LEMMA LateInvInit == Init => LateInv
<1> SUFFICES ASSUME Init PROVE LateInv
  OBVIOUS
<1>1. CallOK
  BY DEF Init, CallOK
<1>2. ASSUME NEW k \in Keys
      PROVE  /\ inventory[k].last = 0
             /\ byZone[<<k[2], k[1]>>] = V!PutZoneInventory(inventory[k])
             /\ stamps[Inventory(k)] = 0 /\ stamps[ByZone(k)] = 0
  <2>1. inventory[k] = V!ZeroRow
    BY <1>2 DEF Init, V!Init, V!Keys, Keys
  <2>2. byZone[<<k[2], k[1]>>] = V!ZeroCells
    BY <1>2, ViewRows DEF Init, V!Init
  <2>3. stamps[Inventory(k)] = 0 /\ stamps[ByZone(k)] = 0
    BY <1>2, ViewRows DEF Init, Views
  <2> QED BY <2>1, <2>2, <2>3 DEF V!ZeroRow, V!ZeroCells, V!PutZoneInventory
<1>3. \A row, v : v \in Versions(row) <=> v = Version(Current(row), stamps[row])
  BY VersionMember DEF Init
<1>4. ViewsMatch
  <2>1. ASSUME NEW k \in Keys
        PROVE  \E v \in Versions(Inventory(k)) :
                 /\ Newest(Inventory(k), v)
                 /\ Newest(ByZone(k), Version(V!PutZoneInventory(v.value), v.stamp))
    <3>1. PICK v : v = Version(inventory[k], 0)
      OBVIOUS
    <3>2. Version(V!PutZoneInventory(v.value), v.stamp)
            = Version(byZone[<<k[2], k[1]>>], 0)
      <4>1. v.value = inventory[k] /\ v.stamp = 0
        BY <3>1 DEF Version
      <4> QED BY <1>2, <4>1
    <3>3. Newest(Inventory(k), v)
      <4>1. v = Version(Current(Inventory(k)), stamps[Inventory(k)])
        BY <1>2, <3>1, ViewRows
      <4> QED BY <1>3, <4>1 DEF Newest
    <3>4. Newest(ByZone(k), Version(byZone[<<k[2], k[1]>>], 0))
      BY <1>2, <1>3, ViewRows DEF Newest
    <3> QED BY <3>2, <3>3, <3>4 DEF Newest
  <2> QED BY <2>1 DEF ViewsMatch
<1>5. Ids = {} /\ Entries = {}
  BY DEF Init, Ids, Entries
<1>6. AuditMatches
  <2>1. \A k \in Keys : \A v \in Versions(Inventory(k)) : v.value.last = 0
    <3>1. ASSUME NEW k \in Keys, NEW v \in Versions(Inventory(k))
          PROVE  v.value = inventory[k]
      <4>1. v = Version(Current(Inventory(k)), stamps[Inventory(k)])
        BY <1>3, <3>1
      <4>2. Current(Inventory(k)) = inventory[k]
        BY <3>1, ViewRows
      <4> QED BY <4>1, <4>2 DEF Version
    <3> QED BY <1>2, <3>1
  <2>2. Ids = {h.id : h \in Entries}
    BY <1>5
  <2> QED BY <2>1, <2>2 DEF AuditMatches
<1> QED BY <1>1, <1>4, <1>6 DEF LateInv

LEMMA LateInvStep == LateInv /\ [Next]_vars => LateInv'
<1> SUFFICES ASSUME LateInv, [Next]_vars PROVE LateInv'
  OBVIOUS
<1>1. ASSUME NEW e \in Events, Check(e) PROVE LateInv'
  BY <1>1, TablesStay DEF Check
<1>2. CASE Read
  BY <1>2, TablesStay DEF Read, LateInv, CallOK
<1>3. CASE Decline
  BY <1>3, TablesStay DEF Decline, Compute
<1>4. CASE ExecuteInTime \/ ExecuteLate
  BY <1>4, ExecuteExecutes, ExecuteViews DEF LateInv
<1>5. CASE ArriveLate
  BY <1>5, ArriveLateKeeps
<1>6. CASE UNCHANGED vars
  BY <1>6, TablesStay DEF vars, saw, LateInv, CallOK
<1> QED BY <1>1, <1>2, <1>3, <1>4, <1>5, <1>6 DEF Next

-----------------------------------------------------------------------------
\* With nothing under way a row has the version of its table.
LEMMA QuietRows ==
    ASSUME LateInv, Quiet
    PROVE  ViewsAgreeAgain /\ AuditAgrees
<1>1. \A row, v : v \in Versions(row) <=> v = Version(Current(row), stamps[row])
  BY VersionMember DEF Quiet
<1>2. ASSUME NEW k \in Keys
      PROVE  byZone[<<k[2], k[1]>>] = V!PutZoneInventory(inventory[k])
  <2>1. PICK v \in Versions(Inventory(k)) :
          Newest(ByZone(k), Version(V!PutZoneInventory(v.value), v.stamp))
    BY DEF LateInv, ViewsMatch
  <2>2. v = Version(inventory[k], stamps[Inventory(k)])
    BY <1>1, ViewRows
  <2>3. Version(V!PutZoneInventory(v.value), v.stamp)
          = Version(byZone[<<k[2], k[1]>>], stamps[ByZone(k)])
    BY <1>1, <2>1, ViewRows DEF Newest
  <2> QED BY <2>2, <2>3 DEF Version
<1>3. Ids = processed /\ Entries = history
  BY DEF Quiet, Ids, Entries
<1>4. ASSUME NEW k \in Keys, inventory[k].last # 0
      PROVE  \E h \in history : h.product = k[1] /\ h.timestamp = inventory[k].last
  <2>1. Version(inventory[k], stamps[Inventory(k)]) \in Versions(Inventory(k))
    BY <1>1, ViewRows
  <2> QED BY <1>3, <1>4, <2>1 DEF LateInv, AuditMatches, Version
<1>5. processed = {h.id : h \in history}
  BY <1>3 DEF LateInv, AuditMatches
<1> QED BY <1>2, <1>4, <1>5 DEF ViewsAgreeAgain, AuditAgrees

\* A row and its copy in the other view agree when nothing is under way,
\* however many batches came late and were overtaken (handler.go:382-411).
THEOREM ViewsAgreeAgainAlways == Spec => []ViewsAgreeAgain
<1>1. LateInv => ViewsAgreeAgain
  BY QuietRows DEF ViewsAgreeAgain
<1> QED BY <1>1, LateInvInit, LateInvStep, PTL DEF Spec

\* So do the ids, the history and the clocks of the rows (handler.go:382-432).
THEOREM AuditAgreesAlways == Spec => []AuditAgrees
<1>1. LateInv => AuditAgrees
  BY QuietRows DEF AuditAgrees
<1> QED BY <1>1, LateInvInit, LateInvStep, PTL DEF Spec
=============================================================================
