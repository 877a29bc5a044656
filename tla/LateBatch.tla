------------------------------ MODULE LateBatch ------------------------------
(***************************************************************************)
(* Handle when a batch does not arrive in time.  A logged batch that the   *)
(* coordinator answers with a timeout is replayed, statement by statement, *)
(* while the consumer goes on with the next event; each cell keeps the     *)
(* value with the latest write timestamp.                                  *)
(*                                                                         *)
(* A call has three steps: it checks the event id and the clocks of its    *)
(* rows (isOldZoneEvent), it reads the rows and the totals, and it         *)
(* executes its batch, computed by Handler over the tables as they were    *)
(* read (V).  Late statements arrive between any two steps.  A statement   *)
(* concerns one row, and a step reads it once at most, so that a statement *)
(* that arrives within a step can as well arrive before or after it.       *)
(* Order events are left out: they read a product's totals for each item.  *)
(***************************************************************************)
EXTENDS Integers, FiniteSets, Sequences, Sums

CONSTANTS
    Products, Zones, EventIds, Suppliers, None,
    Events,    \* events of the six product types
    MaxLate    \* bound: batches that do not arrive in time

ASSUME EventsAssumption ==
    \A e \in Events :
        LET m == e.payload
        IN  /\ m.type \in {"PRODUCT_RECEIVED", "PRODUCT_SHIPPED", "PRODUCT_MOVED",
                          "PRODUCT_RESERVED", "PRODUCT_RELEASED",
                          "INVENTORY_COUNTED"}
            /\ m.product \in Products \cup {None}
            /\ IF m.type = "PRODUCT_MOVED"
                 THEN {m.from, m.to} \subseteq Zones \cup {None}
                 ELSE m.zone \in Zones \cup {None}

VARIABLES
    \* the tables, as a QUORUM read finds them
    inventory, byZone, totals, processed, history,
    \* the tables as the call has read them, and as its batch leaves them
    sawInventory, sawByZone, sawTotals, sawProcessed, sawHistory, err,
    call,     \* the event being handled, None between two calls
    pc,       \* where the call is
    stamps,   \* the write timestamp of each row
    clock,    \* the last write timestamp given to a batch
    late,     \* statements that have not arrived
    lateBatches

V == INSTANCE Handler WITH
       Orders <- {}, orders <- [o \in {} |-> {}],
       inventory <- sawInventory, byZone <- sawByZone, totals <- sawTotals,
       processed <- sawProcessed, history <- sawHistory

Keys == Products \X Zones

tables == <<inventory, byZone, totals, processed, history>>
saw    == <<sawInventory, sawByZone, sawTotals, sawProcessed, sawHistory, err>>
vars   == <<tables, saw, call, pc, stamps, clock, late, lateBatches>>

Rows == ({"inventory", "byZone"} \X Keys) \cup ({"totals"} \X Products)

Init ==
    /\ V!Init
    /\ inventory = sawInventory /\ byZone = sawByZone /\ totals = sawTotals
    /\ processed = {} /\ history = {}
    /\ call = None /\ pc = "idle"
    /\ stamps = [r \in Rows |-> 0]
    /\ clock = 0
    /\ late = {} /\ lateBatches = 0

-----------------------------------------------------------------------------
\* Handle begins: the first reads.
Check(e) ==
    /\ pc = "idle"
    /\ call' = e /\ pc' = "checked"
    /\ sawInventory' = inventory /\ sawByZone' = byZone
    /\ sawProcessed' = processed /\ sawHistory' = {}
    /\ UNCHANGED <<tables, sawTotals, err, stamps, clock, late, lateBatches>>

\* The rows are read again, with their quantities, and the totals; the clocks
\* that decide are those of the first read.
Read ==
    /\ pc = "checked"
    /\ pc' = "read"
    /\ sawInventory' = [k \in Keys |->
                          [inventory[k] EXCEPT !.last = sawInventory[k].last]]
    /\ sawTotals' = totals
    /\ UNCHANGED <<tables, sawByZone, sawProcessed, sawHistory, err, call, stamps,
                   clock, late, lateBatches>>

\* The rows the batch of event e puts.
KeysOf(e) ==
    IF e.payload.type = "PRODUCT_MOVED"
      THEN {e.payload.product} \X {e.payload.from, e.payload.to}
      ELSE {<<e.payload.product, e.payload.zone>>}

SummedOf(e) ==
    IF e.payload.type = "PRODUCT_MOVED" THEN {} ELSE {e.payload.product}

Statement(row, value, stamp) == [row |-> row, value |-> value, stamp |-> stamp]

\* The statements of its batch, from what the call computed.
Batch(e, stamp) ==
    {Statement(<<"inventory", k>>, sawInventory'[k], stamp) : k \in KeysOf(e)}
    \cup {Statement(<<"byZone", k>>, sawByZone'[<<k[2], k[1]>>], stamp) :
            k \in KeysOf(e)}
    \cup {Statement(<<"totals", p>>, sawTotals'[p], stamp) : p \in SummedOf(e)}
    \cup {Statement(<<"processed">>, e.id, stamp)}
    \cup {Statement(<<"history">>, h, stamp) : h \in sawHistory'}

\* The tables after these statements: the latest value of each row.
Arrive(statements) ==
    LET winners(row) == {s \in statements : s.row = row /\ s.stamp > stamps[row]}
        new(row, old) ==
            IF winners(row) = {} THEN old ELSE (CHOOSE s \in winners(row) : TRUE).value
        inserted(table) == {s.value : s \in {s \in statements : s.row = <<table>>}}
    IN  /\ inventory' = [k \in Keys |-> new(<<"inventory", k>>, inventory[k])]
        /\ byZone' = [k \in Zones \X Products |->
                        new(<<"byZone", <<k[2], k[1]>> >>, byZone[k])]
        /\ totals' = [p \in Products |-> new(<<"totals", p>>, totals[p])]
        /\ stamps' = [r \in Rows |-> IF winners(r) = {} THEN stamps[r]
                        ELSE (CHOOSE s \in winners(r) : TRUE).stamp]
        /\ processed' = processed \cup inserted("processed")
        /\ history' = history \cup inserted("history")

\* The call computes its outcome, with or without a batch, and returns.
Compute(batch) ==
    /\ pc = "read"
    /\ V!Handle(call)
    /\ (sawProcessed' # sawProcessed) = batch
    /\ call' = None /\ pc' = "idle"

Decline ==
    /\ Compute(FALSE)
    /\ UNCHANGED <<tables, stamps, clock, late, lateBatches>>

ExecuteInTime ==
    /\ Compute(TRUE)
    /\ clock' = clock + 1
    /\ Arrive(Batch(call, clock'))
    /\ UNCHANGED <<late, lateBatches>>

Delay(statements) ==
    /\ lateBatches < MaxLate
    /\ lateBatches' = lateBatches + 1
    /\ late' = late \cup statements

\* Mutant of ExecuteLate: an unlogged batch, of which a statement may be lost.
ExecuteUnlogged ==
    /\ Compute(TRUE)
    /\ err' = V!Processing
    /\ clock' = clock + 1
    /\ \E lost \in Batch(call, clock') : Delay(Batch(call, clock') \ {lost})
    /\ UNCHANGED <<tables, stamps>>

\* The batch times out, and is written later.  The driver does not execute it
\* again: newBatch marks no statement idempotent (session.go:52, handler.go:382).
ExecuteLate ==
    /\ Compute(TRUE)
    /\ err' = V!Processing
    /\ clock' = clock + 1
    /\ Delay(Batch(call, clock'))
    /\ UNCHANGED <<tables, stamps>>

\* A statement of a late batch arrives.
ArriveLate ==
    \E s \in late :
        /\ late' = late \ {s}
        /\ Arrive({s})
        /\ UNCHANGED <<saw, call, pc, clock, lateBatches>>

Next ==
    \/ (\E e \in Events : Check(e)) \/ Read
    \/ Decline \/ ExecuteInTime \/ ExecuteLate \/ ArriveLate

Spec == Init /\ [][Next]_vars

-----------------------------------------------------------------------------
(* Properties, for the moments when nothing is under way.                  *)

Quiet == late = {} /\ pc = "idle"

\* The two views of a row agree again once every statement has arrived,
\* whatever calls read and wrote in between (handler.go:382-411).
ViewsAgreeAgain ==
    Quiet => \A k \in Keys :
        byZone[<<k[2], k[1]>>] = V!PutZoneInventory(inventory[k])

\* So do the log of processed ids and the history, and every row's clock is
\* that of an event in its product's history (handler.go:382-389, 422-432).
AuditAgrees ==
    Quiet =>
        /\ processed = {h.id : h \in history}
        /\ \A k \in Keys : inventory[k].last # 0 =>
             \E h \in history : h.product = k[1] /\ h.timestamp = inventory[k].last

\* The totals are the sums of the zones: "the batch updated the denormalised
\* views together" (DEMO.md:147, scripts/e2e.py:381).
TotalsMatchAgain ==
    Quiet => \A p \in Products :
        totals[p].available = SumOver([z \in Zones |-> inventory[<<p, z>>].available])
=============================================================================
