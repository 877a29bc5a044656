---------------------------- MODULE StockLedger ----------------------------
(***************************************************************************)
(* What the warehouse promises of its stock, without timestamps, tables,    *)
(* messages or failures: a ledger of available and reserved quantities per  *)
(* product and zone, changed by postings.  Each posting is made by one      *)
(* event id, an id posts at most once, and no quantity is ever negative.    *)
(***************************************************************************)
EXTENDS Integers

CONSTANTS Products, Zones, EventIds

VARIABLES
    books,   \* the quantities, by <<product, zone>>
    posted   \* the event ids that have posted

Keys == Products \X Zones

Account == [available : Nat, reserved : Nat]

Init ==
    /\ books = [k \in Keys |-> [available |-> 0, reserved |-> 0]]
    /\ posted = {}

Available(k) == books'[k].available - books[k].available
Reserved(k)  == books'[k].reserved - books[k].reserved

\* Nothing but these rows changes.
Only(K) == \A k \in Keys \ K : Available(k) = 0 /\ Reserved(k) = 0

\* PRODUCT_RECEIVED: stock enters a zone.
Receive == \E k \in Keys : Only({k}) /\ Available(k) > 0 /\ Reserved(k) = 0

\* PRODUCT_SHIPPED: available stock leaves a zone.
Ship == \E k \in Keys : Only({k}) /\ Available(k) < 0 /\ Reserved(k) = 0

\* PRODUCT_MOVED: what leaves one zone of a product enters another.
Move ==
    \E p \in Products : \E from, to \in Zones :
        /\ Only({<<p, from>>, <<p, to>>})
        /\ Available(<<p, from>>) < 0
        /\ Available(<<p, from>>) + Available(<<p, to>>) = 0
        /\ Reserved(<<p, from>>) = 0 /\ Reserved(<<p, to>>) = 0

\* PRODUCT_RESERVED and ORDER_CREATED: available stock becomes reserved.
Reserve ==
    /\ \A k \in Keys : Available(k) + Reserved(k) = 0 /\ Reserved(k) >= 0
    /\ \E k \in Keys : Reserved(k) > 0

\* PRODUCT_RELEASED: reserved stock of a row becomes available.
Release ==
    \E k \in Keys : /\ Only({k})
                    /\ Available(k) + Reserved(k) = 0
                    /\ Reserved(k) < 0

\* INVENTORY_COUNTED: the available quantity of a row is set, perhaps to what
\* it was.
Recount == \E k \in Keys : Only({k}) /\ Reserved(k) = 0

\* ORDER_COMPLETED: reserved stock leaves the warehouse.
Consume ==
    /\ \A k \in Keys : Available(k) = 0 /\ Reserved(k) =< 0
    /\ \E k \in Keys : Reserved(k) < 0

Post(id) ==
    /\ id \notin posted
    /\ posted' = posted \cup {id}
    /\ books' \in [Keys -> Account]
    /\ \/ Receive \/ Ship \/ Move \/ Reserve \/ Release \/ Recount \/ Consume

Next == \E id \in EventIds : Post(id)

Spec == Init /\ [][Next]_<<books, posted>>
=============================================================================
