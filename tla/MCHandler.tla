----------------------------- MODULE MCHandler -----------------------------
(***************************************************************************)
(* Instances of Handler for TLC.  A run has a vocabulary of payloads, each  *)
(* with the timestamps it is published at; there is one event for each      *)
(* payload and time, so that events with equal, later and earlier           *)
(* timestamps arrive in every order.  An accepted event of a product is     *)
(* newer than its rows, which bounds the length of the behaviours; order    *)
(* events, which may set a row's clock back, lengthen them.                 *)
(***************************************************************************)
EXTENDS Handler

MCProducts  == {"sku1", "sku2"}
OneProduct  == {"sku1"}
MCZones     == {"A", "B"}
MCOrders    == {"o1", "o2"}
OneOrder    == {"o1"}
MCSuppliers == {"acme"}
MCEventIds  == (1 .. 12) \X (1 .. 4)

Received(p, z, q) == [type |-> "PRODUCT_RECEIVED", product |-> p, zone |-> z,
                      quantity |-> q, supplier |-> None]
Supplied(p, z, q, s) == [Received(p, z, q) EXCEPT !.supplier = s]
Shipped(p, z, q) == [type |-> "PRODUCT_SHIPPED", product |-> p, zone |-> z,
                     quantity |-> q]
Counted(p, z, q) == [type |-> "INVENTORY_COUNTED", product |-> p, zone |-> z,
                     quantity |-> q]
Moved(p, f, t, q) == [type |-> "PRODUCT_MOVED", product |-> p, from |-> f,
                      to |-> t, quantity |-> q]
Reserved(p, z, q, o) == [type |-> "PRODUCT_RESERVED", product |-> p,
                         zone |-> z, quantity |-> q, order |-> o]
Released(p, z, q, o) == [type |-> "PRODUCT_RELEASED", product |-> p,
                         zone |-> z, quantity |-> q, order |-> o]
Created(o, items) == [type |-> "ORDER_CREATED", order |-> o, items |-> items]
Completed(o) == [type |-> "ORDER_COMPLETED", order |-> o]
Item(p, z, q) == [product |-> p, zone |-> z, quantity |-> q]

\* One event for the n-th entry <<payload, times>> of a vocabulary and each of
\* its times.
EventsOf(vocabulary) ==
    UNION {{[id |-> <<n, t>>, timestamp |-> t, payload |-> vocabulary[n][1]] :
              t \in vocabulary[n][2]} : n \in DOMAIN vocabulary}

\* One message for each check that refuses one before the tables are read.
Malformed ==
    {[id |-> None, timestamp |-> 1, payload |-> Received("sku1", "A", 1)],
     [id |-> <<12, 1>>, timestamp |-> 0, payload |-> Received("sku1", "A", 1)]}
    \cup {[id |-> <<12, 1>>, timestamp |-> 1, payload |-> m] : m \in
             {[type |-> "UNSET"],
              Received("sku1", None, 1),
              Shipped("sku1", "A", 0),
              Moved("sku1", "A", "A", 1),
              Reserved("sku1", "A", 1, None),
              Released("sku1", "A", 1, None),
              Counted("sku1", "A", -1),
              Created("o1", << >>),
              Created("o1", << Item("sku1", "A", 1), Item("sku1", "A", 0) >>),
              Completed(None)}}

\* Every payload over two zones of one product; an order of two lines of one
\* row.
CoreEvents ==
    Malformed \cup EventsOf(
      << << Supplied("sku1", "A", 2, "acme"), {1, 2} >>,
         << Received("sku1", "B", 1), {1} >>,
         << Shipped("sku1", "A", 1), {2, 3} >>,
         << Moved("sku1", "A", "B", 1), {2, 3} >>,
         << Reserved("sku1", "A", 1, "o1"), {2, 3} >>,
         << Released("sku1", "A", 1, "o1"), {2, 3} >>,
         << Counted("sku1", "B", 0), {2, 3} >>,
         << Created("o1", << Item("sku1", "A", 1), Item("sku1", "A", 1) >>),
            {1, 2, 3} >>,
         << Completed("o1"), {2, 3} >> >>)

\* Two orders over two products; one takes sku1 from two zones.  A
\* release takes back what o1 reserved.
OrderEvents ==
    EventsOf(
      << << Received("sku1", "A", 3), {1, 2} >>,
         << Received("sku1", "B", 2), {1} >>,
         << Received("sku2", "A", 2), {1} >>,
         << Counted("sku1", "A", 1), {2, 3} >>,
         << Moved("sku1", "A", "B", 1), {3} >>,
         << Shipped("sku1", "A", 1), {2} >>,
         << Reserved("sku1", "A", 1, "o2"), {2} >>,
         << Released("sku1", "A", 1, "o1"), {3} >>,
         << Created("o1", << Item("sku1", "A", 1) >>), {1, 3} >>,
         << Created("o2", << Item("sku1", "A", 1), Item("sku1", "B", 2),
                             Item("sku2", "A", 1) >>), {2} >>,
         << Completed("o1"), {2, 4} >>,
         << Completed("o2"), {1, 3} >> >>)
=============================================================================
