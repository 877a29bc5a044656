----------------------------- MODULE MCConsumer -----------------------------
(***************************************************************************)
(* Instances of Consumer for TLC: two partitions, because product events    *)
(* and order events are keyed differently and nothing orders one partition  *)
(* against the other; a shipment that races the receipt it needs, a         *)
(* duplicate, and a value that does not decode.                             *)
(***************************************************************************)
EXTENDS Consumer, TLC

MCProducts   == {"sku1"}
MCZones      == {"A"}
MCOrders     == {"o1"}
MCSuppliers  == {"acme"}
MCEventIds   == {"e1", "e2", "e3", "e4"}
MCPartitions == {"p1", "p2"}

MCEvent(id, t, payload) == [id |-> id, timestamp |-> t, payload |-> payload]

E1 == MCEvent("e1", 1, [type |-> "PRODUCT_RECEIVED", product |-> "sku1",
                        zone |-> "A", quantity |-> 3, supplier |-> None])
E2 == MCEvent("e2", 2, [type |-> "PRODUCT_SHIPPED", product |-> "sku1",
                        zone |-> "A", quantity |-> 1])
E3 == MCEvent("e3", 1, [type |-> "ORDER_CREATED", order |-> "o1", items |->
                << [product |-> "sku1", zone |-> "A", quantity |-> 1] >>])
E4 == MCEvent("e4", 2, [type |-> "ORDER_COMPLETED", order |-> "o1"])

MCEvents == {E1, E2, E3, E4}

\* e1 is published twice.
MCTopic ==
    "p1" :> << E1, E2, E1 >> @@ "p2" :> << E3, Undecodable, E4 >>

ShortTopic ==
    "p1" :> << E1, E2 >> @@ "p2" :> << E3 >>
=============================================================================
