---------------------------- MODULE MCLateBatch ----------------------------
(***************************************************************************)
(* An instance of LateBatch for TLC: two zones of one product, a receipt,   *)
(* a move, a count and a shipment, handled in any order and any number of  *)
(* times.                                                                  *)
(***************************************************************************)
EXTENDS LateBatch

MCProducts  == {"sku1"}
MCZones     == {"A", "B"}
MCEventIds  == 1 .. 4

MCEvents ==
    {[id |-> 1, timestamp |-> 1, payload |->
        [type |-> "PRODUCT_RECEIVED", product |-> "sku1", zone |-> "A",
         quantity |-> 2, supplier |-> None]],
     [id |-> 2, timestamp |-> 2, payload |->
        [type |-> "PRODUCT_MOVED", product |-> "sku1", from |-> "A", to |-> "B",
         quantity |-> 1]],
     [id |-> 3, timestamp |-> 3, payload |->
        [type |-> "INVENTORY_COUNTED", product |-> "sku1", zone |-> "A",
         quantity |-> 3]],
     [id |-> 4, timestamp |-> 4, payload |->
        [type |-> "PRODUCT_SHIPPED", product |-> "sku1", zone |-> "A",
         quantity |-> 1]]}
=============================================================================
