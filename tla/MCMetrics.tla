------------------------------ MODULE MCMetrics ------------------------------
(***************************************************************************)
(* An instance of Metrics for TLC: a receipt in one partition, a value that *)
(* does not decode in the other.                                            *)
(***************************************************************************)
EXTENDS Metrics, TLC

MCProducts   == {"sku1"}
MCZones      == {"A"}
MCPartitions == {"p1", "p2"}
MCEventIds   == {"e1"}

E1 == [id |-> "e1", timestamp |-> 1, payload |->
         [type |-> "PRODUCT_RECEIVED", product |-> "sku1", zone |-> "A",
          quantity |-> 1, supplier |-> None]]
MCEvents == {E1}

MCTopic == "p1" :> << E1 >> @@ "p2" :> << Undecodable >>
=============================================================================
