----------------------------- MODULE MCPipeline -----------------------------
(***************************************************************************)
(* Invocations of the producer for TLC.  Half stands for 2^31.  An id is a    *)
(* base and a number, an order is ORD and an id: tuples for the strings.    *)
(***************************************************************************)
EXTENDS Pipeline

MCProducts   == {<<"sku1">>}
MCZones      == {"A"}
MCPartitions == {"p1", "p2"}
MCOrders     == {<<"ORD", <<"evt2", 0>> >>}
MCGenerated  == << "evt1", "evt2", "evt2", "evt4" >>

\* sku1 and its orders are in two partitions.
MCPartitionOf == [key \in MCProducts \cup MCOrders |->
                    IF key \in MCProducts THEN "p1" ELSE "p2"]

Flags(type, quantity, count) ==
    [version |-> 2, id |-> None, type |-> type, timestamp |-> 0,
     product |-> <<"sku1">>, zone |-> "A", quantity |-> quantity, supplier |-> None,
     from |-> None, to |-> None, order |-> None, items |-> << >>,
     count |-> count]

\* A burst of receipts; an order of its default item under its default id; a
\* quantity of 2^32 - 1; schema version 1 with a supplier.
MCInvocations ==
    << Flags("PRODUCT_RECEIVED", 1, 2),
       Flags("ORDER_CREATED", 1, 1),
       [Flags("PRODUCT_RECEIVED", 15, 1) EXCEPT !.id = "recount"],
       [Flags("PRODUCT_RECEIVED", 1, 1) EXCEPT !.version = 1, !.supplier = "acme"] >>

\* One burst, as in scripts/e2e.py:573-581.
Burst == << Flags("PRODUCT_RECEIVED", 1, 3) >>

\* Both lists of flags are of the kind that ReceiptsAddUp is about.
ASSUME InvocationsAssumption == ReceiveAndReserve
=============================================================================
