\* The numbers of the instance are in MCPipeline.tla.
CONSTANTS
    Products <- MCProducts
    Zones <- MCZones
    Orders <- MCOrders
    None = None
    Partitions <- MCPartitions
    PartitionOf <- MCPartitionOf
    Invocations <- Burst
    GeneratedId <- MCGenerated
    Gap = 2
    Half = 8
    MaxLostAcks = 0
    MaxDelays = 1
SPECIFICATION Spec
CHECK_DEADLOCK FALSE
INVARIANT NothingDropped
