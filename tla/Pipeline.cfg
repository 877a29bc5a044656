\* The numbers of the instance are in MCPipeline.tla.
CONSTANTS
    Products <- MCProducts
    Zones <- MCZones
    Orders <- MCOrders
    None = None
    Partitions <- MCPartitions
    PartitionOf <- MCPartitionOf
    Invocations <- MCInvocations
    GeneratedId <- MCGenerated
    Gap = 1
    Half = 8
    MaxLostAcks = 1
    MaxDelays = 1
SPECIFICATION Spec
CHECK_DEADLOCK FALSE
INVARIANT PublishedStored
INVARIANT ReceiptsAddUp
INVARIANT OnlyOldDropped
PROPERTY InvocationEnds
