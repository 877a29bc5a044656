\* The numbers of the instance are in MCConsumer.tla.
CONSTANTS
    Products <- MCProducts
    Zones <- MCZones
    Orders <- MCOrders
    EventIds <- MCEventIds
    Suppliers <- MCSuppliers
    None = None
    Events <- MCEvents
    Partitions <- MCPartitions
    Undecodable = Undecodable
    Topic <- ShortTopic
    MaxResets = 0
    MaxFailures = 1
SPECIFICATION Spec
INVARIANT CommittedAcknowledged
