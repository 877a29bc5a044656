\* The numbers of the instance are in MCMetrics.tla.
CONSTANTS
    Products <- MCProducts
    Zones <- MCZones
    Orders = {}
    EventIds <- MCEventIds
    Suppliers = {}
    None = None
    Events <- MCEvents
    Partitions <- MCPartitions
    Undecodable = Undecodable
    Topic <- MCTopic
    MaxResets = 1
    MaxFailures = 1
SPECIFICATION Spec
INVARIANT CountersTrue
PROPERTY NeverUnderstated
PROPERTY LagShown
PROPERTY GaugesReturnToZero
PROPERTY EverySettled
