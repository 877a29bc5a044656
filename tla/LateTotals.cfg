\* The numbers of the instance are in MCLateBatch.tla.
CONSTANTS
    Products <- MCProducts
    Zones <- MCZones
    EventIds <- MCEventIds
    Suppliers = {}
    None = None
    Events <- MCEvents
    MaxLate = 1
SPECIFICATION Spec
INVARIANT TotalsMatchAgain
