\* The numbers of the instance are in MCHandler.tla.
CONSTANTS
    Products <- MCProducts
    Zones <- MCZones
    Orders <- MCOrders
    EventIds <- MCEventIds
    Suppliers <- MCSuppliers
    None = None
    Events <- OrderEvents
SPECIFICATION Spec
INVARIANT TotalsMatchZones
