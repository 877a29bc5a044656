\* The numbers of the instance are in MCHandler.tla.
CONSTANTS
    Products <- OneProduct
    Zones <- MCZones
    Orders <- OneOrder
    EventIds <- MCEventIds
    Suppliers <- MCSuppliers
    None = None
    Events <- CoreEvents
SPECIFICATION Spec
PROPERTY ZoneClockForward
