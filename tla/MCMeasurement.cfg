CONSTANTS
    Jobs = {j1, j2}
    MeasurementDays = 1
    MaxSyncDays = 2
    LastDay = 2
    MaxOrders = 2
    MaxReturns = 1
    MaxRequests = 1
SYMMETRY Symmetry
SPECIFICATION MeasurementSpec
INVARIANTS
    PricedUnitsWereSold
CONSTRAINT Explored
CHECK_DEADLOCK FALSE
