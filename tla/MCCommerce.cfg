CONSTANTS
    Scanners = {s1, s2}
    Variants = {"red", "blue"}
    Orders <- SmallOrders
    Quotes <- SmallQuotes
    Currency = "EUR"
    MinMeasurableDays = 1
    MinAttributableUnits = 1
    Parts = 6
    MinObservedDays = 1
    MinRevenueForRefundRule = 4
    RefundShareThreshold = 10
    StallDays = 1
    StockoutHorizonDays = 1
    MinUnitsForStockoutRule = 1
    MeasurementDays = 1
    ScanDays = 1
    LastDay = 2
    MaxStock = 3
    MaxOrders = 3
    MaxRefunds = 1
    MaxCosts = 2
    MaxActions = 3
SYMMETRY Symmetry
SPECIFICATION ExploredSpec
INVARIANTS
    SaidOnce
    CheapestExplanation
    PayrollFitsTheDashboard
    PricesAreReproducible
PROPERTIES
    CostsAreDated
CHECK_DEADLOCK FALSE
