CONSTANTS
    t1 = t1
    t2 = t2
    t3 = t3
    g1 = g1
    g2 = g2
    w1 = w1
    w2 = w2
    k1 = k1
    k2 = k2
    Blank = Blank
    Reports <- MCReports
    Places <- MCPlaces
    Handled <- MCHandled
    MIN_CLICKS_FOR_JUDGEMENT = 10
    SCALE_ACOS_HEADROOM = 75
    BREAK_EVEN = 30
    TARGET = 21
    MIN_SPEND = 1
    WINDOW_DAYS = 1
    Workers = {w1, w2}
    Keys = {k1, k2}
    ADS_WRITE_ENABLED = TRUE
    SomePolicies <- MCPolicies
    MaxAttempts = 2
    LastDay = 1
    MaxRemovals = 1
SYMMETRY Symmetry
SPECIFICATION Spec
INVARIANTS
    SavingCountedOnce
    OnlyWasteIsNegated
PROPERTY
    BudgetHeldByScansAlone
CHECK_DEADLOCK FALSE
