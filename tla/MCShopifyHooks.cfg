\* Two notifications of any topic, two API processes, a fault, and a sync.
CONSTANTS
    Handlers = {h1, h2}
    MaxEvents = 2
    MaxMishaps = 1
SPECIFICATION HooksSpec
INVARIANTS AddedOnce TotalsAreExplained
PROPERTY OrdersSettle
