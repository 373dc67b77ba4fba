CONSTANTS
    Actions = {a1}
    Requests = {r1, r2}
    NoAction = NoAction
SYMMETRY Symmetry
SPECIFICATION Spec
INVARIANTS
    RealIsEarned
    InEffectIsOnRecord
PROPERTIES
    OffLifecycleOnlyWhenStale
CHECK_DEADLOCK FALSE
