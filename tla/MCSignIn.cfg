CONSTANTS
    Doors = {d1, d2}
    Requests = {r1, r2}
    Ttl = 1
    Hour = 1
    MaxCodesPerHour = 2
    MaxAttempts = 2
    SessionLife = 2
    TouchAfter = 1
    LastTick = 2
    MaxCodes = 2
    MaxSessions = 2
SYMMETRY Symmetry
SPECIFICATION Spec
INVARIANTS
    OneStoreEach
    NewestCodeOnly
    CodeProvesOnce
CONSTRAINT Explored
PROPERTIES
    SignedOutStays
CHECK_DEADLOCK FALSE
