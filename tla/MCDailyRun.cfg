CONSTANTS
    Shops = {s1}
    Firings = {p1, p2}
    Cron = p1
    Workers = {w1}
    DAILY_SYNC_DAYS = 1
    MAX_SYNC_DAYS = 8
    AppliedAgo = 5
    WindowDays = 4
    LastDay = 3
    MaxByHand = 2
    MaxFailures = 1
SPECIFICATION FairSpec
INVARIANTS
    TwoAtWorkExplained
PROPERTIES
    CompletedRunStays
    EveryWindowPriced
CHECK_DEADLOCK FALSE
