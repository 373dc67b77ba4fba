\* Any operation under one key: two callers, two workers, one job
\* retry, one fault and one claim that grows old while its job is alive.
CONSTANTS
    Operations = {"scan", "import", "finances", "sync", "report"}
    Calls = {c1, c2}
    JobWorkers = {w1, w2}
    Deciders = {d1, d2}
    Pages = 2
    TotalDays = 2
    MixedDays = {2}
    MaxRetries = 1
    MaxFaults = 1
    MaxAges = 1
    MaxQueued = 1
    MaxPlans = 6
    OnScreen = 1
SPECIFICATION JobsSpec
INVARIANTS AnswersAreBacked WorkDoneOnce
PROPERTIES KeyIsNeverStuck DecisionStands
CHECK_DEADLOCK FALSE
