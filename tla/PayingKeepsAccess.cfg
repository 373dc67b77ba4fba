CONSTANTS
    MaxSubs = 2
    Instances = 1
    Pages = {p1}
    StripeConfigured = TRUE
    TrialDays = 2
    LastDay = 1
    MaxEvents = 3
    MaxFailures = 0
SPECIFICATION Spec
INVARIANT PayingKeepsAccess
CHECK_DEADLOCK FALSE
