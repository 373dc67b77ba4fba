\* One Checkout session and what becomes of it, its events served by two
\* instances of the API while a page rolls the trial over; one request dies or
\* one answer is lost.
CONSTANTS
    MaxSubs = 1
    Instances = 2
    Pages = {p1}
    StripeConfigured = TRUE
    TrialDays = 1
    LastDay = 1
    MaxEvents = 3
    MaxFailures = 1
SPECIFICATION Spec
INVARIANTS AnsweredIsAppliedOnce AccessWasPaidFor LastWordStands
PROPERTIES RolloverUndoesOnlyWhenStale MovesAreAnnounced IsAnInbox
CHECK_DEADLOCK FALSE
