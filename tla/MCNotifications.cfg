CONSTANTS
    EventMails = {e1}
    TrialMails = {t1}
    Workers = {w1, w2}
    NoMail = NoMail
    MAX_ATTEMPTS = 2
    MaxRetries = 1
    WarningDays = 2
    MaxFailures = 1
SPECIFICATION FairSpec
INVARIANTS
    SecondCopyExplained
PROPERTIES
    SentStays
    TrialWarningSettles
CHECK_DEADLOCK FALSE
