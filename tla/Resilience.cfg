SPECIFICATION FairSpec
CONSTANTS
    Tasks = {t1, t2, t3}
    FailureThreshold = 3
    SuccessThreshold = 2
    MaxAttempts = 2
INVARIANTS
    CountersMatchState
PROPERTIES
    OpensAfterConsecutiveFailures
    Recovers
    CallsEnd
