\* No call outlives a lock; two calls at a time.
CONSTANTS
    Dispatcher = {d1, d2}
    Scheduler = d1
    MaxRows = 2
    MaxAttempts = 2
    RetryDelays <- Delays
    StaleLock = 2
    Limit = 2
    MaxAge = 1
    MaxFaults = 2
SPECIFICATION FairSpec
INVARIANTS
    TypeOK
    ClaimsExclusive
    OneMailPerFault
PROPERTIES
    ImplementsOutbox
    EveryAlertSettles
