\* A call that outlives its lock writes over the row another call delivered.
CONSTANTS
    Dispatcher = {d1, d2}
    Scheduler = d1
    MaxRows = 1
    MaxAttempts = 3
    RetryDelays <- Delays
    StaleLock = 2
    Limit = 1
    MaxAge = 3
    MaxFaults = 0
SPECIFICATION Spec
PROPERTIES
    DeliveredIsFinal
