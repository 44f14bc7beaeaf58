\* A listing that fails and is published again before its dead letter is retried.
CONSTANTS
    Key = {k1, k2}
    Runs = {r1}
    PageSize = 2
    Concurrency = 1
    MaxRetries = 2
    DeadLetterBatch = 2
    Overlap = 1
    AllowFull = FALSE
    MaxChanges = 3
    MaxClock = 3
    MaxFaults = 0
SPECIFICATION Spec
INVARIANTS
    FailuresKept
