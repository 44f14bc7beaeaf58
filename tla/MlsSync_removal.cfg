\* A nightly full pull beside the incremental ones.
CONSTANTS
    Key = {k1, k2}
    Runs = {r1}
    PageSize = 2
    Concurrency = 1
    MaxRetries = 1
    DeadLetterBatch = 2
    Overlap = 1
    AllowFull = TRUE
    MaxChanges = 3
    MaxClock = 3
    MaxFaults = 0
SPECIFICATION Spec
INVARIANTS
    NoRemovalSkipped
