\* Incremental and full pulls, two handlers at a time, one fault: pages, ties,
\* changes in mid-run and chunks that outlive an aborted run.
CONSTANTS
    Key = {k1, k2}
    Runs = {r1, r2}
    PageSize = 2
    Concurrency = 2
    MaxRetries = 1
    DeadLetterBatch = 1
    Overlap = 1
    AllowFull = TRUE
    MaxChanges = 3
    MaxClock = 2
    MaxFaults = 1
SYMMETRY KeySymmetry
SPECIFICATION Spec
INVARIANTS
    TypeOK
    NoChangeSkipped
PROPERTIES
    PagesNeverRegress

