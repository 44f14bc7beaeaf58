\* Two fair handlers side by side; parcels are fixed.
CONSTANTS
    MaxListing = 2
    Property = {p1, p2}
    Handler = {w1, w2}
    Moves = FALSE
    MaxChanges = 3
    MaxFaults = 2
SPECIFICATION WorkerFairSpec
INVARIANTS
    TypeOK
    ExactAtRest
    ExposureIsCorrected
PROPERTIES
    EventuallyExact
CHECK_DEADLOCK FALSE
