\* A listing that changes its parcel leaves the old property unrebuilt.
CONSTANTS
    MaxListing = 2
    Property = {p1, p2}
    Handler = {w1}
    Moves = TRUE
    MaxChanges = 3
    MaxFaults = 0
SYMMETRY Symmetry
SPECIFICATION WorkerSpec
INVARIANTS
    ExactAtRest
CHECK_DEADLOCK FALSE
