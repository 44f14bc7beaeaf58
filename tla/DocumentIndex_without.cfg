\* A deployment without Typesense.
CONSTANTS
    Entity = {e1}
    Call = {1, 2}
    Typesense = FALSE
    MaxVersion = 3
    MaxFaults = 1
SPECIFICATION Spec
INVARIANTS
    SearchIsOptional
