SPECIFICATION Spec
CONSTANTS
    Turn <- MCOneTurn
    MaxEdits = 1
    MaxReverts = 0
    Faults = {}
INVARIANTS
    StoreKeepsCaptures
CHECK_DEADLOCK FALSE
