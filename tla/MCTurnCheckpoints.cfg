SPECIFICATION Spec
CONSTANTS
    Turn <- MCTwoTurns
    MaxEdits = 1
    MaxReverts = 1
    Faults = {"capture", "rollback", "delete", "complete"}
INVARIANTS
    TypeOK
    RefsBackCheckpoints
    PlaceholderIsDue
PROPERTIES
    CapturesStand
CHECK_DEADLOCK FALSE
