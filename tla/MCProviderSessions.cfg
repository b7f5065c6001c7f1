SPECIFICATION Spec
CONSTANTS
    Session = {1, 2}
    Turn = {1, 2}
    Background = {3}
    Mode = {"full-access", "approval-required"}
    DefaultMode = "full-access"
    MaxBacklog = 3
    MaxRequests = 3
    MaxRestarts = 1
INVARIANTS
    TypeOK
    NoGhostTurn
    SentInOrder
PROPERTIES
    OnlyItsEndCloses
CHECK_DEADLOCK FALSE
