SPECIFICATION Spec
CONSTANTS
    Session = {1, 2}
    Turn = {1, 2}
    Background = {3}
    Mode = {"full-access", "approval-required"}
    DefaultMode = "full-access"
    MaxBacklog = 3
    MaxRequests = 4
    MaxRestarts = 0
INVARIANTS
    StopIsTerminal
CHECK_DEADLOCK FALSE
