SPECIFICATION Spec
CONSTANTS
    p1 = p1
    p2 = p2
    t1 = t1
    t2 = t2
    t3 = t3
    archive = archive
    unarchive = unarchive
    revert = revert
    implement = implement
    stray = stray
    NoId = NoId
    NoCall = NoCall
    ProjectId = {p1, p2}
    ThreadId = {t1, t2, t3}
    PlanId = {1}
    PlanCap = 1
    Command = {archive, unarchive, revert, implement, stray}
    CommandIds = {archive, unarchive, revert, implement, stray}
    Call = {1, 2, 3, 4, 5}
    CommandOf <- MCCommandOf
    CommandBody <- MCCommandBody
    Body <- MCBodies
    Model <- MCModel
    EmptyModel <- EmptyReadModel
    History <- MCHistory
    Accepts <- AcceptsCommand
    EventsOf <- EventsOfCommand
    Table <- MCTable
    EmptyTable <- EmptyTables
    Apply <- ApplyEvent
    Project <- ProjectEvent
    Load <- LoadModel
    Atomic = FALSE
    Faults = {"project"}
INVARIANTS
    LifecycleIsLegal
    PlanOfTurnStands
CHECK_DEADLOCK FALSE
