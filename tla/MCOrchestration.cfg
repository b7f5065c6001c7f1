SPECIFICATION FairSpec
CONSTANTS
    p1 = p1
    t1 = t1
    k1 = k1
    k2 = k2
    k3 = k3
    call1 = call1
    call2 = call2
    call3 = call3
    call4 = call4
    NoId = NoId
    NoCall = NoCall
    ProjectId = {p1}
    ThreadId = {t1}
    PlanId = {1, 2}
    PlanCap = 1
    Command = {k1, k2, k3}
    CommandIds = {k1, k2, k3}
    Call = {call1, call2, call3, call4}
    CommandOf <- MCCommandOf
    CommandBody <- MCCommandBody
    Body <- MCBodies
    Model <- ReadModel
    EmptyModel <- EmptyReadModel
    History <- MCHistory
    Accepts <- AcceptsCommand
    EventsOf <- EventsOfCommand
    Table <- Tables
    EmptyTable <- EmptyTables
    Apply <- ApplyEvent
    Project <- ProjectEvent
    Load <- LoadModel
    Atomic = TRUE
    Faults = {"lookup", "append", "project", "commit", "reconcile", "reject", "crash"}
INVARIANTS
    TypeOK
    ReadModelIsReplay
    MemoryMatchesStore
    LogIsSerialExecution
    AcceptedIsVisible
    PublishedInOrder
PROPERTIES
    ImplementsLedger
    EveryCallSettles
    CommittedIsPublished

