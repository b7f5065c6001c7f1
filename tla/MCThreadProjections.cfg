SPECIFICATION ThreadSpec
CONSTANTS
    Projectors <- MCProjectors
    Required = {"projects", "messages", "threads"}
    Missing <- MCMissing
    ReadLimit = 9
    PageSize = 2
    MaxBacklog = 7
    MaxLog = 9
    Turn = {1, 2, 3}
    History <- MCHistory
INVARIANTS
    AppliedInOrder
    BootstrapCatchesUp
    TurnsKeepTheirMessages
PROPERTIES
    ViewsStayEqual
