SPECIFICATION Spec
CONSTANTS
    Projectors <- MCProjectors
    Required = {"projects", "messages", "threads"}
    Missing <- MCMissing
    ReadLimit = 3
    PageSize = 2
    MaxBacklog = 4
    MaxLog = 5
INVARIANTS
    BootstrapCatchesUp
