SPECIFICATION FairSpec
CONSTANTS
    c1 = c1
    c2 = c2
    c3 = c3
    Client = {c1, c2, c3}
    NoClient = NoClient
    Kinds <- MCKinds
    MayFail = {"create", "worktree", "meta", "setup", "turn", "cleanup"}
INVARIANTS
    NothingRunsUnready
    QueuedInOrder
    CleanupUndoesOwnThread
    TurnRunsInWorktree
PROPERTIES
    EveryCallSettles
CHECK_DEADLOCK FALSE
