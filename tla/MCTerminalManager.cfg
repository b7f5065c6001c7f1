SPECIFICATION FairSpec
CONSTANTS
    a = a
    b = b
    h1 = h1
    h2 = h2
    NoKey = NoKey
    Key = {a, b}
    Item = {1, 2, 3}
    MayFail = TRUE
    ThreadOf <- MCThreadOf
    Opened <- MCOpened
    Session = {1, 2, 3}
    Process = {1, 2, 3}
    Fiber = {1, 2}
    MaxOutputs = 1
    MaxCalls = 2
    MaxRetained = 1
INVARIANTS
    TypeOK
    DrainIsHonest
    FileFollowsHistory
    NoShellIsLost
    ExitIsNoticed
PROPERTIES
    EveryCallReturns
CHECK_DEADLOCK FALSE
