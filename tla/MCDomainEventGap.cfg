SPECIFICATION FairSpec
CONSTANTS
    MaxSeq = 3
    MaxBatch = 2
    ReadMayFail = FALSE
PROPERTIES
    EveryEventIsSent
CHECK_DEADLOCK FALSE
