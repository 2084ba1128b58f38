SPECIFICATION FairSpec
CONSTANTS
    Queues = {q1}
    MaxPid = 1
    MaxDup = 0
    Adders = {a1}
    Waiters = {w1}
    Loaders = {}
    MaxTries = 1
    HalfInt = 8
    Smart = FALSE
    MayStop = TRUE
PROPERTY FinalizeCompletes
CHECK_DEADLOCK FALSE
