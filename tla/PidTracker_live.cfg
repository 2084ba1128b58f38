SPECIFICATION FairSpec
CONSTANTS
    Queues = {q1, q2}
    MaxPid = 2
    MaxDup = 1
    Adders = {a1, a2}
    Waiters = {w1}
    Loaders = {}
    MaxTries = 0
    HalfInt = 8
    Smart = FALSE
    MayStop = FALSE
INVARIANT Inv
PROPERTY DequeueCompletes
CHECK_DEADLOCK FALSE
