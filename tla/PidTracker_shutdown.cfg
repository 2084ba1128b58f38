SPECIFICATION Spec
CONSTANTS
    Queues = {q1, q2}
    MaxPid = 1
    MaxDup = 1
    Adders = {a1, a2}
    Waiters = {w1, l1}
    Loaders = {l1}
    MaxTries = 1
    HalfInt = 8
    Smart = TRUE
    MayStop = TRUE
INVARIANTS WaitFindsMessage NoLostWakeup QuiescentExact
SYMMETRY Symmetry
CHECK_DEADLOCK FALSE
