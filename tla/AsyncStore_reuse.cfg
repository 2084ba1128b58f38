SPECIFICATION Spec
CONSTANTS
    MaxMsgs = 2
    Queues = {1}
    TransientMsgs = {}
    FanoutMsgs = {}
    Threads = 1
    Workers = 1
    FirstMax = 1
    HalfInt = 8
    Smart = FALSE
    MaxCrashes = 1
INVARIANT NoVictims
CHECK_DEADLOCK FALSE
