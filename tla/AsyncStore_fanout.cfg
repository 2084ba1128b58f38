SPECIFICATION Spec
CONSTANTS
    MaxMsgs = 2
    Queues = {1, 2}
    TransientMsgs = {1}
    FanoutMsgs = {2}
    Threads = 2
    Workers = 2
    FirstMax = 3
    HalfInt = 8
    Smart = TRUE
    MaxCrashes = 2
INVARIANTS   IdleExact
CHECK_DEADLOCK FALSE
