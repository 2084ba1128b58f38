SPECIFICATION FairSpec
CONSTANTS
    MaxMsgs = 3
    Queues = {1}
    TransientMsgs = {}
    FanoutMsgs = {}
    Threads = 2
    Workers = 2
    FirstMax = 3
    HalfInt = 8
    Smart = FALSE
    MaxCrashes = 2
INVARIANTS TypeOK    IdleExact
 
CHECK_DEADLOCK FALSE
