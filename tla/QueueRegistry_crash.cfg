SPECIFICATION Spec
CONSTANTS
    Others = {}
    Chosen = {"", "other"}
    RetryMax = 2
    Queues = {q1, q2}
    Exchanges = {x1}
    Configs = {g1}
    Keys = {k1}
    m1 = m1
    Msgs <- OneMessage
    Shard <- InSecondFile
    Threads = {t1, t2}
    Files = 2
    MaxInc = 3
    MaxCrashes = 2
    MaxFails = 1
INVARIANTS TypeOK ForwardsToReady IdsFresh  NoForeignMessage  Recoverable
SYMMETRY Symmetry
CHECK_DEADLOCK FALSE
