SPECIFICATION FairSpec
CONSTANTS
    Ops = {o1, o2}
    Twice = {o1}
    MaxFaults = 2
INVARIANTS TypeOK NothingLost NothingRevived
PROPERTY LogDrains
