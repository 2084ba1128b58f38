SPECIFICATION FairSpec
CONSTANTS
    HalfInt = 3
    Ids <- FourIds
    Sizes = {2}
    Transient = {2, 4}
    Workers = {w1, w2}
    Files = 2
    MaxLength = 3
    MaxFaults = 1
    MaxCrashes = 2
INVARIANTS ReadOnce TransientsGone LoadExact
PROPERTIES  CallsEnd
CHECK_DEADLOCK FALSE
