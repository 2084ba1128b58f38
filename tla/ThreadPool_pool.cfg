SPECIFICATION FairSpec
CONSTANTS
    t1 = t1
    t2 = t2
    Tasks <- TwoTasks
    Priority <- TwoPriorities
    MaxThreads = 3
    Callers = {c1}
    Limits = {1}
    Sizes = {0, 2}
    Policies <- ThreePolicies
INVARIANTS CountersExact NoneStranded
PROPERTIES ImplementsTaskPool TasksAreTaken ShutdownEnds
CHECK_DEADLOCK FALSE
