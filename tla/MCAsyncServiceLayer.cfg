CONSTANTS
    o1 = o1
    o2 = o2
    Operations <- MCOperations
    KindOf <- MCKindOf
    Workers = {w1, w2}
    Subscribers = {s1}
    MaxQueueSize = 1
    MaxStarts = 2
    None = None
SPECIFICATION FairSpec
INVARIANTS
    TypeOK
    RunsAtMostOnce
    NotToldAfterLeaving
PROPERTIES
    FutureSettledOnce
    EveryFutureResolves
CHECK_DEADLOCK FALSE
