CONSTANTS
    Requests = {r1}
    Clients = {c1}
    Workers = {w1, w2}
    MaxQueueSize = 1
    MaxHistory = 1
    StatModulus = 16
    MaxStarts = 1
    None = None
SPECIFICATION FairSpec
PROPERTY StopReturns
CHECK_DEADLOCK FALSE
