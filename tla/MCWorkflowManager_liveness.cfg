CONSTANTS
    Requests = {r1, r2}
    Clients = {c1, c2}
    Workers = {w1, w2}
    MaxQueueSize = 2
    MaxHistory = 1
    StatModulus = 16
    MaxStarts = 2
    None = None
SPECIFICATION FairSpec
PROPERTY AcceptedIsSettled
CHECK_DEADLOCK FALSE
