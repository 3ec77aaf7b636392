CONSTANTS
    Requests = {r1, r2, r3}
    Clients = {c1, c2}
    Workers = {w1, w2}
    MaxQueueSize = 1
    MaxHistory = 2
    StatModulus = 16
    MaxStarts = 1
    None = None
SPECIFICATION Spec
SYMMETRY Symmetry
INVARIANTS
    TypeOK
    OnePool
    NoDoubleDelivery
    StagesAgree
    LiveIsListed
    QueueOvershoot
    OutcomesCounted
    ActiveStatWhenQuiet
PROPERTIES
    TerminalIsFinal
    ImplementsLifecycle
CHECK_DEADLOCK FALSE
