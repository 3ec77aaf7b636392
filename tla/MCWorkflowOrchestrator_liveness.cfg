SPECIFICATION FairSpec
CONSTANTS
    Executions = {e1}
    Threads = {t1, t2}
    a = a
    b = b
    c = c
    Steps = {a, b, c}
    Definitions <- MCFewDefinitions
    Dependencies <- MCDependencies
    Optional = {b}
    Conditioned = {b}
    MaxRetries <- MCMaxRetries
    MaxIterations = 2
    MaxRequests = 2
    Slots = {k1}
    None = None
CHECK_DEADLOCK FALSE
PROPERTIES
    ExecutionsEnd
    StopReturns
