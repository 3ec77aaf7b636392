SPECIFICATION Spec
CONSTANTS
    Executions = {e1}
    Threads = {t1, t2}
    a = a
    b = b
    c = c
    Steps = {a, b, c}
    Definitions <- MCDefinitions
    Dependencies <- MCDependencies
    Optional = {b}
    Conditioned = {b}
    MaxRetries <- MCMaxRetries
    MaxIterations = 2
    MaxRequests = 3
    Slots = {k1}
    None = None
SYMMETRY Symmetry
CHECK_DEADLOCK FALSE
INVARIANTS
    TypeOK
    OneThreadEach
    NobodyStranded
    NoCompletionOverFailure
PROPERTIES
    RetiredIsFrozen
