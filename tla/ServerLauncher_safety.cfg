SPECIFICATION FairSpec
CONSTANTS
    Launches = 3
    None = None
CHECK_DEADLOCK FALSE
INVARIANTS
    TypeOK
    OneServer
    NothingLeftBehind
    OneMonitor
    
PROPERTIES
    CallsReturn
