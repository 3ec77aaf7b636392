SPECIFICATION FairSpec
CONSTANTS
    Launches = 1
    None = None
CHECK_DEADLOCK FALSE
PROPERTIES
    CrashNoticed
