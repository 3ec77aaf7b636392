SPECIFICATION Spec
CONSTANTS
    Launches = 1
    None = None
CHECK_DEADLOCK FALSE
INVARIANTS
    DestructorNeverAborts
