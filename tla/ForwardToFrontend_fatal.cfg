CONSTANTS
    NumBackends = 2
    MaxRows = 1
    PARALLEL_MODE = FALSE
SPECIFICATION Spec
INVARIANT
    FatalEndsSession
CHECK_DEADLOCK FALSE
