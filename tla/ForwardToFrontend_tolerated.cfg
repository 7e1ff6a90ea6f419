CONSTANTS
    NumBackends = 3
    MaxRows = 2
    PARALLEL_MODE = FALSE
SPECIFICATION Spec
INVARIANT
    MismatchTolerated
CHECK_DEADLOCK FALSE
