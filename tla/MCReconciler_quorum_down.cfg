\* Four configured nodes, one or more down when the session starts.
CONSTANTS
    NumBackends = 4
    Kinds = {"C", "E", "T"}
    ParamStatus = "S"
    NoKind = NoKind
    StopOnMismatch = FALSE
    MaxFailovers = 0
    SendSets <- MCSendSets
SPECIFICATION Spec
INVARIANT QuorumRule
\* One call of read_kind_from_backend(): it returns, and the model stops.
CHECK_DEADLOCK FALSE
