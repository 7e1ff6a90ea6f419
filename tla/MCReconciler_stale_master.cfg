\* Three nodes; failover takes one node down during the call.
CONSTANTS
    NumBackends = 3
    Kinds = {"C", "E", "T"}
    ParamStatus = "S"
    NoKind = NoKind
    StopOnMismatch = FALSE
    MaxFailovers = 1
    SendSets <- MCSendSets
SPECIFICATION Spec
INVARIANT QuorumRule
\* One call of read_kind_from_backend(): it returns, and the model stops.
CHECK_DEADLOCK FALSE
