\* Three nodes; the kind is read with failover taking down at most one node,
\* then a protocol 3 response with up to one row per node, any protocol 2
\* message with at most one field of length at most one, or a parallel
\* query is handled, or a write runs in an internal transaction; or one
\* detect_* / pool_extract_error_message / pool_discard_packet call peeks
\* at a node's next message (any of the codes the wrappers look for and
\* one other; cut anywhere; allocations may fail); or a PCP connection
\* with three-byte raw reads (two bytes left pending) and a two-byte write
\* buffer that grows on the second write, the peer sending five bytes.
CONSTANTS
    NumBackends = 3
    Kinds = {"C", "E", "T"}
    ParamStatus = "S"
    NoKind = NoKind
    StopOnMismatch = TRUE
    MaxFailovers = 1
    SendSets <- MCSendSets
    MaxRows = 1
    PARALLEL_MODE = TRUE
    SendToFrontend = TRUE
    MaxFields = 1
    MaxLen = 1
    Handlers = {"D", "B", "C", "P", "I", "E", "N", "V", "A", "T"}
    Majors = {2, 3}
    Calls = {"postmaster_down", "active_sql_transaction", "deadlock",
             "serialization", "query_cancel", "extract", "discard"}
    Codes = {"57P01", "57P02", "40P01", "40001", "57014", "25001", "XX000"}
    MayCut = {FALSE, TRUE}
    MayFailAlloc = TRUE
    READBUFSZ = 3
    WRITEBUFSZ = 2
    MaxRead = 3
    MaxWrite = 2
    MaxIn = 5
    MaxOut = 3
    PcpTimeout = TRUE
    RetryOnTimeout = FALSE
SPECIFICATION FairSpec
INVARIANTS
    TypeOK
    AgreementNeverEvicts
    QuorumRuleAllUp
    ParallelSum
    MismatchReported
    NtuplesRecorded
    FramedWhenLayoutsAgree
    NameMismatchFatal
    SuccessForwarded
    LockStatesAgree
    MasterCommitsLast
    ReadyForQueryPending
    SpecifiedErrorIffSent
    BuffersInBounds
PROPERTIES
    ResponseEnds
    StreamRefinement
\* One response is handled: the model stops when its handler returns.
CHECK_DEADLOCK FALSE
