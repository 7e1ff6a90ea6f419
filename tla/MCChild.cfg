\* Sessions and resets one after another.  Idle limits 2 and 1 with signals
\* interrupting select(2); two query contexts, the unnamed and one named
\* statement or portal, an initial capacity of 1 so that the list grows, at
\* most 2 kept messages; two nodes, one prepared statement and both
\* reset_query_list values.
CONSTANTS
    ClientIdleLimit = 2
    ClientIdleLimitInRecovery = 1
    SignalsDelivered = TRUE
    c1 = c1
    c2 = c2
    NULL = NULL
    Contexts <- MCContexts
    Names <- MCNames
    InitListSize = 1
    MaxMessages = 2
    NumBackends = 2
    p1 = p1
    StmtNames <- MCStmtNames
    ResetLists <- MCResetLists
SPECIFICATION FairSpec
INVARIANT TypeOK
INVARIANT IdleCloseJustified
INVARIANT IdleLimitEnforcedUninterrupted
INVARIANT NoDanglingReference
INVARIANT ReleasedWhenUnreferenced
INVARIANT WithinCapacity
INVARIANT PooledClean
PROPERTY ResetEnds
