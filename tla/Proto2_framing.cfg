\* FunctionResultResponse on three nodes, any of them valid, with a void
\* or a one-byte result.
CONSTANTS
    NumBackends = 3
    MaxFields = 1
    MaxLen = 1
    Handlers = {"V"}
SPECIFICATION Spec
INVARIANT Framed
\* A handler is one call: the model stops when it returns.
CHECK_DEADLOCK FALSE
