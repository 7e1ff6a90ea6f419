\* RowDescription on three nodes with one field whose name length, type
\* oid and size may differ between the nodes.
CONSTANTS
    NumBackends = 3
    MaxFields = 1
    MaxLen = 1
    Handlers = {"T"}
SPECIFICATION Spec
INVARIANT SchemaMismatchFatal
\* A handler is one call: the model stops when it returns.
CHECK_DEADLOCK FALSE
