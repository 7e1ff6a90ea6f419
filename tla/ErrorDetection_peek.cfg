\* detect_postmaster_down_error on a protocol-3 node that sends whole
\* messages, with enough memory: does a result other than SPECIFIED_ERROR
\* leave the node's stream for ProcessBackendResponse as the node sent it?
CONSTANTS
    Majors = {3}
    Calls = {"postmaster_down"}
    Codes = {"57P01", "57P02", "XX000"}
    MayCut = {FALSE}
    MayFailAlloc = FALSE
SPECIFICATION Spec
INVARIANT PeekRestores
CHECK_DEADLOCK FALSE
