\* A caller that keeps the connection after pcp_read times out, as the
\* spec allows for an advisory timeout: does the stream stay intact?
\* Same bounds as PcpStream.cfg.
CONSTANTS
    READBUFSZ = 3
    WRITEBUFSZ = 2
    MaxRead = 3
    MaxWrite = 2
    MaxIn = 5
    MaxOut = 3
    PcpTimeout = TRUE
    RetryOnTimeout = TRUE
SPECIFICATION Spec
PROPERTY StreamRefinement
CHECK_DEADLOCK FALSE
