\* Does the client always get the query's outcome, with an error when a
\* node failed?  Same bounds as ParallelExec.cfg.
CONSTANTS
    NumBackends = 3
    MaxRows = 1
    SendToFrontend = TRUE
SPECIFICATION FairSpec
PROPERTY QueryAnswered
CHECK_DEADLOCK FALSE
