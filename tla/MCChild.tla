---------------------------- MODULE MCChild ----------------------------
(* Instantiates Child for TLC.                                             *)
EXTENDS Child, TLC

CONSTANTS c1, c2, p1

MCContexts == {c1, c2}

\* The unnamed statement or portal, and one named.
MCNames == {"", "s1"}

\* One prepared statement: the DEALLOCATE loop sends it, drops it and
\* comes back to find the list empty.
MCStmtNames == {p1}

\* The default reset_query_list of pgpool.conf, and an older one that
\* leaves the prepared statements to the DEALLOCATE loop.
MCResetLists == {<<"ABORT", "DISCARD ALL">>, <<"ABORT", "RESET ALL">>}
=============================================================================
