--------------------------- MODULE ConnectionReset ---------------------------
(***************************************************************************)
(* pool_process_query() with reset_request = 1 (src/pool_process_query.c): *)
(* when a client has gone, the child runs reset_backend() once per loop    *)
(* iteration: each statement of reset_query_list in turn (ABORT skipped    *)
(* when every valid node is idle), then a DEALLOCATE for each prepared     *)
(* statement left in the session's list, waiting for ReadyForQuery after   *)
(* each statement sent.  The connection is then returned to the pool.      *)
(*                                                                         *)
(* Each node's real transaction state and prepared statements are what    *)
(* PostgreSQL holds; TSTATE is pgpool's copy, taken from ReadyForQuery.    *)
(***************************************************************************)
EXTENDS Integers, Sequences, FiniteSets

CONSTANTS
    NumBackends,   \* NUM_BACKENDS
    ResetLists,    \* the values of pool_config->reset_query_list to check
    Names          \* names of prepared statements

ASSUME NumBackends \in Nat \ {0}
ASSUME ResetLists \subseteq Seq({"ABORT", "RESET ALL", "DISCARD ALL"})

Backends == 0 .. NumBackends - 1
Master == 0
TxStates == {"I", "T", "E"}   \* idle, in transaction, failed transaction

\* DEALLOCATE "name", which send_deallocate builds; it is identified by
\* the name.
Deallocate(name) == name

Queries == {"ABORT", "RESET ALL", "DISCARD ALL"} \cup
           {Deallocate(x) : x \in Names}

VARIABLES
    reset_query_list, \* pool_config->reset_query_list, fixed for the run
    tstate,       \* TSTATE(backend, i): pgpool's copy of each node's state
    real,         \* the transaction state each PostgreSQL node is in
    prepared,     \* prepared[n]: statements that exist on node n
    pstmt_list,   \* session_context->pstmt_list, in creation order
    qcnt,         \* qcnt; only qcnt >= qn matters past the list, so it stops there
    state,        \* state: 1 while waiting for ReadyForQuery
    sent,         \* the statement in flight, or "none"
    answered,     \* nodes whose answer to it has been read
    result        \* "none", or what pool_process_query returned

vars == <<reset_query_list, tstate, real, prepared, pstmt_list, qcnt, state, sent, answered,
          result>>

\* pool_config->num_reset_queries
qn == Len(reset_query_list)

\* Sequences of distinct names: the prepared statements a session left.
DistinctSeqs == {s \in UNION {[1 .. k -> Names] : k \in 0 .. Cardinality(Names)} :
                   \A a, b \in DOMAIN s : a /= b => s[a] /= s[b]}

ListNames(s) == {s[k] : k \in DOMAIN s}

(* The client has gone with each node in some transaction state that the  *)
(* last ReadyForQuery reported, and prepared statements pgpool recorded.  *)
Init ==
    /\ reset_query_list \in ResetLists
    /\ real \in [Backends -> TxStates]
    /\ tstate = real
    /\ pstmt_list \in DistinctSeqs
    /\ prepared = [n \in Backends |-> ListNames(pstmt_list)]
    /\ qcnt = 0
    /\ state = 0
    /\ sent = "none"
    /\ answered = {}
    /\ result = "none"

-----------------------------------------------------------------------------
(* Every node is VALID_BACKEND: reset_variables() clears the query in      *)
(* progress, and nodes are up.                                             *)

\* Fault variant: the test reads one transaction state, the master's, as
\* the one-argument TSTATE(p) macro of pool.h does.
NeedToAbortMasterOnly == tstate[Master] /= "I"

\* The loop over the valid nodes looking for one not idle.
NeedToAbort == \E n \in Backends : tstate[n] /= "I"

\* SimpleQuery sends the statement to every valid node; it may fail.
SendQuery(q) ==
    \/ /\ sent' = q
       /\ answered' = {}
       /\ state' = 1
       /\ qcnt' = IF qcnt < qn THEN qcnt + 1 ELSE qcnt
       /\ UNCHANGED result
    \/ /\ result' = "end"
       /\ UNCHANGED <<sent, answered, state, qcnt>>

\* Fault variant: the name is left in the list, to be removed by the
\* CommandComplete of DEALLOCATE, as the commented out del_prepared_list()
\* call once relied on.
DropSentNameNever(name) == pstmt_list' = pstmt_list

\* pool_remove_prepared_statement_by_pstmt_name(name), whatever
\* send_deallocate returned.
DropSentName(name) ==
    pstmt_list' = SelectSeq(pstmt_list, LAMBDA x : x /= name)

(* One call of reset_backend(backend, qcnt) and the caller's handling of   *)
(* its return value.                                                       *)
ResetBackend ==
    /\ result = "none"
    /\ state = 0
    /\ IF qcnt >= qn
         THEN IF pstmt_list = <<>>
                THEN \* st == 2: TSTATE = 'I' on valid nodes, POOL_CONTINUE
                     /\ tstate' = [n \in Backends |-> "I"]
                     /\ result' = "pooled"
                     /\ UNCHANGED <<pstmt_list, qcnt, state, sent, answered>>
                ELSE \* send_deallocate for pstmts[0]
                     /\ SendQuery(Deallocate(Head(pstmt_list)))
                     /\ DropSentName(Head(pstmt_list))
                     /\ UNCHANGED tstate
         ELSE IF reset_query_list[qcnt + 1] = "ABORT" /\ ~NeedToAbort
                THEN \* st == 0
                     /\ qcnt' = qcnt + 1
                     /\ UNCHANGED <<tstate, pstmt_list, state, sent, answered,
                                    result>>
                ELSE /\ SendQuery(reset_query_list[qcnt + 1])
                     /\ UNCHANGED <<tstate, pstmt_list>>
    /\ UNCHANGED <<real, prepared>>
    /\ UNCHANGED reset_query_list

-----------------------------------------------------------------------------
(***************************************************************************)
(* A PostgreSQL node executes q in state s with prepared statements p:     *)
(* the state and the statements afterwards.  Any statement but ABORT fails *)
(* in a failed transaction; DISCARD ALL fails inside a transaction block;  *)
(* DEALLOCATE fails for an unknown name; a failure inside a transaction    *)
(* block aborts it.                                                        *)
(***************************************************************************)
Fail(s) == IF s = "I" THEN "I" ELSE "E"

Execute(q, s, p) ==
    CASE q = "ABORT" -> [s |-> "I", p |-> p]
      [] s = "E" -> [s |-> "E", p |-> p]
      [] q = "RESET ALL" -> [s |-> s, p |-> p]
      [] q = "DISCARD ALL" -> IF s = "I" THEN [s |-> "I", p |-> {}]
                              ELSE [s |-> "E", p |-> p]
      [] OTHER -> IF q \in p THEN [s |-> s, p |-> p \ {q}]
                  ELSE [s |-> Fail(s), p |-> p]

(* A node executes the statement in flight; ProcessBackendResponse reads  *)
(* its answer (not forwarded: no_forward) up to ReadyForQuery, which      *)
(* records the node's transaction state.                                  *)
NodeAnswers(n) ==
    /\ result = "none"
    /\ state = 1
    /\ n \notin answered
    /\ LET r == Execute(sent, real[n], prepared[n])
       IN /\ real' = [real EXCEPT ![n] = r.s]
          /\ prepared' = [prepared EXCEPT ![n] = r.p]
          /\ tstate' = [tstate EXCEPT ![n] = r.s]
    /\ answered' = answered \cup {n}
    /\ UNCHANGED <<pstmt_list, qcnt, state, sent, result>>
    /\ UNCHANGED reset_query_list

(* Once every node has answered, ReadyForQuery sets state back to 0.      *)
ReadyForQuery ==
    /\ result = "none"
    /\ state = 1
    /\ answered = Backends
    /\ state' = 0
    /\ sent' = "none"
    /\ UNCHANGED <<tstate, real, prepared, pstmt_list, qcnt, answered, result>>
    /\ UNCHANGED reset_query_list

(* Reading a node fails: ProcessBackendResponse does not return           *)
(* POOL_CONTINUE and neither does pool_process_query.                     *)
ReadFails ==
    /\ result = "none"
    /\ state = 1
    /\ result' = "end"
    /\ UNCHANGED <<tstate, real, prepared, pstmt_list, qcnt, state, sent,
                   answered>>
    /\ UNCHANGED reset_query_list

Next ==
    \/ ResetBackend
    \/ \E n \in Backends : NodeAnswers(n)
    \/ ReadyForQuery
    \/ ReadFails

Spec == Init /\ [][Next]_vars

(* The child keeps running, and a node answers a statement it was sent.   *)
FairSpec == Spec /\ WF_vars(ResetBackend) /\ WF_vars(ReadyForQuery)
                 /\ \A n \in Backends : WF_vars(NodeAnswers(n))

-----------------------------------------------------------------------------
TypeOK ==
    /\ reset_query_list \in ResetLists
    /\ tstate \in [Backends -> TxStates]
    /\ real \in [Backends -> TxStates]
    /\ prepared \in [Backends -> SUBSET Names]
    /\ pstmt_list \in DistinctSeqs
    /\ qcnt \in 0 .. qn
    /\ state \in {0, 1}
    /\ sent \in Queries \cup {"none"}
    /\ answered \subseteq Backends
    /\ result \in {"none", "pooled", "end"}

(* A connection returned to the pool is clean: every node is really idle, *)
(* holds none of the session's prepared statements, and pgpool's TSTATE  *)
(* agrees with it.                                                         *)
PooledClean ==
    result = "pooled" =>
        \A n \in Backends : real[n] = "I" /\ prepared[n] = {} /\ tstate[n] = "I"

(* The reset always ends: the connection is pooled or closed.             *)
ResetTerminates == <>(result /= "none")
=============================================================================
