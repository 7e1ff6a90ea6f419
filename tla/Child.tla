-------------------------------- MODULE Child --------------------------------
(***************************************************************************)
(* One pgpool child serving clients one after another: a session is the   *)
(* dispatch loop of pool_process_query (DispatchLoop) with the session    *)
(* context's sent message list and query contexts (SentMessages); when    *)
(* the client has gone, pool_process_query runs again with reset_request  *)
(* = 1 (ConnectionReset); then pool_session_context_destroy frees the     *)
(* session context and the next client is served.                         *)
(*                                                                         *)
(* The dispatch loop and the session context share in_progress           *)
(* (pool_is_query_in_progress).  A client message is read only when no   *)
(* query is in progress; it is a simple query (pool_start_query), a       *)
(* Parse, a Bind, a Close or a Sync, and each waits for the backends'     *)
(* answer.  The ReadyForQuery that ProcessBackendResponse reads ends the  *)
(* query and destroys its context unless a kept message points to it.     *)
(* The child's own loop (child.c) is not under src/: the order session,  *)
(* reset, destroy is the one reset_backend needs, since it reads the     *)
(* session context's pstmt_list.                                          *)
(***************************************************************************)
EXTENDS Integers, Sequences, FiniteSets

CONSTANTS
    ClientIdleLimit, ClientIdleLimitInRecovery, SignalsDelivered,
    Names, Contexts, NULL, InitListSize, MaxMessages,
    NumBackends, ResetLists, StmtNames

VARIABLES
    phase,        \* "session" or "reset"
    \* DispatchLoop
    in_recovery, pc, close_reason, idle_count, idle_count_in_recovery,
    in_progress, quiet, quiet_in_recovery, interrupted,
    \* SentMessages (in_progress is shared)
    msglist, capacity, live, current, referenced,
    \* ConnectionReset
    reset_query_list, tstate, real, prepared, pstmt_list, qcnt, state, sent,
    answered, result

D == INSTANCE DispatchLoop
S == INSTANCE SentMessages
R == INSTANCE ConnectionReset WITH Names <- StmtNames

svars == <<msglist, capacity, live, current, referenced>>
rvars == <<reset_query_list, tstate, real, prepared, pstmt_list, qcnt, state,
          sent, answered, result>>
dvars == <<in_recovery, pc, close_reason, idle_count, idle_count_in_recovery,
          in_progress, quiet, quiet_in_recovery, interrupted>>
vars == <<phase, dvars, svars, rvars>>

\* Between two resets the backend connections are idle, with nothing
\* prepared and nothing in flight.
RIdle ==
    /\ reset_query_list = CHOOSE l \in ResetLists : TRUE
    /\ real = [n \in R!Backends |-> "I"]
    /\ tstate = real
    /\ prepared = [n \in R!Backends |-> {}]
    /\ pstmt_list = <<>>
    /\ qcnt = 0
    /\ state = 0
    /\ sent = "none"
    /\ answered = {}
    /\ result = "none"

Init == phase = "session" /\ D!Init /\ S!Init /\ RIdle

-----------------------------------------------------------------------------
\* A step of the dispatch loop that leaves the session context alone.
Dispatch(A) == phase = "session" /\ A /\ UNCHANGED <<phase, svars, rvars>>

DispatchStep ==
    \/ Dispatch(D!LoopTop)
    \/ Dispatch(D!SelectTimeout)
    \/ Dispatch(D!SelectInterrupted)
    \/ Dispatch(D!ClientExit)
    \/ Dispatch(D!BackendMessage)
    \/ Dispatch(D!PostmasterDown)
    \/ Dispatch(D!MasterException)
    \/ Dispatch(D!RecoveryChange)

\* The session context as ProcessFrontendResponse leaves it once it has
\* forwarded a message and waits for the answer.
InProgress == [S!State EXCEPT !.inprog = TRUE]

(* ProcessFrontendResponse: the client's message is read and forwarded,   *)
(* and the loop goes on to read the backends.                              *)
FrontendQuery == D!ClientQuery /\ S!StartQuery

FrontendParse == D!ClientQuery /\ S!Parse

FrontendBind ==
    /\ D!ClientQuery
    /\ Len(msglist) < MaxMessages
    /\ \E i \in DOMAIN msglist, name \in Names :
          /\ msglist[i].kind = "P"
          /\ S!AddSentMessage(InProgress, "B", name, msglist[i].qc)

FrontendClose ==
    /\ D!ClientQuery
    /\ \E kind \in S!MsgKinds, name \in Names :
          LET idx == S!FindMsg(msglist, kind, name)
          IN /\ idx /= 0
             /\ S!Apply(S!RemoveAt(InProgress, idx))
    /\ UNCHANGED <<capacity, referenced>>

\* Sync: the unnamed portals are gone (pool_remove_sent_messages).
FrontendSync ==
    /\ D!ClientQuery
    /\ \E i \in DOMAIN msglist : msglist[i].kind = "B"
    /\ S!Apply(S!RemoveAllOfKind(InProgress, "B"))
    /\ UNCHANGED <<capacity, referenced>>

FrontendMessage ==
    /\ phase = "session"
    /\ \/ FrontendQuery
       \/ FrontendParse
       \/ FrontendBind
       \/ FrontendClose
       \/ FrontendSync
    /\ UNCHANGED <<phase, rvars>>

(* ProcessBackendResponse reads a message that does not end the query.    *)
BackendResponse ==
    /\ phase = "session"
    /\ D!ProcessBackendResponse
    /\ in_progress' = in_progress
    /\ UNCHANGED <<phase, svars, rvars>>

(* ProcessBackendResponse reads ReadyForQuery: the query is no longer in  *)
(* progress and its context is destroyed unless a message points to it.   *)
QueryDone ==
    /\ phase = "session"
    /\ D!ProcessBackendResponse
    /\ S!EndQuery
    /\ UNCHANGED <<phase, rvars>>

-----------------------------------------------------------------------------
(* The session's pool_process_query returned: the client is gone and the  *)
(* reset begins.  reset_backend's reset_variables clears the query in     *)
(* progress; the backends are in whatever state the session left.         *)
StartReset ==
    /\ phase = "session"
    /\ pc = "closed"
    /\ phase' = "reset"
    /\ D!NewSession
    /\ reset_query_list' \in ResetLists
    /\ real' \in [R!Backends -> R!TxStates]
    /\ tstate' = real'
    /\ pstmt_list' \in R!DistinctSeqs
    /\ prepared' = [n \in R!Backends |-> R!ListNames(pstmt_list')]
    /\ UNCHANGED <<qcnt, state, sent, answered, result, svars>>

ResetStep ==
    /\ phase = "reset"
    /\ \/ R!ResetBackend
       \/ \E n \in R!Backends : R!NodeAnswers(n)
       \/ R!ReadyForQuery
       \/ R!ReadFails
    /\ UNCHANGED <<phase, dvars, svars>>

(* The reset returned: pool_session_context_destroy clears the sent       *)
(* message list, frees it and deletes the session's memory, so no query   *)
(* context survives; the next client is served.                           *)
EndReset ==
    /\ phase = "reset"
    /\ result /= "none"
    /\ phase' = "session"
    /\ msglist' = <<>>
    /\ capacity' = InitListSize
    /\ live' = {}
    /\ current' = NULL
    /\ in_progress' = FALSE
    /\ referenced' = {}
    /\ reset_query_list' = CHOOSE l \in ResetLists : TRUE
    /\ real' = [n \in R!Backends |-> "I"]
    /\ tstate' = real'
    /\ prepared' = [n \in R!Backends |-> {}]
    /\ pstmt_list' = <<>>
    /\ qcnt' = 0
    /\ state' = 0
    /\ sent' = "none"
    /\ answered' = {}
    /\ result' = "none"
    /\ UNCHANGED <<in_recovery, pc, close_reason, idle_count,
                   idle_count_in_recovery, quiet, quiet_in_recovery, interrupted>>

Next ==
    \/ DispatchStep
    \/ FrontendMessage
    \/ BackendResponse
    \/ QueryDone
    \/ StartReset
    \/ ResetStep
    \/ EndReset

Spec == Init /\ [][Next]_vars

(* The child keeps running the reset, the backends answer what they are  *)
(* sent, and the child goes on to the next client; a session itself may   *)
(* wait for its client forever.                                            *)
FairSpec ==
    /\ Spec
    /\ WF_vars(phase = "reset" /\ R!ResetBackend /\ UNCHANGED <<phase, dvars, svars>>)
    /\ WF_vars(phase = "reset" /\ R!ReadyForQuery /\ UNCHANGED <<phase, dvars, svars>>)
    /\ \A n \in R!Backends :
          WF_vars(phase = "reset" /\ R!NodeAnswers(n) /\ UNCHANGED <<phase, dvars, svars>>)
    /\ WF_vars(EndReset)
    /\ WF_vars(StartReset)

-----------------------------------------------------------------------------
TypeOK == phase \in {"session", "reset"} /\ D!TypeOK /\ S!TypeOK /\ R!TypeOK

(* A session closed for idleness had been idle longer than the limit.     *)
IdleCloseJustified == D!IdleCloseJustified

(* The idle limits hold while no signal has interrupted select(2).        *)
IdleLimitEnforcedUninterrupted == D!IdleLimitEnforcedUninterrupted

(* No kept message, and not the session, points to a destroyed query     *)
(* context, across queries that end while their messages are kept.       *)
NoDanglingReference == S!NoDanglingReference

(* A query context is destroyed once no message points to it any more.    *)
ReleasedWhenUnreferenced == S!ReleasedWhenUnreferenced

(* The sent message list never outgrows its array.                       *)
WithinCapacity == S!WithinCapacity

(* A connection returned to the pool is clean on every node.             *)
PooledClean == R!PooledClean

(* Every reset ends, and the child goes on to serve the next client.     *)
ResetEnds == phase = "reset" ~> phase = "session"
=============================================================================
