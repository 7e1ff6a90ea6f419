------------------------------- MODULE Response -------------------------------
(***************************************************************************)
(* One backend response reaching the client.  In replication mode         *)
(* ProcessBackendResponse (pool_proto_modules.c, not under src/) calls     *)
(* read_kind_from_backend (Reconciler); when the nodes agree it hands the *)
(* message of the decided kind to SimpleForwardToFrontend under protocol  *)
(* 3 (ForwardToFrontend) or to the handler of pool_proto2.c under         *)
(* protocol 2 (Proto2); on a mismatch or an I/O error no handler runs.    *)
(* A query of parallel mode is instead answered by pool_parallel_exec     *)
(* (ParallelExec), which reads every node to its end itself.  A write in  *)
(* replication mode under protocol 3 may instead run inside an internal   *)
(* transaction (InternalTransaction): BEGIN and the insert lock before    *)
(* the statement, COMMIT after its ReadyForQuery.                         *)
(*                                                                         *)
(* The components meet in the node statuses: what failover left valid    *)
(* while the kinds were read, and the master it elected, are the nodes    *)
(* and the master the handler reads; in parallel mode the valid nodes are *)
(* those of VALID_BACKEND when the query arrives.  The reconciler's kinds *)
(* "C" and "E" are CommandComplete and ErrorResponse; "T" stands for any  *)
(* other kind.  Failover is not modelled once the handler runs.            *)
(*                                                                         *)
(* Two further paths share no state with the others and are checked      *)
(* beside them: a peek of detect_error and its callers at one node's next *)
(* message (ErrorDetection), and the buffered PCP connection              *)
(* (PcpStream), whose variables keep pcp_open's values on every other     *)
(* path.                                                                   *)
(***************************************************************************)
EXTENDS Integers, FiniteSets, Sequences

CONSTANTS
    NumBackends, Kinds, ParamStatus, NoKind, StopOnMismatch, MaxFailovers,
    SendSets, MaxRows, PARALLEL_MODE, MaxFields, MaxLen, Handlers,
    SendToFrontend,
    \* ErrorDetection
    Majors, Calls, Codes, MayCut, MayFailAlloc,
    \* PcpStream
    READBUFSZ, WRITEBUFSZ, MaxRead, MaxWrite, MaxIn, MaxOut, PcpTimeout,
    RetryOnTimeout

VARIABLES
    path,    \* "replicate", "parallel", "internal", "detect" or "pcp"
    major,   \* the session's protocol major version
    phase,   \* "kind", "v3", "v2", "parallel", "internal", "detect", "pcp"
             \* or "returned"
    \* Reconciler (sock, pc, i renamed)
    backend_status, master_node_id, in_progress, where_to_send, replied, rsock,
    rpc, ri, kind_list, kind_map, max_kind, max_count, num_executed_nodes,
    first_node, decided, degenerate_node, outcome, failovers,
    \* ForwardToFrontend (pc, i renamed); valid and master shared with Proto2
    valid, master, is_parallel_table, msg, unread, fpc, fi, p, p1,
    command_ok_row_count, delete_or_update, mismatch_ntuples, ntuples,
    session_mismatch, command_success, frontend, result,
    \* Proto2 (sock, frontend, pc renamed)
    kind, num_fields, body, psock, lost, pfrontend, tstate, status, ppc,
    \* ParallelExec (valid, sock, phase, i, result renamed)
    pvalid, answer, esock, ephase, ei, ready, used_count, done, error_flag,
    client, eresult,
    \* InternalTransaction (sock, pc, i renamed); valid, master, tstate shared
    started, db, fate, isock, lockNeeded, lockErr, stmtErr, ipc, ii,
    deadlock_detected,
    \* ErrorDetection (sock, done renamed); major shared
    dsock, sock0, sent, call, ddone, ret, crashed, faulted, message,
    \* PcpStream (sock renamed)
    csock, peer_sent, hp, bufsz, po, len, state, want, rbuf, got, wbuf,
    wbufsz, wbufpo, written, wlen, offset, wire, wire_mark

R == INSTANCE Reconciler WITH sock <- rsock, pc <- rpc, i <- ri
F == INSTANCE ForwardToFrontend WITH pc <- fpc, i <- fi
P == INSTANCE Proto2 WITH sock <- psock, frontend <- pfrontend, pc <- ppc
E == INSTANCE ParallelExec
        WITH valid <- pvalid, sock <- esock, phase <- ephase, i <- ei,
             result <- eresult
I == INSTANCE InternalTransaction WITH sock <- isock, pc <- ipc, i <- ii
D == INSTANCE ErrorDetection WITH sock <- dsock, done <- ddone
C == INSTANCE PcpStream WITH sock <- csock

Backends == 0 .. NumBackends - 1

rlocals == <<ri, kind_list, kind_map, max_kind, max_count, num_executed_nodes,
             first_node, degenerate_node>>
rvars == <<backend_status, master_node_id, in_progress, where_to_send, replied,
           rsock, rpc, outcome, failovers, decided, rlocals>>
fvars == <<is_parallel_table, msg, unread, fpc, fi, p, p1, command_ok_row_count,
           delete_or_update, mismatch_ntuples, ntuples, session_mismatch,
           command_success, frontend, result>>
pvars == <<kind, num_fields, body, psock, lost, pfrontend, tstate, status, ppc>>
evars == <<pvalid, answer, esock, ephase, ei, ready, used_count, done,
           error_flag, client, eresult>>
ivars == <<started, db, fate, isock, lockNeeded, lockErr, stmtErr, ipc, ii,
           deadlock_detected>>
dvars == <<dsock, sock0, sent, call, ddone, ret, crashed, faulted, message>>
cvars == <<csock, peer_sent, hp, bufsz, po, len, state, want, rbuf, got, wbuf,
           wbufsz, wbufpo, written, wlen, offset, wire, wire_mark>>
vars == <<path, major, phase, valid, master, rvars, fvars, pvars, evars, ivars,
          dvars, cvars>>

\* VALID_BACKEND over the nodes.
ValidSet == {n \in Backends : R!ValidBackend(n)}

\* The handlers' state before they are called.
HandlerLocalsIdle ==
    /\ is_parallel_table = FALSE /\ msg = [n \in Backends |-> F!XX001]
    /\ unread = {} /\ fpc = "idle" /\ fi = 0 /\ p = F!XX001 /\ p1 = F!XX001
    /\ command_ok_row_count = 0 /\ delete_or_update = FALSE
    /\ mismatch_ntuples = FALSE /\ ntuples = [n \in Backends |-> -1]
    /\ session_mismatch = FALSE /\ command_success = FALSE
    /\ frontend = <<>> /\ result = "none"
    /\ kind = "C" /\ num_fields = 0 /\ body = [n \in Backends |-> <<>>]
    /\ psock = [n \in Backends |-> <<>>] /\ lost = {} /\ pfrontend = <<>>
    /\ status = "none" /\ ppc = "idle"

HandlersIdle ==
    /\ valid = {} /\ master = 0 /\ tstate = [n \in Backends |-> "I"]
    /\ HandlerLocalsIdle

ParallelIdle ==
    /\ pvalid = {} /\ answer = <<>> /\ esock = [n \in Backends |-> <<>>]
    /\ ephase = "idle" /\ ei = 0 /\ ready = {} /\ used_count = 0 /\ done = {}
    /\ error_flag = 0 /\ client = <<>> /\ eresult = "none"

InternalIdle ==
    /\ started = [n \in Backends |-> FALSE] /\ db = [n \in Backends |-> "I"]
    /\ fate = [n \in Backends |-> "none"] /\ isock = [n \in Backends |-> <<>>]
    /\ lockNeeded = FALSE /\ lockErr = FALSE /\ stmtErr = FALSE
    /\ ipc = "idle" /\ ii = 0 /\ deadlock_detected = FALSE

DetectIdle ==
    /\ dsock = <<>> /\ sock0 = <<>> /\ sent = <<>>
    /\ call = [fn |-> "none", read_kind |-> FALSE, unread |-> FALSE]
    /\ ddone = FALSE /\ ret = 0 /\ crashed = FALSE /\ faulted = FALSE
    /\ message = ""

\* Every node up and no query in progress: the reconciler's state on the
\* paths that do not use it.
ReconcilerIdle ==
    /\ backend_status = [n \in Backends |-> R!Up] /\ ~in_progress
    /\ where_to_send = Backends

(* A response is awaited: the query went to the backends in replication  *)
(* mode under either protocol, or pool_parallel_exec is about to send a   *)
(* parallel query to the valid nodes, or a write under protocol 3 is    *)
(* about to be wrapped in an internal transaction on the valid nodes (no  *)
(* query is in progress yet, so these are the nodes that are up).  The   *)
(* kind read does not depend on the protocol version, so on the           *)
(* replication path the session's major (0 until then) is fixed when the  *)
(* handlers first consult it, at HandOver.                                *)
Init ==
    /\ path \in {"replicate", "parallel", "internal", "detect", "pcp"}
    /\ major \in CASE path = "detect" -> {2, 3}
                  [] path = "replicate" -> {0}
                  [] OTHER -> {3}
    /\ R!Init
    /\ path \notin {"detect", "pcp"} => DetectIdle /\ C!Init
    /\ CASE path = "replicate" ->
              phase = "kind" /\ HandlersIdle /\ ParallelIdle /\ InternalIdle
          [] path = "parallel" ->
              /\ phase = "parallel" /\ HandlersIdle /\ InternalIdle
              /\ E!Init /\ pvalid = ValidSet
          [] path = "internal" ->
              /\ phase = "internal" /\ ~in_progress
              /\ HandlerLocalsIdle /\ ParallelIdle
              /\ I!Init /\ valid = ValidSet
          [] path = "detect" ->
              /\ phase = "detect" /\ ReconcilerIdle
              /\ HandlersIdle /\ ParallelIdle /\ InternalIdle
              /\ D!Init /\ C!Init
          [] path = "pcp" ->
              /\ phase = "pcp" /\ ReconcilerIdle
              /\ HandlersIdle /\ ParallelIdle /\ InternalIdle
              /\ DetectIdle /\ C!Init

-----------------------------------------------------------------------------
(* read_kind_from_backend, with failover running beside it.               *)
KindStep(A) ==
    /\ phase = "kind"
    /\ A
    /\ UNCHANGED <<path, major, phase, valid, master, fvars, pvars, evars, ivars,
                   dvars, cvars>>

ReadKind ==
    \/ KindStep(R!CheckBackend) \/ KindStep(R!ReceiveKind)
    \/ KindStep(R!ReadFails) \/ KindStep(R!Decide)
    \/ \E n \in Backends : KindStep(R!BackendReply(n)) \/ KindStep(R!NodeDown(n))
    \/ KindStep(R!ElectMaster)

(* No handler runs: read_kind_from_backend reported a mismatch or an I/O  *)
(* error, or the master the handler would read first is no longer valid,  *)
(* so that its first pool_read fails and the call returns POOL_END.       *)
NoHandler ==
    /\ phase = "kind"
    /\ rpc = "done"
    /\ outcome /= "continue" \/ master_node_id \notin ValidSet
    /\ phase' = "returned"
    /\ UNCHANGED <<path, major, valid, master, rvars, fvars, pvars, evars, ivars,
                   dvars, cvars>>

\* The kind the protocol 3 forwarding sees.
V3Kind(k) == IF k \in {"C", "E"} THEN k ELSE "other"

\* The protocol 2 handlers a decided kind may lead to.
V2Of(k) == CASE k = "C" -> {"C"} [] k = "E" -> {"E"} [] OTHER -> P!V2Kinds \ {"C", "E"}

(* The kinds agree and the master is valid: the message is handed on.    *)
(* read_kind_from_backend's locals are gone; the valid nodes and the     *)
(* master are those the handler reads; m is the session's protocol       *)
(* major the handler is chosen by.  What the call read (the replies,  *)
(* the sockets' kind bytes, the failovers it saw) is no longer tracked.   *)
HandOver(m) ==
    /\ phase = "kind"
    /\ major \in {0, m} /\ major' = m
    /\ rpc = "done"
    /\ outcome = "continue"
    /\ master_node_id \in ValidSet
    /\ valid' \in {v \in SUBSET Backends : v = ValidSet}
    /\ master' = master_node_id
    /\ ri' = 0 /\ kind_list' = [n \in Backends |-> NoKind]
    /\ kind_map' = [k \in R!KindBytes |-> 0] /\ max_kind' = NoKind
    /\ max_count' = 0 /\ num_executed_nodes' = 0 /\ first_node' = -1
    /\ degenerate_node' = {}
    /\ where_to_send' = {} /\ replied' = {}
    /\ rsock' = [n \in Backends |-> <<>>] /\ failovers' = 0
    /\ UNCHANGED <<path, backend_status, master_node_id, in_progress,
                   rpc, outcome, decided, evars, ivars, dvars, cvars>>

(* Protocol 3: SimpleForwardToFrontend starts on the nodes' messages of   *)
(* the decided kind, each with its own tag and row count; ntuples[] holds *)
(* what the previous command left, one stale count for every node.        *)
ToV3 ==
    /\ HandOver(3)
    /\ phase' = "v3"
    /\ is_parallel_table' \in BOOLEAN
    /\ \E tag \in F!Tags, rows \in [Backends -> 0 .. MaxRows],
          sev \in [Backends -> F!Severities] :
          /\ V3Kind(decided) /= "C" => tag = "SELECT" /\ rows = [n \in Backends |-> 0]
          /\ \A n \in Backends : (sev[n] = "none") <=> (V3Kind(decided) /= "E")
          /\ msg' = [n \in Backends |-> [kind |-> V3Kind(decided), tag |-> tag,
                                         rows |-> rows[n], sev |-> sev[n]]]
    /\ unread' = ValidSet
    /\ fpc' = "master" /\ fi' = 0
    /\ p' = msg'[master_node_id] /\ p1' = msg'[master_node_id]
    /\ command_ok_row_count' = 0 /\ delete_or_update' = FALSE
    /\ mismatch_ntuples' = FALSE
    /\ ntuples' \in {[n \in Backends |-> c] : c \in -1 .. MaxRows}
    /\ session_mismatch' = FALSE /\ command_success' = FALSE
    /\ frontend' = <<>> /\ result' = "none"
    /\ UNCHANGED pvars

(* Protocol 2: the handler of a kind the decided one stands for is called *)
(* on each valid node's message of that kind.                             *)
ToV2 ==
    /\ HandOver(2)
    /\ phase' = "v2"
    /\ \E k \in V2Of(decided) \cap Handlers :
          \E nf \in IF k \in {"D", "B"} THEN 0 .. MaxFields ELSE {0} :
          \E b \in [valid' -> P!Bodies(k, nf)] :
             /\ kind' = k /\ num_fields' = nf
             /\ body' = [n \in Backends |-> IF n \in valid' THEN b[n] ELSE <<>>]
    /\ psock' = [n \in Backends |-> body'[n] \o <<P!NextMsg>>]
    /\ lost' = {} /\ pfrontend' = <<>>
    /\ tstate' \in {[n \in Backends |-> t] : t \in {"I", "T"}}
    /\ status' = "none" /\ ppc' = "call"
    /\ UNCHANGED fvars

-----------------------------------------------------------------------------
V3Step(A) ==
    /\ phase = "v3" /\ A
    /\ UNCHANGED <<path, major, phase, rvars, pvars, evars, ivars, dvars, cvars>>

Forward ==
    \/ V3Step(F!ReadMaster) \/ V3Step(F!ReadNode) \/ V3Step(F!Reply)

V2Step(A) ==
    /\ phase = "v2" /\ A
    /\ UNCHANGED <<path, major, phase, rvars, fvars, evars, ivars, dvars, cvars>>

HandleV2 ==
    \/ V2Step(P!AsciiRowStep) \/ V2Step(P!BinaryRowStep)
    \/ V2Step(P!CompletedResponseStep) \/ V2Step(P!CursorResponseStep)
    \/ V2Step(P!EmptyQueryResponseStep) \/ V2Step(P!ErrorResponseStep)
    \/ V2Step(P!NoticeResponseStep) \/ V2Step(P!FunctionResultStep)
    \/ V2Step(P!NotificationResponseStep) \/ V2Step(P!RowDescriptionStep)

ParallelStep(A) ==
    /\ phase = "parallel" /\ A
    /\ UNCHANGED <<path, major, phase, valid, master, rvars, fvars, pvars, ivars,
                   dvars, cvars>>

ParallelExec ==
    \/ ParallelStep(E!SendQuery) \/ ParallelStep(E!QuerySent)
    \/ ParallelStep(E!Select) \/ ParallelStep(E!ScanNext)
    \/ ParallelStep(E!ScanEnd) \/ ParallelStep(E!Header)
    \/ ParallelStep(E!Body) \/ ParallelStep(E!ReadFails)

\* The internal transaction shares the handlers' valid nodes, master and
\* TSTATE; nothing else moves while it runs.
InternalStep(A) ==
    /\ phase = "internal" /\ A
    /\ UNCHANGED <<path, major, phase, rvars, fvars, evars, kind, num_fields,
                   body, psock, lost, pfrontend, status, ppc, dvars, cvars>>

Internal ==
    \/ InternalStep(I!PassOver) \/ InternalStep(I!LoopEnd)
    \/ \E n \in Backends :
          \/ InternalStep(I!Begin(n)) \/ InternalStep(I!LockNode(n))
          \/ InternalStep(I!ForwardNode(n)) \/ InternalStep(I!CommitSecondary(n))
    \/ InternalStep(I!LockMaster) \/ InternalStep(I!Reply)
    \/ InternalStep(I!CommitMaster)

DetectStep(A) ==
    /\ phase = "detect" /\ A
    /\ UNCHANGED <<path, phase, valid, master, rvars, fvars, pvars, evars, ivars,
                   cvars>>

Detect ==
    \/ DetectStep(D!DetectPostmasterDownError) \/ DetectStep(D!DetectWithUnread)
    \/ DetectStep(D!ExtractErrorMessage) \/ DetectStep(D!DiscardPacket)

PcpStep(A) ==
    /\ phase = "pcp" /\ A
    /\ UNCHANGED <<path, major, phase, valid, master, rvars, fvars, pvars, evars,
                   ivars, dvars>>

Pcp ==
    \/ PcpStep(C!PeerSend) \/ PcpStep(C!StartRead) \/ PcpStep(C!ReadStep)
    \/ PcpStep(C!ReadTimesOut) \/ PcpStep(C!ReadFails) \/ PcpStep(C!PcpWrite)
    \/ PcpStep(C!FlushStart) \/ PcpStep(C!FlushStep) \/ PcpStep(C!FlushFails)

Next ==
    \/ ReadKind
    \/ NoHandler
    \/ ToV3
    \/ ToV2
    \/ Forward
    \/ HandleV2
    \/ ParallelExec
    \/ Internal
    \/ Detect
    \/ Pcp

Spec == Init /\ [][Next]_vars

(* The child is one process: read_kind_from_backend and the handler run   *)
(* in it one step after another, so it is the process, not each of its    *)
(* steps, that the scheduler keeps running; its steps belong to exclusive *)
(* phases, and where two are enabled at once (the handover) either ends  *)
(* the phase.  Each backend the query went to answers; pool_parallel_exec *)
(* is blocked only in select(2); each blocking read of the internal       *)
(* transaction is answered by the node it waits on.  Failover need not    *)
(* happen.  A protocol 2 handler and a detect_* call are each one step.   *)
(* The PCP connection is driven by a pcp tool that may stop at any point, *)
(* so it has no fairness and no end to reach.                             *)
ChildProcess ==
    \/ KindStep(R!Child) \/ NoHandler \/ ToV3 \/ ToV2
    \/ Forward \/ ParallelExec \/ Internal \/ Detect

FairSpec ==
    /\ Spec
    /\ WF_vars(ChildProcess)
    /\ \A n \in Backends : WF_vars(KindStep(R!BackendReply(n)))

-----------------------------------------------------------------------------
TypeOK ==
    /\ path \in {"replicate", "parallel", "internal", "detect", "pcp"}
    /\ major \in {0, 2, 3}
    /\ phase \in {"kind", "v3", "v2", "parallel", "internal", "detect", "pcp",
                  "returned"}
    /\ phase = "kind" => R!TypeOK
    /\ phase = "v3" => F!TypeOK
    /\ phase = "v2" => P!TypeOK
    /\ phase = "internal" => I!TypeOK
    /\ phase = "detect" => D!TypeOK
    /\ phase = "pcp" => C!TypeOK

(* Reconciler: nodes that all answered the same kind are never evicted,   *)
(* whatever failover does meanwhile.                                       *)
AgreementNeverEvicts == phase = "kind" => R!AgreementNeverEvicts

(* Reconciler: with every node up throughout, the spec's quorum rule.     *)
QuorumRuleAllUp == phase = "kind" => R!QuorumRuleAllUp

(* Protocol 3: the parallel UPDATE/DELETE sum reaches the client.         *)
ParallelSum == phase = "v3" => F!ParallelSum

(* Protocol 3: a row count mismatch is reported as XX001, exactly when    *)
(* some valid node's count differs from the master's.                     *)
MismatchReported == phase = "v3" => F!MismatchReported

(* Protocol 3: ntuples[] describes the last command only.                 *)
NtuplesRecorded == phase = "v3" => F!NtuplesRecorded

(* Protocol 2: the handlers that read each field from the node that sent  *)
(* it keep every valid node's stream on message boundaries.               *)
FramedWhenLayoutsAgree == phase = "v2" => P!FramedWhenLayoutsAgree

(* Protocol 2: a field count or name length mismatch in a RowDescription  *)
(* is fatal.                                                               *)
NameMismatchFatal == phase = "v2" => P!NameMismatchFatal

(* Parallel mode: a successful query reaches the client as one            *)
(* RowDescription, every node's rows and one CommandComplete.             *)
SuccessForwarded == phase = "parallel" => E!SuccessForwarded

(* Internal transaction: when insert_lock lets the statement go, every    *)
(* valid node is in the same transaction state and TSTATE agrees, a       *)
(* deadlock on the master being matched by an abort everywhere else.      *)
LockStatesAgree == phase = "internal" => I!LockStatesAgree

(* Internal transaction: end_internal_transaction commits the master      *)
(* last, so once it has committed no other node's transaction is open or *)
(* rolled back.                                                            *)
MasterCommitsLast == phase = "internal" => I!MasterCommitsLast

(* Internal transaction: after end_internal_transaction each valid        *)
(* connection holds the rest of exactly one ReadyForQuery, reporting the  *)
(* node's real state.                                                      *)
ReadyForQueryPending == phase = "internal" => I!ReadyForQueryPending

(* detect_error's callers: SPECIFIED_ERROR is reported for a node whose  *)
(* first message is the error looked for or that died inside it, and,     *)
(* under protocol 3, for every such error that arrives whole and fits the *)
(* buffer.                                                                 *)
SpecifiedErrorIffSent == phase = "detect" => D!SpecifiedErrorIffSent

(* PCP: the pending data and the write buffer stay inside their          *)
(* allocations.                                                            *)
BuffersInBounds == C!BuffersInBounds

(* PCP: pcp_read, pcp_write and pcp_flush implement the byte stream       *)
(* contract (on the other paths the connection never moves).              *)
StreamRefinement == C!StreamRefinement

\* The response has been dealt with (a protocol 2 handler, one step, has
\* been called).
Ended ==
    \/ phase = "returned"
    \/ phase = "v3" /\ fpc = "done"
    \/ phase = "v2"
    \/ phase = "parallel" /\ ephase = "returned"
    \/ phase = "internal" /\ ipc \in {"done", "ended"}
    \/ phase = "detect" /\ ddone

(* Every response is dealt with: read_kind_from_backend returns however   *)
(* failover changes the nodes under it, the handler it leads to returns,  *)
(* pool_parallel_exec returns when every configured node is valid, and   *)
(* the internal transaction reaches end_internal_transaction's return or  *)
(* an error return; the detect_* call returns.  (The PCP path is not a    *)
(* response.)                                                              *)
ResponseEnds ==
    path /= "pcp" /\ (path = "parallel" => pvalid = Backends) => <>Ended
=============================================================================
