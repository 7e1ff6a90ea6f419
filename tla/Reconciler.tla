------------------------------ MODULE Reconciler ------------------------------
(***************************************************************************)
(* One call of read_kind_from_backend() (src/pool_process_query.c): the   *)
(* child process reads one message kind from every valid backend, skips   *)
(* ParameterStatus packets, tallies the kinds, decides the trusted kind   *)
(* by "decide by majority" and asks for the degeneration of every backend *)
(* whose kind differs.                                                    *)
(*                                                                         *)
(* The call runs concurrently with the backends, which answer when they   *)
(* like, and with failover in the parent process, which marks a node down *)
(* in shared memory and later re-elects Req_info->master_node_id.  Both   *)
(* are read by the child through VALID_BACKEND and MASTER_NODE_ID without *)
(* any lock, at the moment the code evaluates them.                       *)
(***************************************************************************)
EXTENDS Integers, FiniteSets, Sequences, FiniteSetsExt

CONSTANTS
    NumBackends,    \* pool_config->backend_desc->num_backends (NUM_BACKENDS)
    Kinds,          \* message kinds a backend may answer with ('C', 'E', 'T', ...)
    ParamStatus,    \* the ParameterStatus kind 'S', skipped by the read loop
    NoKind,         \* kind_list[i] = 0: node i was not read
    StopOnMismatch, \* pool_config->replication_stop_on_mismatch
    MaxFailovers,   \* bound on the number of nodes failover may take down
    SendSets        \* where_to_send maps the query context may carry

ASSUME NumBackends \in Nat \ {0}
ASSUME ParamStatus \notin Kinds /\ NoKind \notin Kinds
ASSUME StopOnMismatch \in BOOLEAN

Backends == 0 .. NumBackends - 1

\* BACKEND_INFO(i).backend_status: CON_UP / CON_CONNECT_WAIT versus CON_DOWN
Up == "UP"
Down == "DOWN"

\* kind_map[256] has a counter for every byte a kind may be.
KindBytes == Kinds \cup {ParamStatus}

Outcomes == {"none", "continue", "mismatch_error", "mismatch_exit", "io_error"}

VARIABLES
    backend_status,     \* shared memory: status of each node
    master_node_id,     \* shared memory: Req_info->master_node_id
    in_progress,        \* session_context->in_progress
    where_to_send,      \* query_context->where_to_send, as a set of nodes
    replied,            \* nodes that have written their answer to their socket
    sock,               \* sock[n]: kinds written by node n and not yet read
    pc,                 \* "loop": the for loop; "read": blocked in pool_read; "done"
    i,                  \* the loop index
    kind_list,          \* kind_list[]: the kind read from each node
    kind_map,           \* kind_map[]: how many nodes answered each kind
    max_kind,           \* the kind with the highest count seen so far
    max_count,          \* that count
    num_executed_nodes, \* number of valid nodes read
    first_node,         \* first valid node, -1 if none
    decided,            \* *decided_kind
    degenerate_node,    \* nodes whose degeneration is requested
    outcome,            \* what the call returned
    failovers           \* number of failovers so far

child == <<pc, i, kind_list, kind_map, max_kind, max_count, num_executed_nodes,
           first_node, decided, degenerate_node, outcome>>
vars == <<backend_status, master_node_id, in_progress, where_to_send, replied,
          sock, failovers, pc, i, kind_list, kind_map, max_kind, max_count,
          num_executed_nodes, first_node, decided, degenerate_node, outcome>>

UpNodes == {n \in Backends : backend_status[n] = Up}

(***************************************************************************)
(* pool_is_node_to_be_sent_in_current_query(): while a query is in        *)
(* progress only the nodes of its where_to_send map take part.            *)
(***************************************************************************)
NodeToBeSent(n) == ~in_progress \/ n \in where_to_send

\* Fault variant: the status test alone, without the query's send map.
ValidBackendStatusOnly(n) == backend_status[n] = Up

\* VALID_BACKEND(n) of pool.h
ValidBackend(n) == NodeToBeSent(n) /\ backend_status[n] = Up

\* The nodes the query was sent to, i.e. the nodes that will answer.
Targets == IF in_progress THEN where_to_send ELSE Backends

-----------------------------------------------------------------------------
Init ==
    /\ backend_status \in {f \in [Backends -> {Up, Down}] :
                              \E n \in Backends : f[n] = Up}
    /\ master_node_id = Min(UpNodes)
    /\ in_progress \in BOOLEAN
    /\ where_to_send \in {s \in SendSets : s /= {} /\ s \subseteq UpNodes}
    /\ replied = {}
    /\ sock = [n \in Backends |-> <<>>]
    /\ pc = "loop"
    /\ i = 0
    /\ kind_list = [n \in Backends |-> NoKind]
    /\ kind_map = [k \in KindBytes |-> 0]
    /\ max_kind = NoKind
    /\ max_count = 0
    /\ num_executed_nodes = 0
    /\ first_node = -1
    /\ decided = NoKind
    /\ degenerate_node = {}
    /\ outcome = "none"
    /\ failovers = 0

-----------------------------------------------------------------------------
(* Environment: a backend answers the query, possibly after some          *)
(* ParameterStatus packets.                                                *)
BackendReply(n) ==
    /\ n \in Targets \ replied
    /\ \E k \in Kinds :
          sock' = [sock EXCEPT ![n] = @ \o <<ParamStatus, k>>]
             \/ sock' = [sock EXCEPT ![n] = @ \o <<k>>]
    /\ replied' = replied \cup {n}
    /\ UNCHANGED <<backend_status, master_node_id, in_progress, where_to_send,
                   failovers>>
    /\ UNCHANGED child

(* Environment: failover in the parent marks a node down (health check,   *)
(* a degeneration request, or an administrative detach) ...               *)
NodeDown(n) ==
    /\ failovers < MaxFailovers
    /\ backend_status[n] = Up
    /\ Cardinality(UpNodes) > 1
    /\ backend_status' = [backend_status EXCEPT ![n] = Down]
    /\ failovers' = failovers + 1
    /\ UNCHANGED <<master_node_id, in_progress, where_to_send, replied, sock>>
    /\ UNCHANGED child

(* ... and afterwards stores the youngest live node as the master.        *)
ElectMaster ==
    /\ master_node_id /= Min(UpNodes)
    /\ master_node_id' = Min(UpNodes)
    /\ UNCHANGED <<backend_status, in_progress, where_to_send, replied, sock,
                   failovers>>
    /\ UNCHANGED child

-----------------------------------------------------------------------------
(* The for loop over NUM_BACKENDS: an invalid node gets kind_list[i] = 0, *)
(* a valid one is counted and read.                                        *)
CheckBackend ==
    /\ pc = "loop"
    /\ i < NumBackends
    /\ IF ValidBackend(i)
         THEN /\ pc' = "read"
              /\ num_executed_nodes' = num_executed_nodes + 1
              /\ first_node' = IF first_node < 0 THEN i ELSE first_node
              /\ UNCHANGED <<i, kind_list>>
         ELSE /\ kind_list' = [kind_list EXCEPT ![i] = NoKind]
              /\ i' = i + 1
              /\ UNCHANGED <<pc, num_executed_nodes, first_node>>
    /\ UNCHANGED <<kind_map, max_kind, max_count, decided, degenerate_node,
                   outcome>>
    /\ UNCHANGED <<backend_status, master_node_id, in_progress, where_to_send,
                   replied, sock, failovers>>

\* Fault variant: the first byte is taken as the kind, ParameterStatus or not.
FirstKindNoSkip(s) == Head(s)

(* The do-while loop: pool_read() of kind bytes until one is not 'S',     *)
(* each ParameterStatus packet being read and discarded.                  *)
FirstKind(s) == Head(SelectSeq(s, LAMBDA m : m /= ParamStatus))

(* The do-while loop, then the tally in kind_map and max_kind.            *)
ReceiveKind ==
    /\ pc = "read"
    /\ \E m \in 1 .. Len(sock[i]) : sock[i][m] /= ParamStatus
    /\ LET k   == FirstKind(sock[i])
           cnt == kind_map[k] + 1
       IN /\ kind_list' = [kind_list EXCEPT ![i] = k]
          /\ kind_map' = [kind_map EXCEPT ![k] = cnt]
          /\ IF cnt > max_count
               THEN max_kind' = k /\ max_count' = cnt
               ELSE UNCHANGED <<max_kind, max_count>>
          /\ sock' = [sock EXCEPT ![i] = <<>>]
    /\ i' = i + 1
    /\ pc' = "loop"
    /\ UNCHANGED <<num_executed_nodes, first_node, decided, degenerate_node,
                   outcome>>
    /\ UNCHANGED <<backend_status, master_node_id, in_progress, where_to_send,
                   replied, failovers>>

(* pool_read() fails: the node went down and its socket was closed before *)
(* it answered.  The call returns POOL_ERROR.                             *)
ReadFails ==
    /\ pc = "read"
    /\ sock[i] = <<>>
    /\ backend_status[i] = Down
    /\ pc' = "done"
    /\ outcome' = "io_error"
    /\ UNCHANGED <<i, kind_list, kind_map, max_kind, max_count,
                   num_executed_nodes, first_node, decided, degenerate_node>>
    /\ UNCHANGED <<backend_status, master_node_id, in_progress, where_to_send,
                   replied, sock, failovers>>

(***************************************************************************)
(* "decide by majority".  The majority is measured against NUM_BACKENDS.  *)
(* With no valid node at all, kind_list[first_node] reads kind_list[-1]:  *)
(* any value.                                                              *)
(***************************************************************************)
\* Fault variant: when all nodes agree, the master's kind is taken.
TrustKindsMasterOnAgreement ==
    IF max_count /= num_executed_nodes
      THEN IF 2 * max_count <= NumBackends
             THEN {kind_list[master_node_id]}
             ELSE {max_kind}
      ELSE {kind_list[master_node_id]}

\* Fault variant: on disagreement the master is trusted without counting.
TrustKindsMasterAlways ==
    IF max_count /= num_executed_nodes
      THEN {kind_list[master_node_id]}
      ELSE IF first_node >= 0 THEN {kind_list[first_node]}
                              ELSE Kinds \cup {NoKind}

TrustKinds ==
    IF max_count /= num_executed_nodes
      THEN IF 2 * max_count <= NumBackends
             THEN {kind_list[master_node_id]}
             ELSE {max_kind}
      ELSE IF first_node >= 0 THEN {kind_list[first_node]}
                              ELSE Kinds \cup {NoKind}

\* Fault variant: the kind_list[i] != 0 test is dropped.
DegenerateNodesNoReadCheck(trust) ==
    IF max_count /= num_executed_nodes
      THEN {n \in Backends :
              /\ ~(in_progress /\ n \notin where_to_send)
              /\ trust /= kind_list[n]}
      ELSE {}

\* The degeneration loop: nodes read whose kind is not the trusted one.
DegenerateNodes(trust) ==
    IF max_count /= num_executed_nodes
      THEN {n \in Backends :
              /\ ~(in_progress /\ n \notin where_to_send)
              /\ kind_list[n] /= NoKind
              /\ trust /= kind_list[n]}
      ELSE {}

Decide ==
    /\ pc = "loop"
    /\ i = NumBackends
    /\ \E trust \in TrustKinds :
          /\ decided' = trust
          /\ degenerate_node' = DegenerateNodes(trust)
          /\ outcome' = IF DegenerateNodes(trust) = {} THEN "continue"
                        ELSE IF StopOnMismatch THEN "mismatch_exit"
                        ELSE "mismatch_error"
    /\ pc' = "done"
    /\ UNCHANGED <<i, kind_list, kind_map, max_kind, max_count,
                   num_executed_nodes, first_node>>
    /\ UNCHANGED <<backend_status, master_node_id, in_progress, where_to_send,
                   replied, sock, failovers>>

-----------------------------------------------------------------------------
Child == CheckBackend \/ ReceiveKind \/ ReadFails \/ Decide

Environment ==
    \/ \E n \in Backends : BackendReply(n) \/ NodeDown(n)
    \/ ElectMaster

Next == Child \/ Environment

Spec == Init /\ [][Next]_vars

(* The child always runs; a backend the query was sent to answers.        *)
FairSpec == Spec /\ WF_vars(Child) /\ \A n \in Backends : WF_vars(BackendReply(n))

-----------------------------------------------------------------------------
TypeOK ==
    /\ backend_status \in [Backends -> {Up, Down}]
    /\ master_node_id \in Backends
    /\ in_progress \in BOOLEAN
    /\ where_to_send \subseteq Backends
    /\ replied \subseteq Backends
    /\ sock \in [Backends -> Seq(Kinds \cup {ParamStatus})]
    /\ pc \in {"loop", "read", "done"}
    /\ i \in 0 .. NumBackends
    /\ kind_list \in [Backends -> Kinds \cup {NoKind}]
    /\ kind_map \in [KindBytes -> 0 .. NumBackends]
    /\ max_kind \in Kinds \cup {NoKind}
    /\ max_count \in 0 .. NumBackends
    /\ num_executed_nodes \in 0 .. NumBackends
    /\ first_node \in -1 .. NumBackends - 1
    /\ decided \in Kinds \cup {NoKind}
    /\ degenerate_node \subseteq Backends
    /\ outcome \in Outcomes
    /\ failovers \in 0 .. MaxFailovers

\* The nodes whose answer was read.
Answered == {n \in Backends : kind_list[n] /= NoKind}

Reconciled == pc = "done" /\ outcome /= "io_error" /\ Answered /= {}

(* When every node that answered returned the same kind, the call decides *)
(* that kind, evicts nobody and continues, whatever failover did to the   *)
(* node statuses and the master id while the backends were being read.    *)
AgreementNeverEvicts ==
    (Reconciled /\ \A a, b \in Answered : kind_list[a] = kind_list[b])
      => /\ outcome = "continue"
         /\ degenerate_node = {}
         /\ \A a \in Answered : decided = kind_list[a]

(***************************************************************************)
(* The quorum rule of the specification: a kind answered by a strict       *)
(* majority of the nodes that answered is trusted; otherwise the kind of   *)
(* the reference node, which is the master when it answered and else the  *)
(* first node that answered (the virtual master).  Exactly the nodes whose *)
(* kind differs from the trusted kind are degenerated.                     *)
(***************************************************************************)
CountOf(k) == Cardinality({n \in Answered : kind_list[n] = k})

MajorityKinds == {k \in Kinds : 2 * CountOf(k) > Cardinality(Answered)}

ReferenceNode == IF master_node_id \in Answered THEN master_node_id
                 ELSE Min(Answered)

QuorumKind == IF MajorityKinds /= {} THEN CHOOSE k \in MajorityKinds : TRUE
              ELSE kind_list[ReferenceNode]

QuorumRule ==
    Reconciled =>
        /\ decided = QuorumKind
        /\ degenerate_node = {n \in Answered : kind_list[n] /= QuorumKind}

(* The quorum rule holds whenever every configured node is up and stays  *)
(* up during the call, with or without stop-on-mismatch.                  *)
QuorumRuleAllUp ==
    failovers = 0 /\ UpNodes = Backends => QuorumRule

(* Every call returns: no valid node is waited for forever.               *)
Termination == <>(pc = "done")
=============================================================================
