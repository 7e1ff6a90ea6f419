--------------------------- MODULE ForwardToFrontend ---------------------------
(***************************************************************************)
(* One call of SimpleForwardToFrontend(kind, frontend, backend)            *)
(* (src/pool_process_query.c) after read_kind_from_backend has agreed on   *)
(* the kind: the master's message is read and kept, then every other node *)
(* in node order has its copy read and dropped.  For CommandComplete the   *)
(* row count of each node (extract_ntuples) is recorded in the session's  *)
(* ntuples[], summed in parallel mode for UPDATE/DELETE on a parallel     *)
(* table, and otherwise compared with the master's.  The client gets the  *)
(* master's message, the rewritten "UPDATE <sum>" tag, or, on a row count *)
(* mismatch, an XX001 error.                                               *)
(*                                                                         *)
(* A message is abstracted to its kind, its command tag and its row       *)
(* count; the oid of "INSERT oid n" and the text are left out.            *)
(***************************************************************************)
EXTENDS Integers, Sequences, FiniteSetsExt

CONSTANTS
    NumBackends,    \* NUM_BACKENDS
    MaxRows,        \* bound on the row count a node reports
    PARALLEL_MODE   \* pool_config->parallel_mode

ASSUME NumBackends \in Nat \ {0} /\ MaxRows \in Nat /\ PARALLEL_MODE \in BOOLEAN

Backends == 0 .. NumBackends - 1

\* 'C' is CommandComplete, 'E' ErrorResponse; "other" stands for any other
\* kind forwarded as is (DataRow, RowDescription, ...).
Kinds == {"C", "E", "other"}
Tags == {"UPDATE", "DELETE", "INSERT", "SELECT"}
\* The severity field of an ErrorResponse ("none" for other kinds);
\* PANIC is folded into FATAL.
Severities == {"none", "ERROR", "FATAL"}
Messages == [kind : Kinds, tag : Tags, rows : 0 .. MaxRows, sev : Severities]

\* The ErrorResponse pool_send_error_message builds, SQLSTATE XX001.
XX001 == [kind |-> "E", tag |-> "XX001", rows |-> 0, sev |-> "ERROR"]

VARIABLES
    valid,            \* nodes for which VALID_BACKEND(i) holds
    master,           \* MASTER_NODE_ID
    is_parallel_table,\* the query's table is distributed (set by the parser)
    msg,              \* msg[n]: the message node n has sent for this kind
    unread,           \* nodes whose message is still in their socket
    pc,               \* "master", "loop", "done"
    i,                \* the loop index over the nodes
    p,                \* the payload read last (pool_read2's buffer)
    p1,               \* the master's message, kept for the client
    command_ok_row_count,
    delete_or_update,
    mismatch_ntuples, \* the local flag of the call
    ntuples,          \* session_context->ntuples[]
    session_mismatch, \* session_context->mismatch_ntuples
    command_success,  \* set by pool_set_command_success()
    frontend,         \* messages written to the client
    result            \* "none", "continue" or "end"

vars == <<valid, master, is_parallel_table, msg, unread, pc, i, p, p1,
          command_ok_row_count, delete_or_update, mismatch_ntuples, ntuples,
          session_mismatch, command_success, frontend, result>>

(* The nodes answered the same kind and the same command, each with its   *)
(* own row count.  ntuples[] keeps what earlier calls of the session      *)
(* stored in it.                                                           *)
Init ==
    /\ valid \in SUBSET Backends \ {{}}
    /\ master \in valid
    /\ is_parallel_table \in BOOLEAN
    /\ \E kind \in Kinds, tag \in Tags, rows \in [Backends -> 0 .. MaxRows],
          sev \in [Backends -> Severities] :
          /\ kind /= "C" => tag = "SELECT" /\ rows = [n \in Backends |-> 0]
          /\ \A n \in Backends : (sev[n] = "none") <=> (kind /= "E")
          /\ msg = [n \in Backends |-> [kind |-> kind, tag |-> tag, rows |-> rows[n],
                                        sev |-> sev[n]]]
    /\ unread = valid
    /\ pc = "master"
    /\ i = 0
    /\ p = msg[master]
    /\ p1 = msg[master]
    /\ command_ok_row_count = 0
    /\ delete_or_update = FALSE
    /\ mismatch_ntuples = FALSE
    /\ ntuples \in [Backends -> -1 .. MaxRows]
    /\ session_mismatch = FALSE
    /\ command_success = FALSE
    /\ frontend = <<>>
    /\ result = "none"

-----------------------------------------------------------------------------
\* extract_ntuples: the number after "UPDATE " or "DELETE ", the one after
\* the oid of "INSERT oid n", and 0 for any other tag.
extract_ntuples(m) == IF m.tag \in {"UPDATE", "DELETE", "INSERT"} THEN m.rows ELSE 0

\* Fault variant: only "UPDATE" is looked for in the tag.
DeleteOrUpdateUpdateOnly(m, ptab) == PARALLEL_MODE /\ ptab /\ m.tag = "UPDATE"

\* PARALLEL_MODE && is_parallel_table && (strstr(p, "UPDATE") ||
\* strstr(p, "DELETE")).
DeleteOrUpdate(m, ptab) == PARALLEL_MODE /\ ptab /\ m.tag \in {"UPDATE", "DELETE"}

\* Fault variant: a mismatch seen at an earlier node is overwritten by the
\* comparison at the next one.
TallyLastOnly(c, mm, n, dou) ==
    IF dou THEN [c |-> c + n, mm |-> mm] ELSE [c |-> c, mm |-> c /= n]

\* The count of a node: added to the sum, or compared with the master's.
Tally(c, mm, n, dou) ==
    IF dou THEN [c |-> c + n, mm |-> mm] ELSE [c |-> c, mm |-> mm \/ c /= n]

\* Fault variant: a node that is down keeps the count of an earlier call.
InvalidNtuplesKept(nt, n) == nt

\* session_context->ntuples[i] = -1 for a node that is not valid.
InvalidNtuples(nt, n) == [nt EXCEPT ![n] = -1]

\* Fault variant: the loop does not skip the master.
IsMasterNodeNever(n) == FALSE

\* IS_MASTER_NODE_ID(i).
IsMasterNode(n) == n = master

\* is_panic_or_fatal_error: the severity field says PANIC or FATAL.
is_panic_or_fatal_error(m) == m.sev = "FATAL"

-----------------------------------------------------------------------------
(* The master's length and payload are read (pool_read2 fails: POOL_END)  *)
(* and copied to p1; for 'C' its count is saved and delete_or_update set.  *)
ReadMaster ==
    /\ pc = "master"
    /\ command_success' = (command_success \/ msg[master].kind = "C")
    /\ \/ /\ result' = "end"
          /\ pc' = "done"
          /\ UNCHANGED <<unread, p, p1, command_ok_row_count, delete_or_update,
                         ntuples>>
       \/ /\ unread' = unread \ {master}
          /\ p' = msg[master]
          /\ p1' = msg[master]
          /\ IF msg[master].kind = "C"
               THEN /\ command_ok_row_count' = extract_ntuples(msg[master])
                    /\ ntuples' = [ntuples EXCEPT ![master] = extract_ntuples(msg[master])]
                    /\ delete_or_update' = DeleteOrUpdate(msg[master], is_parallel_table)
               ELSE UNCHANGED <<command_ok_row_count, ntuples, delete_or_update>>
          /\ pc' = "loop"
          /\ UNCHANGED result
    /\ UNCHANGED <<valid, master, is_parallel_table, msg, i, mismatch_ntuples,
                   session_mismatch, frontend>>

(* One iteration of the loop over the nodes other than the master: a node *)
(* that is not valid gets ntuples -1; a valid one has its message read    *)
(* (a failed read returns POOL_END) and, for 'C', its count tallied.       *)
ReadNode ==
    /\ pc = "loop"
    /\ i < NumBackends
    /\ i' = i + 1
    /\ IF IsMasterNode(i)
         THEN UNCHANGED <<unread, p, ntuples, command_ok_row_count,
                          mismatch_ntuples, pc, result>>
       ELSE IF i \notin valid
         THEN /\ ntuples' = InvalidNtuples(ntuples, i)
              /\ UNCHANGED <<unread, p, command_ok_row_count, mismatch_ntuples,
                             pc, result>>
       ELSE \/ /\ result' = "end"
               /\ pc' = "done"
               /\ UNCHANGED <<unread, p, ntuples, command_ok_row_count,
                              mismatch_ntuples>>
            \/ /\ unread' = unread \ {i}
               /\ p' = msg[i]
               /\ IF msg[i].kind = "C"
                    THEN LET n == extract_ntuples(msg[i])
                             t == Tally(command_ok_row_count, mismatch_ntuples, n,
                                        delete_or_update)
                         IN /\ ntuples' = [ntuples EXCEPT ![i] = n]
                            /\ command_ok_row_count' = t.c
                            /\ mismatch_ntuples' = t.mm
                    ELSE UNCHANGED <<ntuples, command_ok_row_count, mismatch_ntuples>>
               /\ UNCHANGED <<pc, result>>
    /\ UNCHANGED <<valid, master, is_parallel_table, msg, p1, delete_or_update,
                   session_mismatch, command_success, frontend>>

(* After the loop: on a mismatch the XX001 error is sent and the session  *)
(* flag set, and the message is not forwarded; otherwise p1, its tag      *)
(* rewritten to the sum when delete_or_update, goes to the client.  For   *)
(* an ErrorResponse the call then returns POOL_END if p, the payload read *)
(* last, is a PANIC or FATAL error.                                        *)
Reply ==
    /\ pc = "loop"
    /\ i = NumBackends
    /\ IF mismatch_ntuples
         THEN /\ frontend' = Append(frontend, XX001)
              /\ session_mismatch' = TRUE
         ELSE /\ frontend' = Append(frontend,
                                IF delete_or_update
                                  THEN [p1 EXCEPT !.rows = command_ok_row_count]
                                  ELSE p1)
              /\ UNCHANGED session_mismatch
    /\ result' = IF msg[master].kind = "E" /\ is_panic_or_fatal_error(p)
                    THEN "end" ELSE "continue"
    /\ pc' = "done"
    /\ UNCHANGED <<valid, master, is_parallel_table, msg, unread, i, p, p1,
                   command_ok_row_count, delete_or_update, mismatch_ntuples,
                   ntuples, command_success>>

Next == ReadMaster \/ ReadNode \/ Reply

Spec == Init /\ [][Next]_vars

-----------------------------------------------------------------------------
TypeOK ==
    /\ valid \subseteq Backends /\ master \in valid
    /\ msg \in [Backends -> Messages] /\ p \in Messages
    /\ unread \subseteq valid
    /\ pc \in {"master", "loop", "done"}
    /\ i \in 0 .. NumBackends
    /\ command_ok_row_count \in 0 .. NumBackends * MaxRows
    /\ ntuples \in [Backends -> -1 .. MaxRows]
    /\ session_mismatch \in BOOLEAN /\ command_success \in BOOLEAN
    /\ Len(frontend) <= 1
    /\ result \in {"none", "continue", "end"}

\* The counts differ between the master and some other valid node.
CountsDiffer == \E n \in valid : extract_ntuples(msg[n]) /= extract_ntuples(msg[master])

\* The spec's parallel write case: an UPDATE or DELETE on a distributed
\* table in parallel mode.
ParallelWrite ==
    PARALLEL_MODE /\ is_parallel_table /\ msg[master].tag \in {"UPDATE", "DELETE"}

\* The call returned POOL_CONTINUE for a CommandComplete.
CommandCompleted == result = "continue" /\ msg[master].kind = "C"

(* In parallel mode an UPDATE or DELETE on a distributed table reaches the *)
(* client as one CommandComplete of the same command whose count is the   *)
(* sum over every valid node (the spec's [3,3,4] -> "UPDATE 10"), however  *)
(* the counts differ.                                                      *)
ParallelSum ==
    CommandCompleted /\ ParallelWrite =>
        frontend = <<[msg[master] EXCEPT
                        !.rows = MapThenSumSet(LAMBDA n : msg[n].rows, valid)]>>

(* Outside that case the counts are compared with the master's: the      *)
(* client gets the error XX001 exactly when some valid node's count       *)
(* differs, and the master's message unchanged otherwise; a mismatch is   *)
(* remembered in the session.                                              *)
MismatchReported ==
    CommandCompleted /\ ~ParallelWrite =>
        /\ CountsDiffer => frontend = <<XX001>> /\ session_mismatch
        /\ ~CountsDiffer => frontend = <<msg[master]>>

(* After a CommandComplete the session's ntuples[] describes this command *)
(* only: the count of each valid node and -1 for every node that is down, *)
(* whatever an earlier command left there.                                 *)
NtuplesRecorded ==
    CommandCompleted =>
        \A n \in Backends :
            ntuples[n] = IF n \in valid THEN extract_ntuples(msg[n]) ELSE -1

(* The comment on the ErrorResponse check: a PANIC or FATAL error means   *)
(* the backend closes its channel at once, so the session must end; a call *)
(* that forwarded such an error from any valid node returns POOL_END.      *)
FatalEndsSession ==
    result = "continue" =>
        \A n \in valid : msg[n].kind = "E" => ~is_panic_or_fatal_error(msg[n])

(* The spec: outside parallel mode a row count mismatch is logged and     *)
(* tolerated, sets mismatch_ntuples and still forwards the reference      *)
(* node's CommandComplete with its own count.                              *)
MismatchTolerated ==
    CommandCompleted /\ ~ParallelWrite
        /\ CountsDiffer =>
            session_mismatch /\ frontend = <<msg[master]>>
=============================================================================
