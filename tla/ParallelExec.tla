----------------------------- MODULE ParallelExec -----------------------------
(***************************************************************************)
(* pool_parallel_exec (pool_process_query.c): a query of parallel mode is *)
(* written to every valid node, then the answers are relayed to the        *)
(* client as the nodes become readable.  Each node read is read to its end *)
(* (CommandComplete or ErrorResponse) before select(2) is called again.    *)
(* Only the first node's first message, and the last node's end, are      *)
(* meant to reach the client; every node's DataRows do.  A node is done    *)
(* when its end is read; used_count counts the done nodes, and the call    *)
(* returns at the end read while used_count = NUM_BACKENDS-1.             *)
(*                                                                         *)
(* A message is its kind: "T" RowDescription, "D" DataRow, "C"             *)
(* CommandComplete, "E" ErrorResponse.  The set of valid nodes is fixed    *)
(* for the call.  A node's answer is in its socket as soon as the query    *)
(* was written to it; which readable nodes select(2) reports at once is   *)
(* nondeterministic.  EINTR from select(2) is a stuttering step.  The      *)
(* paths for DROP DATABASE, "show pool_status", strict queries and a      *)
(* non-empty query cache happen before the receive loop and are left out.  *)
(***************************************************************************)
EXTENDS Integers, SequencesExt, FiniteSets

CONSTANTS
    NumBackends,     \* NUM_BACKENDS
    MaxRows,         \* most DataRows a node returns
    SendToFrontend   \* the send_to_frontend argument

ASSUME NumBackends \in Nat \ {0} /\ MaxRows \in Nat /\ SendToFrontend \in BOOLEAN

Backends == 0 .. NumBackends - 1
Terminal == {"C", "E"}
Rows(k) == [j \in 1 .. k |-> "D"]

\* What a node answers a SELECT with: rows, or an error before or among them.
SelectAnswers ==
    {<<"T">> \o Rows(k) \o <<"C">> : k \in 0 .. MaxRows}
        \cup {<<"E">>, <<"T">> \o Rows(MaxRows) \o <<"E">>}

\* What a node answers any other statement with.
OtherAnswers == {<<"C">>, <<"E">>}

VARIABLES
    valid,        \* VALID_BACKEND(i), fixed for the call
    answer,       \* the whole answer of each valid node (fixed, for properties)
    sock,         \* what each node has sent and pgpool has not read
    phase,        \* "send" (first loop), "select", "scan" (the for loop over
                  \* the nodes after select), "body" (reading one node to its
                  \* end), "returned"
    i,            \* the loop index
    ready,        \* the nodes select(2) reported readable
    used_count,
    done,         \* donemask
    error_flag,
    client,       \* the kinds written to the frontend
    result        \* "continue", "end" or "error" once returned

vars == <<valid, answer, sock, phase, i, ready, used_count, done, error_flag,
          client, result>>

Init ==
    /\ valid \in SUBSET Backends \ {{}}
    /\ \E answers \in {SelectAnswers, OtherAnswers} : answer \in [valid -> answers]
    /\ sock = [n \in Backends |-> <<>>]
    /\ phase = "send"
    /\ i = 0
    /\ ready = {}
    /\ used_count = 0
    /\ done = {}
    /\ error_flag = 0
    /\ client = <<>>
    /\ result = "none"

-----------------------------------------------------------------------------
\* ParallelForwardToFrontend(kind, ..., send): the message is read from the
\* node and written to the client only when send is true.
Forward(k, send) == client' = IF send THEN Append(client, k) ELSE client

\* Fault variant: every node's first message is sent on.
SendHeaderAlways(uc) == TRUE

\* The first message of a node is sent on only while no node is done.
SendHeader(uc) == uc = 0

\* Fault variant: the last node is recognised one node late.
LastNodeLate(uc) == uc = NumBackends

\* The node being read is the last: all the others are done.
LastNode(uc) == uc = NumBackends - 1

Return(r) == phase' = "returned" /\ result' = r

(* The first for loop: the query is written to each valid node in turn;   *)
(* a failed pool_write_and_flush returns POOL_END, the nodes before it     *)
(* having received the query.                                             *)
SendQuery ==
    /\ phase = "send"
    /\ i < NumBackends
    /\ IF i \notin valid
         THEN i' = i + 1 /\ UNCHANGED <<sock, phase, result>>
         ELSE \/ /\ sock' = [sock EXCEPT ![i] = answer[i]]
                 /\ i' = i + 1
                 /\ UNCHANGED <<phase, result>>
              \/ /\ Return("end")
                 /\ UNCHANGED <<sock, i>>
    /\ UNCHANGED <<valid, answer, ready, used_count, done, error_flag, client>>

\* The query is written everywhere: zero_fd(donemask) and the receive loop.
QuerySent ==
    /\ phase = "send"
    /\ i = NumBackends
    /\ phase' = "select"
    /\ UNCHANGED <<valid, answer, sock, i, ready, used_count, done, error_flag,
                   client, result>>

(* select(2) on the valid nodes not in donemask, with no timeout: it       *)
(* returns when some of them are readable.  With none left to wait for it *)
(* never returns.                                                          *)
Select ==
    /\ phase = "select"
    /\ \E R \in SUBSET {n \in valid \ done : sock[n] /= <<>>} :
          /\ R /= {}
          /\ ready' = R
    /\ phase' = "scan"
    /\ i' = 0
    /\ UNCHANGED <<valid, answer, sock, used_count, done, error_flag, client,
                   result>>

\* The for loop skips a node not valid or not readable, and ends.
ScanNext ==
    /\ phase = "scan"
    /\ i < NumBackends
    /\ i \notin ready
    /\ i' = i + 1
    /\ UNCHANGED <<valid, answer, sock, phase, ready, used_count, done,
                   error_flag, client, result>>

ScanEnd ==
    /\ phase = "scan"
    /\ i = NumBackends
    /\ phase' = "select"
    /\ UNCHANGED <<valid, answer, sock, i, ready, used_count, done, error_flag,
                   client, result>>

(* "get header of protocol": read_kind_from_one_backend and the first      *)
(* message, sent on only while used_count = 0.  An end here makes the node *)
(* done, or returns if it is the last.                                     *)
Header ==
    /\ phase = "scan"
    /\ i \in ready
    /\ LET k == Head(sock[i])
       IN /\ sock' = [sock EXCEPT ![i] = Tail(@)]
          /\ Forward(k, SendHeader(used_count) /\ SendToFrontend)
          /\ IF k \in Terminal
               THEN IF LastNode(used_count)
                      THEN Return("continue") /\ UNCHANGED <<i, used_count, done>>
                      ELSE /\ used_count' = used_count + 1
                           /\ done' = done \cup {i}
                           /\ i' = i + 1
                           /\ UNCHANGED <<phase, result>>
               ELSE phase' = "body" /\ UNCHANGED <<i, used_count, done, result>>
    /\ UNCHANGED <<valid, answer, ready, error_flag>>

(* "get body of protocol": one message of the node being read.  An        *)
(* ErrorResponse is sent on if it is the first error; a CommandComplete   *)
(* is not; either makes the node done.  At the last node the end is sent   *)
(* on unless an error was, and the call returns.  Other messages are sent *)
(* on.                                                                     *)
Body ==
    /\ phase = "body"
    /\ LET k == Head(sock[i])
           last == LastNode(used_count)
       IN /\ sock' = [sock EXCEPT ![i] = Tail(@)]
          /\ CASE k \in Terminal /\ ~last ->
                    /\ Forward(k, k = "E" /\ error_flag = 0 /\ SendToFrontend)
                    /\ error_flag' = IF k = "E" THEN 1 ELSE error_flag
                    /\ used_count' = used_count + 1
                    /\ done' = done \cup {i}
                    /\ i' = i + 1
                    /\ phase' = "scan"
                    /\ UNCHANGED result
               [] k \in Terminal /\ last ->
                    /\ Forward(k, error_flag = 0 /\ SendToFrontend)
                    /\ Return("continue")
                    /\ UNCHANGED <<error_flag, used_count, done, i>>
               [] OTHER ->
                    /\ Forward(k, SendToFrontend)
                    /\ UNCHANGED <<error_flag, used_count, done, i, phase, result>>
    /\ UNCHANGED <<valid, answer, ready>>

(* pool_read or pool_read2 fails on the node being read: POOL_ERROR or    *)
(* POOL_END.                                                               *)
ReadFails ==
    /\ \/ phase = "body"
       \/ phase = "scan" /\ i \in ready
    /\ Return("error")
    /\ UNCHANGED <<valid, answer, sock, i, ready, used_count, done, error_flag,
                   client>>

Next ==
    \/ SendQuery
    \/ QuerySent
    \/ Select
    \/ ScanNext
    \/ ScanEnd
    \/ Header
    \/ Body
    \/ ReadFails

Spec == Init /\ [][Next]_vars

\* The child process is blocked only in select(2), and a node's answer is in
\* its socket once the query was written to it.
FairSpec == Spec /\ WF_vars(Next)

-----------------------------------------------------------------------------
\* No valid node answered with an error.
Succeeded == \A n \in valid : "E" \notin Range(answer[n])

\* The ends (CommandComplete, ErrorResponse) the client received, in order.
Ends(s) == SelectSeq(s, LAMBDA k : k \in Terminal)

\* What a successful parallel query should look like to the client: one
\* RowDescription, every node's rows, one CommandComplete.
Expected ==
    LET nrows == SumFunction([n \in valid |->
                     Len(SelectSeq(answer[n], LAMBDA k : k = "D"))])
    IN IF \E n \in valid : answer[n][1] = "T"
         THEN <<"T">> \o Rows(nrows) \o <<"C">>
         ELSE <<"C">>

(* When every node succeeds, the client receives one RowDescription (from *)
(* the first node read), the DataRows of all nodes and one                *)
(* CommandComplete (the last node's): the dummy forwarding driven by       *)
(* used_count drops exactly the duplicates.                                *)
SuccessForwarded ==
    phase = "returned" /\ result = "continue" /\ Succeeded /\ SendToFrontend
        => client = Expected

(* With every configured node valid, the receive loop returns: the last    *)
(* node to finish is recognised by used_count = NUM_BACKENDS-1.            *)
TerminationAllUp ==
    valid = Backends => <>(phase = "returned")

(* The spec: the client always receives a well-formed error response on a *)
(* backend fault, never a silently truncated stream.  The call returns,    *)
(* and if a node answered with an error, the client's answer ends in      *)
(* exactly one ErrorResponse and no CommandComplete.                       *)
QueryAnswered ==
    <>(/\ phase = "returned"
       /\ (result = "continue" /\ ~Succeeded /\ SendToFrontend
             => Ends(client) = <<"E">>))
=============================================================================
