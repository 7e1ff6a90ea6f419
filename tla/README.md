# TLA+ models of pgpool-II's query processing

This directory models the connection-pooling and replication core of
pgpool-II (the sources under `../src`), module by module, for the TLC model
checker. `PROJECT.json` lists each component, each TLC run and what it checks,
the mutants that show each property can fail, the source lines behind each
definition, the findings, and the hazards the code is exposed to.

## The system

A pgpool child process serves one client connection at a time. It holds a
connection to each configured PostgreSQL backend (a "node"). Its parts, and
the state each one keeps:

| part | source | state | operations |
|---|---|---|---|
| dispatch loop | `pool_process_query` (pool_process_query.c) | query in progress, `state`/`qcnt` of the reset, the idle counters | select(2) on client and valid backends; hands messages to ProcessFrontendResponse / ProcessBackendResponse; idle timeout; forced exit during recovery |
| kind reconciler | `read_kind_from_backend` | per-call `kind_list`, `kind_map`, `max_kind`, `max_count` | reads one message kind from every valid node, skips ParameterStatus, decides by majority, degenerates dissenters |
| connection reset | `reset_backend`, `send_deallocate` | `qcnt`, the prepared-statement list | runs `reset_query_list`, skipping ABORT when every node is idle, then DEALLOCATEs each prepared statement |
| response forwarding | `SimpleForwardToFrontend`, `SimpleForwardToBackend` | `session_context->ntuples[]` | forwards a message from the master, compares affected-row counts (sums them in parallel mode) |
| parallel execution | `pool_parallel_exec`, `wait_for_query_response` | `used_count`, the ready masks | sends one query to all nodes and relays results as they arrive |
| internal transactions | `start/end_internal_transaction` | `INTERNAL_TRANSACTION_STARTED` per node | BEGIN on every node, COMMIT on the secondaries and then on the master |
| session context | pool_session_context.c | the sent-message list, flags, `in_progress`, the current query context | add / get / remove sent messages (Parse, Bind); destroy a query context only when no other message uses it |
| V2 protocol | pool_proto2.c | transaction state per node | AsciiRow, CompletedResponse, ErrorResponse, RowDescription and the other V2 message handlers |
| error detection | `detect_error` and its wrappers, `pool_extract_error_message`, `pool_discard_packet` | static 8192-byte buffers, `message_buf` | peek at a node's next message for a given SQLSTATE or its text, then put it back with pool_unread (or discard it) |
| PCP stream | pcp/pcp_stream.c | read buffer and pending data, write buffer `wbufpo` | pcp_read, pcp_write, pcp_flush |
| out of scope | pool_worker_child.c, pool_timestamp.c, pool_select_walker.c, pcp_proc_info.c, pgpool-recovery, pool_config_md5.c | | see "Not modelled" |

The parts interact through shared memory and through the query context.
- The parent process marks nodes down (failover) and re-elects
  `Req_info->master_node_id`.
- During online recovery it sets `*InRecovery`.
- The child reads all of these through the macros `VALID_BACKEND`,
  `MASTER_NODE_ID` and `NUM_BACKENDS` (pool.h), without a lock, at the moment
  the code evaluates them.
- A query context's `where_to_send` limits the nodes a query went to, and
  `VALID_BACKEND` includes it while a query is in progress.

What is hard here:
- the parent changes node statuses and the master id while the child reads
  them;
- backends answer in any order and may disagree;
- signals interrupt select(2);
- recovery starts and ends while a session is idle;
- the reset protocol loops until a list is empty;
- parallel execution counts replies against the configured node count.

The properties that make the parts correct:
- the reconciler trusts a strict majority of the nodes that answered (else
  a valid reference node), degenerates exactly the dissenters, never evicts
  anybody when all agree, and always returns;
- the dispatch loop closes a session for idleness only after it has really
  been idle longer than the limit, and never later than that;
- the reset leaves every valid node idle and without prepared statements, or
  closes the connection, and always terminates;
- a client always receives either the reference result or an error;
- the sent-message list never destroys a query context that another message
  still uses.

## Modules

### Reconciler (`Reconciler.tla`, `MCReconciler.tla`)

One call of `read_kind_from_backend`, with the backends and the parent's
failover as its environment.

- State:
  - the call's locals `i`, `kind_list`, `kind_map`, `max_kind`, `max_count`,
    `num_executed_nodes`, `first_node`, `pc`;
  - the backend sockets `sock` (each a sequence of kind bytes, ParameterStatus
    `'S'` included);
  - the shared `backend_status` and `master_node_id`;
  - the query context's `in_progress` and `where_to_send`.
- Actions:
  - `CheckBackend`: the `VALID_BACKEND(i)` test of the for loop;
  - `ReceiveKind`: the do-while skipping ParameterStatus, then the tally
    (`FirstKind`);
  - `ReadFails`: pool_read failing on a node that went down;
  - `Decide`: "decide by majority" (`TrustKinds`) and the degeneration loop
    (`DegenerateNodes`), ending in POOL_CONTINUE, POOL_ERROR or
    `child_exit(1)` according to `replication_stop_on_mismatch`;
  - `BackendReply`, `NodeDown` and `ElectMaster`: the environment.
- The majority is compared with `NUM_BACKENDS`, the configured count, exactly
  as in the code.
- With no valid node, `kind_list[first_node]` reads `kind_list[-1]`. The model
  makes this a nondeterministic choice of any kind.
- `pool_is_node_to_be_sent_in_current_query` is not under src/. It is modelled
  from its documented meaning as `NodeToBeSent`: the node is in
  `where_to_send` while a query is in progress, and any node otherwise.

### DispatchLoop (`DispatchLoop.tla`)

`pool_process_query` for a client session (`reset_request = 0`).

- `pc` follows the loop:
  - `LoopTop` is the head of the for loop: the forced exit when
    `*InRecovery` and the recovery limit is -1, and entry to the select block,
    which zeroes `idle_count` and `idle_count_in_recovery`;
  - `"select"` is the wait in select(2);
  - `"backend"` is the ProcessBackendResponse call at the end of the loop.
- The outcomes of select(2) are each an action:
  - `SelectTimeout` (one second; `TimeoutStep` is the three-way counter
    logic, then `goto SELECT_RETRY`);
  - `SelectInterrupted` (EINTR, `continue`);
  - `ClientQuery` (ProcessFrontendResponse sends a query);
  - `ClientExit`;
  - `BackendMessage`;
  - `PostmasterDown` (detect_postmaster_down_error then notice_backend_error,
    `was_error`, `continue`);
  - `MasterException` (POOL_ERROR).
- `RecoveryChange` is the parent setting `*InRecovery`. `NewSession` is the
  child serving its next client.
- The ghost variables `quiet` and `quiet_in_recovery` count the timeouts in
  each mode since the client or a backend last sent something. They are the
  specification's notion of idleness, against which the code's counters are
  judged. The ghost `interrupted` records whether a signal has interrupted
  select(2) since that traffic.

### ConnectionReset (`ConnectionReset.tla`)

`pool_process_query` with `reset_request = 1`, once the client has gone.

- Each call of `reset_backend(qcnt)` and the caller's handling of its return
  value is one action, `ResetBackend`:
  - 0 (ABORT skipped by `NeedToAbort`) advances `qcnt`;
  - 1 (`SendQuery`: SimpleQuery or send_deallocate) waits with `state = 1`;
  - 2 (the list is empty) sets `TSTATE = 'I'` and returns POOL_CONTINUE;
  - -1 (a send failed) returns POOL_END.
- After a DEALLOCATE is sent, or fails to send, the name is dropped from
  `pstmt_list` (`DropSentName`).
- `NodeAnswers` is a node executing the statement. `Execute` gives
  PostgreSQL's semantics:
  - anything but ABORT fails in a failed transaction;
  - DISCARD ALL fails in a transaction block;
  - DEALLOCATE of an unknown name fails.
- ProcessBackendResponse reads each answer and records the node's state in
  `tstate`. `ReadyForQuery` puts `state` back to 0, and `ReadFails` is a
  read error.
- `qcnt` is kept at `qn` once the list is done, since the code only compares
  it with `qn` after that.
- `reset_query_list` is chosen in `Init` from the constant `ResetLists`
  and never changes, so one run checks each configured list.

### SentMessages (`SentMessages.tla`)

The sent message list of pool_session_context.c.

- State:
  - `msglist` is `message_list.sent_messages[0..size-1]`, each message a
    record of kind, name and query context;
  - `capacity`;
  - `live`, the query contexts not destroyed;
  - `current` (`session_context->query_context`) and `in_progress`.
- List operations: `AddSentMessage`, `FindMsg`, `RemoveAt`,
  `RemoveAllOfKind` (RECURSIVE, one removal after another as the loop does)
  and `ClearAll` (RECURSIVE). Each transforms a record of the session's
  state, so that a replacement inside an add is the same removal as a Close.
- `SentMessageDestroy` is pool_sent_message_destroy with
  `CanQueryContextDestroy`, evaluated while the message is still in the
  list.
- The callers, the extended-protocol handlers, are not under src/ and are
  the environment:
  - `Parse` starts a query with a fresh context and keeps a Parse message;
  - `Bind` keeps a portal sharing a statement's context;
  - `Close`, `RemoveSentMessages` and `ClearSentMessageList`;
  - `StartQuery`;
  - `EndQuery`, which destroys a current context no message keeps.
- Context identities are reused after destruction, as freed memory is.
- The ghost `referenced` holds the live contexts that a kept message has
  pointed to.

### ForwardToFrontend (`ForwardToFrontend.tla`)

One call of `SimpleForwardToFrontend`, after `read_kind_from_backend` has
agreed on the kind.

- A message is a record of its kind (`C`, `E` or another), its command tag,
  its row count and, for an ErrorResponse, its severity. Every node sent the
  same kind and tag, each with its own count and severity.
- `valid`, `master` and `is_parallel_table` are chosen in `Init`, with
  `ntuples[]` holding anything an earlier command left.
- `ReadMaster` reads the master's message into `p1`, records its count
  (`extract_ntuples`) and sets `delete_or_update`. A failed read returns
  POOL_END.
- `ReadNode` is one iteration of the loop in node order. It skips the master
  (`IsMasterNode`), puts -1 for a down node (`InvalidNtuples`), and reads a
  valid node. That read may fail. Otherwise the node's count is recorded and
  `Tally` adds it to the sum or compares it with the master's.
- `Reply` sends XX001 and sets the session flag on a mismatch. Otherwise it
  writes `p1`, with the count replaced by the sum when `delete_or_update`.
  It then returns POOL_END for an ErrorResponse if `p`, the payload read
  last, is PANIC or FATAL.

### PcpStream (`PcpStream.tla`) and ByteStream (`ByteStream.tla`)

`ByteStream` is the spec's byte-stream contract (§4.1), written from the
spec, not from code. `in` holds the bytes the peer sent and the caller has not
read. `Read` returns the next n of them. `Write` buffers bytes in `out`.
`Flush` sends `out` to `wire`. `Fail` ends the connection; a failing flush may
have sent a prefix of `out`.

`PcpStream` is one PCP connection of pcp/pcp_stream.c.
- State: the `PCP_CONNECTION` fields (`hp`, `bufsz`, `po`, `len`, `wbuf`,
  `wbufsz`, `wbufpo`), with each buffer a function from 1..size to bytes.
  Also the locals of the call in progress (`want` and `rbuf` for pcp_read,
  `wlen` and `offset` for pcp_flush), the kernel socket `sock` and the bytes
  `wire` sent by write(2).
- The peer sends the bytes 1, 2, 3, ... and the caller writes 1, 2, 3, ...,
  so any loss, repetition or reordering is visible.
- Actions:
  - `StartRead` is pcp_read's entry through `ConsumePendingData`. It returns
    when the pending data was enough.
  - `ReadStep` is one pass of the read loop. It does a raw read of 1 to
    READBUFSZ bytes. It either copies them all or copies what the request
    still wants, keeps the rest with `SavePendingData`, and returns.
  - `ReadTimesOut` is pcp_check_fd's select(2) returning 0 when
    `pcp_timeout` is set and no data came.
  - `ReadFails` covers EOF, a read error, an exception, and save_pending_data
    running out of memory.
  - `PcpWrite` is pcp_write with its growth rule `Grow`. Its second disjunct
    is the failed realloc.
  - `FlushStart`, `FlushStep` (one write(2) of 1..wlen bytes) and
    `FlushFails` are pcp_flush.
  - `PeerSend` is the other end.
- EAGAIN and EINTR retries change nothing and are stuttering steps.
- A failing call closes the connection (pcp_close). The callers of these
  functions are not under src/. The spec makes Io, Eof and OutOfMemory
  session-fatal. For TimedOut, the constant `RetryOnTimeout` chooses whether
  the caller closes or keeps the connection.
- `Stream` is the refinement mapping:
  - `in` is the bytes the running pcp_read has already copied, then the
    pending data `hp[po+1..po+len]`, then the socket;
  - `out` is `wbuf[1..wbufpo]`;
  - during a flush, `wire` is its value when the flush began, kept in the
    ghost `wire_mark`, so that the partial writes are stuttering steps and
    the flush's last write is the abstract `Flush`;
  - `open` is "not closed".

### Child (`Child.tla`, `MCChild.tla`)

One child serving clients one after another. It composes the three modules
above by `INSTANCE`, with the variable `phase` saying which call of
`pool_process_query` is running.

- In the `"session"` phase, DispatchLoop and SentMessages share
  `in_progress` (`pool_is_query_in_progress`).
  - The dispatch loop's steps that do not touch the session context are
    `Dispatch(D!...)`.
  - A client message is read only when no query is in progress (line 348).
    `FrontendMessage` joins `D!ClientQuery` with the handler that
    ProcessFrontendResponse calls: a simple query (`S!StartQuery`), a
    Parse, a Bind, a Close, or a Sync that removes the portals. Each
    handler leaves the query in progress, waiting for the backends.
  - `BackendResponse` is ProcessBackendResponse reading a message that does
    not end the query. `QueryDone` reads ReadyForQuery: it joins
    `D!ProcessBackendResponse` with `S!EndQuery`, which destroys the
    query's context unless a kept message points to it.
- `StartReset`: the session's call returned. reset_variables clears the
  query in progress, and the backends are in any transaction state with any
  prepared statements, as in ConnectionReset's `Init`.
- In the `"reset"` phase, `ResetStep` takes ConnectionReset's steps. The
  session context stays alive, because reset_backend reads its
  `pstmt_list`.
- `EndReset` is pool_session_context_destroy: the sent message list is
  cleared and freed, and the session's memory is deleted, so no query
  context survives. The next client is then served.
- The child's own loop (child.c) and the message handlers
  (pool_proto_modules.c) are not under src/. Their part of the composition,
  the order session, reset, destroy and which handler a client message
  runs, is marked spec-modelled in `PROJECT.json`.

### ParallelExec (`ParallelExec.tla`)

One call of `pool_parallel_exec`, the receive loop of parallel mode.

- A message is its kind: `T` RowDescription, `D` DataRow, `C`
  CommandComplete, `E` ErrorResponse. `Init` chooses the valid nodes
  (`valid`, fixed for the call) and each node's whole answer (`answer`):
  rows ending in CommandComplete, an error before or after the rows, or a
  bare CommandComplete or error for other statements.
- `SendQuery` is the first for loop: it writes the query to each valid node
  in turn, and a failed write returns POOL_END. `QuerySent` is
  `zero_fd(donemask)`.
- `Select` is select(2) with no timeout on the valid nodes not in
  `donemask`. It reports any non-empty set of readable ones, and it never
  returns when none is left. `ScanNext` and `ScanEnd` are the for loop over
  the nodes.
- `Header` reads a node's first message. It is forwarded only while
  `used_count = 0` (`SendHeader`). An end (C or E) makes the node done, or
  returns when `used_count = NUM_BACKENDS-1` (`LastNode`).
- `Body` reads the rest of the node:
  - an ErrorResponse not at the last node is forwarded if it is the first
    (`error_flag`);
  - a CommandComplete not at the last node is read as a dummy;
  - at the last node, the end is forwarded unless an error was, and the
    call returns;
  - other messages are forwarded.
- `ReadFails` is a failed pool_read, which returns POOL_ERROR.
- The DROP DATABASE, "show pool_status", strict-query and query-cache paths
  run before the receive loop and are left out.

### Proto2 (`Proto2.tla`)

The ten message handlers of pool_proto2.c, called by ProcessBackendResponse
when the session speaks protocol 2 and every valid node has sent a message
of the agreed kind.

- Each node's socket `sock[n]` holds its message as a sequence of fields
  followed by the next message's kind byte (`NextMsg`). A field is a record
  `[t, v, w, m]`: its type (`int`, `short`, `str`, `byte`, `map`, `data`),
  its number (an integer, a length), its word or byte, and a NULL bitmap.
  Keeping every field one record type lets TLC compare any two of them.
  `Init` chooses the valid nodes, the master and each node's message from
  `Bodies(kind, num_fields)`: command tags, error texts, row descriptions
  with per-field name lengths and type sizes, rows with their bitmaps and
  data lengths, function results with or without a value.
- A handler is one step (`AsciiRowStep` ... `RowDescriptionStep`). Its body
  is an operator over a record `r` (sockets, lost nodes, bytes written to
  the client, TSTATE, return value, the value of the last read) threaded
  through `Read`, `ReadData`, `Write` and `Return`, in the order the code
  calls pool_read, pool_read2, pool_read_string and pool_write. Once `r`
  has returned, every further operation leaves it alone, as the code's
  `return` does.
- `Read` of the wrong field type, or of a data field of another length,
  marks the node `lost`: its stream is now misread. A node not valid fails
  the read (POOL_END). The code's loops are folds over `Others` (valid nodes
  but the master, in node order) or `AllValid`.
- The handlers keep the code's quirks: AsciiRow walks the fields by the
  bitmap of the node read last; BinaryRow reads the other nodes' sizes from
  `CONNECTION(backend, i)` with `i` the field index and applies ntohl at
  every node (`Convert`, `Swapped`); CompletedResponse sets TSTATE from
  BEGIN/COMMIT/ROLLBACK and ends the call on a length mismatch unless the
  master's tag is INSERT; FunctionResultResponse reads the value and the
  trailing byte from the master once per valid node; RowDescription treats
  a field name length mismatch as fatal (`NameCompared`) and compares
  `size1` with itself (`SizeCompared`).
- Properties: `Framed` (after a handler returns POOL_CONTINUE every valid
  connection is exactly at the next message); `FramedWhenLayoutsAgree` (the
  same, for the handlers other than V and B, when the nodes' messages have
  the same layout: field count, bitmap, lengths); `NameMismatchFatal` and
  `SchemaMismatchFatal` (a RowDescription whose nodes differ in a field's
  name length, respectively type size, returns POOL_FATAL).

### InternalTransaction (`InternalTransaction.tla`)

A write that pgpool wraps in an internal transaction, in replication mode
under protocol 3: `start_internal_transaction` (BEGIN on each valid node
that is idle and not yet marked), `insert_lock` (LOCK TABLE on the master,
then the lock on every other node, or `POOL_ERROR_QUERY` when the master
reported a deadlock), `SimpleForwardToBackend` (the statement written to
each valid node), the caller reading each node's answers up to
ReadyForQuery's kind byte, and `end_internal_transaction` (COMMIT on each
other node whose TSTATE is `'T'` and that is marked, then on the master).

- PostgreSQL is the environment. `db[n]` is the state of node `n`'s
  session, `fate[n]` what became of the internal transaction begun there,
  and `sock[n]` the messages node `n` has sent that pgpool has not read.
  `Answers(q, s)` gives PostgreSQL's answers to BEGIN, LOCK TABLE, the error
  query, the statement and COMMIT in state `s`. A deadlock (`"D"`) can answer
  LOCK TABLE on any node. A failing LOCK TABLE (`lockErr`) or statement
  (`stmtErr`) fails on every node alike, since the replicas share schema and
  data.
- `DoCommand(n, q, noRFQ, s0)` is one call of do_command, as the set of its
  possible results. The write can fail, or wait_for_query_response can fail
  after the query ran. Otherwise the read loop reads up to `'Z'`, failing on
  a kind other than N, C or E. Unless `no_ready_for_query` is set, the
  length and state byte are read into TSTATE, and a deadlock at the head of
  the stream gives POOL_DEADLOCK.
- Each of the code's `for (i = 0; i < NUM_BACKENDS; i++)` loops is the
  index `i` with `PassOver` (a node the loop's test excludes), a per-node
  action (`Begin`, `LockNode`, `ForwardNode`, `CommitSecondary`) and
  `LoopEnd`. `Visits` holds each loop's test.
- Any POOL_END ends the model (`pc = "ended"`). The child then closes its
  connections, so every transaction still open is rolled back
  (`Abandoned`).
- Properties:
  - `LockStatesAgree`: when insert_lock lets the statement go, every valid
    node is in one transaction state and TSTATE matches it.
  - `MasterCommitsLast`: once the master has committed, no valid node's
    internal transaction is open or rolled back.
  - `ReadyForQueryPending`: after end_internal_transaction returns, each
    valid connection holds exactly the rest of one ReadyForQuery, which
    reports the node's real state.

### ErrorDetection (`ErrorDetection.tla`)

The peeks of pool_process_query.c at one node's next message: `detect_error`
and its five wrappers, `pool_extract_error_message` and `pool_discard_packet`
(with `pool_discard_packet_contents`). The dispatch loop calls
`detect_postmaster_down_error` before ProcessBackendResponse (line 326),
do_command calls `detect_deadlock_error` (line 2229), and the kind
reconciler's mismatch report calls `pool_extract_error_message` (line 3559).
- State: the node's stream `sock` as the caller's next read sees it, the
  stream `sent` as the node sent it and `sock0` as the call found it
  (ghosts), the protocol `major`, the `call` with its arguments, its `ret`,
  and whether it `crashed` or an allocation `faulted`. `message` is the static
  `message_buf`.
- A message is a short sequence of tokens: the kind byte, then under
  protocol 3 the length word and the body, under protocol 2 one string. The
  body of an error or notice is its S, C and M fields (M's text abstracted to
  the code), walked by the RECURSIVE `FieldValue`, as the `while (*e)` loop
  does. A message is `big` when it does not fit the 8192-byte buffers.
- The node may close the connection anywhere inside its first message; a
  read past the end fails.
- The unchecked `pool_read` of the body reads malloc'ed garbage (`Junk`)
  when the node is gone. The walk over it may find any code. Under protocol
  2 a failed `pool_read_string` leaves `len` uninitialised, and the copy
  from NULL crashes or goes on with any length. Both are nondeterministic
  choices over what the build can do. malloc and pool_unread's realloc may
  fail.
- Actions: `DetectPostmasterDownError` is the wrapper's two calls (admin
  shutdown as `'E'`, then crash shutdown as `'N'`). `DetectWithUnread` is any
  of the other four. `ExtractErrorMessage` takes every combination of
  `read_kind` and `unread`; with `read_kind` false, the caller has already
  read an `'E'` or `'N'` kind. `DiscardPacket` is pool_discard_packet on one
  valid node.

### Response (`Response.tla`, `MCResponse.tla`)

One call of ProcessBackendResponse (pool_proto_modules.c, not under
`src/`), composing five modules by `INSTANCE ... WITH` with their clashing
variables renamed:

- `path = "replicate"`: Reconciler's `read_kind_from_backend`, with failover
  racing it (`ReadKind`). If it reports a mismatch or an error, or the master
  is no longer valid, no handler runs (`NoHandler`). `NoHandler` is written
  from the spec (pool_proto_modules.c is not under `src/`); it also ends the
  call when the master is up but not among the targeted nodes, a case the
  spec does not settle, so `ResponseEnds` is slightly eased there. Otherwise `HandOver`
  passes the decided kind, the valid nodes and the master to
  SimpleForwardToFrontend under protocol 3 (`ToV3`, then `Forward`) or to a
  pool_proto2.c handler under protocol 2 (`ToV2`, then `HandleV2`). A kind
  `"C"` or `"E"` leads to CompletedResponse or ErrorResponse; the reconciler's
  third kind stands for every other handler.
- `path = "parallel"`: pool_parallel_exec on the nodes valid when the query
  arrives (`ParallelExec`).
- `path = "internal"`: a write under protocol 3 runs in an internal
  transaction (`Internal`) on the nodes that are up, no query being in
  progress yet. It shares `valid`, `master` and TSTATE with the handlers.
- `path = "detect"`: one call of ErrorDetection (`Detect`), under either
  protocol. It shares only `major` with the other paths.
- `path = "pcp"`: a PCP connection (`Pcp`), sharing nothing. On every other
  path its variables keep pcp_open's values, so `StreamRefinement` holds
  there by stuttering.
- At the hand-over the reconciler's locals and traces are reset, since the
  handler reads none of them, and `ntuples[]` holds one stale count from the
  previous command for every node. Failover is not modelled once a handler
  runs.
- The composite states each component's properties in its phase, and
  `ResponseEnds`: the response always ends, with every node up in parallel
  mode.

## Runs

| run | checks | result |
|---|---|---|
| response | `TypeOK`, `AgreementNeverEvicts`, `QuorumRuleAllUp`, `ParallelSum`, `MismatchReported`, `NtuplesRecorded`, `FramedWhenLayoutsAgree`, `NameMismatchFatal`, `SuccessForwarded`, `LockStatesAgree`, `MasterCommitsLast`, `ReadyForQueryPending`, `SpecifiedErrorIffSent`, `BuffersInBounds`, `ResponseEnds`, `StreamRefinement` (PcpStream implements ByteStream): one backend response on 3 nodes, one failover during the kind read, protocol 2 and 3, parallel mode, all ten V2 handlers, a write in an internal transaction; one detect/extract/discard call on any first message; a PCP connection with READBUFSZ 3, WRITEBUFSZ 2, 5 bytes in and 3 out | pass (257,440 states, under two minutes) |
| reconciler_quorum_down | `QuorumRule` on 4 nodes, one down from the start | violation (finding) |
| reconciler_stale_master | `QuorumRule` on 3 nodes, one failover | violation (finding) |
| dispatch_eintr | `IdleLimitEnforced` with signals | violation (finding) |
| child | `TypeOK`, `IdleCloseJustified`, `IdleLimitEnforcedUninterrupted`, `NoDanglingReference`, `ReleasedWhenUnreferenced`, `WithinCapacity`, `PooledClean`, `ResetEnds`: sessions and resets one after another, with signals, limits 2 and 1, 2 contexts, names `""` and `s1`, capacity 1, up to 2 messages, 2 nodes, 1 prepared statement, both reset lists | pass |
| parallel_answered | `QueryAnswered` on 3 nodes | violation (finding) |
| forward_tolerated | `MismatchTolerated`, parallel mode off | violation (finding) |
| forward_fatal | `FatalEndsSession` on 2 nodes | violation (finding) |
| detect_peek | `PeekRestores`, detect_postmaster_down_error under protocol 3 on whole messages | violation (finding) |
| proto2_framing | `Framed`, FunctionResultResponse on 3 nodes | violation (finding) |
| proto2_size | `SchemaMismatchFatal`, RowDescription on 3 nodes | violation (finding) |
| pcp_timeout_retry | `StreamRefinement`, with the caller keeping the connection after a timeout | violation (finding) |

What they show:

- **Agreement never evicts.** If all answering nodes agree, nobody is
  degenerated, even when failover takes a node down mid-call. This includes
  the case where the master is no longer valid and `master_node_id` is
  stale.
- **Quorum rule.** In the behaviours where every configured node is up and
  none fails over, the decided kind is the strict majority of the answers,
  or the master's kind when there is none. Exactly the dissenters are
  degenerated.
- **Every response ends** (`ResponseEnds`). Under fairness (the child runs,
  and a node the query was sent to answers) the kind read returns and the
  handler it leads to ends; in parallel mode this needs every node up (see
  the finding below). A node that goes down while being read makes
  pool_read fail instead of blocking. It says only that the call ends, not
  what reached the frontend before it did: an answer delivered in part (an
  ErrorResponse dropped in parallel mode, line 601) is judged by
  `QueryAnswered` in the `parallel_answered` run, not by this property.
- **The reconciler's properties survive composition.** In the `response`
  run they are checked on the kind read that precedes each handler, and
  the forwarding and parallel properties on the handler that follows, with
  the valid nodes and master that failover left.
- **Protocol 2 handlers keep the streams framed when the nodes agree.**
  For every handler but BinaryRow and FunctionResultResponse, when every
  node's message has the master's layout, a POOL_CONTINUE leaves every valid
  connection exactly at its next message. A field name length that differs
  between nodes always ends RowDescription with POOL_FATAL.
- **FunctionResultResponse over-reads** (finding). The trailing byte (and the
  result value) is read from the master once per valid node, and the
  trailing byte is read even after a void result whose only byte it was.
  The master's stream is then read into the next message.
- **Type size mismatch not detected** (finding). RowDescription tests
  `size1 != size1`, never true, so nodes reporting different type sizes for a
  field pass; the error message next to it, and the spec, call it fatal.
- **Majority against configured nodes** (finding). The code measures the
  majority against `NUM_BACKENDS`. With one node of four down, a 2-of-3
  majority is overruled by the master and two healthy nodes are degenerated.
  The specification asks for a strict majority of the valid nodes.
- **Stale master** (finding). When failover has marked the master down but
  not yet re-elected a master, a disagreement trusts
  `kind_list[MASTER_NODE_ID] = 0`, so every answering node is degenerated.
- **Internal transactions stay in step.** A deadlock reported by the
  master's LOCK TABLE is matched by an error query on every other node.
  So, whatever the nodes answer, when the statement is sent every valid
  node is in the same state, and TSTATE agrees. end_internal_transaction
  commits the master only after every other node has committed. It skips
  each statement's ReadyForQuery rest once, and leaves COMMIT's rest for
  the caller. What the model also shows, and no property forbids: a COMMIT
  that fails on the master after the other nodes committed leaves the nodes
  diverged. And after a deadlock every node's TSTATE is `'E'`, so no COMMIT
  is sent and the aborted transaction is left for the caller. Both are
  listed as hazards.
- **Idle close justified.** A session is closed for idleness only after more
  quiet timeouts than its limit, in the matching mode.
- **Idle limit enforced.** As long as no signal has interrupted select(2)
  since the last traffic, no session stays open past its limit.
- **EINTR resets the idle counters** (finding). A signal while waiting in
  select(2) re-enters the select block, whose counters start at 0 again. A
  client signalled more often than the limit is never disconnected.

- **One child, many sessions.** The idle, sent-message and reset
  properties below are checked on the composition `Child`. There, the
  session's queries set and clear the `in_progress` that the dispatch loop
  reads. Queries end while their statements and portals are kept, and the
  session context lives on through the reset and is then destroyed. The
  properties still hold. Every reset ends, and the child goes on to its next
  client (`ResetEnds`).

- **Pooled connections are clean.** Whatever transaction state each node
  was left in, a connection returned to the pool has every node really idle
  and without the session's prepared statements, and pgpool's TSTATE agrees.
  This holds with either reset list, and the reset always ends. It depends on
  the ABORT test examining every node: reading only the master's state, as
  the one-argument `TSTATE(p)` macro of pool.h does, pools a node
  mid-transaction.

- **Shared query contexts.** Under any sequence of Parse, Bind, Close,
  removal of a kind, clearing and query ends, no kept message and not the
  session points to a destroyed context. A context goes as soon as its last
  message does, and the list never outgrows its array. TLC also reaches a
  state that no property judges: Close of a statement while its own query is
  in progress destroys the current context, and pool_sent_message_destroy
  then sets `in_progress` again, with no query context. This is listed as a
  hazard.

- **Row counts.** Consider any set of valid nodes, any master among them,
  and any counts.
  - A parallel UPDATE or DELETE reaches the client as one CommandComplete
    carrying the sum.
  - Any other CommandComplete reaches the client as the master's message
    when all counts agree, or as XX001 when any count differs, however many
    nodes agree after the one that differs.
  - `ntuples[]` then holds exactly this command's counts, with -1 for down
    nodes.
- **Mismatch not tolerated** (finding). The spec says a row count mismatch
  is logged and tolerated, and the reference node's count is still
  forwarded. The code replaces the CommandComplete by an XX001 error.
- **FATAL error checked on the wrong node** (finding). The comment says a
  PANIC or FATAL error ends the call, because the backend closes its
  channel. The check reads `p`, which after the loop holds the last node's
  payload. So a FATAL from the master, followed by an ERROR from the other
  node, returns POOL_CONTINUE.

- **The PCP stream is a byte stream.** Every behaviour of pcp_read,
  pcp_write and pcp_flush is a behaviour of `ByteStream`. This covers short
  and long raw reads, over-reads kept as pending data, growth of the write
  buffer, partial writes, and errors that close the connection. Reads return
  the peer's bytes in order, with none lost or repeated. A flush sends
  exactly the bytes written. Neither buffer is filled beyond its
  allocation.
- **A timeout loses bytes** (finding). pcp_read first takes what it can from
  the pending buffer and the socket. Only then can pcp_check_fd time out, and
  pcp_read returns -1 with those bytes in the caller's buffer and nowhere
  else. The spec calls TimedOut advisory, left for the caller to decide. But
  a caller that keeps the connection and reads again gets the stream with
  those bytes missing. TLC needs four steps: the peer sends one byte, a
  read of more than one byte starts, it reads that byte, and it times out.

- **Parallel results are merged.** Whichever node select(2) reports
  first, a parallel query that every valid node answers without error
  reaches the client as one RowDescription, the DataRows of all nodes, and
  one CommandComplete. With every configured node up, the receive loop
  always returns.
- **A node down hangs parallel queries** (finding). The loop returns only
  when a node ends while `used_count = NUM_BACKENDS-1`, which counts
  configured nodes. With one of three nodes down, `used_count` stops at 2.
  select(2), with no timeout and nothing left to wait for, never returns,
  and the client gets neither an answer nor an error. The same property has
  a second counterexample with every node up. A node whose whole answer is
  an ErrorResponse, read in the header path after another node has
  finished, is read as a dummy. If it is the last node, the call returns
  with the client holding a CommandComplete and no error. This is listed as
  a hazard.

Each property of a passing run has a mutant in `PROJECT.json`: a plausible
bug in the mapped code, and TLC finds the property violated.
- `FirstKindNoSkip` tallies `'S'` as a kind.
- `TrustKindsMasterOnAgreement` takes the master's kind even when everyone
  agrees.
- `ValidBackendStatusOnly` ignores `where_to_send`, so the child waits for a
  node the query never went to, and the response never ends.
- `TrustKindsMasterAlways` trusts the master on every disagreement, even
  when a strict majority exists.
- `TimeoutStepLate` closes one timeout late. It breaks `TypeOK` and
  `IdleLimitEnforcedUninterrupted`.
- `GrowNoRoundUp` grows the write buffer to `reqlen/WRITEBUFSZ*WRITEBUFSZ`,
  without the `+1`.
- `ConsumePendingDataNoAdvance` leaves `po` where it was after handing over
  part of the pending data, so the same bytes are read twice.
- `LoopTopNoReset` keeps the idle counters across loop iterations.
- `RemoveAtShiftFirst` closes the gap before destroying.
- `CanQueryContextDestroySelfCounted` forgets that the message itself is
  counted.
- `GrowOverCapacity` grows one message late.
- `NeedToAbortMasterOnly` looks at the master's state only.
- `DeleteOrUpdateUpdateOnly` looks only for "UPDATE" in the tag.
- `TallyLastOnly` lets a later equal count clear an earlier mismatch.
- `InvalidNtuplesKept` leaves a down node's old count in `ntuples[]`.
- `SendHeaderAlways` forwards every node's first message, so the client
  gets a RowDescription from each node.
- `OthersWithMaster` lets the protocol 2 loops over the other nodes read
  the master too, so its stream is read past the message.
- `NameComparedShorter` treats only a shorter field name as a mismatch.
- `LockQueryIgnoringDeadlock` sends LOCK TABLE to the other nodes even
  after a deadlock on the master.
- `SecondaryWithMaster` lets the secondaries' COMMIT loop include the
  master.
- `CommitNodeReadingRest` calls do_command for COMMIT without
  `no_ready_for_query`, so COMMIT's ReadyForQuery is consumed.
- `PassOverInclusive` runs the node loops to `i <= NUM_BACKENDS` (breaks
  `TypeOK`).
- `DropSentNameNever` leaves the DEALLOCATEd name in the list, which loops
  forever once DISCARD ALL has removed the statement.

- **Shutdown and deadlock errors are recognised.** A detect_* wrapper
  reports SPECIFIED_ERROR only for a node whose first message is the error
  it looks for, or for a node that died inside the message (the garbage
  body). Under protocol 3 it reports every such error that arrives whole,
  unless memory ran out. The walk must look for the C field: a walk that
  takes the first field (S) misses them all. An error too big for the
  buffer yields POOL_END instead, which do_command, testing for non-zero,
  still takes as a deadlock. Protocol 2 errors carry no code and are never
  recognised.
- **A big error vanishes before ProcessBackendResponse** (finding,
  `detect_peek`). detect_error returns POOL_END after reading an
  ErrorResponse longer than its 8192-byte buffer, and does not unread it.
  detect_postmaster_down_error, seeing no SPECIFIED_ERROR, makes its
  second call on the next message and returns 0. The dispatch loop then
  calls ProcessBackendResponse, which never sees the error: the client gets
  the ReadyForQuery without it. An error of that size is ordinary: an
  invalid-input error quotes the whole input value. The same property
  fails in other ways outside this run's bounds:
  - the garbage of a truncated body is unread into the stream;
  - pool_extract_error_message under protocol 2 unreads a long string cut
    to 8191 bytes.

## Bounds and why they suffice

- **Reconciler.** Three nodes are the smallest count with a strict majority
  against a dissenter. Four is the smallest count where one node down changes
  the outcome of `NUM_BACKENDS/2.0`. Three kinds let all nodes disagree. One
  failover suffices: it takes down the master or another node before, during
  or after its read, and re-election is a separate step.
- **Child.** The composition multiplies the state spaces, so it uses
  smaller bounds than the modules' own. These are still large enough for
  every mutant to fail.
  - Two nodes: a non-master node in a transaction is what the master-only
    ABORT test misses.
  - Two contexts, capacity 1 and two messages: a statement and its portal
    share a context, and the list doubles once.
  - The idle limits are 2 and 1, as in DispatchLoop.
  - One prepared statement, with both reset lists: under `RESET ALL` the
    DEALLOCATE loop sends it, drops it and returns to an empty list.
  TLC explores about half a million states in about a minute.
- **ParallelExec.** Three nodes, with every non-empty set of them valid.
  Three is the smallest count where a node read after another has finished
  is neither the first nor the last. Each node answers with 0 or 1 rows
  ending in CommandComplete, an error before the rows or after them, or a
  bare CommandComplete or error. So the rows of several nodes are summed,
  and an error can come at each position.
- **ConnectionReset.** Checked inside Child: two nodes in all combinations
  of idle, in transaction and failed, with zero or one prepared statement.
- **SentMessages.** Three contexts allow a statement, a portal sharing its
  context, and a third query. Two names give the unnamed replacement and the
  named duplicate. An initial capacity of 2 (the code's INIT_LIST_SIZE is 8)
  and three messages reach the doubling.
- **DispatchLoop.** The limits 2 and 1 give each counter room to
  advance, be reset, and cross its limit. The ghost counters saturate one
  above the larger limit, which is all the properties compare.

- **ForwardToFrontend.** Three nodes, so that a mismatch at the second node
  can be followed by agreement at the third. Counts 0..2 over every subset
  of valid nodes and every master. Four tags cover each branch of
  `extract_ntuples`, and `is_parallel_table` takes both values. The FATAL
  run needs only two nodes.
- **PcpStream.** With READBUFSZ 3 a raw read can over-deliver by one or
  two bytes. Reads of up to 3 bytes then take the pending data whole or in
  part, so `po` advances, and they also continue into a new raw read. With
  WRITEBUFSZ 2, writes of 1 or 2 bytes, 3 in all, grow the buffer. The
  rounding is then exercised at 3 = 1*2+1. A flush of up to 3 bytes can be
  split into partial writes. save_pending_data never grows `hp` in pcp_read,
  because it saves only after the pending data has been used up, and the
  remainder of one raw read is shorter than READBUFSZ.

- **ErrorDetection.** The first message is any ErrorResponse or
  NoticeResponse with one of the six codes the wrappers look for or one
  other, small or big (shutdown errors are always small), or a
  CommandComplete. It arrives whole, followed by a ReadyForQuery, or cut
  after any of its tokens. Each call is made on each protocol. So every
  wrapper meets its own code, the other wrapper's code, the wrong class, a
  cut at each read and each buffer check. The `detect_peek` run keeps only
  the shutdown codes and one other, protocol 3 and whole messages, so that
  its counterexample is the buffer overflow.
- **Response.** The modules' own bounds, reduced so the composition fits:
  three nodes, kinds C, E and a third, one failover, row counts 0..1, at
  most one field of length 1 in protocol 2 rows, and `where_to_send` either
  every node or one. One field already lets the nodes' bitmaps, lengths and
  names differ, and three nodes put a node before and after the master.
  The internal transaction runs on every non-empty set of up nodes, with
  every initial session state, and with the lock, its failure and the
  statement's failure each on or off. Three nodes put a secondary before
  and after the master's commit.
  The detect and PCP paths add ErrorDetection's and PcpStream's own bounds.
  On the replication path the protocol major is fixed at the hand-over
  (`HandOver(m)`), since the kind read does not depend on it; this halves
  the kind read's states without losing a behaviour.
  TLC explores 257,440 states in under two minutes.
- **Proto2 alone.** The violation runs use three nodes and one handler each,
  with every non-empty set of valid nodes and every master.

## Fairness

- `Reconciler.FairSpec` assumes weak fairness of the child's steps and of each
  backend's reply. A child process is never blocked except in pool_read, and
  PostgreSQL answers a query it received. Failover and master election are
  not made fair, since they may never happen.
- DispatchLoop checks safety only.
- `Child.FairSpec` makes the reset's steps fair: the child's steps, each
  node's answer, and the passage from session to reset and from reset to
  the next session. A session is not made fair, because a client may stay
  idle forever.
- `ParallelExec.FairSpec` assumes weak fairness of the whole next-state
  relation. The child blocks only in select(2), and a node's answer is in
  its socket as soon as the query was written to it.
- `Response.FairSpec` combines these: the child is one process, and
  `ChildProcess` (the kind read's child steps, the hand-over to a handler,
  the forwarding steps, the parallel receive loop, the internal
  transaction's steps and a detect_* call) is weakly fair as a whole, as is
  each backend's reply. The child's steps belong to exclusive phases, so
  fairness of the process moves each phase on: each step is one the child
  runs, blocked only on a node that has the query's answer in its socket. The PCP path has no fairness:
  a pcp tool may stop at any point, and `ResponseEnds` excludes it. A protocol 2 handler is a
  single step and gets no fairness of its own, so `ResponseEnds` counts a
  response as ended once its handler has been chosen; the handler's
  effect is judged by the safety properties.

`ConnectionReset.FairSpec` assumes weak fairness of the child's steps and
of each node's answer, for the same reasons.

Deadlock checking is off in the Response, Reconciler, ParallelExec, ForwardToFrontend, Proto2 and ErrorDetection runs, because one call returns and
the model stops there. It is off for PcpStream too. A read waits for bytes
the peer may never send, and a closed connection does nothing more.
PcpStream checks safety only: whether a peer ever sends is outside the code. It is on for Child, where the child serves the next client after a reset
ends.

## Plan

The order is by importance of behaviour.

1. Reconciler: done.
2. DispatchLoop, client path: done.
3. ConnectionReset: done.
4. SentMessages: done.
5. ForwardToFrontend: done for `SimpleForwardToFrontend`, and composed with
   Reconciler in Response. `SimpleForwardToBackend`: done, for the
   simple query of an internal transaction.
6. ParallelExec: done for the receive loop of `pool_parallel_exec`.
   `wait_for_query_response` remains.
7. InternalTransaction: done for protocol 3, composed in Response. The
   protocol 2 path remains, with its unconditional skip of the master's
   ReadyForQuery rest.
8. Proto2: done, all ten handlers, composed in Response.
9. PcpStream: done, with its refinement of ByteStream; checked as a path of
   Response.
10. Child: done. It composes DispatchLoop, SentMessages and ConnectionReset.
    The buffered-data branch of the dispatch loop remains.
11. ErrorDetection: done, as a path of Response. Wiring
    detect_postmaster_down_error into DispatchLoop's backend branch, on the
    Reconciler's sockets, remains.

## Not modelled

- The replication delay worker only does LSN arithmetic over libpq.
- Timestamp rewriting and the select walker transform and classify SQL parse
  trees.
- pcp_proc_info and the pgpool-recovery functions are I/O and shell
  invocation.
- The md5 helper computes a hash.
- Message payloads, strings and logging are abstracted everywhere: a message
  is its kind, and in Proto2 a field is its type, length and bitmap.
- The protocol 3 handlers of pool_proto_modules.c (Parse, Bind, Execute and
  the rest), the frontend side, and ProcessBackendResponse itself are not
  under `src/`; Response models the latter from the spec only as far as it
  dispatches to the code that is.
- Internal transactions under protocol 2, and the caller that decides when
  one is needed and ends one that end_internal_transaction leaves open
  (pool_proto_modules.c); `need_insert_lock`'s catalogue lookup is the
  constant `lockNeeded`.
- ErrorDetection's callers outside `src/` (the other detect_* wrappers and
  pool_discard_packet are called from pool_proto_modules.c). Their treatment
  of the results is assumed to be do_command's: a negative result ends the
  call. pool_discard_packet's loop over the nodes is one node, since each
  node is read the same way. read_kind_from_one_backend only reads a byte.
- Failover while a handler runs: Response stops failover at the hand-over,
  since each handler is one step of the model.
