----------------------------- MODULE DispatchLoop -----------------------------
(***************************************************************************)
(* The main loop of pool_process_query() (src/pool_process_query.c) for a *)
(* client session (reset_request = 0): the select(2) wait on the client   *)
(* and the valid backends, the two client idle counters driven by its one *)
(* second timeout, the forced exit during online recovery, and the hand   *)
(* off to ProcessFrontendResponse / ProcessBackendResponse.               *)
(*                                                                         *)
(* A client message is a query: ProcessFrontendResponse sends it and sets *)
(* the query in progress; ProcessBackendResponse then consumes the        *)
(* response one call per loop iteration until ReadyForQuery clears it.   *)
(* *InRecovery is shared memory set by the parent during online recovery. *)
(***************************************************************************)
EXTENDS Integers

CONSTANTS
    ClientIdleLimit,            \* pool_config->client_idle_limit (0: off)
    ClientIdleLimitInRecovery,  \* pool_config->client_idle_limit_in_recovery
    SignalsDelivered            \* whether a signal (SIGHUP on reload, ...) may
                                \* interrupt select(2)

ASSUME ClientIdleLimit \in Nat
ASSUME ClientIdleLimitInRecovery \in Nat \cup {-1}
ASSUME SignalsDelivered \in BOOLEAN

\* The ghost counters below saturate here; every property compares them
\* with a limit that is smaller.
QuietCap == 1 + IF ClientIdleLimit > ClientIdleLimitInRecovery
                THEN ClientIdleLimit + 1 ELSE ClientIdleLimitInRecovery + 1

CloseReasons == {"none", "idle", "idle_in_recovery", "recovery", "client",
                 "error"}

\* One more quiet timeout, saturating at QuietCap.
Tick(q) == IF q < QuietCap THEN q + 1 ELSE q

VARIABLES
    in_recovery,            \* *InRecovery > 0
    pc,                     \* "top": head of the for loop; "select": in
                            \* select(2); "backend": ProcessBackendResponse;
                            \* "closed": returned POOL_END
    close_reason,           \* why the session was closed
    idle_count,             \* idle_count, local to the select block
    idle_count_in_recovery, \* idle_count_in_recovery, likewise
    in_progress,            \* pool_is_query_in_progress()
    quiet,                  \* ghost: timeouts outside recovery since the last
                            \* client or backend traffic
    quiet_in_recovery,      \* ghost: the same, in recovery
    interrupted             \* ghost: a signal interrupted select(2) since
                            \* the last client or backend traffic

vars == <<in_recovery, pc, close_reason, idle_count, idle_count_in_recovery,
          in_progress, quiet, quiet_in_recovery, interrupted>>

\* select(2) gets a one second timeout only when a limit is configured.
TimeoutConfigured ==
    \/ ClientIdleLimit > 0
    \/ ClientIdleLimitInRecovery > 0
    \/ ClientIdleLimitInRecovery = -1

Init ==
    /\ in_recovery \in BOOLEAN
    /\ pc = "top"
    /\ close_reason = "none"
    /\ idle_count = 0
    /\ idle_count_in_recovery = 0
    /\ in_progress = FALSE
    /\ quiet = 0
    /\ quiet_in_recovery = 0
    /\ interrupted = FALSE

-----------------------------------------------------------------------------
\* Fault variant: the idle counters live across loop iterations (as if
\* declared static) and are not zeroed when select(2) is entered anew.
LoopTopNoReset ==
    /\ pc = "top"
    /\ IF in_recovery /\ ClientIdleLimitInRecovery = -1
         THEN pc' = "closed" /\ close_reason' = "recovery"
         ELSE /\ pc' = IF ~in_progress THEN "select" ELSE "backend"
              /\ UNCHANGED close_reason
    /\ UNCHANGED <<in_recovery, in_progress, quiet, quiet_in_recovery, interrupted,
                   idle_count, idle_count_in_recovery>>

(* Head of the for loop.  During recovery with limit -1 the session ends  *)
(* at once.  With no query in progress the idle counters are zeroed and   *)
(* select(2) is entered; otherwise the loop goes on to read the backends. *)
LoopTop ==
    /\ pc = "top"
    /\ IF in_recovery /\ ClientIdleLimitInRecovery = -1
         THEN /\ pc' = "closed"
              /\ close_reason' = "recovery"
              /\ UNCHANGED <<idle_count, idle_count_in_recovery>>
         ELSE IF ~in_progress
                THEN /\ pc' = "select"
                     /\ idle_count' = 0
                     /\ idle_count_in_recovery' = 0
                     /\ UNCHANGED close_reason
                ELSE /\ pc' = "backend"
                     /\ UNCHANGED <<close_reason, idle_count,
                                    idle_count_in_recovery>>
    /\ UNCHANGED <<in_recovery, in_progress, quiet, quiet_in_recovery, interrupted>>

(***************************************************************************)
(* The "select timeout" branch: which counter a timeout advances and       *)
(* whether the session is closed, as a record.                             *)
(***************************************************************************)
\* Fault variant: the limit is passed one timeout late.
TimeoutStepLate(ic, icr, rec) ==
    IF ~rec /\ ClientIdleLimit > 0
      THEN [ic |-> ic + 1, icr |-> icr, close |-> ic + 1 > ClientIdleLimit + 1,
            reason |-> "idle"]
    ELSE IF rec /\ ClientIdleLimitInRecovery > 0
      THEN [ic |-> ic, icr |-> icr + 1,
            close |-> icr + 1 > ClientIdleLimitInRecovery,
            reason |-> "idle_in_recovery"]
    ELSE [ic |-> ic, icr |-> icr,
          close |-> rec /\ ClientIdleLimitInRecovery = -1, reason |-> "recovery"]

TimeoutStep(ic, icr, rec) ==
    IF ~rec /\ ClientIdleLimit > 0
      THEN [ic |-> ic + 1, icr |-> icr, close |-> ic + 1 > ClientIdleLimit,
            reason |-> "idle"]
    ELSE IF rec /\ ClientIdleLimitInRecovery > 0
      THEN [ic |-> ic, icr |-> icr + 1,
            close |-> icr + 1 > ClientIdleLimitInRecovery,
            reason |-> "idle_in_recovery"]
    ELSE [ic |-> ic, icr |-> icr,
          close |-> rec /\ ClientIdleLimitInRecovery = -1, reason |-> "recovery"]

\* select(2) returns 0: count, close with 57000, or goto SELECT_RETRY.
SelectTimeout ==
    /\ pc = "select"
    /\ TimeoutConfigured
    /\ LET r == TimeoutStep(idle_count, idle_count_in_recovery, in_recovery)
       IN /\ idle_count' = r.ic
          /\ idle_count_in_recovery' = r.icr
          /\ IF r.close
               THEN pc' = "closed" /\ close_reason' = r.reason
               ELSE UNCHANGED <<pc, close_reason>>
    /\ quiet' = IF in_recovery THEN quiet ELSE Tick(quiet)
    /\ quiet_in_recovery' = IF in_recovery THEN Tick(quiet_in_recovery)
                                           ELSE quiet_in_recovery
    /\ UNCHANGED <<in_recovery, in_progress, interrupted>>

(* select(2) fails with EINTR: a signal arrived.  The code "continue"s    *)
(* the for loop.                                                           *)
SelectInterrupted ==
    /\ SignalsDelivered
    /\ pc = "select"
    /\ pc' = "top"
    /\ interrupted' = TRUE
    /\ UNCHANGED <<in_recovery, close_reason, idle_count, idle_count_in_recovery,
                   in_progress, quiet, quiet_in_recovery>>

(* The client socket is readable: ProcessFrontendResponse forwards the    *)
(* query to the backends, and the loop goes on to read their response.    *)
ClientQuery ==
    /\ pc = "select"
    /\ pc' = "backend"
    /\ in_progress' = TRUE
    /\ quiet' = 0
    /\ quiet_in_recovery' = 0
    /\ interrupted' = FALSE
    /\ UNCHANGED <<in_recovery, close_reason, idle_count, idle_count_in_recovery>>

(* The client sent Terminate or its socket is in the exception set.       *)
ClientExit ==
    /\ pc = "select"
    /\ pc' = "closed"
    /\ close_reason' = "client"
    /\ UNCHANGED <<in_recovery, idle_count, idle_count_in_recovery, in_progress,
                   quiet, quiet_in_recovery, interrupted>>

(* A backend socket is readable while idle (a notice or notification):    *)
(* ProcessBackendResponse handles it.                                      *)
BackendMessage ==
    /\ pc = "select"
    /\ pc' = "backend"
    /\ quiet' = 0
    /\ quiet_in_recovery' = 0
    /\ interrupted' = FALSE
    /\ UNCHANGED <<in_recovery, close_reason, idle_count, idle_count_in_recovery,
                   in_progress>>

(* A backend socket is readable and detect_postmaster_down_error finds   *)
(* the admin shutdown error 57P01: notice_backend_error asks the parent   *)
(* to detach the node, and after sleep(5) was_error "continue"s the loop. *)
PostmasterDown ==
    /\ pc = "select"
    /\ pc' = "top"
    /\ quiet' = 0
    /\ quiet_in_recovery' = 0
    /\ interrupted' = FALSE
    /\ UNCHANGED <<in_recovery, close_reason, idle_count, idle_count_in_recovery,
                   in_progress>>

(* The master's socket is in the exception set: POOL_ERROR.               *)
MasterException ==
    /\ pc = "select"
    /\ pc' = "closed"
    /\ close_reason' = "error"
    /\ UNCHANGED <<in_recovery, idle_count, idle_count_in_recovery, in_progress,
                   quiet, quiet_in_recovery, interrupted>>

(* ProcessBackendResponse forwards one message of the response; the       *)
(* ReadyForQuery message ends the query.                                   *)
ProcessBackendResponse ==
    /\ pc = "backend"
    /\ pc' = "top"
    /\ \E done \in BOOLEAN : in_progress' = (in_progress /\ ~done)
    /\ UNCHANGED <<in_recovery, close_reason, idle_count, idle_count_in_recovery,
                   quiet, quiet_in_recovery, interrupted>>

(* The parent starts or finishes an online recovery.                      *)
RecoveryChange ==
    /\ pc /= "closed"
    /\ in_recovery' = ~in_recovery
    /\ UNCHANGED <<pc, close_reason, idle_count, idle_count_in_recovery,
                   in_progress, quiet, quiet_in_recovery, interrupted>>

(* The child closes the client and serves the next connection with a new  *)
(* call of pool_process_query.                                             *)
NewSession ==
    /\ pc = "closed"
    /\ pc' = "top"
    /\ close_reason' = "none"
    /\ in_progress' = FALSE
    /\ quiet' = 0
    /\ quiet_in_recovery' = 0
    /\ interrupted' = FALSE
    /\ UNCHANGED <<in_recovery, idle_count, idle_count_in_recovery>>

Next ==
    \/ LoopTop
    \/ SelectTimeout
    \/ SelectInterrupted
    \/ ClientQuery
    \/ ClientExit
    \/ BackendMessage
    \/ PostmasterDown
    \/ MasterException
    \/ ProcessBackendResponse
    \/ RecoveryChange
    \/ NewSession

Spec == Init /\ [][Next]_vars

-----------------------------------------------------------------------------
TypeOK ==
    /\ in_recovery \in BOOLEAN
    /\ pc \in {"top", "select", "backend", "closed"}
    /\ close_reason \in CloseReasons
    /\ idle_count \in 0 .. ClientIdleLimit + 1
    /\ idle_count_in_recovery \in 0 .. ClientIdleLimitInRecovery + 1
    /\ in_progress \in BOOLEAN
    /\ quiet \in 0 .. QuietCap
    /\ quiet_in_recovery \in 0 .. QuietCap
    /\ interrupted \in BOOLEAN

(* A session closed for idleness had really been idle: more timeouts than *)
(* the limit, in the matching mode, since the client or a backend last    *)
(* sent anything.                                                          *)
IdleCloseJustified ==
    /\ close_reason = "idle" => quiet > ClientIdleLimit
    /\ close_reason = "idle_in_recovery" => quiet_in_recovery > ClientIdleLimitInRecovery

(* The spec's idle timeout: once a client and the backends have been      *)
(* silent for more than the limit, the session is closed; it never stays  *)
(* open past that many quiet timeouts.                                     *)
IdleLimitEnforced ==
    pc /= "closed" =>
        /\ ClientIdleLimit > 0 => quiet <= ClientIdleLimit
        /\ ClientIdleLimitInRecovery > 0 => quiet_in_recovery <= ClientIdleLimitInRecovery

(* The idle limit holds whenever no signal has interrupted select(2) since *)
(* the client or a backend last sent anything: the counters local to the  *)
(* select block then count every quiet timeout, in and out of recovery.   *)
IdleLimitEnforcedUninterrupted ==
    ~interrupted => IdleLimitEnforced
=============================================================================
