------------------------- MODULE InternalTransaction -------------------------
(***************************************************************************)
(* A statement that pgpool wraps in an internal transaction, in           *)
(* replication mode under protocol 3 (pool_process_query.c):               *)
(*   start_internal_transaction  BEGIN on each valid node that is idle and *)
(*                               has no internal transaction yet;          *)
(*   insert_lock                 LOCK TABLE on the master, then on each    *)
(*                               other node, or, if the master reported a  *)
(*                               deadlock, an error query that aborts      *)
(*                               their transactions too;                   *)
(*   SimpleForwardToBackend      the statement written to each valid node; *)
(*   ProcessBackendResponse      the answers read up to ReadyForQuery's    *)
(*                               kind byte;                                *)
(*   end_internal_transaction    COMMIT on each other node in transaction, *)
(*                               then on the master.                       *)
(* Each do_command (send_simplequery_message, wait_for_query_response,     *)
(* detect_deadlock_error and the read loop up to 'Z') is one step.         *)
(*                                                                         *)
(* PostgreSQL is the environment: db[n] is the state of node n's session,  *)
(* fate[n] what became of the internal transaction begun there, sock[n]   *)
(* the messages node n sent that pgpool has not read.  A failure of a     *)
(* statement other than a deadlock depends on the schema and the data,    *)
(* which the replicas share, so it happens on every node alike; a         *)
(* deadlock depends on the other sessions of each node.  When a call      *)
(* returns POOL_END the child closes its connections and PostgreSQL rolls *)
(* back what is still open.                                                *)
(***************************************************************************)
EXTENDS Integers, SequencesExt, FiniteSets

CONSTANT NumBackends   \* NUM_BACKENDS

ASSUME NumBackends \in Nat \ {0}

Backends == 0 .. NumBackends - 1

\* A session's transaction state, as the ReadyForQuery byte reports it.
TxStates == {"I", "T", "E"}

\* The length and state byte of a ReadyForQuery, after its kind 'Z'.
Rest(s) == "r" \o s
Rests == {Rest(s) : s \in TxStates}
StateOf(tok) == CHOOSE s \in TxStates : Rest(s) = tok

\* The kinds do_command reads before 'Z': notice, command complete, an
\* error, and an error with the deadlock code ("D").
AnswerKinds == {"N", "C", "E", "D"}

\* What became of an internal transaction on a node.
Fates == {"none", "open", "committed", "rolledback"}

VARIABLES
    valid,              \* nodes for which VALID_BACKEND(i) holds
    master,             \* MASTER_NODE_ID
    tstate,             \* TSTATE(backend, n): pgpool's copy
    started,            \* INTERNAL_TRANSACTION_STARTED(backend, n)
    db,                 \* the transaction state of node n's session
    fate,               \* the internal transaction begun on node n
    sock,               \* what node n sent and pgpool has not read
    lockNeeded,         \* need_insert_lock's answer
    lockErr,            \* LOCK TABLE fails (no such table, ...) everywhere
    stmtErr,            \* the statement fails everywhere
    pc,                 \* where the child is
    i,                  \* the loop index
    deadlock_detected   \* insert_lock's local

vars == <<valid, master, tstate, started, db, fate, sock, lockNeeded, lockErr,
          stmtErr, pc, i, deadlock_detected>>

-----------------------------------------------------------------------------
(***************************************************************************)
(* PostgreSQL's answers to a query q in a session in state s: the         *)
(* messages before ReadyForQuery, the new state, and the new fate of the  *)
(* internal transaction ("" leaves it).  COMMIT of a failed transaction   *)
(* rolls it back.                                                          *)
(***************************************************************************)
Answer(out, st, f) == [out |-> out, st |-> st, f |-> f]

ErrorIn(s) == Answer(<<"E">>, IF s = "I" THEN "I" ELSE "E", "")

Answers(q, s) ==
    CASE q = "BEGIN" ->
            IF s = "I" THEN {Answer(<<"C">>, "T", "open")}
            ELSE {Answer(<<"N", "C">>, s, "")}
      [] q = "LOCK" ->
            IF s = "T" /\ ~lockErr
              THEN {Answer(<<"C">>, "T", ""), Answer(<<"D">>, "E", "")}
              ELSE {ErrorIn(s)}
      [] q = "ERROR" -> {ErrorIn(s)}
      [] q = "STMT" ->
            IF s = "E" \/ stmtErr THEN {ErrorIn(s)} ELSE {Answer(<<"C">>, s, "")}
      [] q = "COMMIT" ->
            IF s = "I" THEN {Answer(<<"N", "C">>, "I", "")}
            ELSE {Answer(<<"C">>, "I", IF s = "T" THEN "committed" ELSE "rolledback")}

\* A query sent to node n is executed: its answer is queued on the socket.
Executed(n, a) ==
    [sock |-> sock[n] \o a.out \o <<"Z", Rest(a.st)>>, db |-> a.st,
     fate |-> IF a.f = "" THEN fate[n] ELSE a.f]

\* What a failed call leaves: the connections closed, every open internal
\* transaction rolled back.
Abandoned(f) == [n \in Backends |-> IF f[n] = "open" THEN "rolledback" ELSE f[n]]

(***************************************************************************)
(* do_command(n, q, no_ready_for_query): the possible results [ret, sock, *)
(* ts, db, fate] for node n.  The query is not sent (a failed write), or  *)
(* sent and executed; wait_for_query_response may still fail (the client  *)
(* went away).  detect_deadlock_error looks at the first message; the     *)
(* loop reads up to 'Z' and fails on any other kind; without              *)
(* no_ready_for_query the length and state byte are read into TSTATE and  *)
(* a deadlock is returned as POOL_DEADLOCK.                                *)
(***************************************************************************)
DoCommand(n, q, noRFQ, s0) ==
    LET NotSent == {[ret |-> "end", sock |-> s0, ts |-> tstate[n], db |-> db[n],
                     fate |-> fate[n]]}
        Run(a, waited) ==
            LET e == Executed(n, a)
                s == s0 \o SubSeq(e.sock, Len(sock[n]) + 1, Len(e.sock))
                z == SelectInSeq(s, LAMBDA k : k = "Z")
                ok == z > 0 /\ \A k \in 1 .. z - 1 : s[k] \in AnswerKinds
                rfq == ok /\ ~noRFQ /\ z < Len(s) /\ s[z + 1] \in Rests
            IN [ret  |-> IF ~waited \/ ~ok \/ (~noRFQ /\ ~rfq) THEN "end"
                         ELSE IF ~noRFQ /\ s[1] = "D" THEN "deadlock"
                         ELSE "continue",
                sock |-> IF ~waited \/ ~ok THEN s
                         ELSE SubSeq(s, IF rfq THEN z + 2 ELSE z + 1, Len(s)),
                ts   |-> IF rfq /\ waited THEN StateOf(s[z + 1]) ELSE tstate[n],
                db   |-> e.db,
                fate |-> e.fate]
    IN NotSent \cup {Run(a, w) : a \in Answers(q, db[n]), w \in BOOLEAN}

\* One result applied to node n.
Apply(n, r) ==
    /\ sock' = [sock EXCEPT ![n] = r.sock]
    /\ tstate' = [tstate EXCEPT ![n] = r.ts]
    /\ db' = [db EXCEPT ![n] = r.db]

\* The call returns POOL_END; f is the fate after the failed step.
EndWith(f) == pc' = "ended" /\ fate' = Abandoned(f)

-----------------------------------------------------------------------------
Init ==
    /\ valid \in SUBSET Backends \ {{}}
    /\ master = Min(valid)
    /\ \E s \in TxStates : db = [n \in Backends |-> s]
    /\ tstate = db
    /\ started = [n \in Backends |-> FALSE]
    /\ fate = [n \in Backends |-> "none"]
    /\ sock = [n \in Backends |-> <<>>]
    /\ lockNeeded \in BOOLEAN /\ lockErr \in BOOLEAN /\ stmtErr \in BOOLEAN
    /\ pc = "begin" /\ i = 0 /\ deadlock_detected = FALSE

\* Mutant: the master counted among the other nodes.
SecondaryWithMaster(n) == n \in valid /\ tstate[n] = "T" /\ started[n]

\* end_internal_transaction's test for a node other than the master.
Secondary(n) == n \in valid /\ n /= master /\ tstate[n] = "T" /\ started[n]

\* The nodes each for loop acts on; the others it passes over.
Visits(stage, n) ==
    CASE stage = "begin"   -> n \in valid /\ ~started[n] /\ tstate[n] = "I"
      [] stage = "lock"    -> n \in valid /\ n /= master
      [] stage = "forward" -> n \in valid
      [] stage = "commit"  -> Secondary(n)

Loops == {"begin", "lock", "forward", "commit"}

\* What follows each loop in the caller.
After(stage) ==
    CASE stage = "begin"   -> IF lockNeeded THEN "lock_master" ELSE "forward"
      [] stage = "lock"    -> "forward"
      [] stage = "forward" -> "reply"
      [] stage = "commit"  -> "commit_master"

Fixed == <<valid, master, lockNeeded, lockErr, stmtErr>>

\* Mutant: the loop bound tested with <= instead of <.
PassOverInclusive ==
    /\ pc \in Loops /\ i <= NumBackends /\ ~Visits(pc, i)
    /\ i' = i + 1
    /\ UNCHANGED <<tstate, started, db, fate, sock, pc, deadlock_detected>>
    /\ UNCHANGED Fixed

PassOver ==
    /\ pc \in Loops /\ i < NumBackends /\ ~Visits(pc, i)
    /\ i' = i + 1
    /\ UNCHANGED <<tstate, started, db, fate, sock, pc, deadlock_detected>>
    /\ UNCHANGED Fixed

LoopEnd ==
    /\ pc \in Loops /\ i = NumBackends
    /\ pc' = After(pc) /\ i' = 0
    /\ UNCHANGED <<tstate, started, db, fate, sock, deadlock_detected>>
    /\ UNCHANGED Fixed

\* start_internal_transaction: BEGIN, and the node is marked.
Begin(n) ==
    /\ pc = "begin" /\ i = n /\ Visits("begin", n)
    /\ \E r \in DoCommand(n, "BEGIN", FALSE, sock[n]) :
          /\ Apply(n, r)
          /\ \/ /\ r.ret = "continue"
                /\ started' = [started EXCEPT ![n] = TRUE]
                /\ fate' = [fate EXCEPT ![n] = r.fate]
                /\ i' = n + 1 /\ UNCHANGED pc
             \/ r.ret /= "continue" /\ EndWith([fate EXCEPT ![n] = r.fate])
                /\ UNCHANGED <<started, i>>
    /\ UNCHANGED <<deadlock_detected>> /\ UNCHANGED Fixed

\* insert_lock: LOCK TABLE on the master; a deadlock is remembered.
LockMaster ==
    /\ pc = "lock_master"
    /\ \E r \in DoCommand(master, "LOCK", FALSE, sock[master]) :
          /\ Apply(master, r)
          /\ \/ /\ r.ret /= "end"
                /\ deadlock_detected' = (r.ret = "deadlock")
                /\ fate' = [fate EXCEPT ![master] = r.fate]
                /\ pc' = "lock" /\ i' = 0
             \/ r.ret = "end" /\ EndWith([fate EXCEPT ![master] = r.fate])
                /\ UNCHANGED <<i, deadlock_detected>>
    /\ UNCHANGED started /\ UNCHANGED Fixed

\* Mutant: the deadlock on the master ignored.
LockQueryIgnoringDeadlock == "LOCK"

\* What insert_lock sends to the other nodes.
LockQuery == IF deadlock_detected THEN "ERROR" ELSE "LOCK"

LockNode(n) ==
    /\ pc = "lock" /\ i = n /\ Visits("lock", n)
    /\ \E r \in DoCommand(n, LockQuery, FALSE, sock[n]) :
          /\ Apply(n, r)
          /\ \/ /\ r.ret = "continue"
                /\ fate' = [fate EXCEPT ![n] = r.fate]
                /\ i' = n + 1 /\ UNCHANGED pc
             \/ r.ret /= "continue" /\ EndWith([fate EXCEPT ![n] = r.fate])
                /\ UNCHANGED i
    /\ UNCHANGED <<started, deadlock_detected>> /\ UNCHANGED Fixed

\* SimpleForwardToBackend: the statement written to node n, or a failed
\* write ending the call with the nodes before n already executing it.
ForwardNode(n) ==
    /\ pc = "forward" /\ i = n /\ Visits("forward", n)
    /\ \/ \E a \in Answers("STMT", db[n]) :
             /\ sock' = [sock EXCEPT ![n] = Executed(n, a).sock]
             /\ db' = [db EXCEPT ![n] = a.st]
             /\ i' = n + 1
             /\ UNCHANGED <<fate, pc>>
       \/ EndWith(fate) /\ UNCHANGED <<sock, db, i>>
    /\ UNCHANGED <<tstate, started, deadlock_detected>> /\ UNCHANGED Fixed

\* ProcessBackendResponse forwards the answers and reads ReadyForQuery's
\* kind from every valid node; its ReadyForQuery handler then calls
\* end_internal_transaction.
Reply ==
    /\ pc = "reply"
    /\ sock' = [n \in Backends |->
                   IF n \in valid
                     THEN SubSeq(sock[n], SelectInSeq(sock[n], LAMBDA k : k = "Z") + 1,
                                 Len(sock[n]))
                     ELSE sock[n]]
    /\ pc' = "commit" /\ i' = 0
    /\ UNCHANGED <<tstate, started, db, fate, deadlock_detected>> /\ UNCHANGED Fixed

(* end_internal_transaction for node n: skip the rest of the statement's  *)
(* ReadyForQuery (length and state), COMMIT without reading the rest of   *)
(* its own; the mark is cleared whatever the outcome.                     *)
\* Mutant: COMMIT's ReadyForQuery read to its end (no_ready_for_query off).
CommitNodeReadingRest(n, next) ==
    /\ sock[n] /= <<>>
    /\ \E r \in DoCommand(n, "COMMIT", FALSE, Tail(sock[n])) :
          /\ Apply(n, r)
          /\ started' = [started EXCEPT ![n] = FALSE]
          /\ \/ r.ret = "continue" /\ fate' = [fate EXCEPT ![n] = r.fate] /\ next
             \/ r.ret /= "continue" /\ EndWith([fate EXCEPT ![n] = r.fate])
                /\ UNCHANGED i

CommitNode(n, next) ==
    /\ sock[n] /= <<>>
    /\ \E r \in DoCommand(n, "COMMIT", TRUE, Tail(sock[n])) :
          /\ Apply(n, r)
          /\ started' = [started EXCEPT ![n] = FALSE]
          /\ \/ r.ret = "continue" /\ fate' = [fate EXCEPT ![n] = r.fate] /\ next
             \/ r.ret /= "continue" /\ EndWith([fate EXCEPT ![n] = r.fate])
                /\ UNCHANGED i

CommitSecondary(n) ==
    /\ pc = "commit" /\ i = n /\ Visits("commit", n)
    /\ CommitNode(n, i' = n + 1 /\ UNCHANGED pc)
    /\ UNCHANGED deadlock_detected /\ UNCHANGED Fixed

CommitMaster ==
    /\ pc = "commit_master"
    /\ \/ /\ tstate[master] = "T" /\ started[master]
          /\ CommitNode(master, pc' = "done" /\ UNCHANGED i)
       \/ /\ ~(tstate[master] = "T" /\ started[master])
          /\ pc' = "done"
          /\ UNCHANGED <<tstate, started, db, fate, sock, i>>
    /\ UNCHANGED deadlock_detected /\ UNCHANGED Fixed

Next ==
    \/ PassOver \/ LoopEnd
    \/ \E n \in Backends : Begin(n) \/ LockNode(n) \/ ForwardNode(n) \/ CommitSecondary(n)
    \/ LockMaster \/ Reply \/ CommitMaster

Spec == Init /\ [][Next]_vars

-----------------------------------------------------------------------------
TypeOK ==
    /\ valid \subseteq Backends /\ master \in valid
    /\ tstate \in [Backends -> TxStates] /\ db \in [Backends -> TxStates]
    /\ started \in [Backends -> BOOLEAN] /\ fate \in [Backends -> Fates]
    /\ \A n \in Backends : \A k \in 1 .. Len(sock[n]) : sock[n][k] \in AnswerKinds \cup {"Z"} \cup Rests
    /\ pc \in Loops \cup {"lock_master", "reply", "commit_master", "done", "ended"}
    /\ i \in 0 .. NumBackends /\ deadlock_detected \in BOOLEAN

(* insert_lock: when it returns POOL_CONTINUE and the statement is about  *)
(* to be sent, every valid node is in the same transaction state, and     *)
(* TSTATE says so: a deadlock on the master has been matched by an        *)
(* aborted transaction on every other node.                               *)
LockStatesAgree ==
    pc = "forward" /\ i = 0 =>
        \A n, m \in valid : db[n] = db[m] /\ tstate[n] = db[n]

(* end_internal_transaction commits the other nodes before the master:    *)
(* once the master has committed, no valid node's internal transaction    *)
(* is still open or rolled back.                                          *)
MasterCommitsLast ==
    fate[master] = "committed" => \A n \in valid : fate[n] \in {"none", "committed"}

(* After end_internal_transaction returns POOL_CONTINUE every valid       *)
(* connection holds exactly the rest of one ReadyForQuery, for its caller *)
(* to read, and that ReadyForQuery reports the node's real state.         *)
ReadyForQueryPending ==
    pc = "done" => \A n \in valid : sock[n] = <<Rest(db[n])>>

====
