--------------------------- MODULE ErrorDetection ---------------------------
(***************************************************************************)
(* Peeking at a backend's next message: detect_error and its wrappers     *)
(* (detect_postmaster_down_error, detect_deadlock_error, ...),            *)
(* pool_extract_error_message and pool_discard_packet of                  *)
(* pool_process_query.c, on the stream of one valid node.                 *)
(*                                                                         *)
(* A message on the wire is a short sequence of tokens: the kind byte,    *)
(* then under protocol 3 the length word and the body, under protocol 2   *)
(* one string.  The node may close the connection anywhere inside its     *)
(* first message; a read past the end fails.  The body of an error or a   *)
(* notice is its S, C and M fields; the text of M is abstracted to the    *)
(* code it comes with.  A message is "big" when it does not fit the       *)
(* functions' 8192-byte static buffers.                                    *)
(*                                                                         *)
(* detect_error reads the body with an unchecked pool_read: when the      *)
(* node is gone the body is malloc'ed garbage ("junk") and the C-field    *)
(* walk over it may find anything.  Under protocol 2 a failed             *)
(* pool_read_string leaves len uninitialised and copies from NULL: the    *)
(* process may crash, or carry on with any length.                        *)
(***************************************************************************)
EXTENDS Integers, Sequences, SequencesExt

CONSTANTS
    Majors,         \* protocol majors of the connection, a subset of {2, 3}
    Calls,          \* the calls a run makes
    Codes,          \* SQLSTATEs an error or notice may carry
    MayCut,         \* subset of BOOLEAN: may the node close mid-message?
    MayFailAlloc    \* may malloc or pool_unread's realloc fail?

VARIABLES
    sock,       \* what the caller's next read of the node returns
    sock0,      \* the stream when the call began
    sent,       \* what the node sent, from its first message on
    major,      \* MAJOR(backend)
    call,       \* the call being made
    done,       \* has it returned?
    ret,        \* its return value
    crashed,    \* did it crash the process?
    faulted,    \* did an allocation fail?
    message     \* pool_extract_error_message's static message_buf

vars == <<sock, sock0, sent, major, call, done, ret, crashed, faulted,
          message>>

PROTO_MAJOR_V2 == 2
PROTO_MAJOR_V3 == 3
\* pool.h POOL_STATUS values; SPECIFIED_ERROR is detect_error's "found".
POOL_CONTINUE == 0
POOL_END == 2
SPECIFIED_ERROR == 1

ADMIN_SHUTDOWN_ERROR_CODE == "57P01"
CRASH_SHUTDOWN_ERROR_CODE == "57P02"
DEADLOCK_ERROR_CODE == "40P01"
SERIALIZATION_FAIL_ERROR_CODE == "40001"
QUERY_CANCEL_ERROR_CODE == "57014"
ACTIVE_SQL_TRANSACTION_ERROR_CODE == "25001"
\* The code a CommandComplete carries in the model.
SUCCESSFUL == "00000"
ShutdownCodes == {ADMIN_SHUTDOWN_ERROR_CODE, CRASH_SHUTDOWN_ERROR_CODE}

\* The messages a node may send first.  A shutdown message and a
\* CommandComplete are short.
Msgs == {m \in [kind : {"E", "N", "C"}, code : Codes \cup {SUCCESSFUL},
                big : BOOLEAN] :
            /\ (m.kind = "C") <=> (m.code = SUCCESSFUL)
            /\ (m.kind = "C" \/ m.code \in ShutdownCodes) => ~m.big}
\* The message that follows (a ReadyForQuery); only its kind byte matters.
ReadyForQuery == [kind |-> "Z", code |-> SUCCESSFUL, big |-> FALSE]
\* The stream after the first n tokens have been read.
After(s, n) == IF n >= Len(s) THEN <<>> ELSE SubSeq(s, n + 1, Len(s))
Tok(part, m) == [part |-> part, m |-> m]
Layout(maj, m) ==
    IF maj = PROTO_MAJOR_V3
    THEN <<Tok("kind", m), Tok("len", m), Tok("body", m)>>
    ELSE <<Tok("kind", m), Tok("str", m)>>
\* The fields of an ErrorResponse or NoticeResponse body.
Fields(m) == <<[tag |-> "S", val |-> "ERROR"], [tag |-> "C", val |-> m.code],
               [tag |-> "M", val |-> m.code]>>
Junk == "junk"
Truncated == "truncated"

\* The calls: the five detect_* wrappers (each reads the kind; all but
\* detect_postmaster_down_error unread what they read),
\* pool_extract_error_message(read_kind, ..., unread) and pool_discard_packet.
DetectCalls == {"postmaster_down", "active_sql_transaction", "deadlock",
                "serialization", "query_cancel"}
AllCalls ==
    {[fn |-> f, read_kind |-> TRUE, unread |-> f # "postmaster_down"] :
        f \in DetectCalls}
    \cup {[fn |-> "extract", read_kind |-> rk, unread |-> u] : rk, u \in BOOLEAN}
    \cup {[fn |-> "discard", read_kind |-> TRUE, unread |-> FALSE]}
\* The SQLSTATE each detect_* wrapper passes to detect_error.
CodeOf == [postmaster_down |-> ADMIN_SHUTDOWN_ERROR_CODE,
           active_sql_transaction |-> ACTIVE_SQL_TRANSACTION_ERROR_CODE,
           deadlock |-> DEADLOCK_ERROR_CODE,
           serialization |-> SERIALIZATION_FAIL_ERROR_CODE,
           query_cancel |-> QUERY_CANCEL_ERROR_CODE]

\* The outcomes of a call: the return value, the stream left behind, and
\* whether the process crashed or an allocation failed.
\* Keep: message_buf is left as it was.
Keep == "keep"
Out(r, s) == [ret |-> r, sock |-> s, crash |-> FALSE, fault |-> FALSE,
              msg |-> Keep]
WithMsg(o, txt) == [o EXCEPT !.msg = txt]
Fault(r, s) == [Out(r, s) EXCEPT !.fault = TRUE]
Crash(s) == [Out(POOL_END, s) EXCEPT !.crash = TRUE]
AllocFailures(r, s) == IF MayFailAlloc THEN {Fault(r, s)} ELSE {}

\* Mutant: the walk takes the value of the first field, whatever its tag.
FirstField(fs, tag) == IF fs = <<>> THEN "none" ELSE Head(fs).val

\* The while (*e) walk: the value of the first field with this tag.
RECURSIVE FieldValue(_, _)
FieldValue(fs, tag) ==
    IF fs = <<>> THEN "none"
    ELSE IF Head(fs).tag = tag THEN Head(fs).val
    ELSE FieldValue(Tail(fs), tag)

\* The end of detect_error: if (unread || !is_error) pool_unread(buf).
Finish(is_error, buf, rest, unread) ==
    IF unread \/ is_error = 0
    THEN {Out(is_error, buf \o rest)} \cup AllocFailures(-1, rest)
    ELSE {Out(is_error, rest)}

\* detect_error(backend, error_code, major, class, unread): the outcomes.
detect_error(s, maj, code, class, unread) ==
    IF s = <<>> THEN {Out(POOL_END, s)}
    ELSE IF s[1].m.kind # class THEN Finish(0, <<s[1]>>, Tail(s), unread)
    ELSE IF maj = PROTO_MAJOR_V3
    THEN IF Len(s) < 2 THEN {Out(POOL_END, <<>>)}
         ELSE LET m    == s[1].m
                  body == IF Len(s) >= 3 THEN s[3] ELSE Tok(Junk, m)
                  rest == After(s, 3)
              IN AllocFailures(POOL_END, After(s, 2)) \cup
                 IF m.big THEN {Out(POOL_END, rest)}
                 ELSE UNION {Finish(e, <<s[1], s[2], body>>, rest, unread) :
                     e \in IF body.part = Junk THEN {0, SPECIFIED_ERROR}
                           ELSE {IF FieldValue(Fields(m), "C") = code
                                 THEN SPECIFIED_ERROR ELSE 0}}
    ELSE IF Len(s) < 2
    THEN {Out(POOL_END, <<>>), Crash(<<>>)} \cup Finish(0, <<s[1]>>, <<>>, unread)
    ELSE IF s[1].m.big THEN {Out(POOL_END, After(s, 2))}
    ELSE Finish(0, <<s[1], s[2]>>, After(s, 2), unread)

\* The unread at the end of pool_extract_error_message; message_buf has
\* already been written.
Unread1(txt, buf, rest, unread) ==
    IF unread
    THEN {WithMsg(o, txt) : o \in {Out(1, buf \o rest)} \cup AllocFailures(-1, rest)}
    ELSE {WithMsg(Out(1, rest), txt)}

\* pool_extract_error_message after the kind: buf holds what has been
\* read, t is the stream from the length word (V3) or the string (V2) on.
ExtractBody(buf, t, maj, readKind, unread) ==
    IF maj = PROTO_MAJOR_V3
    THEN IF t = <<>> THEN {Out(-1, <<>>)}
         ELSE LET m    == t[1].m
                  body == IF Len(t) >= 2 THEN t[2] ELSE Tok(Junk, m)
                  rest == After(t, 2)
                  v    == FieldValue(Fields(m), "M")
              IN AllocFailures(-1, After(t, 1)) \cup
                 IF m.big THEN {Out(-1, rest)}
                 ELSE UNION {Unread1(txt, buf \o <<t[1], body>>, rest, unread) :
                     txt \in IF body.part = Junk THEN {Keep, Junk}
                             ELSE {IF v = "none" THEN Keep ELSE v}}
    ELSE IF t = <<>>
    \* NULL string, len uninitialised: a crash copying from NULL, len 0,
    \* or a length that overflows buf once the kind is counted.
    THEN {Crash(<<>>)} \cup Unread1("", buf, <<>>, unread)
         \cup (IF readKind THEN {Out(-1, <<>>)} ELSE {})
    \* len = Min(sizeof(message_buf)-1, len): a long string is cut to 8191.
    ELSE IF readKind /\ t[1].m.big THEN {Out(-1, After(t, 1))}
    ELSE LET m == t[1].m
         IN Unread1(IF m.big THEN Truncated ELSE m.code,
                    buf \o <<IF m.big THEN Tok(Truncated, m) ELSE t[1]>>,
                    After(t, 1), unread)

\* pool_extract_error_message(read_kind, backend, major, unread, &message).
pool_extract_error_message(s, maj, readKind, unread) ==
    IF ~readKind THEN ExtractBody(<<>>, s, maj, readKind, unread)
    ELSE IF s = <<>> THEN {Out(-1, <<>>)}
    ELSE IF s[1].m.kind \notin {"E", "N"}
    THEN {Out(0, s)} \cup AllocFailures(-1, Tail(s))
    ELSE ExtractBody(<<s[1]>>, Tail(s), maj, readKind, unread)

\* pool_discard_packet on one valid node: the kind, then
\* pool_discard_packet_contents: length and body (V3), or a string (V2).
pool_discard_packet(s, maj) ==
    LET n == IF maj = PROTO_MAJOR_V3 THEN 3 ELSE 2
    IN IF Len(s) < n THEN Out(POOL_END, <<>>) ELSE Out(POOL_CONTINUE, After(s, n))

-----------------------------------------------------------------------------

Init ==
    /\ major \in Majors
    /\ call \in {c \in AllCalls : c.fn \in Calls}
    /\ \E m \in Msgs, cut \in MayCut :
         LET l == Layout(major, m)
         IN sent \in IF cut THEN {SubSeq(l, 1, c) : c \in 0 .. Len(l) - 1}
                    ELSE {l \o <<Tok("kind", ReadyForQuery)>>}
    \* read_kind false: the caller has read an 'E' or 'N' kind already.
    /\ call.read_kind \/ (sent # <<>> /\ sent[1].m.kind \in {"E", "N"})
    /\ sock = IF call.read_kind THEN sent ELSE Tail(sent)
    /\ sock0 = sock
    /\ done = FALSE /\ ret = 0 /\ crashed = FALSE /\ faulted = FALSE
    /\ message = ""

\* The call returns with outcome o.
Return(o) ==
    /\ done' = TRUE
    /\ sock' = o.sock /\ ret' = o.ret /\ crashed' = o.crash
    /\ faulted' = o.fault
    /\ message' = IF o.msg = Keep THEN message ELSE o.msg
    /\ UNCHANGED <<sock0, sent, major, call>>

\* detect_postmaster_down_error: admin shutdown ('E'), then, unless found,
\* crash shutdown ('N'), both without unread when found.
DetectPostmasterDownError ==
    /\ ~done /\ call.fn = "postmaster_down"
    /\ \E o1 \in detect_error(sock, major, ADMIN_SHUTDOWN_ERROR_CODE, "E", FALSE) :
         IF o1.ret = SPECIFIED_ERROR \/ o1.crash THEN Return(o1)
         ELSE \E o2 \in detect_error(o1.sock, major, CRASH_SHUTDOWN_ERROR_CODE,
                                     "N", FALSE) :
                Return([o2 EXCEPT !.fault = o2.fault \/ o1.fault])

\* detect_active_sql_transaction_error, detect_deadlock_error,
\* detect_serialization_error, detect_query_cancel_error.
DetectWithUnread ==
    /\ ~done /\ call.fn \in DetectCalls \ {"postmaster_down"}
    /\ \E o \in detect_error(sock, major, CodeOf[call.fn], "E", TRUE) : Return(o)

ExtractErrorMessage ==
    /\ ~done /\ call.fn = "extract"
    /\ \E o \in pool_extract_error_message(sock, major, call.read_kind,
                                           call.unread) : Return(o)

DiscardPacket ==
    /\ ~done /\ call.fn = "discard"
    /\ Return(pool_discard_packet(sock, major))

Next == DetectPostmasterDownError \/ DetectWithUnread \/ ExtractErrorMessage
        \/ DiscardPacket

Spec == Init /\ [][Next]_vars

-----------------------------------------------------------------------------

TypeOK ==
    /\ major \in Majors /\ call \in AllCalls
    /\ done \in BOOLEAN /\ crashed \in BOOLEAN /\ faulted \in BOOLEAN
    /\ ret \in {-1, POOL_CONTINUE, SPECIFIED_ERROR, POOL_END}
    /\ message \in Codes \cup {"", Junk, Truncated}
    /\ sock \in Seq([part : {"kind", "len", "body", "str", Junk, Truncated},
                     m : Msgs \cup {ReadyForQuery}])

\* The node's first message arrived whole, and what it was.
Whole == sent # <<>> /\ Len(sent) > Len(Layout(major, sent[1].m))
First == sent[1].m
\* The messages a detect_* wrapper looks for.
Matches(c, m) ==
    IF c.fn = "postmaster_down"
    THEN \/ m.kind = "E" /\ m.code = ADMIN_SHUTDOWN_ERROR_CODE
         \/ m.kind = "N" /\ m.code = CRASH_SHUTDOWN_ERROR_CODE
    ELSE m.kind = "E" /\ m.code = CodeOf[c.fn]

\* A detect_* wrapper reports SPECIFIED_ERROR only for a node whose first
\* message is the error it looks for, or that closed the connection
\* inside it; and under protocol 3 (protocol 2 errors carry no code) it
\* reports every such error that arrives whole, unless memory ran out or
\* the error does not fit detect_error's buffer (then it returns POOL_END,
\* which do_command, testing for non-zero, still takes as a deadlock).
\* The dispatch loop detaches a node on this result (line 326) and
\* do_command aborts the transaction on it (line 2229).
SpecifiedErrorIffSent ==
    done /\ call.fn \in DetectCalls =>
        /\ ret = SPECIFIED_ERROR => ~Whole \/ Matches(call, First)
        /\ Whole /\ major = PROTO_MAJOR_V3 /\ ~faulted /\ Matches(call, First)
              => ret = IF First.big THEN POOL_END ELSE SPECIFIED_ERROR

\* A call whose result tells its caller to go on reading the node leaves
\* the node's stream as it found it: detect_postmaster_down_error when it
\* finds no shutdown (the dispatch loop then runs ProcessBackendResponse,
\* line 337), the unreading detect_* wrappers when they return 0 or more
\* (do_command gives up only on a negative result, line 2230), and
\* pool_extract_error_message with unread when it returns 0 or 1.
CarriesOn ==
    CASE call.fn = "postmaster_down" -> ret # SPECIFIED_ERROR
      [] call.fn \in DetectCalls -> ret >= 0
      [] call.fn = "extract" -> call.unread /\ ret \in {0, 1}
      [] OTHER -> FALSE
PeekRestores == done /\ ~crashed /\ CarriesOn => sock = sock0
=============================================================================
