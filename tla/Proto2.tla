-------------------------------- MODULE Proto2 --------------------------------
(***************************************************************************)
(* The protocol 2.0 response handlers of src/pool_proto2.c.  Once          *)
(* read_kind_from_backend has agreed on the kind byte of a backend        *)
(* message, pool_process_query calls the handler of that kind; it reads   *)
(* the rest of the message from every valid node with pool_read,          *)
(* pool_read2 and pool_read_string and writes one message to the client.  *)
(*                                                                         *)
(* A node's socket is a sequence of tokens, one per field as the handler   *)
(* reads it: "map" (a NULL bitmap, as the set m of non-NULL field         *)
(* numbers), "int" (Int32), "short" (Int16) and "data" (bytes whose count  *)
(* v was given by a size field), "byte" and "kind" (the byte w), and "str" *)
(* (a null-terminated string: its word w and length v).  Behind the       *)
(* message is the kind byte of the next one.  A read of the wrong field,   *)
(* or of the next message, desynchronises the node: it joins "lost" and    *)
(* what it returns is no field of its message (Garbage).  Each handler is one step; its loops are folds over *)
(* the nodes in node order.  Every pool_read succeeds except one from a    *)
(* node that is not valid; pool_flush succeeds.                            *)
(***************************************************************************)
EXTENDS Integers, SequencesExt, FiniteSets

CONSTANTS
    NumBackends,   \* NUM_BACKENDS
    MaxFields,     \* bound on num_fields of a row or a row description
    MaxLen,        \* bound on the length of a field's data
    Handlers       \* the kinds whose handler may be called

V2Kinds == {"D", "B", "C", "P", "I", "E", "N", "V", "A", "T"}

ASSUME NumBackends \in Nat \ {0} /\ MaxFields \in 0 .. 8 /\ MaxLen \in Nat \ {0}
ASSUME Handlers \subseteq V2Kinds /\ Handlers /= {}

Backends == 0 .. NumBackends - 1

\* A field: its type t, its number v, its word or byte w, its bitmap m.
Token(t, v, w, m) == [t |-> t, v |-> v, w |-> w, m |-> m]
Tok(t, v) == Token(t, v, "", {})
Str(w, l) == Token("str", l, w, {})
Byte(t, b) == Token(t, 0, b, {})
Map(nm) == Token("map", 0, "", nm)

\* The kind byte of the message behind the one being handled.
NextMsg == Byte("kind", "next")

\* What a desynchronised read of a field of type t returns.
Garbage(t) == Token(t, 0, "?", {})

\* A byte-swapped small positive Int32 (ntohl applied twice): above 2^24.
Swapped == MaxLen + 1

-----------------------------------------------------------------------------
(* The message bodies of protocol 2.0, after the kind byte.                *)
Ascending(s) == SetToSortSeq(s, <)

\* AsciiRow/BinaryRow: the NULL bitmap, then for each non-NULL field its
\* size (Int32, here the data length) and, when that is positive, the data.
RowBody(nm, sz) ==
    <<Map(nm)>> \o
    FlattenSeq([k \in 1 .. Cardinality(nm) |->
                  LET f == Ascending(nm)[k]
                  IN IF sz[f] > 0 THEN <<Tok("int", sz[f]), Tok("data", sz[f])>>
                                  ELSE <<Tok("int", 0)>>])

RowBodies(nf) ==
    IF nf = 0 THEN {<<>>}
    ELSE UNION {{RowBody(nm, sz) : sz \in [nm -> 0 .. MaxLen]} : nm \in SUBSET (0 .. nf - 1)}

\* RowDescription: Int16 field count, then name, type oid, size, modifier.
FieldDescs ==
    {<<Str("f", l), Tok("int", oid), Tok("short", sz), Tok("int", 1)>> :
        l \in 1 .. 2, oid \in 1 .. 2, sz \in 1 .. 2}

RowDescBodies ==
    UNION {{<<Tok("short", nf)>> \o FlattenSeq(fs) : fs \in [1 .. nf -> FieldDescs]} :
              nf \in 0 .. MaxFields}

\* A command tag's length differs between nodes only by its row count.
CmdTags ==
    {Str(w, 1) : w \in {"BEGIN", "COMMIT", "ROLLBACK"}}
        \cup {Str(w, l) : w \in {"INSERT", "UPDATE"}, l \in 1 .. 2}

\* FunctionResultResponse: 'G', Int32 length, the value, '0'; or the void
\* result '0'.
FunctionBodies ==
    {<<Byte("byte", "G"), Tok("int", l), Tok("data", l), Byte("byte", "0")>> :
        l \in 1 .. MaxLen} \cup {<<Byte("byte", "0")>>}

Bodies(k, nf) ==
    CASE k \in {"D", "B"}      -> RowBodies(nf)
      [] k = "C"               -> {<<t>> : t \in CmdTags}
      [] k \in {"P", "E", "N"} -> {<<Str("x", l)>> : l \in 1 .. 2}
      [] k = "I"               -> {<<Byte("byte", "nul")>>}
      [] k = "V"               -> FunctionBodies
      [] k = "A"               -> {<<Tok("int", pid), Str("x", 1)>> :
                                      pid \in 1 .. 2}
      [] k = "T"               -> RowDescBodies

-----------------------------------------------------------------------------
VARIABLES
    valid,       \* nodes for which VALID_BACKEND(i) holds
    master,      \* MASTER_NODE_ID
    kind,        \* the kind read_kind_from_backend agreed on
    num_fields,  \* the field count of the last RowDescription (rows only)
    body,        \* body[n]: the message node n sent (for the properties)
    sock,        \* sock[n]: the tokens of node n not yet read
    lost,        \* nodes whose stream was misread
    frontend,    \* tokens written to the client
    tstate,      \* TSTATE(backend, n)
    status,      \* "none", or what the handler returned
    pc           \* "call" or "done"

vars == <<valid, master, kind, num_fields, body, sock, lost, frontend, tstate,
          status, pc>>

-----------------------------------------------------------------------------
(***************************************************************************)
(* A handler's progress: the sockets, the lost nodes, what it has written *)
(* to the client, TSTATE, what it returned (once it has) and the value of *)
(* its last read.  After a return every step leaves it alone.             *)
(***************************************************************************)
Start == [sock |-> sock, lost |-> lost, fe |-> <<>>, ts |-> tstate, ret |-> "none",
          val |-> Garbage("int")]

\* pool_read/pool_read_string of one field of type t from node n.  A node
\* with no live connection fails the read (POOL_END).
Read(r, n, t) ==
    IF r.ret /= "none" THEN r
    ELSE IF n \notin valid THEN [r EXCEPT !.ret = "end"]
    ELSE IF n \notin r.lost /\ Head(r.sock[n]).t = t
      THEN [r EXCEPT !.sock[n] = Tail(@), !.val = Head(r.sock[n])]
      ELSE [r EXCEPT !.lost = @ \cup {n}, !.val = Garbage(t)]

\* pool_read2 of l bytes: they are the data field only if its length is l.
ReadData(r, n, l) ==
    IF r.ret /= "none" THEN r
    ELSE IF n \notin valid THEN [r EXCEPT !.ret = "end"]
    ELSE IF n \notin r.lost /\ Head(r.sock[n]).t = "data" /\ Head(r.sock[n]).v = l
      THEN [r EXCEPT !.sock[n] = Tail(@), !.val = Tok("data", l)]
      ELSE [r EXCEPT !.lost = @ \cup {n}, !.val = Garbage("data")]

Write(r, toks) == IF r.ret /= "none" THEN r ELSE [r EXCEPT !.fe = @ \o toks]

Return(r, s) == IF r.ret /= "none" THEN r ELSE [r EXCEPT !.ret = s]

\* The valid nodes, and those other than the master, in node order.
AllValid == Ascending(valid)

\* Fault variant: the loops over the other nodes do not skip the master.
OthersWithMaster == AllValid

Others == Ascending({n \in valid : n /= master})

ReadEach(r, nodes, t) == FoldLeft(LAMBDA q, n : Read(q, n, t), r, nodes)

\* A command tag starting BEGIN, COMMIT or ROLLBACK sets TSTATE of the node.
SetTstate(r, n, w) ==
    IF r.ret /= "none" THEN r
    ELSE IF w = "BEGIN" THEN [r EXCEPT !.ts[n] = "T"]
    ELSE IF w \in {"COMMIT", "ROLLBACK"} THEN [r EXCEPT !.ts[n] = "I"]
    ELSE r

-----------------------------------------------------------------------------
(* AsciiRow: 'D', the master's NULL bitmap read and kept in nullmap1,     *)
(* every other node's read into nullmap (a difference is only logged);    *)
(* nullmap1 goes to the client.  For each field whose bit is set in        *)
(* nullmap, the buffer of the node read last, the master's size and data  *)
(* are read and forwarded, then each other node's size and data are read. *)
AsciiRow(r0, nf) ==
    LET r1 == Write(r0, <<Byte("kind", "D")>>)
        r2 == Read(r1, master, "map")
        nullmap1 == r2.val.m
        r3 == ReadEach(r2, Others, "map")
        nullmap == r3.val.m
        r4 == Write(r3, <<Map(nullmap1)>>)
        OtherField(q, j) ==
            LET q1 == Read(q, j, "int")
            IN IF q1.val.v > 0 THEN ReadData(q1, j, q1.val.v) ELSE q1
        Field(r, i) ==
            IF i \notin nullmap THEN r
            ELSE LET a == Read(r, master, "int")
                     size1 == a.val.v
                     b == IF size1 > 0 THEN ReadData(a, master, size1) ELSE a
                     c == Write(b, <<Tok("int", size1)>> \o
                                   (IF size1 > 0 THEN <<Tok("data", size1)>> ELSE <<>>))
                 IN FoldLeft(OtherField, c, Others)
    IN IF nf = 0 THEN Return(r1, "continue")
       ELSE Return(FoldLeft(Field, r4, Ascending(0 .. nf - 1)), "continue")

(***************************************************************************)
(* BinaryRow: as AsciiRow, but the master's bitmap goes to the client     *)
(* first, mask is shifted only after a field that is not NULL, the other  *)
(* nodes' sizes are read from CONNECTION(backend, i) with i the field      *)
(* number, and the loop over j converts size (ntohl(size) - 4) and reads   *)
(* that many bytes from node j for every j, valid or not, without reading *)
(* a new size for the master.  size is [raw, v]: raw while it holds the    *)
(* bytes of a size field, converted after ntohl.                           *)
(***************************************************************************)
Convert(sz) ==
    IF sz.raw THEN [raw |-> FALSE, v |-> sz.v]
    ELSE [raw |-> FALSE, v |-> IF sz.v \in 1 .. MaxLen THEN Swapped ELSE -1]

BinaryRow(r0, nf) ==
    LET r1 == Write(r0, <<Byte("kind", "B")>>)
        r2 == Read(r1, master, "map")
        r3 == Write(r2, <<r2.val>>)
        r4 == ReadEach(r3, Others, "map")
        nullmap == r4.val.m
        Node(i, q, j) ==
            LET s1 == IF j \in valid /\ j /= master
                        THEN LET x == Read(q.r, i, "int")
                             IN [r |-> x, sz |-> [raw |-> TRUE, v |-> x.val.v]]
                        ELSE q
                s2 == IF j = master
                        THEN [s1 EXCEPT !.r = Write(@, <<Tok("int",
                                  IF s1.sz.raw THEN s1.sz.v ELSE Swapped)>>)]
                        ELSE s1
                size == Convert(s2.sz)
                y == IF size.v > 0 THEN ReadData(s2.r, j, size.v) ELSE s2.r
            IN [r |-> IF size.v > 0 /\ j = master THEN Write(y, <<Tok("data", size.v)>>)
                      ELSE y,
                sz |-> size]
        Field(acc, i) ==
            IF acc.bit \notin nullmap THEN acc
            ELSE LET a == Read(acc.r, master, "int")
                     z == FoldLeft(LAMBDA q, j : Node(i, q, j),
                                   [r |-> a, sz |-> [raw |-> TRUE, v |-> a.val.v]],
                                   Ascending(Backends))
                 IN [r |-> z.r, bit |-> (acc.bit + 1) % 8]
    IN IF nf = 0 THEN Return(r1, "continue")
       ELSE Return(FoldLeft(Field, [r |-> r4, bit |-> 0], Ascending(0 .. nf - 1)).r,
                   "continue")

(* CompletedResponse: the master's command tag, then each other node's;   *)
(* a tag starting BEGIN/COMMIT/ROLLBACK sets that node's TSTATE; a length *)
(* differing from the master's ends the call unless the master's tag is  *)
(* INSERT (whose oid may differ).  The master's tag goes to the client.   *)
CompletedResponse(r0) ==
    LET a == Read(r0, master, "str")
        string1 == a.val
        Node(r, n) ==
            LET x == Read(r, n, "str")
                y == SetTstate(x, n, x.val.w)
            IN IF y.ret = "none" /\ x.val.v /= string1.v /\ string1.w /= "INSERT"
                 THEN Return(y, "end") ELSE y
        b == FoldLeft(Node, SetTstate(a, master, string1.w), Others)
    IN Return(Write(b, <<Byte("kind", "C"), string1>>), "continue")

(* CursorResponse: the cursor name of the master, then of each other node; *)
(* a length mismatch ends the call.                                        *)
CursorResponse(r0) ==
    LET a == Read(r0, master, "str")
        string1 == a.val
        Node(r, n) ==
            LET x == Read(r, n, "str")
            IN IF x.ret = "none" /\ x.val.v /= string1.v
                 THEN Return(x, "end") ELSE x
    IN Return(Write(FoldLeft(Node, a, Others), <<Byte("kind", "P"), string1>>),
              "continue")

(* EmptyQueryResponse: one byte from every valid node; "I" and "" to the  *)
(* client.                                                                 *)
EmptyQueryResponse(r0) ==
    Return(Write(ReadEach(r0, AllValid, "byte"),
                 <<Byte("kind", "I"), Byte("byte", "nul")>>), "continue")

(* ErrorResponse: the message of every valid node; the one read last goes *)
(* to the client; raise_intentional_error_if_need (not under src/) is     *)
(* taken to return POOL_CONTINUE; every valid node in a transaction is    *)
(* then in a failed one.                                                   *)
ErrorResponse(r0) ==
    LET a == ReadEach(r0, AllValid, "str")
        b == Write(a, <<Byte("kind", "E"), a.val>>)
        c == [b EXCEPT !.ts = [n \in Backends |->
                                 IF n \in valid /\ b.ts[n] = "T" THEN "E" ELSE b.ts[n]]]
    IN Return(c, "continue")

(* NoticeResponse: the notice of every valid node; the last to the client. *)
NoticeResponse(r0) ==
    LET a == ReadEach(r0, AllValid, "str")
    IN Return(Write(a, <<Byte("kind", "N"), a.val>>), "continue")

(***************************************************************************)
(* FunctionResultResponse: 'V'; one byte from every valid node, the last  *)
(* forwarded; on 'G' the length from every valid node, the last forwarded, *)
(* then once per valid node that many bytes read from the MASTER; then    *)
(* once per valid node the unused byte read from the MASTER; '0' to the   *)
(* client.                                                                 *)
(***************************************************************************)
FunctionResultResponse(r0) ==
    LET a == ReadEach(Write(r0, <<Byte("kind", "V")>>), AllValid, "byte")
        dummy == a.val.w
        b == Write(a, <<a.val>>)
        c == ReadEach(b, AllValid, "int")
        len == c.val.v
        d == FoldLeft(LAMBDA q, n : ReadData(q, master, len),
                      Write(c, <<Tok("int", len)>>), AllValid)
        e == IF dummy = "G" THEN Write(d, <<Tok("data", len)>>) ELSE b
        f == FoldLeft(LAMBDA q, n : Read(q, master, "byte"), e, AllValid)
    IN Return(Write(f, <<Byte("byte", "0")>>), "continue")

(* NotificationResponse: 'A'; the pid and condition of every valid node;  *)
(* the master's go to the client.                                          *)
NotificationResponse(r0) ==
    LET Node(acc, n) ==
            LET x == Read(acc.r, n, "int")
                y == Read(x, n, "str")
            IN [r |-> y, pid |-> IF n = master THEN x.val.v ELSE acc.pid,
                cond |-> IF n = master THEN y.val ELSE acc.cond]
        z == FoldLeft(Node, [r |-> Write(r0, <<Byte("kind", "A")>>), pid |-> 0,
                             cond |-> Garbage("str")], AllValid)
    IN Return(Write(z.r, <<Tok("int", z.pid), z.cond>>), "continue")

(***************************************************************************)
(* RowDescription: the field count of the master, then of each other node *)
(* (a mismatch is POOL_FATAL); "T" and the count to the client; for each  *)
(* field the master's name, forwarded, then each other node's (a length   *)
(* mismatch is POOL_FATAL); the type oid, the size and the modifier of the *)
(* master, each forwarded after the other nodes' have been read.  The size *)
(* test compares size1 with itself.                                        *)
(***************************************************************************)
SizeCompared(x, size, size1) ==
    IF x.ret = "none" /\ size1 /= size1 THEN Return(x, "fatal") ELSE x

\* Fault variant: only a name shorter than the master's is a mismatch.
NameComparedShorter(x, len1) ==
    IF x.ret = "none" /\ x.val.v < len1 THEN Return(x, "fatal") ELSE x

\* A field name whose length differs from the master's (len1) is fatal.
NameCompared(x, len1) ==
    IF x.ret = "none" /\ x.val.v /= len1 THEN Return(x, "fatal") ELSE x

RowDescription(r0) ==
    LET a == Read(r0, master, "short")
        num_fields1 == a.val.v
        CountOf(q, n) ==
            LET x == Read(q, n, "short")
            IN IF x.ret = "none" /\ x.val.v /= num_fields1 THEN Return(x, "fatal") ELSE x
        b == Write(FoldLeft(CountOf, a, Others),
                   <<Byte("kind", "T"), Tok("short", num_fields1)>>)
        NameOf(len1, q, j) == NameCompared(Read(q, j, "str"), len1)
        SizeOf(size1, q, j) ==
            LET x == Read(q, j, "short") IN SizeCompared(x, x.val.v, size1)
        Field(r, i) ==
            IF r.ret /= "none" THEN r
            ELSE LET n1 == Read(r, master, "str")
                     n2 == FoldLeft(LAMBDA q, j : NameOf(n1.val.v, q, j),
                                    Write(n1, <<n1.val>>), Others)
                     o1 == Read(n2, master, "int")
                     o2 == Write(ReadEach(o1, Others, "int"), <<o1.val>>)
                     s1 == Read(o2, master, "short")
                     s2 == Write(FoldLeft(LAMBDA q, j : SizeOf(s1.val.v, q, j), s1, Others),
                                 <<s1.val>>)
                     m1 == Read(s2, master, "int")
                 IN Write(ReadEach(m1, Others, "int"), <<m1.val>>)
    IN Return(FoldLeft(Field, b, [k \in 1 .. num_fields1 |-> k]), "continue")

-----------------------------------------------------------------------------
(* The kind has been agreed on; every valid node has sent its message of  *)
(* that kind, and the other sockets hold nothing of it.                    *)
Init ==
    /\ valid \in SUBSET Backends \ {{}}
    /\ master \in valid
    /\ kind \in Handlers
    /\ num_fields \in IF kind \in {"D", "B"} THEN 0 .. MaxFields ELSE {0}
    /\ \E b \in [valid -> Bodies(kind, num_fields)] :
          body = [n \in Backends |-> IF n \in valid THEN b[n] ELSE <<>>]
    /\ sock = [n \in Backends |-> body[n] \o <<NextMsg>>]
    /\ lost = {}
    /\ frontend = <<>>
    /\ tstate \in {[n \in Backends |-> t] : t \in {"I", "T"}}
    /\ status = "none"
    /\ pc = "call"

\* The handler returned r: its effects become the state.
Apply(r) ==
    /\ sock' = r.sock
    /\ lost' = r.lost
    /\ frontend' = frontend \o r.fe
    /\ tstate' = r.ts
    /\ status' = r.ret
    /\ pc' = "done"
    /\ UNCHANGED <<valid, master, kind, num_fields, body>>

Handle(k, r) == pc = "call" /\ kind = k /\ Apply(r)

AsciiRowStep             == Handle("D", AsciiRow(Start, num_fields))
BinaryRowStep            == Handle("B", BinaryRow(Start, num_fields))
CompletedResponseStep    == Handle("C", CompletedResponse(Start))
CursorResponseStep       == Handle("P", CursorResponse(Start))
EmptyQueryResponseStep   == Handle("I", EmptyQueryResponse(Start))
ErrorResponseStep        == Handle("E", ErrorResponse(Start))
NoticeResponseStep       == Handle("N", NoticeResponse(Start))
FunctionResultStep       == Handle("V", FunctionResultResponse(Start))
NotificationResponseStep == Handle("A", NotificationResponse(Start))
RowDescriptionStep       == Handle("T", RowDescription(Start))

Next ==
    \/ AsciiRowStep \/ BinaryRowStep \/ CompletedResponseStep \/ CursorResponseStep
    \/ EmptyQueryResponseStep \/ ErrorResponseStep \/ NoticeResponseStep
    \/ FunctionResultStep \/ NotificationResponseStep \/ RowDescriptionStep

Spec == Init /\ [][Next]_vars

-----------------------------------------------------------------------------
TokTypes == {"kind", "map", "int", "short", "byte", "str", "data"}

TypeOK ==
    /\ valid \subseteq Backends /\ master \in valid /\ kind \in V2Kinds
    /\ num_fields \in 0 .. MaxFields
    /\ \A n \in Backends : \A k \in DOMAIN sock[n] : sock[n][k].t \in TokTypes
    /\ \A k \in DOMAIN frontend : frontend[k].t \in TokTypes
    /\ lost \subseteq valid
    /\ tstate \in [Backends -> {"I", "T", "E"}]
    /\ status \in {"none", "continue", "end", "fatal"}
    /\ pc \in {"call", "done"}

\* Node n's socket is at the kind byte of the next message.
AtBoundary(n) == Len(sock[n]) = 1 /\ Head(sock[n]).t = NextMsg.t /\ n \notin lost

(* The framer's guarantee (spec 4.2, 7): a handler that returns           *)
(* POOL_CONTINUE has read exactly its message from every valid node, so   *)
(* that the next read_kind_from_backend reads a kind byte on each.        *)
Framed == status = "continue" => \A n \in valid : AtBoundary(n)

\* Every valid node sent the same NULL bitmap (rows with fields only).
SameLayout ==
    kind \in {"D", "B"} /\ num_fields > 0 =>
        \A n, m \in valid : body[n][1] = body[m][1]

(* The framing guarantee for the handlers that read each field from the  *)
(* node that sent it, AsciiRow included when the nodes agree on which     *)
(* fields are NULL: every loop over the other nodes, every early return   *)
(* and every size-driven read keeps each valid node's stream on message   *)
(* boundaries, however the nodes' tags, names, oids, sizes and lengths    *)
(* differ.                                                                 *)
FramedWhenLayoutsAgree == kind \notin {"V", "B"} /\ SameLayout => Framed

\* The fields of a RowDescription body.
FieldCount(b) == b[1].v
NameLen(b, k) == b[2 + 4 * (k - 1)].v
TypeSize(b, k) == b[4 + 4 * (k - 1)].v

\* Some valid node's field count or some field's name length differs
\* from the master's.
NamesDiffer ==
    \E n \in valid :
        \/ FieldCount(body[n]) /= FieldCount(body[master])
        \/ \E k \in 1 .. FieldCount(body[master]) : NameLen(body[n], k) /= NameLen(body[master], k)

SizesDiffer ==
    \E n \in valid :
        /\ FieldCount(body[n]) = FieldCount(body[master])
        /\ \E k \in 1 .. FieldCount(body[master]) : TypeSize(body[n], k) /= TypeSize(body[master], k)

(* A RowDescription whose field count or a field name's length differs    *)
(* between the master and any valid node is a fatal schema mismatch,      *)
(* whatever the other fields say and whichever node differs.              *)
NameMismatchFatal == kind = "T" /\ pc = "done" /\ NamesDiffer => status = "fatal"

(* The spec (4.4 item 7, 8): a declared-size mismatch in a RowDescription  *)
(* is as fatal as a name-length mismatch.                                   *)
SchemaMismatchFatal ==
    kind = "T" /\ pc = "done" /\ (NamesDiffer \/ SizesDiffer) => status = "fatal"
=============================================================================
