------------------------------ MODULE PcpStream ------------------------------
(***************************************************************************)
(* The buffered PCP connection of src/pcp/pcp_stream.c.                    *)
(*                                                                         *)
(* pcp_read serves a request first from the pending buffer hp[po..po+len) *)
(* (consume_pending_data), then from raw read(2)s of at most READBUFSZ     *)
(* bytes; the bytes of the last raw read beyond the request are kept in    *)
(* the pending buffer (save_pending_data).  pcp_write appends to wbuf,     *)
(* growing it in WRITEBUFSZ steps; pcp_flush writes wbuf[0..wbufpo) with   *)
(* write(2)s that may be partial.                                          *)
(*                                                                         *)
(* The peer sends the bytes 1, 2, 3, ... and the caller writes the bytes   *)
(* 1, 2, 3, ..., so that any loss, repetition or reordering shows.  A      *)
(* failing call makes the caller close the connection (pcp_close).  The   *)
(* wait of pcp_check_fd is the read step being enabled only with data in   *)
(* the socket; its timeout is ReadTimesOut, an error ReadFails.            *)
(***************************************************************************)
EXTENDS Integers, Sequences

CONSTANTS
    READBUFSZ,   \* size of a raw read and unit of the pending buffer
    WRITEBUFSZ,  \* initial size and growth unit of the write buffer
    MaxRead,     \* largest len a caller passes to pcp_read
    MaxWrite,    \* largest len a caller passes to pcp_write
    MaxIn,       \* bytes the peer sends in a run
    MaxOut,      \* bytes the caller writes in a run
    PcpTimeout,  \* pcp_timeout is non-zero: pcp_check_fd's select may time out
    RetryOnTimeout \* the caller keeps the connection after TIMEOUTERR

ASSUME READBUFSZ \in Nat \ {0} /\ WRITEBUFSZ \in Nat \ {0}
ASSUME PcpTimeout \in BOOLEAN /\ RetryOnTimeout \in BOOLEAN

Bytes == 1 .. (IF MaxIn > MaxOut THEN MaxIn ELSE MaxOut)
NoByte == 0   \* a buffer cell never written

VARIABLES
    sock,        \* bytes in the kernel socket, not yet read(2)
    peer_sent,   \* bytes the peer has sent
    hp,          \* pc->hp, as a function 1 .. bufsz -> byte
    bufsz,       \* pc->bufsz
    po,          \* pc->po
    len,         \* pc->len
    state,       \* "idle", "read" (in pcp_read's loop), "flush", "closed"
    want,        \* len still wanted by the pcp_read in progress
    rbuf,        \* bytes copied to the caller's buffer by it so far
    got,         \* bytes returned by completed pcp_reads
    wbuf,        \* pc->wbuf, as a function 1 .. wbufsz -> byte
    wbufsz,      \* pc->wbufsz
    wbufpo,      \* pc->wbufpo
    written,     \* bytes the caller has passed to pcp_write
    wlen,        \* pcp_flush's wlen
    offset,      \* pcp_flush's offset
    wire,        \* bytes write(2) has sent to the peer
    wire_mark    \* ghost: Len(wire) when the pcp_flush in progress began

vars == <<sock, peer_sent, hp, bufsz, po, len, state, want, rbuf, got, wbuf,
          wbufsz, wbufpo, written, wlen, offset, wire, wire_mark>>
readvars == <<sock, peer_sent, hp, bufsz, po, len, want, rbuf, got>>
writevars == <<wbuf, wbufsz, wbufpo, written, wlen, offset, wire, wire_mark>>

\* pcp_open: both buffers allocated, empty.
Init ==
    /\ sock = <<>>
    /\ peer_sent = 0
    /\ hp = [j \in 1 .. READBUFSZ |-> NoByte]
    /\ bufsz = READBUFSZ
    /\ po = 0
    /\ len = 0
    /\ state = "idle"
    /\ want = 0
    /\ rbuf = <<>>
    /\ got = <<>>
    /\ wbuf = [j \in 1 .. WRITEBUFSZ |-> NoByte]
    /\ wbufsz = WRITEBUFSZ
    /\ wbufpo = 0
    /\ written = 0
    /\ wlen = 0
    /\ offset = 0
    /\ wire = <<>>
    /\ wire_mark = 0

-----------------------------------------------------------------------------
\* The n bytes of buffer f after its first a.
Slice(f, a, n) == [j \in 1 .. n |-> IF a + j \in DOMAIN f THEN f[a + j] ELSE NoByte]

\* The pending data, hp[po .. po+len).
Pending == Slice(hp, po, len)

\* Fault variant: po is not advanced past the bytes consumed.
ConsumePendingDataNoAdvance(n) ==
    IF len <= 0 THEN [c |-> 0, len |-> len, po |-> po]
    ELSE LET c == IF n < len THEN n ELSE len
         IN [c |-> c, len |-> len - c, po |-> IF len - c <= 0 THEN 0 ELSE po]

\* consume_pending_data(pc, buf, n): how many bytes it hands over, and the
\* new len and po.
ConsumePendingData(n) ==
    IF len <= 0 THEN [c |-> 0, len |-> len, po |-> po]
    ELSE LET c == IF n < len THEN n ELSE len
         IN [c |-> c, len |-> len - c, po |-> IF len - c <= 0 THEN 0 ELSE po + c]

\* save_pending_data(pc, data, Len(data)): the new buffer, size, po, len.
SavePendingData(data) ==
    LET po0 == IF len = 0 THEN 0 ELSE po
        reqlen == po0 + len + Len(data)
        sz == IF reqlen > bufsz THEN (reqlen \div READBUFSZ + 1) * READBUFSZ
              ELSE bufsz
    IN [hp |-> [j \in 1 .. sz |->
                   IF po0 + len < j /\ j <= reqlen THEN data[j - po0 - len]
                   ELSE IF j <= bufsz THEN hp[j] ELSE NoByte],
        bufsz |-> sz, po |-> po0, len |-> len + Len(data)]

\* pcp_read returns 0 with the caller's buffer filled.
Complete(bytes) ==
    /\ got' = got \o bytes
    /\ rbuf' = <<>>
    /\ want' = 0
    /\ state' = "idle"

(* pcp_read(pc, buf, n): the pending data first; if that is enough the     *)
(* call returns, otherwise it enters its read loop.                        *)
StartRead ==
    /\ state = "idle"
    /\ \E n \in 1 .. MaxRead :
          LET r == ConsumePendingData(n)
              bytes == Slice(hp, po, r.c)
          IN /\ len' = r.len
             /\ po' = r.po
             /\ IF r.c = n
                  THEN Complete(bytes)
                  ELSE /\ rbuf' = bytes
                       /\ want' = n - r.c
                       /\ state' = "read"
                       /\ UNCHANGED got
    /\ UNCHANGED <<sock, peer_sent, hp, bufsz>>
    /\ UNCHANGED writevars

(* One pass of the read loop once pcp_check_fd sees data: read(2) returns  *)
(* between 1 and READBUFSZ bytes.  Bytes beyond the request are saved as   *)
(* pending data and the call returns; otherwise the loop goes on until     *)
(* len reaches 0.                                                          *)
ReadStep ==
    /\ state = "read"
    /\ sock /= <<>>
    /\ \E k \in 1 .. READBUFSZ :
          /\ k <= Len(sock)
          /\ LET data == SubSeq(sock, 1, k)
             IN /\ sock' = SubSeq(sock, k + 1, Len(sock))
                /\ IF want < k
                     THEN LET s == SavePendingData(SubSeq(data, want + 1, k))
                          IN /\ hp' = s.hp
                             /\ bufsz' = s.bufsz
                             /\ po' = s.po
                             /\ len' = s.len
                             /\ Complete(rbuf \o SubSeq(data, 1, want))
                   ELSE IF want = k
                     THEN /\ Complete(rbuf \o data)
                          /\ UNCHANGED <<hp, bufsz, po, len>>
                   ELSE /\ rbuf' = rbuf \o data
                        /\ want' = want - k
                        /\ UNCHANGED <<hp, bufsz, po, len, got, state>>
    /\ UNCHANGED peer_sent
    /\ UNCHANGED writevars

(* pcp_check_fd's select(2) returns 0 with no data after pcp_timeout:     *)
(* pcp_read returns -1 with TIMEOUTERR.  The bytes it has already taken   *)
(* from the pending buffer and the socket are in the caller's buffer and  *)
(* nowhere else.  The caller closes, or, where a timeout is advisory,     *)
(* keeps the connection.                                                  *)
ReadTimesOut ==
    /\ state = "read"
    /\ PcpTimeout
    /\ sock = <<>>
    /\ state' = IF RetryOnTimeout THEN "idle" ELSE "closed"
    /\ rbuf' = <<>>
    /\ want' = 0
    /\ UNCHANGED <<sock, peer_sent, hp, bufsz, po, len, got>>
    /\ UNCHANGED writevars

(* pcp_check_fd sees an exception, read(2) fails or returns 0 at end of   *)
(* file, or save_pending_data's realloc fails: pcp_read returns -1 and    *)
(* the caller closes.                                                     *)
ReadFails ==
    /\ state = "read"
    /\ state' = "closed"
    /\ UNCHANGED readvars
    /\ UNCHANGED writevars

\* Fault variant: the buffer grows to a multiple of WRITEBUFSZ without room
\* for the partial last block.
GrowNoRoundUp(reqlen, sz) ==
    IF reqlen > sz THEN (reqlen \div WRITEBUFSZ) * WRITEBUFSZ ELSE sz

\* pcp_write's new wbufsz for a request of reqlen bytes.
Grow(reqlen, sz) ==
    IF reqlen > sz THEN (reqlen \div WRITEBUFSZ + 1) * WRITEBUFSZ ELSE sz

(* pcp_write(pc, buf, k): append k bytes to wbuf, growing it first when   *)
(* they do not fit; a failed realloc returns -1 and the caller closes.     *)
PcpWrite ==
    /\ state = "idle"
    /\ \E k \in 1 .. MaxWrite :
          LET reqlen == wbufpo + k
              sz == Grow(reqlen, wbufsz)
          IN /\ written + k <= MaxOut
             /\ \/ /\ wbuf' = [j \in 1 .. sz |->
                                 IF wbufpo < j /\ j <= reqlen THEN written + j - wbufpo
                                 ELSE IF j <= wbufsz THEN wbuf[j] ELSE NoByte]
                   /\ wbufsz' = sz
                   /\ wbufpo' = reqlen
                   /\ written' = written + k
                   /\ UNCHANGED state
                \/ /\ reqlen > wbufsz
                   /\ state' = "closed"
                   /\ UNCHANGED <<wbuf, wbufsz, wbufpo, written>>
    /\ UNCHANGED readvars
    /\ UNCHANGED <<wlen, offset, wire, wire_mark>>

(* pcp_flush(pc): with wbufpo = 0 it returns 0 at once (a stuttering step, *)
(* not modelled); otherwise it starts writing wbuf[0 .. wbufpo).           *)
FlushStart ==
    /\ state = "idle"
    /\ wbufpo > 0
    /\ state' = "flush"
    /\ wlen' = wbufpo
    /\ offset' = 0
    /\ wire_mark' = Len(wire)
    /\ UNCHANGED readvars
    /\ UNCHANGED <<wbuf, wbufsz, wbufpo, written, wire>>

(* One write(2) of pcp_flush's loop sends sts bytes, 1 <= sts <= wlen     *)
(* (EAGAIN and EINTR retry without a step).  When wlen reaches 0 the       *)
(* buffer is emptied and pcp_flush returns 0.                              *)
FlushStep ==
    /\ state = "flush"
    /\ \E sts \in 1 .. wlen :
          /\ wire' = wire \o Slice(wbuf, offset, sts)
          /\ IF wlen - sts = 0
               THEN /\ wbufpo' = 0
                    /\ wlen' = 0
                    /\ offset' = 0
                    /\ state' = "idle"
               ELSE /\ wlen' = wlen - sts
                    /\ offset' = offset + sts
                    /\ UNCHANGED <<wbufpo, state>>
    /\ UNCHANGED readvars
    /\ UNCHANGED <<wbuf, wbufsz, written, wire_mark>>

(* write(2) fails in pcp_flush: it returns -1, leaving wbufpo as it was,   *)
(* and the caller closes the connection.                                   *)
FlushFails ==
    /\ state = "flush"
    /\ state' = "closed"
    /\ UNCHANGED readvars
    /\ UNCHANGED writevars

\* The PCP client or server at the other end sends one byte.
PeerSend ==
    /\ state /= "closed"
    /\ peer_sent < MaxIn
    /\ peer_sent' = peer_sent + 1
    /\ sock' = Append(sock, peer_sent + 1)
    /\ UNCHANGED <<hp, bufsz, po, len, state, want, rbuf, got>>
    /\ UNCHANGED writevars

Next ==
    \/ PeerSend
    \/ StartRead
    \/ ReadStep
    \/ ReadTimesOut
    \/ ReadFails
    \/ PcpWrite
    \/ FlushStart
    \/ FlushStep
    \/ FlushFails

Spec == Init /\ [][Next]_vars

-----------------------------------------------------------------------------
TypeOK ==
    /\ state \in {"idle", "read", "flush", "closed"}
    /\ sock \in Seq(Bytes)
    /\ got \in Seq(Bytes)
    /\ rbuf \in Seq(Bytes)
    /\ {po, len, bufsz, wbufpo, wbufsz, wlen, offset, want} \subseteq Nat
    /\ DOMAIN hp = 1 .. bufsz
    /\ DOMAIN wbuf = 1 .. wbufsz

(* The pending data and the write buffer's fill stay inside their          *)
(* allocations through every save_pending_data and pcp_write growth.       *)
BuffersInBounds ==
    /\ po + len <= bufsz
    /\ wbufpo <= wbufsz

(* The connection as the byte-stream contract sees it: the unread bytes    *)
(* are those the running pcp_read has copied, then the pending data, then  *)
(* the socket's; the unflushed bytes are wbuf[0 .. wbufpo); during a flush *)
(* the contract's wire is what preceded it.  A closed connection has none. *)
Stream == INSTANCE ByteStream WITH
    in   <- IF state = "closed" THEN <<>> ELSE rbuf \o Pending \o sock,
    out  <- IF state = "closed" THEN <<>> ELSE Slice(wbuf, 0, wbufpo),
    wire <- IF state = "flush" THEN SubSeq(wire, 1, wire_mark) ELSE wire,
    open <- state /= "closed"

(* pcp_read, pcp_write and pcp_flush implement the byte stream: every read *)
(* returns the peer's next bytes in order, none lost or repeated across    *)
(* the pending buffer, and every flush sends exactly what was written.     *)
(* A pcp_read that fails, times out included, ends the stream.            *)
StreamRefinement == Stream!Spec
=============================================================================
