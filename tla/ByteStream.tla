------------------------------ MODULE ByteStream ------------------------------
(***************************************************************************)
(* What a buffered connection promises (spec: "Byte Stream Buffer"):      *)
(* read(n) returns exactly the next n bytes the peer sent, in order, none  *)
(* lost or repeated; write buffers bytes without sending them; flush sends *)
(* everything buffered, in order.  An error ends the connection; a flush  *)
(* that fails may have sent a prefix of the buffer.                        *)
(***************************************************************************)
EXTENDS Integers, Sequences

CONSTANTS
    Bytes,      \* byte values
    MaxRead,    \* the largest n a caller asks read for
    MaxWrite    \* the largest number of bytes a caller writes at once

VARIABLES
    in,     \* bytes the peer sent that the caller has not read
    got,    \* bytes returned to the caller by read, in order
    out,    \* bytes written and not flushed
    wire,   \* bytes sent to the peer, in order
    open    \* the connection is usable

vars == <<in, got, out, wire, open>>

Init ==
    /\ in = <<>>
    /\ got = <<>>
    /\ out = <<>>
    /\ wire = <<>>
    /\ open = TRUE

PeerSend ==
    /\ open
    /\ \E b \in Bytes : in' = Append(in, b)
    /\ UNCHANGED <<got, out, wire, open>>

Read ==
    /\ open
    /\ \E n \in 1 .. MaxRead :
          /\ n <= Len(in)
          /\ got' = got \o SubSeq(in, 1, n)
          /\ in' = SubSeq(in, n + 1, Len(in))
    /\ UNCHANGED <<out, wire, open>>

Write ==
    /\ open
    /\ \E k \in 1 .. MaxWrite, s \in [1 .. MaxWrite -> Bytes] :
          out' = out \o SubSeq(s, 1, k)
    /\ UNCHANGED <<in, got, wire, open>>

Flush ==
    /\ open
    /\ wire' = wire \o out
    /\ out' = <<>>
    /\ UNCHANGED <<in, got, open>>

Fail ==
    /\ open
    /\ open' = FALSE
    /\ \E k \in 0 .. Len(out) : wire' = wire \o SubSeq(out, 1, k)
    /\ in' = <<>>
    /\ out' = <<>>
    /\ UNCHANGED got

Next == PeerSend \/ Read \/ Write \/ Flush \/ Fail

Spec == Init /\ [][Next]_vars
=============================================================================
