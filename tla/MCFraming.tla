------------------------------ MODULE MCFraming ------------------------------
(* Payloads for TLC: every sequence over the bytes that framing tells apart. *)
EXTENDS Framing

Bytes == {0, Esc, AA}
UpTo(n) == UNION {[1..k -> Bytes] : k \in 0..n}
Short == UpTo(2)
Long == UpTo(4)
=============================================================================
