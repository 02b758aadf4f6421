-------------------------- MODULE MCSerialFraming --------------------------
(* SerialFraming for TLC: real bytes, a buffer of three.                   *)
EXTENDS SerialFraming, Bitwise

Exclusive(a, b) == a ^^ b

Frame(type, data) == [type |-> type, data |-> data]

\* An empty message; data that has to be escaped, among it the three special
\* characters; data that does not; a full buffer; a message one byte too long.
Frames == {Frame(16, <<>>), Frame(32768, <<2, 3>>), Frame(33026, <<1, 128>>),
                Frame(32769, <<16, 0, 255>>), Frame(33025, <<7, 8, 9, 10>>)}

NoiseBytes == {1, 2, 3, 17}
=============================================================================
