------------------------------ MODULE MuxFrame ------------------------------
(***************************************************************************)
(* The frames that carry a session's bytes between browser, hub and agent  *)
(* (internal/muxframe, and encodeFrame/decodeFrame of web/app.js): the     *)
(* length of the session id in two bytes, the session id, the payload.     *)
(***************************************************************************)
EXTENDS Integers, Sequences

CONSTANT Base  \* how many values a byte has: 256 in the code

ASSUME BaseAssumption == Base \in Nat /\ Base > 1

Byte  == 0..(Base - 1)
Bytes == Seq(Byte)
MaxId == Base * Base - 1  \* 0xFFFF

\* What Encode and Decode return with an error.
NoFrame == <<>>
Malformed == [sid |-> <<>>, payload |-> <<>>]

CanEncode(sid) == Len(sid) \in 1..MaxId

\* binary.BigEndian.PutUint16
PutLength(n) == <<n \div Base, n % Base>>

Encode(sid, payload) ==
    IF CanEncode(sid) THEN PutLength(Len(sid)) \o sid \o payload ELSE NoFrame

GetLength(data) == data[1] * Base + data[2]

Decode(data) ==
    IF Len(data) < 2 \/ GetLength(data) = 0 \/ Len(data) < 2 + GetLength(data)
    THEN Malformed
    ELSE [sid     |-> SubSeq(data, 3, 2 + GetLength(data)),
          payload |-> SubSeq(data, 3 + GetLength(data), Len(data))]
=============================================================================
