------------------------------ MODULE MCReadPath ------------------------------
(* Small instances of ReadPath: app threads and io threads as model values,  *)
(* streams of two or three short PDUs.                                       *)
EXTENDS ReadPath, TLC

CONSTANTS a1, a2, i1, i2

\* Application threads and threads in io_context::run().
A1I1 == {a1, i1}
A1I2 == {a1, i1, i2}
A2I1 == {a1, a2, i1}
I1 == {i1}
I2 == {i1, i2}
A1 == {a1}
A2 == {a1, a2}

\* The octets of PDU m, announcing length len.
Pdu(m, len) == [j \in 1..(IF len < LengthSize THEN LengthSize ELSE len) |-> [msg |-> m, pos |-> j, len |-> len]]

OnePdu == Pdu(1, 3)
TwoPdus == Pdu(1, 3) \o Pdu(2, 4)
ShortPdu == Pdu(1, 3) \o Pdu(2, 2) \o Pdu(3, 3)
ZeroPdu == Pdu(1, 3) \o Pdu(2, 0)
=============================================================================
