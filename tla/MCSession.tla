------------------------------ MODULE MCSession ------------------------------
(* A small instance of Session: an application thread and an io thread.     *)
EXTENDS Session, TLC

CONSTANTS a1, i1

A1I1 == {a1, i1}
I1 == {i1}
A1 == {a1}

\* A PDU of as many octets as the command length has.
OnePdu == [j \in 1..2 |-> [msg |-> 1, pos |-> j, len |-> 2]]
=============================================================================
