----------------------------- MODULE MCWritePath -----------------------------
(* Small instances of WritePath: app threads and io threads as model values. *)
EXTENDS WritePath, TLC

CONSTANTS a1, a2, i1, i2

\* Application threads and threads in io_context::run().
A1I1 == {a1, i1}
A2I1 == {a1, a2, i1}
A1I2 == {a1, i1, i2}
I1 == {i1}
I2 == {i1, i2}
A1 == {a1}
A2 == {a1, a2}
=============================================================================
