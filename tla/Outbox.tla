-------------------------------- MODULE Outbox --------------------------------
(***************************************************************************)
(* What write_async and close() of smpp::socket promise to their callers:  *)
(* a command is queued, then taken for writing or canceled, then settled,  *)
(* and its handler is called once.  One command at a time is being         *)
(* written, and the commands of one thread leave the queue in the order in *)
(* which the thread submitted them.                                        *)
(***************************************************************************)
EXTENDS Naturals

CONSTANTS Producers, MaxWrites

\* The n-th command submitted by a producer.
Cmds == Producers \X (1..MaxWrites)
Stages == {"new", "queued", "writing", "settled", "answered"}

VARIABLE stage

Earlier(c) == {d \in Cmds : d[1] = c[1] /\ d[2] < c[2]}
Move(c, from, to) == stage[c] = from /\ stage' = [stage EXCEPT ![c] = to]

Init == stage = [c \in Cmds |-> "new"]

Submit(c) == Move(c, "new", "queued") /\ \A d \in Earlier(c) : stage[d] # "new"

First(c) == \A d \in Earlier(c) : stage[d] # "queued"

Take(c) == /\ Move(c, "queued", "writing") /\ First(c)
           /\ \A d \in Cmds : stage[d] # "writing"

Cancel(c) == Move(c, "queued", "settled") /\ First(c)

Settle(c) == Move(c, "writing", "settled")

Answer(c) == Move(c, "settled", "answered")

Next == \E c \in Cmds : Submit(c) \/ Take(c) \/ Cancel(c) \/ Settle(c) \/ Answer(c)

Spec == Init /\ [][Next]_stage
=============================================================================
