--------------------------------- MODULE Inbox ---------------------------------
(***************************************************************************)
(* What read_async of smpp::socket promises to its callers: one call at a  *)
(* time is served, the others are refused; the call that is served is      *)
(* given the next PDU of the connection or an error; every handler is      *)
(* called once.                                                            *)
(***************************************************************************)
EXTENDS Naturals, FiniteSets

CONSTANTS Callers, MaxReads

\* The n-th call of a caller.
Calls == Callers \X (1..MaxReads)
Stages == {"new", "made", "serving", "settled", "answered"}

VARIABLES
  stage,   \* how far each call has got
  result,  \* the connection and the number of the PDU it has been given, or None
  conn     \* the connection the socket is on

vars == <<stage, result, conn>>

None == <<0, 0>>

\* PDUs of this connection given so far.
Given == {result[c][2] : c \in {d \in Calls : result[d][1] = conn}} \ {0}

Move(c, from, to) == stage[c] = from /\ stage' = [stage EXCEPT ![c] = to]

Init == stage = [c \in Calls |-> "new"] /\ result = [c \in Calls |-> None] /\ conn = 0

Make(c) == Move(c, "new", "made") /\ UNCHANGED <<result, conn>>

\* Another call is being served, or was until a moment ago.
Refuse(c) == Move(c, "made", "settled") /\ UNCHANGED <<result, conn>>

Serve(c) == /\ Move(c, "made", "serving") /\ UNCHANGED <<result, conn>>
            /\ \A d \in Calls : stage[d] # "serving"

Fail(c) == Move(c, "serving", "settled") /\ UNCHANGED <<result, conn>>

\* The PDUs given so far are the first ones of the connection; c is given the next.
Give(c) ==
  LET next == Cardinality(Given) + 1
  IN /\ Move(c, "serving", "settled")
     /\ Given = 1..(next - 1)
     /\ result' = [result EXCEPT ![c] = <<conn, next>>]
     /\ UNCHANGED conn

Answer(c) == Move(c, "settled", "answered") /\ UNCHANGED <<result, conn>>

\* The socket is opened again: the peer begins a new stream.
Reopen == conn' = conn + 1 /\ UNCHANGED <<stage, result>>

Next ==
  \/ \E c \in Calls : Make(c) \/ Refuse(c) \/ Serve(c) \/ Fail(c) \/ Give(c) \/ Answer(c)
  \/ Reopen

Spec == Init /\ [][Next]_vars
=============================================================================
