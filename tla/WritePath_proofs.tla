--------------------------- MODULE WritePath_proofs ---------------------------
(***************************************************************************)
(* Proofs about the write path for any sets of threads, any number of      *)
(* writes, closes and connections, and any number of pieces per PDU.       *)
(*                                                                         *)
(* The first part is about who writes and what is in the buffer; Inv is    *)
(* its inductive invariant.  The second is about the whole life of a       *)
(* command: in whose hands it is, which pieces of its PDU have been sent,  *)
(* what its handler is told and when.  Its inductive invariant, History,   *)
(* relates the log of handler calls and the wire, which only grow, to the  *)
(* little that is under way at any time; Inv is used throughout.  That     *)
(* the write path implements Outbox follows from both.                     *)
(***************************************************************************)
EXTENDS WritePath, SequenceTheorems, FiniteSetTheorems, TLAPS

\* A thread holds a command in its local variable exactly from try_dequeue to
\* async_write.
Carried == \A t \in Threads : Carrying(t) <=> cur[t] # NoCmd

\* A thread about to call a handler has one to call.
Owing == \A t \in Threads : pc[t] = "handler" => owed[t] # NoAnswer

\* _write_buff holds the PDU of the command whose write is about to start.
BufferFilled == \A t \in Threads : pc[t] = "start" => wbuf = cur[t]

\* The inductive invariant.
Inv == TypeOK /\ Carried /\ Owing /\ BufferFilled /\ ExclusiveWriter /\ WriteBufferStable

USE BoundsAssumption, ThreadsAssumption, NoneAssumption

\* The command a try_dequeue returns has been enqueued, so it is in range.
LEMMA FrontInCmds ==
  ASSUME TypeOK, NEW p \in Writers, NonEmpty(p)
  PROVE  /\ Front(p) \in Cmds
         /\ [deq EXCEPT ![p] = @ + 1] \in [Writers -> 0..MaxWrites]
         /\ \A q \in Writers : [deq EXCEPT ![p] = @ + 1][q] <= enq[q]
BY DEF TypeOK, NonEmpty, Front, Cmds

\* Handing an operation to asio keeps its command and its progress.
LEMMA InitiateOp ==
  ASSUME NEW o \in Ops
  PROVE  Initiate(o) \in Ops /\ Initiate(o).cmd = o.cmd
BY DEF Ops, Initiate, Codes

LEMMA AbortOp ==
  ASSUME NEW o \in Ops
  PROVE  /\ [o EXCEPT !.st = "done", !.ec = "aborted"] \in Ops
         /\ [o EXCEPT !.st = "done", !.ec = "failed"] \in Ops
BY DEF Ops, Codes

LEMMA InitInv == Init => Inv
<1> SUFFICES ASSUME Init PROVE Inv OBVIOUS
<1>1. TypeOK
  <2>1. wire \in Seq(Pieces) /\ log \in Seq(Answers) BY EmptySeq DEF Init
  <2>2. enq \in [Writers -> 0..MaxWrites] /\ deq \in [Writers -> 0..MaxWrites]
    BY DEF Init
  <2>3. \A p \in Writers : deq[p] <= enq[p] BY DEF Init
  <2>4. conn \in 0..MaxConns /\ closes \in 0..MaxCloses BY DEF Init
  <2>5. pc \in [Threads -> {"idle", "exchange", "dequeue", "serialize", "start", "handler", "drain",
                            "closing"}]
    BY DEF Init
  <2>6. /\ cur \in [Threads -> Cmds \cup {NoCmd}] /\ seen \in [Threads -> SUBSET Writers]
        /\ owed \in [Threads -> Answers \cup {NoAnswer}]
    BY DEF Init
  <2> QED BY <2>1, <2>2, <2>3, <2>4, <2>5, <2>6 DEF Init, TypeOK
<1>2. Carried /\ Owing /\ BufferFilled BY DEF Init, Carried, Owing, BufferFilled, Carrying
<1>3. ExclusiveWriter /\ WriteBufferStable
  BY DEF Init, ExclusiveWriter, WriteBufferStable, Holding
<1> QED BY <1>1, <1>2, <1>3 DEF Inv

-----------------------------------------------------------------------------
LEMMA WriteAsyncInv == ASSUME Inv, NEW t \in Threads, WriteAsync(t) PROVE Inv'
<1> USE DEF Inv, WriteAsync, Goto, Idle, netVars
<1>1. TypeOK' BY DEF TypeOK
<1>2. Carried' /\ Owing' /\ BufferFilled'
  BY DEF TypeOK, Carried, Owing, BufferFilled, Carrying
<1>3. ExclusiveWriter' /\ WriteBufferStable'
  BY DEF TypeOK, ExclusiveWriter, WriteBufferStable, Holding
<1> QED BY <1>1, <1>2, <1>3 DEF Inv

LEMMA ExchangeInv == ASSUME Inv, NEW t \in Threads, Exchange(t) PROVE Inv'
<1> USE DEF Inv, Exchange, Goto, Return, netVars, queueVars
<1>1. TypeOK' BY DEF TypeOK
<1>2. Carried' /\ Owing' /\ BufferFilled'
  BY DEF TypeOK, Carried, Owing, BufferFilled, Carrying
<1>3. WriteBufferStable' BY DEF WriteBufferStable
<1>4. ExclusiveWriter'
  <2>1. CASE writing
    <3>1. \A u \in Threads : Holding(u)' <=> Holding(u) BY <2>1 DEF TypeOK, Holding
    <3> QED BY <2>1, <3>1 DEF ExclusiveWriter
  <2>2. CASE ~writing
    <3>1. ops = {} /\ \A u \in Threads : ~Holding(u) BY <2>2 DEF ExclusiveWriter
    <3>2. \A u \in Threads : Holding(u)' <=> u = t BY <2>2, <3>1 DEF TypeOK, Holding
    <3> QED BY <2>2, <3>1, <3>2 DEF ExclusiveWriter
  <2> QED BY <2>1, <2>2
<1> QED BY <1>1, <1>2, <1>3, <1>4 DEF Inv

LEMMA SeeEmptyInv == ASSUME Inv, NEW t \in Threads, NEW p \in Writers, SeeEmpty(t, p) PROVE Inv'
<1> USE DEF Inv, SeeEmpty, netVars, queueVars
<1>1. TypeOK' BY DEF TypeOK
<1>2. Carried' /\ Owing' /\ BufferFilled'
  BY DEF TypeOK, Carried, Owing, BufferFilled, Carrying
<1>3. ExclusiveWriter' /\ WriteBufferStable'
  BY DEF TypeOK, ExclusiveWriter, WriteBufferStable, Holding
<1> QED BY <1>1, <1>2, <1>3 DEF Inv

LEMMA DequeueInv == ASSUME Inv, NEW t \in Threads, NEW p \in Writers, Dequeue(t, p) PROVE Inv'
<1> USE DEF Inv, Dequeue, Goto, Pop, ForgetScan, netVars
<1>1. TypeOK' BY FrontInCmds DEF TypeOK
<1>2. Carried' /\ Owing' /\ BufferFilled'
  BY FrontInCmds DEF TypeOK, Carried, Owing, BufferFilled, Carrying
<1>3. ExclusiveWriter' /\ WriteBufferStable'
  BY DEF TypeOK, ExclusiveWriter, WriteBufferStable, Holding
<1> QED BY <1>1, <1>2, <1>3 DEF Inv

LEMMA ReleaseInv == ASSUME Inv, NEW t \in Threads, Release(t) PROVE Inv'
<1> USE DEF Inv, Release, Return, ForgetScan, netVars, queueVars
<1>1. TypeOK' BY DEF TypeOK
<1>2. Carried' /\ Owing' /\ BufferFilled'
  BY DEF TypeOK, Carried, Owing, BufferFilled, Carrying
<1>3. ExclusiveWriter' /\ WriteBufferStable'
  BY DEF TypeOK, ExclusiveWriter, WriteBufferStable, Holding
<1> QED BY <1>1, <1>2, <1>3 DEF Inv

LEMMA SerializeInv == ASSUME Inv, NEW t \in Threads, Serialize(t) PROVE Inv'
<1> USE DEF Inv, Serialize, Goto, netVars, queueVars
<1>1. TypeOK' BY DEF TypeOK
<1>2. Carried' /\ Owing' /\ BufferFilled'
  BY DEF TypeOK, Carried, Owing, BufferFilled, Carrying, ExclusiveWriter, Holding
<1>3. ExclusiveWriter' /\ WriteBufferStable'
  BY DEF TypeOK, ExclusiveWriter, WriteBufferStable, Holding
<1> QED BY <1>1, <1>2, <1>3 DEF Inv

LEMMA StartInv == ASSUME Inv, NEW t \in Threads, Start(t) PROVE Inv'
<1> USE DEF Inv, Start, Return, netVars, queueVars
<1> DEFINE o == [cmd |-> cur[t], sent |-> 0, st |-> "pending", ec |-> "ok"]
<1>a. cur[t] \in Cmds BY DEF TypeOK, Carried, Carrying
<1>b. o \in Ops BY <1>a DEF Ops, Codes
<1>c. Initiate(o) \in Ops /\ Initiate(o).cmd = cur[t] BY <1>b, InitiateOp
<1>d. ops' = ops \cup {Initiate(o)} OBVIOUS
<1> HIDE DEF o, Initiate
<1>1. TypeOK' BY <1>c, <1>d DEF TypeOK
<1>2. Carried' /\ Owing' /\ BufferFilled'
  BY DEF TypeOK, Carried, Owing, BufferFilled, Carrying
<1>3. ExclusiveWriter' /\ WriteBufferStable'
  <2>1. ops = {} /\ \A u \in Threads : Holding(u) => u = t
    BY DEF ExclusiveWriter, Holding
  <2>2. ops' = {Initiate(o)} BY <2>1, <1>d
  <2>3. \A u \in Threads : ~Holding(u)' BY <2>1 DEF TypeOK, Holding
  <2>4. wbuf' = cur[t] BY DEF BufferFilled
  <2>5. writing' = TRUE BY DEF ExclusiveWriter, Holding, TypeOK
  <2>6. ExclusiveWriter' BY <2>2, <2>3, <2>5 DEF ExclusiveWriter
  <2>7. WriteBufferStable' BY <2>2, <2>4, <1>c DEF WriteBufferStable
  <2> QED BY <2>6, <2>7
<1> QED BY <1>1, <1>2, <1>3 DEF Inv

LEMMA ContinueInv == ASSUME Inv, NEW t \in Threads, NEW o \in ops, Continue(t, o) PROVE Inv'
<1> USE DEF Inv, Continue, Idle, netVars, queueVars, threadVars
<1>a. o \in Ops BY DEF TypeOK
<1>b. Initiate(o) \in Ops /\ Initiate(o).cmd = o.cmd BY <1>a, InitiateOp
<1>1. TypeOK' BY <1>b DEF TypeOK
<1>2. Carried' /\ Owing' /\ BufferFilled'
  BY DEF TypeOK, Carried, Owing, BufferFilled, Carrying
<1>3. ExclusiveWriter' /\ WriteBufferStable'
  <2>1. ops = {o} BY DEF ExclusiveWriter
  <2>2. \A u \in Threads : Holding(u)' <=> Holding(u) BY DEF Holding
  <2>3. ops' = {Initiate(o)} BY <2>1
  <2>4. ExclusiveWriter' BY <2>1, <2>2, <2>3 DEF ExclusiveWriter
  <2>5. WriteBufferStable' BY <2>1, <2>3, <1>b DEF WriteBufferStable
  <2> QED BY <2>4, <2>5
<1> QED BY <1>1, <1>2, <1>3 DEF Inv

LEMMA CompleteInv == ASSUME Inv, NEW t \in Threads, NEW o \in ops, Complete(t, o) PROVE Inv'
<1> USE DEF Inv, Complete, Goto, Idle, netVars, queueVars
<1>1. TypeOK' BY DEF TypeOK, Ops, Answers, Codes
<1>2. Carried' /\ Owing' /\ BufferFilled'
  BY DEF TypeOK, Carried, Owing, BufferFilled, Carrying
<1>3. ExclusiveWriter' /\ WriteBufferStable'
  BY DEF TypeOK, ExclusiveWriter, WriteBufferStable, Holding
<1> QED BY <1>1, <1>2, <1>3 DEF Inv

LEMMA CallHandlerInv == ASSUME Inv, NEW t \in Threads, CallHandler(t) PROVE Inv'
<1> USE DEF Inv, CallHandler, Goto, netVars, queueVars
<1>1. TypeOK' BY DEF TypeOK, Owing
<1>2. Carried' /\ Owing' /\ BufferFilled'
  BY DEF TypeOK, Carried, Owing, BufferFilled, Carrying
<1>3. ExclusiveWriter' /\ WriteBufferStable'
  BY DEF TypeOK, ExclusiveWriter, WriteBufferStable, Holding
<1> QED BY <1>1, <1>2, <1>3 DEF Inv

LEMMA RunPostedInv == ASSUME Inv, NEW t \in Threads, NEW c \in posted, RunPosted(t, c) PROVE Inv'
<1> USE DEF Inv, RunPosted, Idle, netVars, queueVars, threadVars
<1>1. TypeOK' BY DEF TypeOK, Answers, Codes
<1>2. Carried' /\ Owing' /\ BufferFilled'
  BY DEF TypeOK, Carried, Owing, BufferFilled, Carrying
<1>3. ExclusiveWriter' /\ WriteBufferStable'
  BY DEF TypeOK, ExclusiveWriter, WriteBufferStable, Holding
<1> QED BY <1>1, <1>2, <1>3 DEF Inv

LEMMA CloseInv == ASSUME Inv, NEW t \in Threads, Close(t) PROVE Inv'
<1> USE DEF Inv, Close, Goto, Idle, queueVars
<1>1. TypeOK' BY DEF TypeOK
<1>2. Carried' /\ Owing' /\ BufferFilled'
  BY DEF TypeOK, Carried, Owing, BufferFilled, Carrying
<1>3. ExclusiveWriter' /\ WriteBufferStable'
  BY DEF TypeOK, ExclusiveWriter, WriteBufferStable, Holding
<1> QED BY <1>1, <1>2, <1>3 DEF Inv

LEMMA DrainInv == ASSUME Inv, NEW t \in Threads, NEW p \in Writers, Drain(t, p) PROVE Inv'
<1> USE DEF Inv, Drain, Pop, ForgetScan, netVars
<1>1. TypeOK' BY FrontInCmds DEF TypeOK
<1>2. Carried' /\ Owing' /\ BufferFilled'
  BY DEF TypeOK, Carried, Owing, BufferFilled, Carrying
<1>3. ExclusiveWriter' /\ WriteBufferStable'
  BY DEF TypeOK, ExclusiveWriter, WriteBufferStable, Holding
<1> QED BY <1>1, <1>2, <1>3 DEF Inv

LEMMA ShutInv == ASSUME Inv, NEW t \in Threads, Shut(t) PROVE Inv'
<1> USE DEF Inv, Shut, Goto, ForgetScan, queueVars
<1>a. \A o \in ops : o \in Ops BY DEF TypeOK
<1>b. \A o \in ops : Aborted(o) \in Ops /\ (Aborted(o).st # "done" => Aborted(o) = o)
  BY <1>a, AbortOp DEF Aborted, Ops
<1>c. ops' = {Aborted(o) : o \in ops} OBVIOUS
<1>1. TypeOK' BY <1>b, <1>c DEF TypeOK
<1>2. Carried' /\ Owing' /\ BufferFilled'
  BY DEF TypeOK, Carried, Owing, BufferFilled, Carrying
<1>3. ExclusiveWriter' /\ WriteBufferStable'
  <2>1. \A u \in Threads : Holding(u)' <=> Holding(u) BY DEF Holding, TypeOK
  <2>2. ops' = {} <=> ops = {} BY <1>c
  <2>3. ExclusiveWriter' BY <2>1, <2>2, <1>c DEF ExclusiveWriter
  <2>4. WriteBufferStable' BY <1>b, <1>c DEF WriteBufferStable
  <2> QED BY <2>3, <2>4
<1> QED BY <1>1, <1>2, <1>3 DEF Inv

LEMMA ShutdownInv == ASSUME Inv, NEW t \in Threads, Shutdown(t) PROVE Inv'
<1> USE DEF Inv, Shutdown, Goto, queueVars
<1>1. TypeOK' BY DEF TypeOK
<1>2. Carried' /\ Owing' /\ BufferFilled'
  BY DEF TypeOK, Carried, Owing, BufferFilled, Carrying
<1>3. ExclusiveWriter' /\ WriteBufferStable'
  BY DEF TypeOK, ExclusiveWriter, WriteBufferStable, Holding
<1> QED BY <1>1, <1>2, <1>3 DEF Inv

LEMMA OpenAsyncInv == ASSUME Inv, NEW t \in Threads, OpenAsync(t) PROVE Inv'
<1> USE DEF Inv, OpenAsync, Idle, queueVars, threadVars
<1>1. TypeOK' BY DEF TypeOK
<1>2. Carried' /\ Owing' /\ BufferFilled'
  BY DEF TypeOK, Carried, Owing, BufferFilled, Carrying
<1>3. ExclusiveWriter' /\ WriteBufferStable'
  BY DEF TypeOK, ExclusiveWriter, WriteBufferStable, Holding
<1> QED BY <1>1, <1>2, <1>3 DEF Inv

LEMMA NetSendInv == ASSUME Inv, NEW o \in ops, NEW n \in 1..Parts, NetSend(o, n) PROVE Inv'
<1> USE DEF Inv, NetSend, queueVars, threadVars
<1> DEFINE q == [o EXCEPT !.sent = @ + n, !.st = IF o.sent + n = Parts THEN "done" ELSE "more"]
           more == [i \in 1..n |-> [conn |-> conn, cmd |-> wbuf, part |-> o.sent + i]]
<1>a. o \in Ops /\ wbuf = o.cmd BY DEF TypeOK, WriteBufferStable
<1>b. q \in Ops /\ q.cmd = o.cmd
  <2> DEFINE f == IF o.sent + n = Parts THEN "done" ELSE "more"
             s == o.sent + n
  <2>1. s \in 0..Parts BY <1>a DEF Ops
  <2>2. f \in {"pending", "more", "done"} OBVIOUS
  <2>3. q = [o EXCEPT !.sent = s, !.st = f] OBVIOUS
  <2> HIDE DEF q, s, f, NetSend
  <2> QED BY <1>a, <2>1, <2>2, <2>3 DEF Ops
<1>c. ops' = (ops \ {o}) \cup {q} /\ wire' = wire \o more OBVIOUS
<1>d. more \in Seq(Pieces)
  <2>1. \A i \in 1..n : [conn |-> conn, cmd |-> wbuf, part |-> o.sent + i] \in Pieces
    BY <1>a DEF TypeOK, Ops, Pieces
  <2>2. n \in Nat BY DEF TypeOK
  <2>3. more \in [1..n -> Pieces] BY <2>1
  <2> QED BY <2>2, <2>3, SeqDef
<1> HIDE DEF q, more
<1>e. wire' \in Seq(Pieces)
  <2> HIDE DEF NetSend
  <2>1. wire \in Seq(Pieces) BY DEF TypeOK
  <2> QED BY <2>1, <1>c, <1>d, ConcatProperties
<1>1. TypeOK' BY <1>b, <1>c, <1>e DEF TypeOK
<1>2. Carried' /\ Owing' /\ BufferFilled'
  BY DEF TypeOK, Carried, Owing, BufferFilled, Carrying
<1>3. ExclusiveWriter' /\ WriteBufferStable'
  <2>1. ops = {o} BY DEF ExclusiveWriter
  <2>2. \A u \in Threads : Holding(u)' <=> Holding(u) BY DEF Holding
  <2>3. ops' = {q} BY <2>1, <1>c
  <2>4. ExclusiveWriter' BY <2>1, <2>2, <2>3 DEF ExclusiveWriter
  <2>5. WriteBufferStable' BY <2>1, <2>3, <1>b DEF WriteBufferStable
  <2> QED BY <2>4, <2>5
<1> QED BY <1>1, <1>2, <1>3 DEF Inv

LEMMA NetFailInv == ASSUME Inv, NEW o \in ops, NetFail(o) PROVE Inv'
<1> USE DEF Inv, NetFail, queueVars, threadVars, netVars
<1>a. o \in Ops BY DEF TypeOK
<1>b. [o EXCEPT !.st = "done", !.ec = "failed"] \in Ops BY <1>a, AbortOp
<1>1. TypeOK' BY <1>b DEF TypeOK
<1>2. Carried' /\ Owing' /\ BufferFilled'
  BY DEF TypeOK, Carried, Owing, BufferFilled, Carrying
<1>3. ExclusiveWriter' /\ WriteBufferStable'
  <2>1. ops = {o} BY DEF ExclusiveWriter
  <2>2. \A u \in Threads : Holding(u)' <=> Holding(u) BY DEF Holding
  <2>3. ops' = {[o EXCEPT !.st = "done", !.ec = "failed"]} BY <2>1
  <2>4. ExclusiveWriter' BY <2>1, <2>2, <2>3 DEF ExclusiveWriter
  <2>5. WriteBufferStable' BY <2>1, <2>3, <1>a DEF WriteBufferStable, Ops
  <2> QED BY <2>4, <2>5
<1> QED BY <1>1, <1>2, <1>3 DEF Inv

LEMMA NetworkInv == ASSUME Inv, Connected \/ Reset PROVE Inv'
<1> USE DEF Inv, Connected, Reset, queueVars, threadVars
<1>1. TypeOK' BY DEF TypeOK
<1>2. Carried' /\ Owing' /\ BufferFilled'
  BY DEF TypeOK, Carried, Owing, BufferFilled, Carrying
<1>3. ExclusiveWriter' /\ WriteBufferStable'
  BY DEF TypeOK, ExclusiveWriter, WriteBufferStable, Holding
<1> QED BY <1>1, <1>2, <1>3 DEF Inv

-----------------------------------------------------------------------------
LEMMA NextInv == ASSUME Inv, [Next]_vars PROVE Inv'
<1>1. CASE UNCHANGED vars
  BY <1>1 DEF Inv, vars, TypeOK, Carried, Owing, BufferFilled, Carrying,
              ExclusiveWriter, WriteBufferStable, Holding
<1>2. ASSUME NEW t \in Threads, CallStep(t) PROVE Inv'
  BY <1>2, WriteAsyncInv, CloseInv, OpenAsyncInv DEF CallStep
<1>3. ASSUME NEW t \in Threads, ThreadStep(t) PROVE Inv'
  <2>1. ASSUME NEW p \in Writers, SeeEmpty(t, p) \/ Dequeue(t, p) \/ Drain(t, p) PROVE Inv'
    BY <2>1, SeeEmptyInv, DequeueInv, DrainInv
  <2> QED
    BY <1>3, <2>1, ExchangeInv, ReleaseInv, SerializeInv, StartInv, CallHandlerInv, ShutInv,
       ShutdownInv
    DEF ThreadStep, MethodStep
<1>4. ASSUME NEW t \in Threads, IoTask(t) PROVE Inv'
  BY <1>4, ContinueInv, CompleteInv, RunPostedInv DEF IoTask
<1>5. ASSUME NetStep \/ Reset PROVE Inv'
  BY <1>5, NetSendInv, NetFailInv, NetworkInv DEF NetStep, SendStep
<1> QED BY <1>1, <1>2, <1>3, <1>4, <1>5 DEF Next

\* The invariant holds in every reachable state of any instance.
THEOREM Invariance == Spec => []Inv
BY InitInv, NextInv, PTL DEF Spec

\* Type correctness: in particular no thread dequeues past what was enqueued,
\* hands an empty command to async_write or runs an empty handler.
THEOREM TypeCorrect == Spec => []TypeOK
BY Invariance, PTL DEF Inv

\* The exchange on _writing (socket.cpp:86) makes one thread at a time the
\* writer and keeps every thread out while an asynchronous write is
\* unfinished, across close(), reconnection and failed writes.
THEOREM WriterIsExclusive == Spec => []ExclusiveWriter
BY Invariance, PTL DEF Inv

\* _write_buff is never overwritten under an unfinished async_write
\* (socket.cpp:95-99).
THEOREM BufferIsStable == Spec => []WriteBufferStable
BY Invariance, PTL DEF Inv
-----------------------------------------------------------------------------
(* Whose hands a command is in *)

\* A command is carried by write_next_async (socket.cpp:90-95), an asynchronous
\* write has it (97-99), or a completion lambda has yet to call its handler
\* (100-103).
InWriter(c) == \E t \in Threads : cur[t] = c
InOp(c) == \E o \in ops : o.cmd = c
Owes(t, c) == owed[t] # NoAnswer /\ owed[t].cmd = c
InOwed(c) == \E t \in Threads : Owes(t, c)

\* A command that has left the queue is in one of these places, is posted by
\* close(), or is answered; and nothing is twice where there could be two of it.
\* That the writer has one command, and that there is one operation, is
\* ExclusiveWriter's.
Placed ==
  /\ \A c \in Cmds : Taken(c) <=> InWriter(c) \/ InOp(c) \/ InOwed(c) \/ c \in posted \/ Answered(c)
  /\ \A c \in Cmds :
       /\ InWriter(c) => ~InOp(c) /\ ~InOwed(c) /\ c \notin posted /\ ~Answered(c)
       /\ InOp(c) => ~InOwed(c) /\ c \notin posted /\ ~Answered(c)
       /\ InOwed(c) => c \notin posted /\ ~Answered(c)
       /\ c \in posted => ~Answered(c)
  /\ \A c \in Cmds : \A t, u \in Threads : Owes(t, c) /\ Owes(u, c) => t = u
  /\ \A i, j \in DOMAIN log : log[i].cmd = log[j].cmd => i = j

\* A thread that is not in a completion lambda owes no answer, so that the
\* answer it takes on (socket.cpp:100-103) replaces none.
Unowing == \A t \in Threads : pc[t] \in {"idle", "drain", "closing"} => owed[t] = NoAnswer

\* Only a thread of the io_context runs a completion lambda.
OwedByIo == \A t \in Threads : owed[t] # NoAnswer => t \in IoThreads

\* Who drains the queue or closes the descriptor has called close()
\* (socket.cpp:107-121).
ClosersClose ==
  /\ \A t \in Threads : pc[t] \in {"drain", "closing"} => t \in Closers /\ closes > 0
  /\ sock = "closing" => \E t \in Threads : pc[t] = "closing"
-----------------------------------------------------------------------------
(* What has been sent *)

Last == wire[Len(wire)]

\* A connection that can carry the next PDU: the last one sent is whole, or was
\* sent on an earlier connection.
Clean ==
  sock \in {"connecting", "connected"} /\ Len(wire) > 0 => Last.part = Parts \/ Last.conn < conn

\* The wire ends with the pieces of the operation under way.  When none has
\* begun, the connection is clean: a write that failed half way left one that
\* sends nothing more.
WireEnd ==
  /\ \A i \in DOMAIN wire : wire[i].conn <= conn
  /\ \A o \in ops : o.sent > 0 => Len(wire) > 0 /\ Last.cmd = o.cmd /\ Last.part = o.sent
  /\ (\A o \in ops : o.st # "done" => o.sent = 0) => Clean

\* A PDU begins where another has ended, or on a new connection, and nothing comes
\* between its pieces, on whichever connections they are.
PiecesFollow ==
  \A i \in DOMAIN wire :
    \/ wire[i].part = 1 /\ (i = 1 \/ wire[i-1].part = Parts \/ wire[i-1].conn # wire[i].conn)
    \/ i > 1 /\ wire[i].cmd = wire[i-1].cmd /\ wire[i].part = wire[i-1].part + 1

Unsent(c) == PartsOnWire(c) = {}

\* Nothing is sent of a command that no asynchronous write has had, whether it
\* is still to be written or was cancelled by close().
SentByWriter ==
  /\ \A c \in Cmds : ~Taken(c) \/ InWriter(c) \/ c \in posted => Unsent(c)
  /\ \A j \in DOMAIN log : log[j].ec = "canceled" => Unsent(log[j].cmd)
  /\ \A t \in Threads : owed[t] # NoAnswer => owed[t].ec # "canceled"
  /\ \A o \in ops : o.ec # "canceled"

\* An asynchronous write has sent as many of its pieces as it counts, from the
\* first on.
SentParts(c) == {wire[j].part : j \in PartsOnWire(c)}
Progress == \A o \in ops : SentParts(o.cmd) = 1..o.sent

\* Who succeeds, is about to say so or has said so has sent all of its PDU.
Success ==
  Unraced =>
    /\ \A o \in ops : o.st = "done" /\ o.ec = "ok" => o.sent = Parts
    /\ \A t \in Threads : owed[t] # NoAnswer /\ owed[t].ec = "ok" => SentParts(owed[t].cmd) = 1..Parts
    /\ \A i \in DOMAIN log : log[i].ec = "ok" => SentParts(log[i].cmd) = 1..Parts

\* What handlers were told of success, what a lambda is about to tell one, and
\* what is under way stand on the wire in this order.
Before(c, d) == \A m \in PartsOnWire(c), n \in PartsOnWire(d) : m < n
Succeeded(a) == a # NoAnswer /\ a.ec = "ok"
Logs == \A i, j \in DOMAIN log : i < j /\ log[i].ec = "ok" /\ log[j].ec = "ok" => Before(log[i].cmd, log[j].cmd)
LogOwed == \A i \in DOMAIN log, t \in Threads : log[i].ec = "ok" /\ Succeeded(owed[t]) => Before(log[i].cmd, owed[t].cmd)
LogOp == \A i \in DOMAIN log, o \in ops : log[i].ec = "ok" => Before(log[i].cmd, o.cmd)
OwedOp == \A t \in Threads, o \in ops : Succeeded(owed[t]) => Before(owed[t].cmd, o.cmd)
Order == OneIo => Logs /\ LogOwed /\ LogOp /\ OwedOp

\* When the application opens the socket at rest: a write that is not over has sent
\* what it has sent on this connection, and none waits on a closed socket.
Here == \A o \in ops : o.st # "done" => \A j \in PartsOnWire(o.cmd) : wire[j].conn = conn
Unwaited ==
  /\ sock \in {"closed", "closing"} => \A o \in ops : o.st # "pending"
  /\ \A t \in Threads : pc[t] = "closing" => sock = "closing"
  /\ \A t, u \in Threads : pc[t] = "closing" /\ pc[u] = "closing" => t = u

\* The inductive invariant.
History == /\ Placed /\ Unowing /\ OwedByIo /\ ClosersClose
           /\ WireEnd /\ SentByWriter /\ Progress /\ Success /\ Order
-----------------------------------------------------------------------------
(* Commands pass from hand to hand *)

\* What the steps below need of the types.
LEMMA Typed ==
  ASSUME Inv
  PROVE  /\ cur \in [Threads -> Cmds \cup {NoCmd}]
         /\ owed \in [Threads -> Answers \cup {NoAnswer}]
         /\ ops \subseteq Ops /\ posted \subseteq Cmds
         /\ \A o \in ops : o.cmd \in Cmds
         /\ \A a \in Answers : a.cmd \in Cmds /\ a.ec \in Codes
BY DEF Inv, TypeOK, Ops, Answers

\* Commands that stay where they are.
LEMMA StillPlaced ==
  ASSUME Placed, UNCHANGED <<deq, cur, owed, posted, log>>, \A c \in Cmds : InOp(c)' <=> InOp(c)
  PROVE  Placed'
BY DEF Placed, Taken, InWriter, InOwed, Owes, Answered

\* try_dequeue takes a command from the queue.
LEMMA Popped ==
  ASSUME TypeOK, NEW p \in Writers, NonEmpty(p), Pop(p)
  PROVE  /\ Front(p) \in Cmds /\ ~Taken(Front(p))
         /\ \A c \in Cmds : Taken(c)' <=> Taken(c) \/ c = Front(p)
<1>1. Front(p) \in Cmds BY FrontInCmds
<1>2. deq \in [Writers -> Nat] BY DEF TypeOK
<1>3. ~Taken(Front(p)) BY <1>2 DEF Taken, Front
<1>4. ASSUME NEW c \in Cmds
      PROVE  Taken(c)' <=> Taken(c) \/ c = Front(p)
  <2>1. c[1] \in Writers /\ c[2] \in Nat /\ c = <<c[1], c[2]>> BY DEF Cmds
  <2>2. CASE c[1] = p
    <3>1. deq'[c[1]] = deq[p] + 1 BY <1>2, <2>2 DEF Pop
    <3>2. c = Front(p) <=> c[2] = deq[p] + 1 BY <2>1, <2>2 DEF Front
    <3> QED BY <1>2, <2>1, <2>2, <3>1, <3>2 DEF Taken
  <2>3. CASE c[1] # p
    BY <1>2, <2>1, <2>3 DEF Pop, Taken, Front
  <2> QED BY <2>2, <2>3
<1> QED BY <1>1, <1>3, <1>4

\* try_dequeue hands a command to write_next_async (socket.cpp:90).
LEMMA DequeuePlaced ==
  ASSUME Inv, Placed, NEW t \in Threads, NEW p \in Writers, Dequeue(t, p)
  PROVE  Placed'
<1> DEFINE d == Front(p)
<1>1. d \in Cmds /\ ~Taken(d) /\ \A c \in Cmds : Taken(c)' <=> Taken(c) \/ c = d
  BY Popped DEF Dequeue, Inv
<1>2. cur[t] = NoCmd /\ cur' = [cur EXCEPT ![t] = d]
  BY Typed DEF Dequeue, Inv, Carried, Carrying
<1> HIDE DEF d
<1>3. \A c \in Cmds : InWriter(c)' <=> InWriter(c) \/ c = d
  BY <1>1, <1>2, Typed DEF InWriter
<1>4. UNCHANGED <<ops, owed, posted, log>> BY DEF Dequeue, netVars
<1> QED BY <1>1, <1>3, <1>4 DEF Placed, InOp, InOwed, Owes, Answered

\* async_write takes it over (socket.cpp:97-99).
LEMMA StartPlaced ==
  ASSUME Inv, Placed, NEW t \in Threads, Start(t)
  PROVE  Placed'
<1> DEFINE d == cur[t]
           o == [cmd |-> d, sent |-> 0, st |-> "pending", ec |-> "ok"]
<1>1. d \in Cmds BY Typed DEF Start, Inv, Carried, Carrying
<1>2. o \in Ops BY <1>1 DEF Ops, Codes
<1>3. Initiate(o).cmd = d BY <1>2, InitiateOp
<1>4. ops' = ops \cup {Initiate(o)} /\ cur' = [cur EXCEPT ![t] = NoCmd] BY DEF Start
<1>5. UNCHANGED <<deq, owed, posted, log>> BY DEF Start, queueVars, netVars
<1> HIDE DEF o
<1>6. \A c \in Cmds : InOp(c)' <=> InOp(c) \/ c = d BY <1>3, <1>4 DEF InOp
<1>7. \A u \in Threads : cur[u] = d => u = t
  BY <1>1 DEF Inv, Carried, Carrying, ExclusiveWriter, Holding, Start
<1>8. \A c \in Cmds : InWriter(c)' <=> InWriter(c) /\ c # d BY <1>4, <1>7, Typed DEF InWriter
<1>9. InWriter(d) BY DEF InWriter
<1> HIDE DEF d
<1> QED BY <1>1, <1>5, <1>6, <1>8, <1>9 DEF Placed, InOwed, Owes, Answered, Taken

\* The completion lambda owes the command's answer (socket.cpp:100-103).
LEMMA CompletePlaced ==
  ASSUME Inv, Placed, Unowing, NEW t \in Threads, NEW o \in ops, Complete(t, o)
  PROVE  Placed'
<1> DEFINE a == [cmd |-> o.cmd, ec |-> o.ec]
<1>1. o.cmd \in Cmds /\ a \in Answers BY Typed DEF Ops, Answers
<1>2. owed[t] = NoAnswer BY DEF Complete, Idle, Unowing
<1>3. owed' = [owed EXCEPT ![t] = a] /\ a # NoAnswer /\ a.cmd = o.cmd BY <1>1 DEF Complete
<1>4. UNCHANGED <<deq, cur, posted, log>> BY DEF Complete, queueVars, netVars
<1> HIDE DEF a
<1>5. \A u \in Threads, c \in Cmds : Owes(u, c)' <=> Owes(u, c) \/ (u = t /\ c = o.cmd)
  BY <1>1, <1>2, <1>3, Typed DEF Owes
<1>6. \A c \in Cmds : InOwed(c)' <=> InOwed(c) \/ c = o.cmd BY <1>5 DEF InOwed
<1>7. \A c \in Cmds : InOp(c)' <=> InOp(c) /\ c # o.cmd
  BY DEF Complete, InOp, ExclusiveWriter, Inv
<1>8. InOp(o.cmd) BY DEF InOp
<1>9. \A u, v \in Threads, c \in Cmds : Owes(u, c)' /\ Owes(v, c)' => u = v
  BY <1>1, <1>5, <1>8 DEF Placed, InOwed
<1> QED BY <1>1, <1>4, <1>6, <1>7, <1>8, <1>9 DEF Placed, InWriter, Answered, Taken

\* The log after another handler call.
LEMMA Logged ==
  ASSUME TypeOK, NEW a \in Answers, log' = Append(log, a)
  PROVE  /\ DOMAIN log' = DOMAIN log \cup {Len(log) + 1} /\ Len(log) + 1 \notin DOMAIN log
         /\ \A i \in DOMAIN log : log'[i] = log[i] /\ i < Len(log) + 1
         /\ log'[Len(log) + 1] = a
         /\ \A c \in Cmds : Answered(c)' <=> Answered(c) \/ c = a.cmd
<1>1. log \in Seq(Answers) BY DEF TypeOK
<1>2. Len(log) \in Nat /\ DOMAIN log = 1..Len(log) BY <1>1, LenProperties
<1>3. /\ DOMAIN log' = 1..(Len(log) + 1)
      /\ \A i \in 1..Len(log) : log'[i] = log[i]
      /\ log'[Len(log) + 1] = a
  BY <1>1, <1>2
<1>4. DOMAIN log' = DOMAIN log \cup {Len(log) + 1} /\ Len(log) + 1 \notin DOMAIN log
  BY <1>2, <1>3
<1>5. \A i \in DOMAIN log : log'[i] = log[i] /\ i < Len(log) + 1 BY <1>2, <1>3
<1>6. \A c \in Cmds : Answered(c)' <=> Answered(c) \/ c = a.cmd
  BY <1>3, <1>4, <1>5 DEF Answered
<1> QED BY <1>3, <1>4, <1>5, <1>6

\* A handler that was not called yet is now called once.
LEMMA LoggedOnce ==
  ASSUME TypeOK, Placed, NEW a \in Answers, log' = Append(log, a), ~Answered(a.cmd)
  PROVE  \A i, j \in DOMAIN log' : log'[i].cmd = log'[j].cmd => i = j
BY Logged DEF Placed, Answered

\* The lambda calls the handler (socket.cpp:103).
LEMMA CallHandlerPlaced ==
  ASSUME Inv, Placed, NEW t \in Threads, CallHandler(t)
  PROVE  Placed'
<1> DEFINE a == owed[t]
           d == a.cmd
<1>1. a \in Answers /\ d \in Cmds BY Typed DEF CallHandler, Inv, Owing
<1>2. log' = Append(log, a) BY DEF CallHandler
<1>3. Owes(t, d) BY <1>1 DEF Owes
<1>4. \A u \in Threads, c \in Cmds : Owes(u, c)' <=> Owes(u, c) /\ u # t
  BY Typed DEF Owes, CallHandler
<1>5. \A c \in Cmds : InOwed(c)' <=> InOwed(c) /\ c # d
  BY <1>1, <1>3, <1>4 DEF InOwed, Placed, Owes
<1>6. InOwed(d) BY <1>3 DEF InOwed
<1> HIDE DEF a
<1>7. \A c \in Cmds : Answered(c)' <=> Answered(c) \/ c = d BY <1>1, <1>2, Logged DEF Inv
<1>8. \A i, j \in DOMAIN log' : log'[i].cmd = log'[j].cmd => i = j
  BY <1>1, <1>2, <1>6, LoggedOnce DEF Placed, Inv
<1>9. UNCHANGED <<deq, cur, ops, posted>> BY DEF CallHandler, queueVars, netVars
<1>10. \A u, v \in Threads, c \in Cmds : Owes(u, c)' /\ Owes(v, c)' => u = v
  BY <1>4 DEF Placed
<1> HIDE DEF d
<1> QED BY <1>1, <1>5, <1>6, <1>7, <1>8, <1>9, <1>10 DEF Placed, InWriter, InOp, Taken

\* A handler posted by close() is called (socket.cpp:110-112).
LEMMA RunPostedPlaced ==
  ASSUME Inv, Placed, NEW t \in Threads, NEW d \in posted, RunPosted(t, d)
  PROVE  Placed'
<1> DEFINE a == [cmd |-> d, ec |-> "canceled"]
<1>1. a \in Answers /\ d \in Cmds /\ a.cmd = d BY Typed DEF Answers, Codes
<1>2. log' = Append(log, a) BY DEF RunPosted
<1> HIDE DEF a
<1>3. \A c \in Cmds : Answered(c)' <=> Answered(c) \/ c = d BY <1>1, <1>2, Logged DEF Inv
<1>4. \A i, j \in DOMAIN log' : log'[i].cmd = log'[j].cmd => i = j
  BY <1>1, <1>2, LoggedOnce DEF Placed, Inv
<1>5. UNCHANGED <<deq, cur, owed, ops>> /\ posted' = posted \ {d}
  BY DEF RunPosted, queueVars, netVars, threadVars
<1> QED BY <1>1, <1>3, <1>4, <1>5 DEF Placed, InWriter, InOp, Taken, InOwed, Owes

\* close() posts the handler of a queued command (socket.cpp:109-113).
LEMMA DrainPlaced ==
  ASSUME Inv, Placed, NEW t \in Threads, NEW p \in Writers, Drain(t, p)
  PROVE  Placed'
<1> DEFINE d == Front(p)
<1>1. d \in Cmds /\ ~Taken(d) /\ \A c \in Cmds : Taken(c)' <=> Taken(c) \/ c = d
  BY Popped DEF Drain, Inv
<1>2. UNCHANGED <<cur, ops, owed, log>> /\ posted' = posted \cup {d} BY DEF Drain, netVars
<1> HIDE DEF d
<1> QED BY <1>1, <1>2 DEF Placed, InWriter, InOp, InOwed, Owes, Answered

\* Steps of the operation on the wire keep its command.
LEMMA OpsKeep ==
  ASSUME Inv, NEW o \in ops,
         \/ \E t \in Threads : Continue(t, o) \/ Shut(t)
         \/ NetFail(o) \/ \E n \in 1..Parts : NetSend(o, n)
  PROVE  \A c \in Cmds : InOp(c)' <=> InOp(c)
<1>1. ops \subseteq Ops /\ o \in Ops BY Typed
<1>2. ASSUME NEW t \in Threads, Continue(t, o)
      PROVE  \A c \in Cmds : InOp(c)' <=> InOp(c)
  BY <1>1, <1>2, InitiateOp DEF Continue, InOp
<1>3. ASSUME NEW t \in Threads, Shut(t)
      PROVE  \A c \in Cmds : InOp(c)' <=> InOp(c)
  <2>1. \A q \in ops : Aborted(q).cmd = q.cmd BY <1>1 DEF Aborted, Ops
  <2>2. ops' = {Aborted(q) : q \in ops} BY <1>3 DEF Shut
  <2> QED BY <2>1, <2>2 DEF InOp
<1>4. CASE NetFail(o)
  <2>1. [o EXCEPT !.st = "done", !.ec = "failed"].cmd = o.cmd BY <1>1 DEF Ops
  <2> QED BY <1>4, <2>1 DEF NetFail, InOp
<1>5. ASSUME NEW n \in 1..Parts, NetSend(o, n)
      PROVE  \A c \in Cmds : InOp(c)' <=> InOp(c)
  <2> DEFINE q == [o EXCEPT !.sent = @ + n, !.st = IF o.sent + n = Parts THEN "done" ELSE "more"]
  <2>1. q.cmd = o.cmd BY <1>1 DEF Ops
  <2>2. ops' = (ops \ {o}) \cup {q} BY <1>5 DEF NetSend
  <2> HIDE DEF q
  <2> QED BY <2>1, <2>2 DEF InOp
<1> QED BY <1>2, <1>3, <1>4, <1>5

\* Threads that have nothing to answer owe nothing.
LEMMA UnowingStep == ASSUME Inv, Unowing, [Next]_vars PROVE Unowing'
<1>1. CASE UNCHANGED vars
  BY <1>1 DEF vars, Unowing
<1>2. ASSUME NEW t \in Threads, CallStep(t)
      PROVE  Unowing'
  BY <1>2 DEF CallStep, WriteAsync, Close, OpenAsync, Idle, Goto, threadVars, Inv, TypeOK, Unowing
<1>3. ASSUME NEW t \in Threads, Exchange(t) \/ Release(t) \/ Serialize(t) \/ Start(t)
      PROVE  Unowing'
  BY <1>3 DEF Exchange, Release, Serialize, Start, Return, Goto, Inv, TypeOK, Unowing
<1>4. ASSUME NEW t \in Threads, CallHandler(t) \/ Shut(t) \/ Shutdown(t)
      PROVE  Unowing'
  BY <1>4 DEF CallHandler, Shut, Shutdown, Goto, Inv, TypeOK, Unowing
<1>5. ASSUME NEW t \in Threads, NEW p \in Writers, SeeEmpty(t, p) \/ Dequeue(t, p) \/ Drain(t, p)
      PROVE  Unowing'
  BY <1>5 DEF SeeEmpty, Dequeue, Drain, Goto, Inv, TypeOK, Unowing
<1>6. ASSUME NEW t \in Threads, IoTask(t)
      PROVE  Unowing'
  BY <1>6 DEF IoTask, Continue, Complete, RunPosted, Idle, Goto, threadVars, Inv, TypeOK, Unowing
<1>7. CASE NetStep \/ Reset
  BY <1>7 DEF NetStep, SendStep, NetSend, NetFail, Connected, Reset, threadVars, Unowing
<1> QED
  BY <1>1, <1>2, <1>3, <1>4, <1>5, <1>6, <1>7 DEF Next, ThreadStep, MethodStep

\* Every step leaves each command in one place.
LEMMA PlacedStep == ASSUME Inv, Unowing, Placed, [Next]_vars PROVE Placed'
<1> DEFINE Still == UNCHANGED <<deq, cur, ops, owed, posted, log>>
<1>1. CASE Still
  BY <1>1, StillPlaced DEF InOp
<1>2. CASE UNCHANGED vars
  BY <1>1, <1>2 DEF vars
<1>3. ASSUME NEW t \in Threads, CallStep(t)
      PROVE  Placed'
  <2>1. Still BY <1>3 DEF CallStep, WriteAsync, Close, OpenAsync, threadVars, queueVars
  <2> QED BY <1>1, <2>1
<1>4. ASSUME NEW t \in Threads, ThreadStep(t)
      PROVE  Placed'
  <2>1. CASE Exchange(t) \/ Release(t) \/ Serialize(t) \/ Shutdown(t)
    <3>1. Still BY <2>1 DEF Exchange, Release, Serialize, Shutdown, queueVars
    <3> QED BY <1>1, <3>1
  <2>2. ASSUME NEW p \in Writers, SeeEmpty(t, p) \/ Dequeue(t, p) \/ Drain(t, p)
        PROVE  Placed'
    <3>1. CASE SeeEmpty(t, p)
      <4>1. Still BY <3>1 DEF SeeEmpty, queueVars
      <4> QED BY <1>1, <4>1
    <3> QED BY <2>2, <3>1, DequeuePlaced, DrainPlaced
  <2>3. CASE Shut(t)
    <3>1. UNCHANGED <<deq, cur, owed, posted, log>> BY <2>3 DEF Shut, queueVars
    <3>2. CASE ops = {}
      <4>1. ops' = {} BY <2>3, <3>2 DEF Shut
      <4> QED BY <1>1, <3>1, <3>2, <4>1
    <3>3. CASE ops # {}
      BY <2>3, <3>1, <3>3, OpsKeep, StillPlaced
    <3> QED BY <3>2, <3>3
  <2> QED BY <1>4, <2>1, <2>2, <2>3, StartPlaced, CallHandlerPlaced DEF ThreadStep, MethodStep
<1>5. ASSUME NEW t \in Threads, IoTask(t)
      PROVE  Placed'
  <2>1. ASSUME NEW o \in ops, Continue(t, o)
        PROVE  Placed'
    BY <2>1, OpsKeep, StillPlaced DEF Continue, queueVars, threadVars
  <2> QED BY <1>5, <2>1, CompletePlaced, RunPostedPlaced DEF IoTask
<1>6. CASE Connected \/ Reset
  <2>1. Still BY <1>6 DEF Connected, Reset, queueVars, threadVars
  <2> QED BY <1>1, <2>1
<1>7. CASE SendStep
  <2>1. PICK o \in ops : NetFail(o) \/ \E n \in 1..Parts : NetSend(o, n) BY <1>7 DEF SendStep
  <2>2. \A c \in Cmds : InOp(c)' <=> InOp(c)
    BY <2>1, OpsKeep
  <2> QED BY <2>1, <2>2, StillPlaced DEF NetFail, NetSend, queueVars, threadVars
<1> QED
  BY <1>2, <1>3, <1>4, <1>5, <1>6, <1>7 DEF Next, NetStep

\* No handler is lost between the two consumers of the queue, and none is run twice
\* (socket.cpp:83-113): a command that has left the queue has one owner.
LEMMA PlacedOwner == ASSUME Inv, Placed PROVE OneOwner
<1> SUFFICES ASSUME NEW c \in Cmds
             PROVE  LET owners == {<<"writer", t>> : t \in {t \in Threads : Carrying(t) /\ cur[t] = c}}
            \cup {<<"op", o>> : o \in {o \in ops : o.cmd = c}}
            \cup {<<"owed", t>> : t \in {t \in Threads : owed[t] # NoAnswer /\ owed[t].cmd = c}}
            \cup {<<"posted", x>> : x \in posted \cap {c}}
            \cup {<<"log", i>> : i \in {i \in DOMAIN log : log[i].cmd = c}}
                    IN Cardinality(owners) = IF c[2] <= deq[c[1]] THEN 1 ELSE 0
  BY DEF OneOwner
<1> DEFINE writers == {t \in Threads : Carrying(t) /\ cur[t] = c}
           holders == {o \in ops : o.cmd = c}
           debtors == {t \in Threads : owed[t] # NoAnswer /\ owed[t].cmd = c}
           functions == posted \cap {c}
           entries == {i \in DOMAIN log : log[i].cmd = c}
           owners == {<<"writer", t>> : t \in writers} \cup {<<"op", o>> : o \in holders}
                     \cup {<<"owed", t>> : t \in debtors} \cup {<<"posted", x>> : x \in functions}
                     \cup {<<"log", i>> : i \in entries}
<1>1. /\ writers # {} <=> InWriter(c)
      /\ \A t, u \in writers : t = u
  BY DEF InWriter, Inv, Carried, Carrying, ExclusiveWriter, Holding
<1>2. /\ holders # {} <=> InOp(c)
      /\ \A o, q \in holders : o = q
  BY DEF InOp, Inv, ExclusiveWriter
<1>3. /\ debtors # {} <=> InOwed(c)
      /\ \A t, u \in debtors : t = u
  BY DEF InOwed, Owes, Placed
<1>4. /\ functions # {} <=> c \in posted
      /\ \A x, y \in functions : x = y
  OBVIOUS
<1>5. /\ entries # {} <=> Answered(c)
      /\ \A i, j \in entries : i = j
  BY DEF Answered, Placed
<1> HIDE DEF writers, holders, debtors, functions, entries
<1>6. CASE Taken(c)
  <2>1. \E x : owners = {x}
    <3>1. CASE InWriter(c)
      <4>1. PICK t \in writers : writers = {t} BY <1>1, <3>1
      <4>2. owners = {<<"writer", t>>} BY <1>2, <1>3, <1>4, <1>5, <3>1, <4>1 DEF Placed
      <4> QED BY <4>2
    <3>2. CASE InOp(c)
      <4>1. PICK o \in holders : holders = {o} BY <1>2, <3>2
      <4>2. owners = {<<"op", o>>} BY <1>1, <1>3, <1>4, <1>5, <3>2, <4>1 DEF Placed
      <4> QED BY <4>2
    <3>3. CASE InOwed(c)
      <4>1. PICK t \in debtors : debtors = {t} BY <1>3, <3>3
      <4>2. owners = {<<"owed", t>>} BY <1>1, <1>2, <1>4, <1>5, <3>3, <4>1 DEF Placed
      <4> QED BY <4>2
    <3>4. CASE c \in posted
      <4>1. PICK x \in functions : functions = {x} BY <1>4, <3>4
      <4>2. owners = {<<"posted", x>>} BY <1>1, <1>2, <1>3, <1>5, <3>4, <4>1 DEF Placed
      <4> QED BY <4>2
    <3>5. CASE Answered(c)
      <4>1. PICK i \in entries : entries = {i} BY <1>5, <3>5
      <4>2. owners = {<<"log", i>>} BY <1>1, <1>2, <1>3, <1>4, <3>5, <4>1 DEF Placed
      <4> QED BY <4>2
    <3> QED BY <1>6, <3>1, <3>2, <3>3, <3>4, <3>5 DEF Placed
  <2> HIDE DEF owners
  <2>2. Cardinality(owners) = 1 BY <2>1, FS_Singleton
  <2> QED BY <2>2, <1>6 DEF Taken, writers, holders, debtors, functions, entries, owners
<1>7. CASE ~Taken(c)
  <2>1. owners = {}
    BY <1>1, <1>2, <1>3, <1>4, <1>5, <1>7 DEF Placed
  <2> HIDE DEF owners
  <2>2. Cardinality(owners) = 0 BY <2>1, FS_EmptySet
  <2> QED BY <2>2, <1>7 DEF Taken, writers, holders, debtors, functions, entries, owners
<1> QED BY <1>6, <1>7

-----------------------------------------------------------------------------
(* What a step does *)

\* What the steps below need of the wire.
LEMMA WireType ==
  ASSUME Inv
  PROVE  /\ wire \in Seq(Pieces) /\ Len(wire) \in Nat /\ DOMAIN wire = 1..Len(wire)
         /\ \A i \in DOMAIN wire : wire[i].cmd \in Cmds /\ wire[i].part \in Nat /\ wire[i].conn \in Nat
         /\ conn \in Nat
<1>1. wire \in Seq(Pieces) BY DEF Inv, TypeOK
<1>2. Len(wire) \in Nat /\ DOMAIN wire = 1..Len(wire) BY <1>1, LenProperties
<1>3. \A i \in DOMAIN wire : wire[i] \in Pieces BY <1>1, <1>2, ElementOfSeq
<1>4. \A i \in DOMAIN wire : wire[i].cmd \in Cmds /\ wire[i].part \in Nat /\ wire[i].conn \in Nat
  BY <1>3 DEF Pieces
<1>5. conn \in Nat BY DEF Inv, TypeOK
<1> QED BY <1>1, <1>2, <1>4, <1>5

\* What NetSend does to the wire and to the operation.
LEMMA Sent ==
  ASSUME Inv, NEW o \in ops, NEW n \in 1..Parts, NetSend(o, n)
  PROVE  /\ n \in Nat /\ n > 0 /\ o.sent \in Nat /\ o.sent + n <= Parts
         /\ o \in Ops /\ o.ec \in Codes /\ ops = {o} /\ o.cmd \in Cmds
         /\ UNCHANGED <<deq, cur, owed, posted, sock, conn, closes, log>>
         /\ DOMAIN wire' = 1..(Len(wire) + n) /\ Len(wire') = Len(wire) + n
         /\ \A i \in DOMAIN wire : wire'[i] = wire[i]
         /\ \A i \in 1..n : wire'[Len(wire) + i] = [conn |-> conn, cmd |-> o.cmd, part |-> o.sent + i]
         /\ \E q \in Ops : /\ ops' = {q} /\ q.cmd = o.cmd /\ q.sent = o.sent + n /\ q.ec = o.ec
                           /\ q.st = IF o.sent + n = Parts THEN "done" ELSE "more"
<1> DEFINE q == [o EXCEPT !.sent = @ + n, !.st = IF o.sent + n = Parts THEN "done" ELSE "more"]
           more == [i \in 1..n |-> [conn |-> conn, cmd |-> wbuf, part |-> o.sent + i]]
<1>1. o \in Ops /\ wbuf = o.cmd /\ o.sent \in Nat /\ n \in Nat /\ o.sent + n <= Parts
  BY Typed DEF Inv, WriteBufferStable, Ops, NetSend
<1>2. ops' = (ops \ {o}) \cup {q} /\ wire' = wire \o more BY DEF NetSend
<1>3. ops' = {q} BY <1>2 DEF Inv, ExclusiveWriter
<1>4. q \in Ops /\ q.cmd = o.cmd /\ q.sent = o.sent + n /\ q.ec = o.ec
      /\ q.st = IF o.sent + n = Parts THEN "done" ELSE "more"
  <2> DEFINE f == IF o.sent + n = Parts THEN "done" ELSE "more"
             s == o.sent + n
  <2>1. f \in {"pending", "more", "done"} OBVIOUS
  <2>2. q = [o EXCEPT !.sent = s, !.st = f] OBVIOUS
  <2>3. s \in 0..Parts BY <1>1
  <2> HIDE DEF q, s, f
  <2>4. q \in Ops /\ q.cmd = o.cmd /\ q.ec = o.ec /\ q.sent = s /\ q.st = f
    BY <1>1, <2>1, <2>2, <2>3 DEF Ops
  <2> QED BY <2>4 DEF s, f
<1>5. more \in Seq(Pieces)
  <2>1. more \in [1..n -> Pieces] BY <1>1 DEF Pieces, Ops, Inv, TypeOK
  <2> QED BY <1>1, <2>1, SeqDef
<1>6. Len(more) = n BY <1>1, <1>5, LenProperties
<1>7. \A i \in 1..n : more[i] = [conn |-> conn, cmd |-> o.cmd, part |-> o.sent + i]
  BY <1>1
<1> HIDE DEF q, more
<1>8. /\ Len(wire') = Len(wire) + n /\ wire' \in Seq(Pieces)
      /\ \A i \in 1..(Len(wire) + n) :
           wire'[i] = IF i <= Len(wire) THEN wire[i] ELSE more[i - Len(wire)]
  BY <1>2, <1>5, <1>6, WireType, ConcatProperties
<1>9. DOMAIN wire' = 1..(Len(wire) + n) BY <1>8, LenProperties
<1>10. \A i \in DOMAIN wire : wire'[i] = wire[i] BY <1>1, <1>8, WireType
<1>11. ASSUME NEW i \in 1..n
       PROVE  wire'[Len(wire) + i] = [conn |-> conn, cmd |-> o.cmd, part |-> o.sent + i]
  <2>1. Len(wire) + i \in 1..(Len(wire) + n) /\ ~(Len(wire) + i <= Len(wire))
        /\ (Len(wire) + i) - Len(wire) = i
    BY <1>1, WireType
  <2> QED BY <1>7, <1>8, <2>1
<1>12. n > 0 /\ UNCHANGED <<deq, cur, owed, posted, sock, conn, closes, log>>
  BY <1>1 DEF NetSend, queueVars, threadVars
<1>13. o.ec \in Codes /\ ops = {o} /\ o.cmd \in Cmds BY <1>1, Typed DEF Inv, ExclusiveWriter, Ops
<1> QED BY <1>1, <1>3, <1>4, <1>8, <1>9, <1>10, <1>11, <1>12, <1>13

\* The other steps of an operation.
LEMMA Moved ==
  ASSUME Inv, NEW o \in ops, (\E t \in Threads : Continue(t, o) \/ Shut(t)) \/ NetFail(o)
  PROVE  /\ UNCHANGED <<wire, conn>>
         /\ ops = {o}
         /\ \E q \in Ops : /\ ops' = {q} /\ q.cmd = o.cmd /\ q.sent = o.sent
                           /\ o.st = "done" => q.st = "done" /\ q.ec = o.ec
                           /\ o.st # "done" /\ q.st = "done" => sock' \notin {"connecting", "connected"}
                           /\ q.ec = o.ec \/ q.ec \in {"failed", "aborted"}
                           /\ o.st # "done" /\ q.st = "done" /\ q.ec = "ok" =>
                                sock = "closing" /\ \E t \in IoThreads : Idle(t)
<1>1. o \in Ops /\ ops = {o} BY Typed DEF Inv, ExclusiveWriter
<1>2. ASSUME NEW t \in Threads, Continue(t, o)
      PROVE  Initiate(o) \in Ops /\ ops' = {Initiate(o)} /\ UNCHANGED <<wire, conn, sock>>
  BY <1>1, <1>2, InitiateOp DEF Continue, netVars
<1>3. ASSUME NEW t \in Threads, Shut(t)
      PROVE  Aborted(o) \in Ops /\ ops' = {Aborted(o)} /\ UNCHANGED <<wire, conn>>
             /\ sock' \in {"closed", "closing"}
  BY <1>1, <1>3, AbortOp DEF Shut, Aborted
<1>4. ASSUME NetFail(o)
      PROVE  [o EXCEPT !.st = "done", !.ec = "failed"] \in Ops
             /\ ops' = {[o EXCEPT !.st = "done", !.ec = "failed"]} /\ UNCHANGED <<wire, conn, sock>>
  BY <1>1, <1>4, AbortOp DEF NetFail, netVars
<1>5. sock \in {"closed", "connecting", "connected", "broken", "closing"} BY DEF Inv, TypeOK
<1>6. CASE \E t \in Threads : Continue(t, o)
  <2>1. PICK t \in Threads : Continue(t, o) BY <1>6
  <2>2. t \in IoThreads /\ Idle(t) /\ o.st = "more" BY <2>1 DEF Continue
  <2>3. /\ Initiate(o).cmd = o.cmd /\ Initiate(o).sent = o.sent
        /\ Initiate(o).ec = o.ec \/ Initiate(o).ec = "failed"
        /\ Initiate(o).st = "done" => sock \in {"closed", "closing"}
        /\ Initiate(o).st = "done" /\ Initiate(o).ec = "ok" => sock = "closing"
    BY <1>1 DEF Ops, Initiate
  <2> QED BY <1>1, <1>2, <2>1, <2>2, <2>3
<1>7. CASE \E t \in Threads : Shut(t)
  <2>1. /\ Aborted(o).cmd = o.cmd /\ Aborted(o).sent = o.sent
        /\ o.st = "done" => Aborted(o) = o
        /\ Aborted(o) = o \/ Aborted(o).ec = "aborted"
    BY <1>1 DEF Ops, Aborted
  <2> QED BY <1>1, <1>3, <1>7, <2>1
<1>8. CASE NetFail(o)
  <2> DEFINE q == [o EXCEPT !.st = "done", !.ec = "failed"]
  <2>1. q.cmd = o.cmd /\ q.sent = o.sent /\ q.ec = "failed" /\ q.st = "done"
    BY <1>1 DEF Ops
  <2>2. o.st = "pending" /\ sock = "broken" BY <1>8 DEF NetFail
  <2>3. q \in Ops /\ ops' = {q} /\ UNCHANGED <<wire, conn, sock>> BY <1>4, <1>8
  <2> HIDE DEF q
  <2> QED BY <1>1, <2>1, <2>2, <2>3
<1> QED BY <1>6, <1>7, <1>8

\* A step that leaves alone everything a command passes through.
Quiet == UNCHANGED <<deq, cur, owed, ops, posted, sock, conn, wire, log>>

\* The steps that do not.
QueueStep(t) == \E p \in Writers : Dequeue(t, p) \/ Drain(t, p)
SockStep(t) == Shutdown(t) \/ OpenAsync(t)
OpStep(o) == (\E t \in Threads : Continue(t, o) \/ Shut(t)) \/ NetFail(o)

\* Every step, by what it does to the commands.
LEMMA Steps ==
  ASSUME Inv, [Next]_vars
  PROVE  \/ Quiet \/ Connected \/ Reset
         \/ \E t \in Threads :
              \/ QueueStep(t) \/ Start(t) \/ CallHandler(t) \/ SockStep(t)
              \/ (Shut(t) /\ ops = {})
              \/ \E o \in ops : Complete(t, o)
              \/ \E c \in posted : RunPosted(t, c)
         \/ \E o \in ops : OpStep(o) \/ \E n \in 1..Parts : NetSend(o, n)
<1>1. CASE UNCHANGED vars
  BY <1>1 DEF vars, Quiet
<1>2. ASSUME NEW t \in Threads, WriteAsync(t) \/ Close(t) \/ Exchange(t) \/ Release(t) \/ Serialize(t)
      PROVE  Quiet
  BY <1>2 DEF WriteAsync, Close, Exchange, Release, Serialize, queueVars, netVars, Quiet
<1>3. ASSUME NEW t \in Threads, NEW p \in Writers, SeeEmpty(t, p)
      PROVE  Quiet
  BY <1>3 DEF SeeEmpty, queueVars, netVars, Quiet
<1>4. CASE Next
  <2>1. ASSUME NEW t \in Threads, CallStep(t)
        PROVE  Quiet \/ OpenAsync(t)
    BY <1>2, <2>1 DEF CallStep
  <2>2. ASSUME NEW t \in Threads, ThreadStep(t)
        PROVE  \/ Quiet \/ QueueStep(t) \/ Start(t) \/ CallHandler(t) \/ Shutdown(t) \/ Shut(t)
    BY <1>2, <1>3, <2>2 DEF ThreadStep, MethodStep, QueueStep
  <2>3. ASSUME NEW t \in Threads, Shut(t)
        PROVE  ops = {} \/ \E o \in ops : OpStep(o)
    BY <2>3 DEF OpStep
  <2>4. ASSUME NEW t \in Threads, IoTask(t)
        PROVE  \/ \E o \in ops : OpStep(o) \/ Complete(t, o)
               \/ \E c \in posted : RunPosted(t, c)
    BY <2>4 DEF IoTask, OpStep
  <2>5. CASE NetStep
    BY <2>5 DEF NetStep, SendStep, OpStep
  <2> QED BY <1>4, <2>1, <2>2, <2>3, <2>4, <2>5 DEF Next, SockStep
<1> QED BY <1>1, <1>4
-----------------------------------------------------------------------------
(* The order of pieces on the wire *)

\* An operation that begins finds the wire clean.
LEMMA StartOp ==
  ASSUME Inv, NEW t \in Threads, Start(t)
  PROVE  /\ cur[t] \in Cmds /\ ops = {} /\ sock # "closing"
         /\ \E q \in Ops : /\ ops' = {q} /\ q.cmd = cur[t] /\ q.sent = 0
                           /\ q.st = "done" => q.ec = "failed"
                           /\ q.ec \in {"ok", "failed"}
         /\ UNCHANGED <<deq, owed, posted, sock, conn, closes, wire, log>>
<1> DEFINE o == [cmd |-> cur[t], sent |-> 0, st |-> "pending", ec |-> "ok"]
<1>1. cur[t] \in Cmds BY Typed DEF Start, Inv, Carried, Carrying
<1>2. o \in Ops BY <1>1 DEF Ops, Codes
<1>3. ops = {} BY DEF Start, Inv, ExclusiveWriter, Holding
<1>4. sock # "closing" BY DEF Start, Unlocked
<1>5. ops' = {Initiate(o)} BY <1>3 DEF Start
<1>6. /\ Initiate(o).cmd = cur[t] /\ Initiate(o).sent = 0
      /\ Initiate(o).st = "done" => Initiate(o).ec = "failed"
      /\ Initiate(o).ec \in {"ok", "failed"}
  BY <1>4 DEF Initiate
<1>7. Initiate(o) \in Ops BY <1>2, InitiateOp
<1>8. UNCHANGED <<deq, owed, posted, sock, conn, closes, wire, log>> BY DEF Start, queueVars, netVars
<1> HIDE DEF o
<1> QED BY <1>1, <1>3, <1>4, <1>5, <1>6, <1>7, <1>8

\* The wire ends where the operation under way has got to.
LEMMA WireEndStep == ASSUME Inv, WireEnd, [Next]_vars PROVE WireEnd'
<1>t. /\ Len(wire) \in Nat /\ DOMAIN wire = 1..Len(wire) /\ conn \in Nat
      /\ \A i \in DOMAIN wire : wire[i].conn \in Nat
  BY WireType
<1>1. CASE UNCHANGED <<ops, sock, conn, wire>>
  BY <1>1 DEF WireEnd, Clean, Last
<1>2. CASE Connected \/ Reset
  <2>1. UNCHANGED <<ops, conn, wire>> BY <1>2 DEF Connected, Reset
  <2>2. sock' \in {"connecting", "connected"} => sock \in {"connecting", "connected"}
    BY <1>2 DEF Connected, Reset
  <2> QED BY <2>1, <2>2 DEF WireEnd, Clean, Last
<1>3. ASSUME NEW t \in Threads, Start(t)
      PROVE  WireEnd'
  <2>1. ops = {} /\ UNCHANGED <<sock, conn, wire>> BY <1>3, StartOp
  <2>2. \A o \in ops' : o.sent = 0 BY <1>3, StartOp
  <2> QED BY <2>1, <2>2 DEF WireEnd, Clean, Last
<1>4. ASSUME NEW t \in Threads, Shutdown(t) \/ (Shut(t) /\ ops = {})
      PROVE  WireEnd'
  <2>1. sock' \in {"closed", "closing"} /\ UNCHANGED <<conn, wire>> BY <1>4 DEF Shutdown, Shut
  <2>2. ops' = ops BY <1>4 DEF Shutdown, Shut
  <2> QED BY <2>1, <2>2 DEF WireEnd, Clean, Last
<1>5. ASSUME NEW t \in Threads, OpenAsync(t)
      PROVE  WireEnd'
  <2>1. conn' = conn + 1 /\ UNCHANGED <<ops, wire>> BY <1>5 DEF OpenAsync
  <2>2. \A i \in DOMAIN wire : wire[i].conn < conn + 1 /\ wire[i].conn <= conn + 1
    BY <1>t DEF WireEnd
  <2>3. Len(wire) > 0 => Len(wire) \in DOMAIN wire BY <1>t
  <2> QED BY <2>1, <2>2, <2>3 DEF WireEnd, Clean, Last
<1>6. ASSUME NEW t \in Threads, NEW o \in ops, Complete(t, o)
      PROVE  WireEnd'
  <2>1. ops' = {} /\ o.st = "done" /\ ops = {o} BY <1>6 DEF Complete, Inv, ExclusiveWriter
  <2>2. UNCHANGED <<sock, conn, wire>> BY <1>6 DEF Complete, netVars
  <2> QED BY <2>1, <2>2 DEF WireEnd, Clean, Last
<1>7. ASSUME NEW o \in ops, OpStep(o)
      PROVE  WireEnd'
  <2>1. UNCHANGED <<wire, conn>> /\ ops = {o} BY <1>7, Moved DEF OpStep
  <2>2. PICK q \in Ops : /\ ops' = {q} /\ q.cmd = o.cmd /\ q.sent = o.sent
                         /\ o.st = "done" => q.st = "done"
                         /\ o.st # "done" /\ q.st = "done" => sock' \notin {"connecting", "connected"}
    BY <1>7, Moved DEF OpStep
  <2>3. sock' \in {"connecting", "connected"} => sock' = sock
    BY <1>7 DEF OpStep, Continue, NetFail, Shut, netVars
  <2> QED BY <2>1, <2>2, <2>3 DEF WireEnd, Clean, Last
<1>8. ASSUME NEW o \in ops, NEW n \in 1..Parts, NetSend(o, n)
      PROVE  WireEnd'
  <2>1. n \in Nat /\ n > 0 /\ conn' = conn /\ o.sent \in Nat BY <1>8, Sent
  <2>2. /\ Len(wire') = Len(wire) + n /\ DOMAIN wire' = 1..(Len(wire) + n)
        /\ \A i \in DOMAIN wire : wire'[i] = wire[i]
        /\ \A i \in 1..n : wire'[Len(wire) + i] = [conn |-> conn, cmd |-> o.cmd, part |-> o.sent + i]
    BY <1>8, Sent
  <2>3. PICK q \in Ops : /\ ops' = {q} /\ q.cmd = o.cmd /\ q.sent = o.sent + n
                         /\ q.st = IF o.sent + n = Parts THEN "done" ELSE "more"
    BY <1>8, Sent
  <2>4. Len(wire') > 0 /\ Last' = [conn |-> conn, cmd |-> o.cmd, part |-> o.sent + n]
    <3>1. n \in 1..n /\ Len(wire') > 0 BY <1>t, <2>1, <2>2
    <3>2. wire'[Len(wire')] = [conn |-> conn, cmd |-> o.cmd, part |-> o.sent + n] BY <2>2, <3>1
    <3> QED BY <3>1, <3>2 DEF Last
  <2>5. Last'.cmd = o.cmd /\ Last'.part = o.sent + n BY <2>4
  <2>6. ASSUME NEW i \in DOMAIN wire'
        PROVE  wire'[i].conn <= conn'
    <3>1. CASE i \in DOMAIN wire BY <2>1, <2>2, <3>1 DEF WireEnd
    <3>2. CASE i \notin DOMAIN wire
      <4>1. i - Len(wire) \in 1..n /\ i = Len(wire) + (i - Len(wire)) BY <1>t, <2>1, <2>2, <3>2
      <4>2. wire'[i] = [conn |-> conn, cmd |-> o.cmd, part |-> o.sent + (i - Len(wire))]
        BY <2>2, <4>1
      <4>3. wire'[i].conn = conn BY <4>2
      <4> QED BY <1>t, <2>1, <4>3
    <3> QED BY <3>1, <3>2
  <2>7. Clean' \/ \E o1 \in ops' : o1.st # "done" /\ o1.sent # 0
    BY <2>1, <2>3, <2>5 DEF Clean
  <2> QED BY <2>3, <2>4, <2>5, <2>6, <2>7 DEF WireEnd
<1> QED
  BY <1>1, <1>2, <1>3, <1>4, <1>5, <1>6, <1>7, <1>8, Steps
  DEF Quiet, QueueStep, Dequeue, Drain, CallHandler, RunPosted, SockStep, netVars

\* A piece continues the PDU it belongs to, or begins one on a clean connection.
LEMMA FollowStep == ASSUME Inv, WireEnd, PiecesFollow, [Next]_vars PROVE PiecesFollow'
<1>1. CASE UNCHANGED wire
  BY <1>1 DEF PiecesFollow
<1>2. ASSUME NEW o \in ops, NEW n \in 1..Parts, NetSend(o, n)
      PROVE  PiecesFollow'
  <2>t. /\ Len(wire) \in Nat /\ DOMAIN wire = 1..Len(wire) /\ conn \in Nat
        /\ \A i \in DOMAIN wire : wire[i].conn \in Nat
    BY WireType
  <2>1. n \in Nat /\ n > 0 /\ o.sent \in Nat BY <1>2, Sent
  <2>2. /\ DOMAIN wire' = 1..(Len(wire) + n)
        /\ \A i \in DOMAIN wire : wire'[i] = wire[i]
        /\ \A i \in 1..n : wire'[Len(wire) + i] = [conn |-> conn, cmd |-> o.cmd, part |-> o.sent + i]
    BY <1>2, Sent
  <2> SUFFICES ASSUME NEW i \in DOMAIN wire'
               PROVE  \/ /\ wire'[i].part = 1
                         /\ i = 1 \/ wire'[i-1].part = Parts \/ wire'[i-1].conn # wire'[i].conn
                      \/ i > 1 /\ wire'[i].cmd = wire'[i-1].cmd /\ wire'[i].part = wire'[i-1].part + 1
    BY DEF PiecesFollow
  <2>3. CASE i \in DOMAIN wire
    <3>1. i = 1 \/ i - 1 \in DOMAIN wire BY <2>t, <2>3
    <3> QED BY <2>2, <2>3, <3>1 DEF PiecesFollow
  <2>4. CASE i = Len(wire) + 1
    <3>1. 1 \in 1..n BY <2>1
    <3>2. wire'[i] = [conn |-> conn, cmd |-> o.cmd, part |-> o.sent + 1] BY <2>2, <2>4, <3>1
    <3>3. wire'[i].conn = conn /\ wire'[i].cmd = o.cmd /\ wire'[i].part = o.sent + 1 BY <3>2
    <3>4. Len(wire) > 0 => wire'[i-1] = Last BY <2>t, <2>2, <2>4 DEF Last
    <3>5. CASE o.sent > 0
      BY <2>t, <2>1, <2>4, <3>3, <3>4, <3>5 DEF WireEnd
    <3>6. CASE o.sent = 0
      <4>1. Clean /\ sock = "connected" BY <1>2, <3>6 DEF WireEnd, NetSend, Inv, ExclusiveWriter
      <4>2. Len(wire) > 0 => Last.part = Parts \/ Last.conn < conn BY <4>1 DEF Clean
      <4>3. Len(wire) > 0 => Last.conn \in Nat BY <2>t DEF Last
      <4>4. Len(wire) > 0 => wire'[i-1].part = Parts \/ wire'[i-1].conn # wire'[i].conn
        BY <2>t, <3>3, <3>4, <4>2, <4>3
      <4>5. Len(wire) > 0 \/ i = 1 BY <2>t, <2>4
      <4> QED BY <3>3, <3>6, <4>4, <4>5
    <3> QED BY <2>1, <3>5, <3>6
  <2>5. CASE i \notin DOMAIN wire /\ i # Len(wire) + 1
    <3> DEFINE k == i - Len(wire)
    <3>0. i \in Int /\ i > Len(wire) + 1 /\ i <= Len(wire) + n BY <2>t, <2>1, <2>2, <2>5
    <3>1. k \in 1..n /\ k - 1 \in 1..n /\ i = Len(wire) + k /\ i - 1 = Len(wire) + (k - 1)
      BY <3>0, <2>t, <2>1, <2>2, <2>5
    <3>2. i > 1 BY <2>t, <2>2, <2>5
    <3> HIDE DEF k
    <3>3. wire'[i] = [conn |-> conn, cmd |-> o.cmd, part |-> o.sent + k] BY <2>2, <3>1
    <3>4. wire'[i-1] = [conn |-> conn, cmd |-> o.cmd, part |-> o.sent + (k - 1)] BY <2>2, <3>1
    <3>5. o.sent + k = (o.sent + (k - 1)) + 1 BY <2>1, <3>1
    <3> QED BY <3>2, <3>3, <3>4, <3>5
  <2> QED BY <2>3, <2>4, <2>5
<1> QED
  BY <1>1, <1>2, Steps, Moved
  DEF Quiet, QueueStep, SockStep, OpStep, Connected, Reset, Dequeue, Drain, Start, CallHandler, Shutdown,
      OpenAsync, Complete, RunPosted, Shut, netVars

\* A piece leaves only for the command of the operation, after all the others.
LEMMA SentPieces ==
  ASSUME Inv, NEW o \in ops, NEW n \in 1..Parts, NetSend(o, n)
  PROVE  /\ \A c : c # o.cmd => PartsOnWire(c)' = PartsOnWire(c)
         /\ \A c : c # o.cmd => SentParts(c)' = SentParts(c)
         /\ \A c, d : c # o.cmd /\ d # o.cmd => (Before(c, d)' <=> Before(c, d))
         /\ \A i \in (DOMAIN wire') \ (DOMAIN wire) : wire'[i].cmd = o.cmd
         /\ SentParts(o.cmd)' = SentParts(o.cmd) \cup (o.sent + 1)..(o.sent + n)
         /\ \A c : c # o.cmd /\ Before(c, o.cmd) => Before(c, o.cmd)'
<1>1. /\ Len(wire) \in Nat /\ DOMAIN wire = 1..Len(wire)
      /\ n \in Nat /\ n > 0 /\ o.sent \in Nat
  BY WireType, Sent
<1>2. /\ DOMAIN wire' = 1..(Len(wire) + n)
      /\ \A i \in DOMAIN wire : wire'[i] = wire[i]
      /\ \A i \in 1..n : wire'[Len(wire) + i] = [conn |-> conn, cmd |-> o.cmd, part |-> o.sent + i]
  BY Sent
<1>3. DOMAIN wire \subseteq DOMAIN wire' BY <1>1, <1>2
<1>4. ASSUME NEW i \in DOMAIN wire', i \notin DOMAIN wire
      PROVE  /\ i - Len(wire) \in 1..n /\ i > Len(wire)
             /\ wire'[i].cmd = o.cmd /\ wire'[i].part = o.sent + (i - Len(wire))
  <2>1. i - Len(wire) \in 1..n /\ i > Len(wire) /\ i = Len(wire) + (i - Len(wire))
    BY <1>1, <1>2, <1>4
  <2>2. wire'[i] = [conn |-> conn, cmd |-> o.cmd, part |-> o.sent + (i - Len(wire))]
    BY <1>2, <2>1
  <2> QED BY <2>1, <2>2
<1>5. \A c : c # o.cmd => PartsOnWire(c)' = PartsOnWire(c)
  BY <1>2, <1>3, <1>4 DEF PartsOnWire
<1>6. ASSUME NEW c, c # o.cmd
      PROVE  SentParts(c)' = SentParts(c)
  BY <1>2, <1>5, <1>6 DEF SentParts, PartsOnWire
<1>7. \A c, d : c # o.cmd /\ d # o.cmd => (Before(c, d)' <=> Before(c, d))
  BY <1>5 DEF Before
<1>8. SentParts(o.cmd)' = SentParts(o.cmd) \cup (o.sent + 1)..(o.sent + n)
  <2>1. ASSUME NEW x \in SentParts(o.cmd)'
        PROVE  x \in SentParts(o.cmd) \cup (o.sent + 1)..(o.sent + n)
    <3>1. PICK i \in DOMAIN wire' : wire'[i].cmd = o.cmd /\ x = wire'[i].part
      BY <2>1 DEF SentParts, PartsOnWire
    <3>2. CASE i \in DOMAIN wire BY <1>2, <3>1, <3>2 DEF SentParts, PartsOnWire
    <3>3. CASE i \notin DOMAIN wire BY <1>1, <1>4, <3>1, <3>3
    <3> QED BY <3>2, <3>3
  <2>2. ASSUME NEW x \in SentParts(o.cmd)
        PROVE  x \in SentParts(o.cmd)'
    BY <1>2, <1>3, <2>2 DEF SentParts, PartsOnWire
  <2>3. ASSUME NEW x \in (o.sent + 1)..(o.sent + n)
        PROVE  x \in SentParts(o.cmd)'
    <3> DEFINE i == Len(wire) + (x - o.sent)
    <3>1. i \in DOMAIN wire' /\ i \notin DOMAIN wire /\ o.sent + (i - Len(wire)) = x
      BY <1>1, <1>2
    <3> HIDE DEF i
    <3>2. wire'[i].cmd = o.cmd /\ wire'[i].part = x BY <1>4, <3>1
    <3> QED BY <3>1, <3>2 DEF SentParts, PartsOnWire
  <2> QED BY <2>1, <2>2, <2>3
<1>9. ASSUME NEW c, c # o.cmd, Before(c, o.cmd)
      PROVE  Before(c, o.cmd)'
  <2> SUFFICES ASSUME NEW m \in PartsOnWire(c)', NEW k \in PartsOnWire(o.cmd)'
               PROVE  m < k
    BY DEF Before
  <2>1. m \in PartsOnWire(c) /\ m \in DOMAIN wire BY <1>5, <1>9 DEF PartsOnWire
  <2>2. CASE k \in DOMAIN wire
    <3>1. k \in PartsOnWire(o.cmd) BY <1>2, <2>2 DEF PartsOnWire
    <3> QED BY <1>9, <2>1, <3>1 DEF Before
  <2>3. CASE k \notin DOMAIN wire
    <3>1. k \in DOMAIN wire' BY DEF PartsOnWire
    <3>2. k > Len(wire) /\ k \in Int BY <1>2, <1>4, <2>3, <3>1
    <3> QED BY <1>1, <2>1, <3>2
  <2> QED BY <2>2, <2>3
<1> QED BY <1>4, <1>5, <1>6, <1>7, <1>8, <1>9

-----------------------------------------------------------------------------
(* Answers *)

\* Who owes an answer, and who closes.
LEMMA RolesStep == ASSUME Inv, OwedByIo, ClosersClose, [Next]_vars PROVE OwedByIo' /\ ClosersClose'
<1>t. /\ pc \in [Threads -> {"idle", "exchange", "dequeue", "serialize", "start", "handler", "drain",
                             "closing"}]
      /\ owed \in [Threads -> Answers \cup {NoAnswer}] /\ closes \in Nat
  BY DEF Inv, TypeOK
<1>1. CASE UNCHANGED <<pc, owed, sock, closes>>
  BY <1>1 DEF OwedByIo, ClosersClose
<1>2. ASSUME NEW t \in Threads, WriteAsync(t) \/ Close(t) \/ OpenAsync(t)
      PROVE  OwedByIo' /\ ClosersClose'
  <2>1. CASE WriteAsync(t)
    BY <1>t, <2>1 DEF WriteAsync, Goto, Idle, netVars, OwedByIo, ClosersClose
  <2>2. CASE Close(t)
    BY <1>t, <2>2 DEF Close, Goto, Idle, OwedByIo, ClosersClose
  <2>3. CASE OpenAsync(t)
    BY <1>t, <2>3 DEF OpenAsync, threadVars, OwedByIo, ClosersClose
  <2> QED BY <1>2, <2>1, <2>2, <2>3
<1>3. ASSUME NEW t \in Threads, Exchange(t) \/ Release(t) \/ Serialize(t) \/ Start(t)
      PROVE  OwedByIo' /\ ClosersClose'
  BY <1>t, <1>3 DEF Exchange, Release, Serialize, Start, Goto, Return, netVars, OwedByIo, ClosersClose
<1>4. ASSUME NEW t \in Threads, NEW p \in Writers, SeeEmpty(t, p) \/ Dequeue(t, p) \/ Drain(t, p)
      PROVE  OwedByIo' /\ ClosersClose'
  BY <1>t, <1>4 DEF SeeEmpty, Dequeue, Drain, Goto, netVars, OwedByIo, ClosersClose
<1>5. ASSUME NEW t \in Threads, CallHandler(t)
      PROVE  OwedByIo' /\ ClosersClose'
  BY <1>t, <1>5 DEF CallHandler, Goto, netVars, OwedByIo, ClosersClose
<1>6. ASSUME NEW t \in Threads, Shut(t)
      PROVE  OwedByIo' /\ ClosersClose'
  BY <1>t, <1>6 DEF Shut, Goto, OwedByIo, ClosersClose
<1>7. ASSUME NEW t \in Threads, Shutdown(t)
      PROVE  OwedByIo' /\ ClosersClose'
  BY <1>t, <1>7 DEF Shutdown, Goto, OwedByIo, ClosersClose
<1>8. ASSUME NEW t \in Threads, NEW o \in ops, Continue(t, o) \/ Complete(t, o)
      PROVE  OwedByIo' /\ ClosersClose'
  BY <1>t, <1>8 DEF Continue, Complete, Goto, Idle, threadVars, netVars, OwedByIo, ClosersClose
<1>9. ASSUME NEW t \in Threads, NEW c \in posted, RunPosted(t, c)
      PROVE  OwedByIo' /\ ClosersClose'
  BY <1>1, <1>9 DEF RunPosted, threadVars, netVars
<1>10. CASE SendStep
  BY <1>1, <1>10 DEF SendStep, NetSend, NetFail, threadVars, netVars
<1>11. CASE Connected \/ Reset
  BY <1>11 DEF Connected, Reset, threadVars, OwedByIo, ClosersClose
<1>12. CASE UNCHANGED vars
  BY <1>1, <1>12 DEF vars
<1> QED
  BY <1>2, <1>3, <1>4, <1>5, <1>6, <1>7, <1>8, <1>9, <1>10, <1>11, <1>12
  DEF Next, CallStep, ThreadStep, MethodStep, IoTask, NetStep

\* The command of an operation is nowhere else.
LEMMA Elsewhere ==
  ASSUME Inv, Placed, NEW o \in ops
  PROVE  /\ o.cmd \in Cmds /\ Taken(o.cmd) /\ ~InWriter(o.cmd) /\ ~InOwed(o.cmd) /\ o.cmd \notin posted
         /\ \A t \in Threads : cur[t] # o.cmd /\ (owed[t] # NoAnswer => owed[t].cmd # o.cmd)
         /\ \A i \in DOMAIN log : log[i].cmd # o.cmd
<1>1. o.cmd \in Cmds /\ InOp(o.cmd) BY Typed DEF InOp
<1>2. Taken(o.cmd) /\ ~InWriter(o.cmd) /\ ~InOwed(o.cmd) /\ o.cmd \notin posted /\ ~Answered(o.cmd)
  BY <1>1 DEF Placed
<1> QED BY <1>1, <1>2 DEF InWriter, InOwed, Owes, Answered

\* What has not been sent.
LEMMA SentByWriterStep == ASSUME Inv, Placed, SentByWriter, [Next]_vars PROVE SentByWriter'
<1>1. CASE UNCHANGED <<deq, cur, owed, ops, posted, wire, log>>
  BY <1>1 DEF SentByWriter, Taken, InWriter, Unsent, PartsOnWire
<1>2. ASSUME NEW t \in Threads, NEW p \in Writers, Dequeue(t, p)
      PROVE  SentByWriter'
  <2> DEFINE d == Front(p)
  <2>1. d \in Cmds /\ ~Taken(d) /\ \A c \in Cmds : Taken(c)' <=> Taken(c) \/ c = d
    BY <1>2, Popped DEF Dequeue, Inv
  <2>2. cur' = [cur EXCEPT ![t] = d] /\ UNCHANGED <<owed, ops, posted, wire, log>>
    BY <1>2 DEF Dequeue, netVars
  <2> HIDE DEF d
  <2>3. \A c \in Cmds : InWriter(c)' => InWriter(c) \/ c = d BY <2>2, Typed DEF InWriter
  <2> QED BY <2>1, <2>2, <2>3 DEF SentByWriter, Unsent, PartsOnWire
<1>3. ASSUME NEW t \in Threads, NEW p \in Writers, Drain(t, p)
      PROVE  SentByWriter'
  <2> DEFINE d == Front(p)
  <2>1. d \in Cmds /\ ~Taken(d) /\ \A c \in Cmds : Taken(c)' <=> Taken(c) \/ c = d
    BY <1>3, Popped DEF Drain, Inv
  <2>2. posted' = posted \cup {d} /\ UNCHANGED <<cur, owed, ops, wire, log>>
    BY <1>3 DEF Drain, netVars
  <2> HIDE DEF d
  <2> QED BY <2>1, <2>2 DEF SentByWriter, InWriter, Unsent, PartsOnWire
<1>4. ASSUME NEW t \in Threads, Start(t)
      PROVE  SentByWriter'
  <2>1. UNCHANGED <<deq, owed, posted, wire, log>> /\ \A o \in ops' : o.ec # "canceled"
    BY <1>4, StartOp
  <2>2. \A c \in Cmds : InWriter(c)' => InWriter(c)
    BY <1>4, Typed DEF Start, InWriter
  <2> QED BY <2>1, <2>2 DEF SentByWriter, Taken, Unsent, PartsOnWire
<1>5. ASSUME NEW t \in Threads, CallHandler(t)
      PROVE  SentByWriter'
  <2>1. owed[t] \in Answers BY <1>5, Typed DEF CallHandler, Inv, Owing
  <2>2. owed[t].ec # "canceled" BY <1>5 DEF SentByWriter, CallHandler, Inv, Owing
  <2>3. log' = Append(log, owed[t]) /\ owed' = [owed EXCEPT ![t] = NoAnswer]
        /\ UNCHANGED <<deq, cur, ops, posted, wire>>
    BY <1>5 DEF CallHandler, queueVars, netVars
  <2>4. \A j \in DOMAIN log' : log'[j].ec = "canceled" => j \in DOMAIN log /\ log'[j] = log[j]
    BY <2>1, <2>2, <2>3, Logged DEF Inv
  <2>5. \A u \in Threads : owed'[u] # NoAnswer => owed'[u] = owed[u] BY <2>3, Typed
  <2> QED BY <2>3, <2>4, <2>5 DEF SentByWriter, Taken, InWriter, Unsent, PartsOnWire
<1>6. ASSUME NEW t \in Threads, NEW o \in ops, Complete(t, o)
      PROVE  SentByWriter'
  <2> DEFINE a == [cmd |-> o.cmd, ec |-> o.ec]
  <2>1. a.ec # "canceled" BY DEF SentByWriter
  <2>2. owed' = [owed EXCEPT ![t] = a] /\ ops' \subseteq ops
        /\ UNCHANGED <<deq, cur, posted, wire, log>>
    BY <1>6 DEF Complete, queueVars, netVars
  <2> HIDE DEF a
  <2>3. \A u \in Threads : owed'[u] = owed[u] \/ owed'[u] = a BY <2>2, Typed
  <2> QED BY <2>1, <2>2, <2>3 DEF SentByWriter, Taken, InWriter, Unsent, PartsOnWire
<1>7. ASSUME NEW t \in Threads, NEW d \in posted, RunPosted(t, d)
      PROVE  SentByWriter'
  <2> DEFINE a == [cmd |-> d, ec |-> "canceled"]
  <2>1. d \in Cmds /\ a \in Answers /\ a.cmd = d BY Typed DEF Answers, Codes
  <2>2. log' = Append(log, a) /\ posted' \subseteq posted /\ UNCHANGED <<deq, cur, owed, ops, wire>>
    BY <1>7 DEF RunPosted, queueVars, threadVars, netVars
  <2> HIDE DEF a
  <2>3. \A j \in DOMAIN log' : log'[j] = a \/ (j \in DOMAIN log /\ log'[j] = log[j])
    BY <2>1, <2>2, Logged DEF Inv
  <2> QED BY <2>1, <2>2, <2>3 DEF SentByWriter, Taken, InWriter, Unsent, PartsOnWire
<1>8. ASSUME NEW o \in ops, OpStep(o)
      PROVE  SentByWriter'
  <2>1. UNCHANGED <<deq, cur, owed, posted, wire, log>>
    BY <1>8 DEF OpStep, Continue, Shut, NetFail, queueVars, threadVars, netVars
  <2>2. \A q \in ops' : q.ec = o.ec \/ q.ec \in {"failed", "aborted"}
    BY <1>8, Moved DEF OpStep
  <2> QED BY <2>1, <2>2 DEF SentByWriter, Taken, InWriter, Unsent, PartsOnWire
<1>9. ASSUME NEW o \in ops, NEW n \in 1..Parts, NetSend(o, n)
      PROVE  SentByWriter'
  <2>1. UNCHANGED <<deq, cur, owed, posted, log>> /\ \A q \in ops' : q.ec = o.ec
    BY <1>9, Sent
  <2>2. \A c : c # o.cmd => (Unsent(c)' <=> Unsent(c)) BY <1>9, SentPieces DEF Unsent
  <2>3. \A c \in Cmds : ~Taken(c) \/ InWriter(c) \/ c \in posted => c # o.cmd BY Elsewhere
  <2>4. \A i \in DOMAIN log : log[i].cmd # o.cmd BY Elsewhere
  <2>5. \A c \in Cmds : (Taken(c)' <=> Taken(c)) /\ (InWriter(c)' <=> InWriter(c))
    BY <2>1 DEF Taken, InWriter
  <2>6. \A c \in Cmds : ~Taken(c)' \/ InWriter(c)' \/ c \in posted' => Unsent(c)'
    BY <2>1, <2>2, <2>3, <2>5 DEF SentByWriter
  <2>7. (\A j \in DOMAIN log : log[j].ec = "canceled" => Unsent(log[j].cmd))'
    BY <2>1, <2>2, <2>4 DEF SentByWriter
  <2> QED BY <2>1, <2>6, <2>7 DEF SentByWriter
<1>10. ASSUME NEW t \in Threads, SockStep(t) \/ (Shut(t) /\ ops = {}) \/ Connected \/ Reset
      PROVE  SentByWriter'
  <2>1. UNCHANGED <<deq, cur, owed, posted, wire, log>>
    BY <1>10 DEF SockStep, Shutdown, OpenAsync, Shut, Connected, Reset, queueVars, threadVars
  <2>2. ops' = ops BY <1>10 DEF SockStep, Shutdown, OpenAsync, Shut, Connected, Reset
  <2> QED BY <1>1, <2>1, <2>2
<1>11. CASE Connected \/ Reset
  BY <1>1, <1>11 DEF Connected, Reset, queueVars, threadVars
<1> QED
  BY <1>1, <1>2, <1>3, <1>4, <1>5, <1>6, <1>7, <1>8, <1>9, <1>10, <1>11, Steps DEF Quiet, QueueStep

\* An operation has sent the first of its pieces, and no others.
LEMMA ProgressStep == ASSUME Inv, SentByWriter, Progress, [Next]_vars PROVE Progress'
<1>1. CASE UNCHANGED <<ops, wire>>
  BY <1>1 DEF Progress, SentParts, PartsOnWire
<1>2. ASSUME NEW t \in Threads, Start(t)
      PROVE  Progress'
  <2>1. cur[t] \in Cmds /\ wire' = wire /\ \A q \in ops' : q.cmd = cur[t] /\ q.sent = 0
    BY <1>2, StartOp
  <2>2. PartsOnWire(cur[t]) = {} BY <2>1 DEF SentByWriter, InWriter, Unsent
  <2>3. SentParts(cur[t]) = 1..0 BY <2>2 DEF SentParts
  <2>4. \A q \in ops' : SentParts(q.cmd)' = 1..0
    BY <2>1, <2>3 DEF SentParts, PartsOnWire
  <2> QED BY <2>1, <2>4 DEF Progress
<1>3. ASSUME NEW o \in ops, OpStep(o)
      PROVE  Progress'
  BY <1>3, Moved DEF OpStep, Progress, SentParts, PartsOnWire
<1>4. ASSUME NEW o \in ops, NEW n \in 1..Parts, NetSend(o, n)
      PROVE  Progress'
  <2>1. n \in Nat /\ o.sent \in Nat /\ \A q \in ops' : q.cmd = o.cmd /\ q.sent = o.sent + n
    BY <1>4, Sent
  <2>2. SentParts(o.cmd)' = (1..o.sent) \cup (o.sent + 1)..(o.sent + n)
    BY <1>4, SentPieces DEF Progress
  <2>3. (1..o.sent) \cup (o.sent + 1)..(o.sent + n) = 1..(o.sent + n) BY <2>1
  <2> QED BY <2>1, <2>2, <2>3 DEF Progress
<1>5. ASSUME NEW t \in Threads, NEW o \in ops, Complete(t, o)
      PROVE  Progress'
  BY <1>5 DEF Complete, netVars, Progress, SentParts, PartsOnWire
<1> QED
  BY <1>1, <1>2, <1>3, <1>4, <1>5, Steps
  DEF Quiet, QueueStep, SockStep, Connected, Reset, Dequeue, Drain, CallHandler, Shutdown,
      OpenAsync, RunPosted, Shut, netVars

\* close() is counted.
LEMMA ClosesGrow == ASSUME Inv, [Next]_vars PROVE Unraced' => Unraced
<1>t. closes \in Nat BY DEF Inv, TypeOK
<1>1. CASE UNCHANGED closes
  BY <1>1 DEF Unraced
<1>2. ASSUME NEW t \in Threads, CallStep(t)
      PROVE  Unraced' => Unraced
  <2>1. CASE Close(t) BY <1>t, <2>1 DEF Close, Unraced
  <2>2. CASE WriteAsync(t) \/ OpenAsync(t) BY <1>1, <2>2 DEF WriteAsync, OpenAsync, netVars
  <2> QED BY <1>2, <2>1, <2>2 DEF CallStep
<1>3. ASSUME NEW t \in Threads, ThreadStep(t)
      PROVE  Unraced' => Unraced
  BY <1>1, <1>3 DEF ThreadStep, MethodStep, Exchange, Release, Serialize, Start, CallHandler, SeeEmpty,
              Dequeue, Drain, Shut, Shutdown, netVars
<1>4. ASSUME NEW t \in Threads, IoTask(t)
      PROVE  Unraced' => Unraced
  BY <1>1, <1>4 DEF IoTask, Continue, Complete, RunPosted, netVars
<1>5. CASE NetStep \/ Reset \/ UNCHANGED vars
  BY <1>1, <1>5 DEF NetStep, SendStep, Connected, NetSend, NetFail, Reset, vars, netVars
<1> QED BY <1>1, <1>2, <1>3, <1>4, <1>5 DEF Next

\* What a successful operation, answer or handler call says has been sent.
LEMMA SuccessStep ==
  ASSUME Inv, Placed, Progress, ClosersClose, Success, [Next]_vars
  PROVE  Success'
<1> SUFFICES ASSUME Unraced'
             PROVE  (/\ \A o \in ops : o.st = "done" /\ o.ec = "ok" => o.sent = Parts
                     /\ \A t \in Threads : owed[t] # NoAnswer /\ owed[t].ec = "ok" =>
                                             SentParts(owed[t].cmd) = 1..Parts
                     /\ \A i \in DOMAIN log : log[i].ec = "ok" => SentParts(log[i].cmd) = 1..Parts)'
  BY DEF Success
<1>s. /\ \A o \in ops : o.st = "done" /\ o.ec = "ok" => o.sent = Parts
      /\ \A t \in Threads : owed[t] # NoAnswer /\ owed[t].ec = "ok" =>
                              SentParts(owed[t].cmd) = 1..Parts
      /\ \A i \in DOMAIN log : log[i].ec = "ok" => SentParts(log[i].cmd) = 1..Parts
  BY ClosesGrow DEF Success
<1>u. Unraced BY ClosesGrow
<1>1. CASE UNCHANGED <<owed, ops, wire, log>>
  BY <1>1, <1>s DEF SentParts, PartsOnWire
<1>2. ASSUME NEW t \in Threads, Start(t)
      PROVE  Success'
  <2>1. UNCHANGED <<owed, wire, log>> /\ \A q \in ops' : q.st = "done" => q.ec = "failed"
    BY <1>2, StartOp
  <2> QED BY <1>s, <2>1 DEF Success, SentParts, PartsOnWire
<1>3. ASSUME NEW o \in ops, OpStep(o)
      PROVE  Success'
  <2>1. UNCHANGED <<owed, wire, log>>
    BY <1>3 DEF OpStep, Continue, Shut, NetFail, threadVars, netVars
  <2>2. PICK q \in Ops : /\ ops' = {q} /\ q.sent = o.sent
                         /\ o.st = "done" => q.st = "done" /\ q.ec = o.ec
                         /\ o.st # "done" /\ q.st = "done" /\ q.ec = "ok" =>
                              sock = "closing" /\ \E t \in IoThreads : Idle(t)
    BY <1>3, Moved DEF OpStep
  <2>3. ASSUME sock = "closing", NEW t \in IoThreads, Idle(t)
        PROVE  FALSE
    <3>1. PICK u \in Threads : pc[u] = "closing" BY <2>3 DEF ClosersClose
    <3>2. u \in Closers /\ closes > 0 BY <3>1 DEF ClosersClose
    <3>3. u # t BY <2>3, <3>1 DEF Idle
    <3>4. closes \in Nat BY DEF Inv, TypeOK
    <3> QED BY <1>u, <3>2, <3>3, <3>4 DEF Unraced, OneThreadCloses
  <2>4. q.st = "done" /\ q.ec = "ok" => o.st = "done" BY <2>2, <2>3
  <2> QED BY <1>s, <2>1, <2>2, <2>4 DEF Success, SentParts, PartsOnWire
<1>4. ASSUME NEW o \in ops, NEW n \in 1..Parts, NetSend(o, n)
      PROVE  Success'
  <2>1. UNCHANGED <<owed, log>> BY <1>4, Sent
  <2>2. \A q \in ops' : q.st = "done" => q.sent = Parts BY <1>4, Sent
  <2>3. \A c : c # o.cmd => SentParts(c)' = SentParts(c) BY <1>4, SentPieces
  <2>4. \A t \in Threads : owed[t] # NoAnswer => owed[t].cmd # o.cmd BY Elsewhere
  <2>5. \A i \in DOMAIN log : log[i].cmd # o.cmd BY Elsewhere
  <2>6. (\A t \in Threads : owed[t] # NoAnswer /\ owed[t].ec = "ok" => SentParts(owed[t].cmd) = 1..Parts)'
    BY <1>s, <2>1, <2>3, <2>4
  <2>7. (\A i \in DOMAIN log : log[i].ec = "ok" => SentParts(log[i].cmd) = 1..Parts)'
    BY <1>s, <2>1, <2>3, <2>5
  <2> QED BY <2>2, <2>6, <2>7 DEF Success
<1>5. ASSUME NEW t \in Threads, NEW o \in ops, Complete(t, o)
      PROVE  Success'
  <2> DEFINE a == [cmd |-> o.cmd, ec |-> o.ec]
  <2>1. a.ec = "ok" => SentParts(a.cmd) = 1..Parts
    BY <1>5, <1>s DEF Complete, Progress
  <2>2. owed' = [owed EXCEPT ![t] = a] /\ ops' \subseteq ops /\ UNCHANGED <<wire, log>>
    BY <1>5 DEF Complete, netVars
  <2> HIDE DEF a
  <2>3. \A u \in Threads : owed'[u] = owed[u] \/ owed'[u] = a BY <2>2, Typed
  <2> QED BY <1>s, <2>1, <2>2, <2>3 DEF Success, SentParts, PartsOnWire
<1>6. ASSUME NEW t \in Threads, CallHandler(t)
      PROVE  Success'
  <2>1. owed[t] \in Answers /\ owed[t] # NoAnswer BY <1>6, Typed DEF CallHandler, Inv, Owing
  <2>2. log' = Append(log, owed[t]) /\ owed' = [owed EXCEPT ![t] = NoAnswer] /\ UNCHANGED <<ops, wire>>
    BY <1>6 DEF CallHandler, netVars
  <2>3. \A j \in DOMAIN log' : log'[j] = owed[t] \/ (j \in DOMAIN log /\ log'[j] = log[j])
    BY <2>1, <2>2, Logged DEF Inv
  <2>4. \A u \in Threads : owed'[u] # NoAnswer => owed'[u] = owed[u] BY <2>2, Typed
  <2> QED BY <1>s, <2>1, <2>2, <2>3, <2>4 DEF Success, SentParts, PartsOnWire
<1>7. ASSUME NEW t \in Threads, NEW d \in posted, RunPosted(t, d)
      PROVE  Success'
  <2> DEFINE a == [cmd |-> d, ec |-> "canceled"]
  <2>1. a \in Answers /\ a.ec # "ok" BY Typed DEF Answers, Codes
  <2>2. log' = Append(log, a) /\ UNCHANGED <<owed, ops, wire>>
    BY <1>7 DEF RunPosted, threadVars, netVars
  <2> HIDE DEF a
  <2>3. \A j \in DOMAIN log' : log'[j] = a \/ (j \in DOMAIN log /\ log'[j] = log[j])
    BY <2>1, <2>2, Logged DEF Inv
  <2> QED BY <1>s, <2>1, <2>2, <2>3 DEF Success, SentParts, PartsOnWire
<1> QED
  BY <1>1, <1>2, <1>3, <1>4, <1>5, <1>6, <1>7, Steps
  DEF Quiet, QueueStep, SockStep, Connected, Reset, Dequeue, Drain, Shutdown, OpenAsync, Shut,
      threadVars, netVars, Success

\* With one io thread, whatever succeeds first was sent first.
LEMMA OrderStep ==
  ASSUME Inv, Placed, Unowing, OwedByIo, SentByWriter, Order, [Next]_vars
  PROVE  Order'
<1> SUFFICES ASSUME OneIo
             PROVE  (Logs /\ LogOwed /\ LogOp /\ OwedOp)'
  BY DEF Order, OneIo
<1>s. Logs /\ LogOwed /\ LogOp /\ OwedOp BY DEF Order
<1> DEFINE Goal == (Logs /\ LogOwed /\ LogOp /\ OwedOp)'
<1> USE DEF Logs, LogOwed, LogOp, OwedOp
<1>1. CASE UNCHANGED <<owed, ops, wire, log>>
  BY <1>1, <1>s DEF Before, PartsOnWire, Succeeded
<1>2. ASSUME NEW t \in Threads, Start(t)
      PROVE  Goal
  <2>1. UNCHANGED <<owed, wire, log>> /\ cur[t] \in Cmds /\ \A q \in ops' : q.cmd = cur[t]
    BY <1>2, StartOp
  <2>2. PartsOnWire(cur[t]) = {} BY <2>1 DEF SentByWriter, InWriter, Unsent
  <2>3. \A c, q : q \in ops' => Before(c, q.cmd)' BY <2>1, <2>2 DEF Before, PartsOnWire
  <2>4. Logs' /\ LogOwed' BY <1>s, <2>1 DEF Before, PartsOnWire, Succeeded
  <2> QED BY <2>3, <2>4
<1>3. ASSUME NEW o \in ops, OpStep(o)
      PROVE  Goal
  <2>1. UNCHANGED <<owed, wire, log>>
    BY <1>3 DEF OpStep, Continue, Shut, NetFail, threadVars, netVars
  <2>2. \A q \in ops' : q.cmd = o.cmd BY <1>3, Moved DEF OpStep
  <2> QED BY <1>s, <2>1, <2>2 DEF Before, PartsOnWire, Succeeded
<1>4. ASSUME NEW o \in ops, NEW n \in 1..Parts, NetSend(o, n)
      PROVE  Goal
  <2>1. UNCHANGED <<owed, log>> /\ \A q \in ops' : q.cmd = o.cmd BY <1>4, Sent
  <2>2. /\ \A t \in Threads : owed[t] # NoAnswer => owed[t].cmd # o.cmd
        /\ \A i \in DOMAIN log : log[i].cmd # o.cmd
    BY Elsewhere
  <2>3. /\ \A c, d : c # o.cmd /\ d # o.cmd /\ Before(c, d) => Before(c, d)'
        /\ \A c : c # o.cmd /\ Before(c, o.cmd) => Before(c, o.cmd)'
    BY <1>4, SentPieces
  <2>4. Logs' BY <1>s, <2>1, <2>2, <2>3
  <2>5. LogOwed' BY <1>s, <2>1, <2>2, <2>3 DEF Succeeded
  <2>6. LogOp' BY <1>s, <2>1, <2>2, <2>3
  <2>7. OwedOp' BY <1>s, <2>1, <2>2, <2>3 DEF Succeeded
  <2> QED BY <2>4, <2>5, <2>6, <2>7
<1>5. ASSUME NEW t \in Threads, NEW o \in ops, Complete(t, o)
      PROVE  Goal
  <2> DEFINE a == [cmd |-> o.cmd, ec |-> o.ec]
  <2>1. a.cmd = o.cmd OBVIOUS
  <2>2. owed' = [owed EXCEPT ![t] = a] /\ ops' = {} /\ UNCHANGED <<wire, log>>
    BY <1>5 DEF Complete, netVars, Inv, ExclusiveWriter
  <2> HIDE DEF a
  <2>3. \A u \in Threads : owed'[u] = owed[u] \/ owed'[u] = a BY <2>2, Typed
  <2> QED BY <1>s, <2>1, <2>2, <2>3 DEF Before, PartsOnWire, Succeeded
<1>6. ASSUME NEW t \in Threads, CallHandler(t)
      PROVE  Goal
  <2>1. owed[t] \in Answers /\ owed[t] # NoAnswer BY <1>6, Typed DEF CallHandler, Inv, Owing
  <2>2. log' = Append(log, owed[t]) /\ owed' = [owed EXCEPT ![t] = NoAnswer] /\ UNCHANGED <<ops, wire>>
    BY <1>6 DEF CallHandler, netVars
  <2>3. \A u \in Threads : owed[u] # NoAnswer => u = t BY <2>1 DEF OwedByIo, OneIo
  <2>4. \A u \in Threads : owed'[u] = NoAnswer BY <2>2, <2>3, Typed
  <2>5. /\ DOMAIN log' = DOMAIN log \cup {Len(log) + 1} /\ Len(log) + 1 \notin DOMAIN log
        /\ \A i \in DOMAIN log : log'[i] = log[i] /\ i < Len(log) + 1
        /\ log'[Len(log) + 1] = owed[t]
    BY <2>1, <2>2, Logged DEF Inv
  <2>6. Logs'
    <3>1. \A c, d : Before(c, d) => Before(c, d)' BY <2>2 DEF Before, PartsOnWire
    <3>2. DOMAIN log \subseteq Nat /\ Len(log) \in Nat BY LenProperties DEF Inv, TypeOK
    <3>3. \A i \in DOMAIN log : ~(Len(log) + 1 < i) BY <2>5, <3>2
    <3> QED BY <1>s, <2>1, <2>5, <3>1, <3>2, <3>3 DEF Succeeded
  <2>7. LogOp'
    BY <1>s, <2>1, <2>2, <2>5 DEF Succeeded, Before, PartsOnWire
  <2> QED BY <2>4, <2>6, <2>7 DEF Succeeded
<1>7. ASSUME NEW t \in Threads, NEW d \in posted, RunPosted(t, d)
      PROVE  Goal
  <2> DEFINE a == [cmd |-> d, ec |-> "canceled"]
  <2>1. a \in Answers /\ a.ec # "ok" BY Typed DEF Answers, Codes
  <2>2. log' = Append(log, a) /\ UNCHANGED <<owed, ops, wire>>
    BY <1>7 DEF RunPosted, threadVars, netVars
  <2> HIDE DEF a
  <2>3. \A j \in DOMAIN log' : log'[j] = a \/ (j \in DOMAIN log /\ log'[j] = log[j])
    BY <2>1, <2>2, Logged DEF Inv
  <2> QED BY <1>s, <2>1, <2>2, <2>3 DEF Before, PartsOnWire, Succeeded
<1> QED
  BY <1>1, <1>2, <1>3, <1>4, <1>5, <1>6, <1>7, Steps
  DEF Quiet, QueueStep, SockStep, Connected, Reset, Dequeue, Drain, Shutdown, OpenAsync, Shut,
      threadVars, netVars
-----------------------------------------------------------------------------
(* The theorems *)

\* Nothing has been queued, taken or sent at first.
LEMMA HistoryInit == Init => History
<1> SUFFICES ASSUME Init PROVE History OBVIOUS
<1>1. \A c \in Cmds : ~Taken(c) BY DEF Init, Taken, Cmds
<1>2. DOMAIN log = {} /\ DOMAIN wire = {} /\ Len(wire) = 0 BY DEF Init
<1>3. ops = {} /\ posted = {} /\ conn = 0 /\ closes = 0 BY DEF Init
<1>4. \A t \in Threads : owed[t] = NoAnswer /\ cur[t] = NoCmd /\ pc[t] = "idle" BY DEF Init
<1>5. Placed BY <1>1, <1>2, <1>3, <1>4 DEF Placed, InWriter, InOp, InOwed, Owes, Answered
<1>6. Unowing /\ OwedByIo BY <1>4 DEF Unowing, OwedByIo
<1>7. ClosersClose BY <1>4 DEF ClosersClose, Init
<1>8. WireEnd BY <1>2, <1>3 DEF WireEnd, Clean
<1>9. SentByWriter BY <1>2, <1>3, <1>4 DEF SentByWriter, Unsent, PartsOnWire
<1>10. Progress BY <1>3 DEF Progress
<1>11. Success BY <1>2, <1>3, <1>4 DEF Success
<1>12. Order BY <1>2, <1>3, <1>4 DEF Order, Logs, LogOwed, LogOp, OwedOp
<1> QED BY <1>5, <1>6, <1>7, <1>8, <1>9, <1>10, <1>11, <1>12 DEF History

\* Each part of the invariant is kept, most of them with the help of others.
LEMMA HistoryStep == ASSUME Inv, History, [Next]_vars PROVE History'
BY PlacedStep, UnowingStep, RolesStep, WireEndStep, SentByWriterStep, ProgressStep, SuccessStep, OrderStep
DEF History

\* The log, the wire and what is under way agree, in any reachable state: what
\* write_async, the completion lambdas and close() (socket.cpp:17-21, 83-121)
\* hand to each other is neither lost nor doubled.
THEOREM HistoryInvariance == Spec => []History
BY HistoryInit, HistoryStep, Invariance, PTL DEF Spec

\* OneOwner: a command that has left the queue is in exactly one pair of hands, or
\* its handler was called, once (socket.cpp:83-113).
THEOREM OwnerIsUnique == Spec => []OneOwner
<1>1. Inv /\ History => OneOwner BY PlacedOwner DEF History
<1> QED BY <1>1, Invariance, HistoryInvariance, PTL

\* NoSendAfterAnswer: a step that sends a piece sends it for a command whose
\* handler has not been called (socket.cpp:97-103).
THEOREM NothingSentAfterAnswer == Spec => NoSendAfterAnswer
<1> DEFINE Silent == \A i \in (DOMAIN wire') \ (DOMAIN wire) : ~Answered(wire'[i].cmd)
<1>1. ASSUME Inv, History, [Next]_vars
      PROVE  [Silent]_vars
  <2>1. CASE UNCHANGED wire BY <2>1
  <2>2. ASSUME NEW o \in ops, NEW n \in 1..Parts, NetSend(o, n)
        PROVE  Silent
    <3>1. ~Answered(o.cmd) BY <1>1, Elsewhere DEF History, Answered
    <3>2. \A i \in (DOMAIN wire') \ (DOMAIN wire) : wire'[i].cmd = o.cmd
      BY <1>1, <2>2, SentPieces
    <3> QED BY <3>1, <3>2
  <2> QED
    BY <1>1, <2>1, <2>2, Steps, Moved
    DEF Quiet, QueueStep, SockStep, OpStep, Connected, Reset, Dequeue, Drain, Start, CallHandler,
        Shutdown, OpenAsync, Complete, RunPosted, Shut, netVars
<1>2. Inv /\ History /\ [Next]_vars => [Silent]_vars BY <1>1
<1> QED BY <1>2, Invariance, HistoryInvariance, PTL DEF Spec, NoSendAfterAnswer

\* HandlersInWireOrder: with one thread in io_context::run(), handlers are told of
\* success in the order in which the PDUs were sent, although the lambda starts
\* the next write before it calls its handler (socket.cpp:100-103).
THEOREM HandlersFollowTheWire ==
  ASSUME OneIo PROVE Spec => []HandlersInWireOrder
<1>1. History => HandlersInWireOrder
  BY DEF History, Order, Logs, Before, HandlersInWireOrder
<1> QED BY <1>1, HistoryInvariance, PTL
-----------------------------------------------------------------------------
(* The socket opened again *)

\* No operation waits in the reactor for a descriptor that is closed.
LEMMA UnwaitedStep == ASSUME Inv, Unwaited, [Next]_vars PROVE Unwaited'
<1>t. /\ pc \in [Threads -> {"idle", "exchange", "dequeue", "serialize", "start", "handler", "drain",
                             "closing"}]
      /\ sock \in {"closed", "connecting", "connected", "broken", "closing"}
      /\ ops \subseteq Ops
  BY DEF Inv, TypeOK
<1>1. CASE UNCHANGED <<pc, sock, ops>>
  BY <1>1 DEF Unwaited
<1>2. ASSUME NEW t \in Threads, WriteAsync(t) \/ Close(t) \/ Exchange(t) \/ Release(t) \/ Serialize(t)
                                \/ CallHandler(t)
      PROVE  Unwaited'
  BY <1>t, <1>2
  DEF WriteAsync, Close, Exchange, Release, Serialize, CallHandler, Goto, Return, netVars, Unwaited
<1>3. ASSUME NEW t \in Threads, NEW p \in Writers, SeeEmpty(t, p) \/ Dequeue(t, p) \/ Drain(t, p)
      PROVE  Unwaited'
  BY <1>t, <1>3 DEF SeeEmpty, Dequeue, Drain, Goto, netVars, Unwaited
<1>4. ASSUME NEW t \in Threads, OpenAsync(t)
      PROVE  Unwaited'
  BY <1>t, <1>4 DEF OpenAsync, threadVars, Unwaited
<1>5. ASSUME NEW t \in Threads, Start(t)
      PROVE  Unwaited'
  <2> DEFINE o == [cmd |-> cur[t], sent |-> 0, st |-> "pending", ec |-> "ok"]
  <2>1. sock \in {"closed", "closing"} => Initiate(o).st # "pending" BY DEF Initiate
  <2>2. ops' = ops \cup {Initiate(o)} /\ UNCHANGED sock BY <1>5 DEF Start, netVars
  <2>3. \A u \in Threads : pc'[u] = "closing" => pc[u] = "closing"
    BY <1>t, <1>5 DEF Start, Return
  <2> HIDE DEF o
  <2> QED BY <2>1, <2>2, <2>3 DEF Unwaited
<1>6. ASSUME NEW t \in Threads, NEW o \in ops, Continue(t, o)
      PROVE  Unwaited'
  <2>1. o \in Ops BY <1>t
  <2>2. sock \in {"closed", "closing"} => Initiate(o).st # "pending" BY <2>1 DEF Initiate, Ops
  <2>3. ops' = (ops \ {o}) \cup {Initiate(o)} /\ UNCHANGED <<pc, sock>>
    BY <1>6 DEF Continue, threadVars, netVars
  <2> QED BY <2>2, <2>3 DEF Unwaited
<1>7. ASSUME NEW t \in Threads, NEW o \in ops, Complete(t, o)
      PROVE  Unwaited'
  BY <1>t, <1>7 DEF Complete, Goto, netVars, Unwaited
<1>8. ASSUME NEW t \in Threads, NEW c \in posted, RunPosted(t, c)
      PROVE  Unwaited'
  BY <1>1, <1>8 DEF RunPosted, threadVars, netVars
<1>9. ASSUME NEW t \in Threads, Shut(t)
      PROVE  Unwaited'
  <2>1. ops' = {Aborted(o) : o \in ops} BY <1>9 DEF Shut
  <2>2. \A o \in ops : Aborted(o).st # "pending" BY <1>t DEF Aborted, Ops
  <2>3. \A o \in ops' : o.st # "pending" BY <2>1, <2>2
  <2>4. /\ sock # "closing" /\ sock' \in {"closed", "closing"}
        /\ \A u \in Threads : pc'[u] = "closing" => sock' = "closing" /\ u = t
    BY <1>t, <1>9 DEF Shut, Goto, Unlocked, Unwaited
  <2> QED BY <2>3, <2>4 DEF Unwaited
<1>10. ASSUME NEW t \in Threads, Shutdown(t)
       PROVE  Unwaited'
  BY <1>t, <1>10 DEF Shutdown, Goto, Unwaited
<1>11. ASSUME NEW o \in ops, NEW n \in 1..Parts, NetSend(o, n)
       PROVE  Unwaited'
  BY <1>11 DEF NetSend, threadVars, Unwaited
<1>12. ASSUME NEW o \in ops, NetFail(o)
       PROVE  Unwaited'
  BY <1>12 DEF NetFail, threadVars, netVars, Unwaited
<1>13. CASE Connected \/ Reset
  BY <1>13 DEF Connected, Reset, threadVars, Unwaited
<1>14. CASE UNCHANGED vars
  BY <1>1, <1>14 DEF vars
<1> QED
  BY <1>2, <1>3, <1>4, <1>5, <1>6, <1>7, <1>8, <1>9, <1>10, <1>11, <1>12, <1>13, <1>14
  DEF Next, CallStep, ThreadStep, MethodStep, IoTask, NetStep, SendStep

\* A write that is not over has met one connection only, so that no PDU meets two.
LEMMA RestfulStep ==
  ASSUME Inv, SentByWriter, Unwaited, Here, OneConnectionPerPdu, [Next /\ AtRest]_vars
  PROVE  Here' /\ OneConnectionPerPdu'
<1>1. CASE UNCHANGED <<ops, conn, wire>>
  BY <1>1 DEF Here, OneConnectionPerPdu, PartsOnWire
<1>2. ASSUME NEW t \in Threads, Start(t)
      PROVE  Here' /\ OneConnectionPerPdu'
  <2>1. cur[t] \in Cmds /\ wire' = wire /\ \A q \in ops' : q.cmd = cur[t]
    BY <1>2, StartOp
  <2>2. PartsOnWire(cur[t]) = {} BY <2>1 DEF SentByWriter, InWriter, Unsent
  <2> QED BY <2>1, <2>2 DEF Here, OneConnectionPerPdu, PartsOnWire
<1>3. ASSUME NEW o \in ops, OpStep(o)
      PROVE  Here' /\ OneConnectionPerPdu'
  <2>1. /\ UNCHANGED <<wire, conn>>
        /\ \A q \in ops' : q.cmd = o.cmd /\ (o.st = "done" => q.st = "done")
    BY <1>3, Moved DEF OpStep
  <2> QED BY <2>1 DEF Here, OneConnectionPerPdu, PartsOnWire
<1>4. ASSUME NEW o \in ops, NEW n \in 1..Parts, NetSend(o, n)
      PROVE  Here' /\ OneConnectionPerPdu'
  <2>1. /\ Len(wire) \in Nat /\ DOMAIN wire = 1..Len(wire) /\ n \in Nat
        /\ DOMAIN wire' = 1..(Len(wire) + n) /\ conn' = conn
        /\ \A i \in DOMAIN wire : wire'[i] = wire[i]
        /\ \A q \in ops' : q.cmd = o.cmd
    BY <1>4, Sent, WireType
  <2>2. \A i \in 1..n : wire'[Len(wire) + i].conn = conn /\ wire'[Len(wire) + i].cmd = o.cmd
    <3>1. \A i \in 1..n : wire'[Len(wire) + i] = [conn |-> conn, cmd |-> o.cmd, part |-> o.sent + i]
      BY <1>4, Sent
    <3>2. ASSUME NEW i \in 1..n
          PROVE  wire'[Len(wire) + i].conn = conn /\ wire'[Len(wire) + i].cmd = o.cmd
      <4>1. wire'[Len(wire) + i] = [conn |-> conn, cmd |-> o.cmd, part |-> o.sent + i] BY <3>1
      <4> QED BY <4>1
    <3> QED BY <3>2
  <2>3. \A j \in PartsOnWire(o.cmd) : wire[j].conn = conn BY <1>4 DEF NetSend, Here
  <2>4. ASSUME NEW i \in DOMAIN wire', i \notin DOMAIN wire
        PROVE  wire'[i].conn = conn /\ wire'[i].cmd = o.cmd
    <3>1. i - Len(wire) \in 1..n /\ i = Len(wire) + (i - Len(wire)) BY <2>1, <2>4
    <3> QED BY <2>2, <3>1
  <2>5. \A j \in DOMAIN wire' : wire'[j].cmd = o.cmd => wire'[j].conn = conn
    BY <2>1, <2>3, <2>4 DEF PartsOnWire
  <2>6. Here' BY <2>1, <2>5 DEF Here, PartsOnWire
  <2>7. ASSUME NEW i \in DOMAIN wire', NEW j \in DOMAIN wire', wire'[i].cmd = wire'[j].cmd
        PROVE  wire'[i].conn = wire'[j].conn
    <3>1. CASE wire'[i].cmd = o.cmd BY <2>5, <2>7, <3>1
    <3>2. CASE wire'[i].cmd # o.cmd
      <4>1. i \in DOMAIN wire /\ j \in DOMAIN wire BY <2>4, <2>7, <3>2
      <4> QED BY <2>1, <2>7, <4>1 DEF OneConnectionPerPdu
    <3> QED BY <3>1, <3>2
  <2> QED BY <2>6, <2>7 DEF OneConnectionPerPdu
<1>5. ASSUME NEW t \in Threads, NEW o \in ops, Complete(t, o)
      PROVE  Here' /\ OneConnectionPerPdu'
  BY <1>5 DEF Complete, netVars, Here, OneConnectionPerPdu, PartsOnWire
<1>6. ASSUME NEW t \in Threads, OpenAsync(t)
      PROVE  Here' /\ OneConnectionPerPdu'
  <2>1. sock = "closed" /\ conn' = conn + 1 /\ UNCHANGED <<ops, wire>> BY <1>6 DEF OpenAsync
  <2>2. conn' # conn BY <2>1, WireType
  <2>3. AtRest BY <2>2 DEF vars
  <2>4. ops \subseteq Ops BY Typed
  <2>5. \A o \in ops : o.st = "done" BY <2>1, <2>2, <2>3, <2>4 DEF AtRest, Unwaited, Ops
  <2> QED BY <2>1, <2>5 DEF Here, OneConnectionPerPdu
<1>7. [Next]_vars OBVIOUS
<1> QED
  BY <1>1, <1>2, <1>3, <1>4, <1>5, <1>6, <1>7, Steps
  DEF Quiet, QueueStep, SockStep, Connected, Reset, Dequeue, Drain, CallHandler, Shutdown, RunPosted,
      Shut, netVars

\* Success on one connection is the truth.
LEMMA OneConnectionIsTrue ==
  ASSUME Inv, History, PiecesFollow, OneConnectionPerPdu
  PROVE  TruthfulUnlessRaced /\ WholePdus
<1>1. ASSUME NEW c, SentParts(c) = 1..Parts
      PROVE  SentWhole(c)
  <2>1. 1 \in SentParts(c) BY <1>1
  <2>2. PICK k \in PartsOnWire(c) : wire[k].part = 1 BY <2>1 DEF SentParts
  <2>3. k \in DOMAIN wire /\ wire[k].cmd = c BY DEF PartsOnWire, SentParts
  <2>4. wire[k] \in Pieces BY <2>3, WireType, ElementOfSeq
  <2>5. wire[k].conn \in 0..MaxConns BY <2>4 DEF Pieces
  <2>6. \A j \in PartsOnWire(c) : wire[j].conn = wire[k].conn
    BY <2>3 DEF OneConnectionPerPdu, PartsOnWire
  <2>7. {j \in PartsOnWire(c) : wire[j].conn = wire[k].conn} = PartsOnWire(c) BY <2>6
  <2> QED BY <1>1, <2>5, <2>7 DEF SentWhole, SentParts
<1>2. ASSUME Unraced
      PROVE  TruthfulAnswers
  BY <1>1, <1>2 DEF History, Success, SentByWriter, Unsent, TruthfulAnswers
<1>3. ASSUME NEW i \in DOMAIN wire, i > 1, wire[i].cmd = wire[i-1].cmd, wire[i].part = wire[i-1].part + 1
      PROVE  wire[i] = [wire[i-1] EXCEPT !.part = @ + 1]
  <2>1. i - 1 \in DOMAIN wire BY <1>3, WireType
  <2>2. wire[i].conn = wire[i-1].conn BY <1>3, <2>1 DEF OneConnectionPerPdu
  <2>3. wire[i] \in Pieces /\ wire[i-1] \in Pieces BY <2>1, WireType, ElementOfSeq
  <2> DEFINE a == wire[i]
             b == wire[i-1]
  <2> HIDE DEF a, b
  <2>4. a \in Pieces /\ b \in Pieces /\ a.conn = b.conn /\ a.cmd = b.cmd /\ a.part = b.part + 1
        => a = [b EXCEPT !.part = @ + 1]
    BY DEF Pieces
  <2> QED BY <1>3, <2>2, <2>3, <2>4 DEF a, b
<1>4. WholePdus BY <1>3 DEF PiecesFollow, WholePdus
<1> QED BY <1>2, <1>4 DEF TruthfulUnlessRaced

\* Pieces follow each other, whatever is opened when.
LEMMA FollowInvariance == Spec => []PiecesFollow
<1>1. Init => PiecesFollow BY DEF Init, PiecesFollow
<1>2. Inv /\ History /\ PiecesFollow /\ [Next]_vars => PiecesFollow' BY FollowStep DEF History
<1> QED BY <1>1, <1>2, Invariance, HistoryInvariance, PTL DEF Spec

\* RestfulSpec restricts Spec.
LEMMA RestfulImpliesSpec == RestfulSpec => Spec
<1>1. [Next /\ AtRest]_vars => [Next]_vars OBVIOUS
<1> QED BY <1>1, PTL DEF Spec, RestfulSpec

\* OneConnectionPerPdu: when the socket is opened again at rest, no PDU is continued on
\* the next connection (socket.cpp:97-104, 123-128).
THEOREM OnePduOneConnection == RestfulSpec => []OneConnectionPerPdu
<1>1. Init => Here /\ Unwaited /\ OneConnectionPerPdu
  BY DEF Init, Here, Unwaited, OneConnectionPerPdu
<1>2. [Next /\ AtRest]_vars => [Next]_vars OBVIOUS
<1>3. Inv /\ History /\ Unwaited /\ Here /\ OneConnectionPerPdu /\ [Next /\ AtRest]_vars
        => Unwaited' /\ Here' /\ OneConnectionPerPdu'
  BY <1>2, UnwaitedStep, RestfulStep DEF History
<1> QED
  BY <1>1, <1>3, RestfulImpliesSpec, Invariance, HistoryInvariance, PTL DEF RestfulSpec

\* WholePdus: what is sent on a connection is whole PDUs one after the other, but for
\* the last, and begins with the first piece of one, for any number of writers,
\* failures, closes and reconnections at rest (socket.cpp:83-104).
THEOREM PdusAreWhole == RestfulSpec => []WholePdus
<1>1. Inv /\ History /\ PiecesFollow /\ OneConnectionPerPdu => WholePdus BY OneConnectionIsTrue
<1> QED
  BY <1>1, OnePduOneConnection, RestfulImpliesSpec, Invariance, HistoryInvariance, FollowInvariance, PTL

\* TruthfulUnlessRaced: as long as no other thread closes beside the io_context, a
\* handler told errc::success had all of its PDU sent on one connection, one told
\* operation_canceled nothing, for any number of reconnections at rest
\* (socket.cpp:100-112).
THEOREM AnswersAreTruthful == RestfulSpec => []TruthfulUnlessRaced
<1>1. Inv /\ History /\ PiecesFollow /\ OneConnectionPerPdu => TruthfulUnlessRaced
  BY OneConnectionIsTrue
<1> QED
  BY <1>1, OnePduOneConnection, RestfulImpliesSpec, Invariance, HistoryInvariance, FollowInvariance, PTL

\* Both under Spec, without any condition on when the socket is opened, as long as no
\* PDU has been torn over two connections (socket.cpp:83-112).
THEOREM TrueUnlessTorn == Spec => [](OneConnectionPerPdu => TruthfulUnlessRaced /\ WholePdus)
<1>1. Inv /\ History /\ PiecesFollow => (OneConnectionPerPdu => TruthfulUnlessRaced /\ WholePdus)
  BY OneConnectionIsTrue
<1> QED BY <1>1, Invariance, HistoryInvariance, FollowInvariance, PTL

\* None has until the socket is opened again, so that both hold then whatever else happens
\* (socket.cpp:83-112).
THEOREM FirstConnection == Spec => [](conn = 0 => TruthfulUnlessRaced /\ WholePdus)
<1>1. ASSUME Inv, History, PiecesFollow, conn = 0
      PROVE  TruthfulUnlessRaced /\ WholePdus
  <2>1. \A i \in DOMAIN wire : wire[i].conn \in Nat /\ wire[i].conn <= 0
    BY <1>1, WireType DEF History, WireEnd
  <2>2. \A i \in DOMAIN wire : wire[i].conn = 0 BY <2>1
  <2>3. OneConnectionPerPdu BY <2>2 DEF OneConnectionPerPdu
  <2> QED BY <1>1, <2>3, OneConnectionIsTrue
<1>2. Inv /\ History /\ PiecesFollow => (conn = 0 => TruthfulUnlessRaced /\ WholePdus) BY <1>1
<1> QED BY <1>2, Invariance, HistoryInvariance, FollowInvariance, PTL
-----------------------------------------------------------------------------
(* The write path implements Outbox *)

\* Every step is a step of one command through its stages, in the order of its
\* producer, or is hidden from the callers of write_async.  Where a command is
\* decides the stage it has reached.

\* A command not yet submitted; one that is the writer's or of a write that is
\* not over.
New(c) == c[2] > enq[c[1]]
Writing(c) == InWriter(c) \/ \E o \in ops : o.cmd = c /\ o.st # "done"

\* The stage of a command, from where the command is.
LEMMA StageOf ==
  ASSUME Inv, NEW c \in Cmds
  PROVE  Stage(c) = IF New(c) THEN "new" ELSE IF ~Taken(c) THEN "queued" ELSE IF Writing(c) THEN "writing"
                    ELSE IF Answered(c) THEN "answered" ELSE "settled"
<1>1. (\E t \in Threads : Carrying(t) /\ cur[t] = c) <=> InWriter(c)
  BY DEF InWriter, Inv, Carried
<1>2. c[1] \in Writers /\ c[2] \in Nat BY DEF Cmds
<1>3. deq[c[1]] \in Nat BY <1>2 DEF Inv, TypeOK
<1>4. c[2] > deq[c[1]] <=> ~Taken(c) BY <1>2, <1>3 DEF Taken
<1> QED BY <1>1, <1>4 DEF Stage, New, Writing

\* The same of all commands.
Staged ==
  \A c \in Cmds : Stage(c) = IF New(c) THEN "new" ELSE IF ~Taken(c) THEN "queued" ELSE IF Writing(c) THEN "writing"
                             ELSE IF Answered(c) THEN "answered" ELSE "settled"

\* The stage of every command, now and after the next step.
LEMMA StagedAlways == Inv => Staged
BY StageOf DEF Staged
LEMMA StagedNext == Inv' => Staged'
BY StagedAlways, PTL

Stages == [c \in Cmds |-> Stage(c)]

\* What a command's stage depends on is as it was.
Same(c) == /\ New(c)' <=> New(c)
           /\ Taken(c)' <=> Taken(c)
           /\ Writing(c)' <=> Writing(c)
           /\ Answered(c)' <=> Answered(c)

\* A command of which all is as it was has the stage it had.
LEMMA StageSame ==
  ASSUME Inv, Inv', NEW c \in Cmds, Same(c)
  PROVE  Stage(c)' = Stage(c)
BY StagedAlways, StagedNext DEF Staged, Same

\* A step that callers do not see.
LEMMA Stutters ==
  ASSUME Inv, Inv', \A c \in Cmds : Same(c)
  PROVE  UNCHANGED Stages
BY StageSame DEF Stages

\* A step that callers see moves one command.
LEMMA MovesOne ==
  ASSUME Inv, Inv', NEW d \in Cmds, \A c \in Cmds : c # d => Same(c), NEW to, Stage(d)' = to
  PROVE  Promise!Move(d, Stage(d), to)
<1>1. \A c \in Cmds : c # d => Stage(c)' = Stage(c) BY StageSame
<1>2. Stages' = [Stages EXCEPT ![d] = to] BY <1>1 DEF Stages
<1>3. Stages[d] = Stage(d) BY DEF Stages
<1> QED BY <1>2, <1>3 DEF Promise!Move, Stages

\* The outbox's commands are the write path's.
LEMMA PromisedCmds == Promise!Cmds = Cmds
BY DEF Promise!Cmds, Cmds

-----------------------------------------------------------------------------
(* Steps *)

\* write_async submits a command.
LEMMA WriteAsyncSubmits ==
  ASSUME Inv, Inv', NEW t \in Threads, WriteAsync(t)
  PROVE  \E c \in Cmds : Promise!Submit(c)
<1>1. /\ t \in Writers /\ enq \in [Writers -> Nat] /\ deq \in [Writers -> Nat] /\ deq[t] <= enq[t]
      /\ enq' = [enq EXCEPT ![t] = @ + 1] /\ UNCHANGED <<deq, cur, ops, log>> /\ enq[t] < MaxWrites
  BY DEF WriteAsync, netVars, Inv, TypeOK
<1>a. <<t, enq[t] + 1>> \in Cmds BY <1>1 DEF Cmds
<1>b. PICK d \in Cmds : d = <<t, enq[t] + 1>> BY <1>a
<1>2. d \in Cmds /\ d[1] = t /\ d[2] = enq[t] + 1 BY <1>b
<1>3. ASSUME NEW c \in Cmds
      PROVE  /\ (Taken(c)' <=> Taken(c)) /\ (Writing(c)' <=> Writing(c)) /\ (Answered(c)' <=> Answered(c))
  BY <1>1 DEF Taken, Writing, InWriter, Answered
<1>4. ASSUME NEW c \in Cmds, c # d
      PROVE  New(c)' <=> New(c)
  <2>1. c[1] \in Writers /\ c[2] \in Nat /\ c = <<c[1], c[2]>> BY DEF Cmds
  <2>2. CASE c[1] = t
    <3>1. c[2] # enq[t] + 1 BY <1>4, <1>b, <2>1, <2>2
    <3>2. enq'[c[1]] = enq[t] + 1 BY <1>1, <2>2
    <3> QED BY <1>1, <2>1, <2>2, <3>1, <3>2 DEF New
  <2>3. CASE c[1] # t
    BY <1>1, <2>1, <2>3 DEF New
  <2> QED BY <2>2, <2>3
<1>5. New(d) /\ ~New(d)' /\ ~Taken(d)' BY <1>1, <1>2 DEF New, Taken
<1>6. ASSUME NEW e \in Promise!Earlier(d)
      PROVE  Stages[e] # "new"
  <2>1. e \in Cmds /\ e[1] = t /\ e[2] < enq[t] + 1 /\ e[2] \in Nat
    BY <1>2, PromisedCmds DEF Promise!Earlier, Cmds
  <2>2. ~New(e) BY <1>1, <2>1 DEF New
  <2>3. Stages[e] = Stage(e) BY <2>1 DEF Stages
  <2> QED BY <2>1, <2>2, <2>3, StagedAlways DEF Staged
<1>7. \A c \in Cmds : c # d => Same(c) BY <1>3, <1>4 DEF Same
<1>8. Stage(d) = "new" /\ Stage(d)' = "queued"
  BY <1>2, <1>5, StagedAlways, StagedNext DEF Staged
<1>9. Promise!Move(d, "new", "queued") BY <1>2, <1>7, <1>8, MovesOne
<1> QED BY <1>2, <1>6, <1>9 DEF Promise!Submit, Stages

\* try_dequeue finds the first of its producer's commands that are queued.
LEMMA PopFirst ==
  ASSUME Inv, NEW p \in Writers, NonEmpty(p)
  PROVE  Front(p) \in Cmds /\ Stage(Front(p)) = "queued" /\ Promise!First(Front(p))
<1> DEFINE d == Front(p)
<1>1. enq \in [Writers -> Nat] /\ deq \in [Writers -> Nat] /\ deq[p] < enq[p]
  BY DEF NonEmpty, Inv, TypeOK
<1>2. d \in Cmds /\ d[1] = p /\ d[2] = deq[p] + 1 BY FrontInCmds DEF Front, Inv
<1>3. ~New(d) /\ ~Taken(d) BY <1>1, <1>2 DEF New, Taken
<1>4. ASSUME NEW e \in Promise!Earlier(d)
      PROVE  Stages[e] # "queued"
  <2>1. e \in Cmds /\ e[1] = p /\ e[2] < deq[p] + 1 /\ e[2] \in Nat
    BY <1>2, PromisedCmds DEF Promise!Earlier, Cmds
  <2>2. Taken(e) BY <1>1, <2>1 DEF Taken
  <2>3. Stages[e] = Stage(e) BY <2>1 DEF Stages
  <2> QED BY <2>1, <2>2, <2>3, StagedAlways DEF Staged
<1> HIDE DEF d
<1>5. Stage(d) = "queued" BY <1>2, <1>3, StagedAlways DEF Staged
<1>6. Promise!First(d) BY <1>4 DEF Promise!First, Stages
<1> QED BY <1>2, <1>5, <1>6 DEF d

\* try_dequeue in write_next_async takes the first of them, while no other is being
\* written (socket.cpp:86-90).
LEMMA DequeueTakes ==
  ASSUME Inv, Inv', Placed, NEW t \in Threads, NEW p \in Writers, Dequeue(t, p)
  PROVE  \E c \in Cmds : Promise!Take(c)
<1>a. PICK d \in Cmds : d = Front(p) /\ Stage(d) = "queued" /\ Promise!First(d)
  BY PopFirst DEF Dequeue
<1>1. d \in Cmds /\ ~Taken(d) /\ \A c \in Cmds : Taken(c)' <=> Taken(c) \/ c = d
  BY <1>a, Popped DEF Dequeue, Inv
<1>2. Stage(d) = "queued" /\ Promise!First(d) BY <1>a
<1>3. cur' = [cur EXCEPT ![t] = d] /\ cur[t] = NoCmd /\ UNCHANGED <<enq, ops, log>>
  BY <1>a, Typed DEF Dequeue, netVars, Inv, Carried, Carrying
<1>4. ops = {} /\ \A u \in Threads : ~Carrying(u)
  BY DEF Dequeue, Inv, ExclusiveWriter, Holding, Carrying
<1>5. \A c \in Cmds : InWriter(c)' <=> InWriter(c) \/ c = d
  BY <1>1, <1>3, Typed DEF InWriter
<1>6. \A c \in Cmds : c # d => Same(c)
  BY <1>1, <1>3, <1>5 DEF Same, New, Writing, Answered
<1>7. Taken(d)' /\ Writing(d)' /\ (New(d)' <=> New(d)) BY <1>1, <1>3, <1>5 DEF Writing, New
<1>8. ~New(d) BY <1>1, <1>2, StagedAlways DEF Staged
<1>9. Stage(d)' = "writing" BY <1>1, <1>7, <1>8, StagedNext DEF Staged
<1>10. \A c \in Cmds : ~Writing(c) BY <1>4 DEF Writing, InWriter, Inv, Carried
<1>11. \A c \in Cmds : Stages[c] # "writing" BY <1>10, StagedAlways DEF Staged, Stages
<1>12. Promise!Move(d, "queued", "writing") BY <1>1, <1>2, <1>6, <1>9, MovesOne
<1> QED BY <1>1, <1>2, <1>11, <1>12, PromisedCmds DEF Promise!Take, Stages

\* try_dequeue in close() cancels the first of them (socket.cpp:109-110).
LEMMA DrainCancels ==
  ASSUME Inv, Inv', Placed, NEW t \in Threads, NEW p \in Writers, Drain(t, p)
  PROVE  \E c \in Cmds : Promise!Cancel(c)
<1>a. PICK d \in Cmds : d = Front(p) /\ Stage(d) = "queued" /\ Promise!First(d)
  BY PopFirst DEF Drain
<1>1. d \in Cmds /\ ~Taken(d) /\ \A c \in Cmds : Taken(c)' <=> Taken(c) \/ c = d
  BY <1>a, Popped DEF Drain, Inv
<1>2. Stage(d) = "queued" /\ Promise!First(d) BY <1>a
<1>3. UNCHANGED <<enq, cur, ops, log>> BY DEF Drain, netVars
<1>4. \A c \in Cmds : c # d => Same(c)
  BY <1>1, <1>3 DEF Same, New, Writing, InWriter, Answered
<1>5. ~Writing(d)' /\ ~Answered(d)'
  <2>1. ~InWriter(d) /\ ~InOp(d) /\ ~Answered(d) BY <1>1 DEF Placed
  <2> QED BY <1>3, <2>1 DEF Writing, InWriter, InOp, Answered
<1>6. Taken(d)' /\ ~New(d)' BY <1>1, <1>2, <1>3, StagedAlways DEF Staged, New
<1>7. Stage(d)' = "settled" BY <1>1, <1>5, <1>6, StagedNext DEF Staged
<1>8. Promise!Move(d, "queued", "settled") BY <1>1, <1>2, <1>4, <1>7, MovesOne
<1> QED BY <1>1, <1>2, <1>8 DEF Promise!Cancel

\* A write that is over settles its command, any other step of it is hidden.
LEMMA OverSettles ==
  ASSUME Inv, Inv', Placed, NEW d \in Cmds, UNCHANGED <<enq, deq, log>>, Writing(d),
         \A c \in Cmds : c # d => (Writing(c)' <=> Writing(c))
  PROVE  Promise!Settle(d) \/ UNCHANGED Stages
<1>1. \A c \in Cmds : (New(c)' <=> New(c)) /\ (Taken(c)' <=> Taken(c)) /\ (Answered(c)' <=> Answered(c))
  BY DEF New, Taken, Answered
<1>2. CASE Writing(d)' BY <1>1, <1>2, Stutters DEF Same
<1>3. CASE ~Writing(d)'
  <2>1. Taken(d) /\ ~Answered(d) BY DEF Placed, Writing, InOp
  <2>2. ~New(d)
    BY <2>1 DEF New, Taken, Inv, TypeOK, Cmds
  <2>3. Stage(d) = "writing" /\ Stage(d)' = "settled"
    BY <1>1, <1>3, <2>1, <2>2, StagedAlways, StagedNext DEF Staged
  <2>4. Promise!Move(d, "writing", "settled") BY <1>1, <2>3, MovesOne DEF Same
  <2> QED BY <2>4 DEF Promise!Settle
<1> QED BY <1>2, <1>3

\* A handler call answers a command that is settled.
LEMMA LoggedAnswers ==
  ASSUME Inv, Inv', NEW a \in Answers, log' = Append(log, a), UNCHANGED <<enq, deq, cur, ops>>,
         Taken(a.cmd), ~Writing(a.cmd), ~Answered(a.cmd)
  PROVE  Promise!Answer(a.cmd)
<1> DEFINE d == a.cmd
<1>1. d \in Cmds BY Typed
<1>2. \A c \in Cmds : Answered(c)' <=> Answered(c) \/ c = d BY Logged DEF Inv
<1>3. \A c \in Cmds : (New(c)' <=> New(c)) /\ (Taken(c)' <=> Taken(c)) /\ (Writing(c)' <=> Writing(c))
  BY DEF New, Taken, Writing, InWriter
<1>4. ~New(d) BY <1>1 DEF New, Taken, Inv, TypeOK, Cmds
<1>5. Stage(d) = "settled" /\ Stage(d)' = "answered"
  BY <1>1, <1>2, <1>3, <1>4, StagedAlways, StagedNext DEF Staged
<1>6. Promise!Move(d, "settled", "answered") BY <1>1, <1>2, <1>3, <1>5, MovesOne DEF Same
<1> QED BY <1>6 DEF Promise!Answer

\* Steps that leave the commands where they are.
LEMMA QuietStutters ==
  ASSUME Inv, Inv', UNCHANGED <<enq, deq, log>>, \A c \in Cmds : Writing(c)' <=> Writing(c)
  PROVE  UNCHANGED Stages
BY Stutters DEF Same, New, Taken, Answered

\* The steps of an operation that are not its last.
LEMMA OpSettles ==
  ASSUME Inv, Inv', Placed, NEW o \in ops, UNCHANGED <<enq, deq, cur, log>>,
         \A q \in ops' : q.cmd = o.cmd /\ (o.st = "done" => q.st = "done")
  PROVE  Promise!Settle(o.cmd) \/ UNCHANGED Stages
<1>1. o.cmd \in Cmds /\ ops = {o} BY Typed DEF Inv, ExclusiveWriter
<1>2. \A c \in Cmds : InWriter(c)' <=> InWriter(c) BY DEF InWriter
<1>3. \A c \in Cmds : c # o.cmd => (Writing(c)' <=> Writing(c)) BY <1>1, <1>2 DEF Writing
<1>4. CASE o.st # "done"
  <2>1. Writing(o.cmd) BY <1>4 DEF Writing
  <2> QED BY <1>1, <1>3, <2>1, OverSettles
<1>5. CASE o.st = "done"
  <2>1. Writing(o.cmd)' <=> Writing(o.cmd) BY <1>1, <1>2, <1>5 DEF Writing
  <2> QED BY <1>3, <2>1, QuietStutters
<1> QED BY <1>4, <1>5

\* Only write_async enqueues.
LEMMA EnqueuedOrNot == ASSUME [Next]_vars PROVE enq' = enq \/ \E t \in Threads : WriteAsync(t)
<1>1. CASE UNCHANGED vars
  BY <1>1 DEF vars
<1>2. ASSUME NEW t \in Threads, CallStep(t)
      PROVE  enq' = enq \/ WriteAsync(t)
  BY <1>2 DEF CallStep, Close, OpenAsync, queueVars
<1>3. ASSUME NEW t \in Threads, ThreadStep(t)
      PROVE  enq' = enq
  BY <1>3 DEF ThreadStep, MethodStep, Exchange, Release, Serialize, Start, CallHandler, SeeEmpty,
              Dequeue, Drain, Shut, Shutdown, queueVars
<1>4. ASSUME NEW t \in Threads, IoTask(t)
      PROVE  enq' = enq
  BY <1>4 DEF IoTask, Continue, Complete, RunPosted, queueVars
<1>5. CASE NetStep \/ Reset
  BY <1>5 DEF NetStep, SendStep, Connected, NetSend, NetFail, Reset, queueVars
<1> QED BY <1>1, <1>2, <1>3, <1>4, <1>5 DEF Next

\* Every step of the write path is one of the outbox or hidden.
LEMMA StepPromised ==
  ASSUME Inv, Inv', History, [Next]_vars
  PROVE  [Promise!Next]_Stages
<1>p. Placed BY DEF History
<1>n. (\E c \in Cmds : \/ Promise!Submit(c) \/ Promise!Take(c) \/ Promise!Cancel(c) \/ Promise!Settle(c)
                       \/ Promise!Answer(c))
      => Promise!Next
  BY PromisedCmds DEF Promise!Next
<1>1. ASSUME NEW t \in Threads, WriteAsync(t)
      PROVE  Promise!Next
  BY <1>1, <1>n, WriteAsyncSubmits
<1>2. ASSUME NEW t \in Threads, QueueStep(t)
      PROVE  Promise!Next
  BY <1>2, <1>n, <1>p, DequeueTakes, DrainCancels DEF QueueStep
<1> SUFFICES ASSUME enq' = enq PROVE [Promise!Next]_Stages BY <1>1, EnqueuedOrNot
<1>3. CASE Quiet \/ Connected \/ Reset
  <2>1. UNCHANGED <<enq, deq, cur, ops, log>>
    BY <1>3 DEF Quiet, Connected, Reset, queueVars, threadVars
  <2> QED BY <2>1, QuietStutters DEF Writing, InWriter
<1>4. ASSUME NEW t \in Threads, SockStep(t) \/ (Shut(t) /\ ops = {})
      PROVE  UNCHANGED Stages
  <2>1. UNCHANGED <<enq, deq, cur, ops, log>>
    BY <1>4 DEF SockStep, Shutdown, OpenAsync, Shut, queueVars, threadVars
  <2> QED BY <2>1, QuietStutters DEF Writing, InWriter
<1>5. ASSUME NEW t \in Threads, Start(t)
      PROVE  [Promise!Next]_Stages
  <2>1. PICK d \in Cmds : d = cur[t] BY <1>5, StartOp
  <2>2. PICK q \in Ops : ops' = {q} /\ q.cmd = d BY <1>5, <2>1, StartOp
  <2>3. UNCHANGED <<enq, deq, log>> /\ cur' = [cur EXCEPT ![t] = NoCmd] /\ ops = {}
    BY <1>5, StartOp DEF Start, queueVars
  <2>4. Writing(d) BY <2>1 DEF Writing, InWriter
  <2>5. \A u \in Threads : u # t => ~Carrying(u)
    BY <1>5 DEF Start, Inv, ExclusiveWriter, Holding, Carrying
  <2>6. \A c \in Cmds : InWriter(c) => c = d BY <2>1, <2>5 DEF InWriter, Inv, Carried
  <2>7. \A c \in Cmds : ~InWriter(c)' BY <2>3, <2>5, Typed DEF InWriter, Inv, Carried
  <2>8. \A c \in Cmds : c # d => (Writing(c)' <=> Writing(c))
    BY <2>2, <2>3, <2>6, <2>7 DEF Writing
  <2> QED BY <1>n, <1>p, <2>3, <2>4, <2>8, OverSettles
<1>6. ASSUME NEW t \in Threads, NEW o \in ops, Complete(t, o)
      PROVE  UNCHANGED Stages
  <2>1. UNCHANGED <<enq, deq, cur, log>> /\ ops' = ops \ {o} /\ o.st = "done"
    BY <1>6 DEF Complete, queueVars, netVars
  <2>2. \A c \in Cmds : Writing(c)' <=> Writing(c) BY <2>1 DEF Writing, InWriter
  <2> QED BY <2>1, <2>2, QuietStutters
<1>7. ASSUME NEW t \in Threads, CallHandler(t)
      PROVE  Promise!Next
  <2>1. PICK a \in Answers : a = owed[t] BY <1>7, Typed DEF CallHandler, Inv, Owing
  <2>2. InOwed(a.cmd) /\ a.cmd \in Cmds BY <2>1, Typed DEF InOwed, Owes
  <2>3. Taken(a.cmd) /\ ~InWriter(a.cmd) /\ ~InOp(a.cmd) /\ ~Answered(a.cmd)
    BY <1>p, <2>2 DEF Placed
  <2>4. log' = Append(log, a) /\ UNCHANGED <<enq, deq, cur, ops>>
    BY <1>7, <2>1 DEF CallHandler, queueVars
  <2> QED BY <1>n, <2>2, <2>3, <2>4, LoggedAnswers DEF Writing, InOp
<1>8. ASSUME NEW t \in Threads, NEW d \in posted, RunPosted(t, d)
      PROVE  Promise!Next
  <2>1. [cmd |-> d, ec |-> "canceled"] \in Answers BY Typed DEF Answers, Codes
  <2>2. PICK a \in Answers : a = [cmd |-> d, ec |-> "canceled"] BY <2>1
  <2>3. a.cmd = d /\ d \in Cmds BY <2>2, Typed
  <2>4. Taken(d) /\ ~InWriter(d) /\ ~InOp(d) /\ ~Answered(d) BY <1>p, <2>3 DEF Placed
  <2>5. log' = Append(log, a) /\ UNCHANGED <<enq, deq, cur, ops>>
    BY <1>8, <2>2 DEF RunPosted, queueVars, threadVars
  <2> QED BY <1>n, <2>3, <2>4, <2>5, LoggedAnswers DEF Writing, InOp
<1>9. ASSUME NEW o \in ops, OpStep(o)
      PROVE  [Promise!Next]_Stages
  <2>1. \A q \in ops' : q.cmd = o.cmd /\ (o.st = "done" => q.st = "done")
    BY <1>9, Moved DEF OpStep
  <2>2. UNCHANGED <<enq, deq, cur, log>>
    BY <1>9 DEF OpStep, Continue, Shut, NetFail, queueVars, threadVars
  <2> QED BY <1>n, <1>p, <2>1, <2>2, OpSettles, Typed
<1>10. ASSUME NEW o \in ops, NEW n \in 1..Parts, NetSend(o, n)
       PROVE  [Promise!Next]_Stages
  <2>1. \A q \in ops' : q.cmd = o.cmd BY <1>10, Sent
  <2>2. UNCHANGED <<enq, deq, cur, log>> /\ o.st # "done"
    BY <1>10 DEF NetSend, queueVars, threadVars
  <2> QED BY <1>n, <1>p, <2>1, <2>2, OpSettles, Typed
<1> QED
  BY <1>2, <1>3, <1>4, <1>5, <1>6, <1>7, <1>8, <1>9, <1>10, Steps DEF Stages

\* ImplementsOutbox: whatever the threads, the network and close() do, callers of
\* write_async see an outbox that takes each producer's commands in order, writes
\* one at a time, cancels what it has not begun and answers each command once
\* (socket.cpp:17-21, 83-121).
THEOREM OutboxImplemented == Spec => ImplementsOutbox
<1>1. Init => Promise!Init
  <2> SUFFICES ASSUME Init PROVE Promise!Init OBVIOUS
  <2>1. \A c \in Cmds : Stage(c) = "new" BY DEF Init, Stage, Cmds
  <2> QED BY <2>1, PromisedCmds DEF Promise!Init
<1>2. Inv /\ Inv' /\ History /\ [Next]_vars => [Promise!Next]_Stages BY StepPromised
<1> QED BY <1>1, <1>2, Invariance, HistoryInvariance, PTL DEF Spec, ImplementsOutbox, Promise!Spec, Stages
===============================================================================
