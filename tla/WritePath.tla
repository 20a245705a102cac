------------------------------ MODULE WritePath ------------------------------
(***************************************************************************)
(* The sending half of smpp::socket: the lock-free command queue           *)
(* _write_cmds, the flag _writing that makes one thread at a time the      *)
(* writer, the single buffer _write_buff, the composed asio::async_write   *)
(* on _sock, and close() and open_async(), which interfere with all of     *)
(* them.  A thread is a program counter stepping through write_async,      *)
(* write_next_async, the completion lambda of async_write or close; the    *)
(* granularity is one access to shared state per step.                     *)
(***************************************************************************)
EXTENDS Naturals, Sequences, FiniteSets

CONSTANTS
  Threads,    \* threads that may call the socket's methods
  IoThreads,  \* those of them that run io_context::run()
  Writers,    \* those of them that call write_async
  Closers,    \* those of them that call close and open_async
  MaxWrites,  \* bound: calls of write_async per writer
  MaxCloses,  \* bound: calls of close()
  MaxConns,   \* bound: connections the one socket object goes through
  Parts,      \* pieces the kernel may split one PDU into
  NoCmd,      \* no command
  NoAnswer    \* no handler call owed

ASSUME BoundsAssumption ==
  /\ MaxWrites \in Nat /\ MaxCloses \in Nat /\ MaxConns \in Nat
  /\ Parts \in Nat \ {0}
ASSUME ThreadsAssumption ==
  IoThreads \subseteq Threads /\ Writers \subseteq Threads /\ Closers \subseteq Threads

\* The n-th write_cmd enqueued by thread t.
Cmds == Writers \X (1..MaxWrites)

\* What a write handler is called with: errc::success, an error of the
\* network or of a closed descriptor, operation_aborted for an operation
\* pending when _sock was closed, operation_canceled from close() itself.
Codes == {"ok", "failed", "aborted", "canceled"}
Answers == [cmd : Cmds, ec : Codes]

ASSUME NoneAssumption == NoCmd \notin Cmds /\ NoAnswer \notin Answers

VARIABLES
  enq, deq,   \* _write_cmds: per producer, commands enqueued and dequeued
  writing,    \* _writing
  wbuf,       \* _write_buff: the command whose serialized PDU it holds
  pc,         \* where each thread is
  cur,        \* local write_cmd of write_next_async
  seen,       \* producers that try_dequeue has found empty
  owed,       \* answer the completion lambda passes to its handler last
  ops,        \* async_write operations that have not run their completion
  posted,     \* handlers that close() posted and that have not run
  sock, conn, \* _sock, and how many connections it has had
  closes,     \* calls of close() so far
  wire,       \* pieces of PDUs accepted by the kernel, in order
  log         \* handler calls, in order

queueVars == <<enq, deq>>
threadVars == <<pc, cur, seen, owed>>
netVars == <<sock, conn, closes, wire>>
vars == <<enq, deq, writing, wbuf, pc, cur, seen, owed, ops, posted,
          sock, conn, closes, wire, log>>

Ops == [cmd : Cmds, sent : 0..Parts, st : {"pending", "more", "done"}, ec : Codes]
Pieces == [conn : 0..MaxConns, cmd : Cmds, part : 1..Parts]

TypeOK ==
  /\ enq \in [Writers -> 0..MaxWrites] /\ deq \in [Writers -> 0..MaxWrites]
  /\ \A p \in Writers : deq[p] <= enq[p]
  /\ writing \in BOOLEAN /\ wbuf \in Cmds \cup {NoCmd}
  /\ pc \in [Threads -> {"idle", "exchange", "dequeue", "serialize", "start",
                         "handler", "drain", "closing"}]
  /\ cur \in [Threads -> Cmds \cup {NoCmd}]
  /\ seen \in [Threads -> SUBSET Writers]
  /\ owed \in [Threads -> Answers \cup {NoAnswer}]
  /\ ops \subseteq Ops /\ posted \subseteq Cmds
  /\ sock \in {"closed", "connecting", "connected", "broken", "closing"}
  /\ conn \in 0..MaxConns /\ closes \in 0..MaxCloses
  /\ wire \in Seq(Pieces) /\ log \in Seq(Answers)

\* A socket is created closed, or is handed to an acceptor through handle()
\* and is connected before the session starts to use it.
Init ==
  /\ enq = [p \in Writers |-> 0] /\ deq = [p \in Writers |-> 0]
  /\ writing = FALSE /\ wbuf = NoCmd
  /\ pc = [t \in Threads |-> "idle"]
  /\ cur = [t \in Threads |-> NoCmd]
  /\ seen = [t \in Threads |-> {}]
  /\ owed = [t \in Threads |-> NoAnswer]
  /\ ops = {} /\ posted = {}
  /\ sock \in {"closed", "connected"} /\ conn = 0 /\ closes = 0
  /\ wire = <<>> /\ log = <<>>
-----------------------------------------------------------------------------
(* Helpers *)

\* moodycamel::ConcurrentQueue keeps one FIFO per enqueuing thread.
NonEmpty(p) == deq[p] < enq[p]
Front(p) == <<p, deq[p] + 1>>
Pop(p) == deq' = [deq EXCEPT ![p] = @ + 1]

\* write_next_async returns to its caller: the completion lambda still has
\* to call its handler, write_async has nothing left to do.
Return(t) == pc' = [pc EXCEPT ![t] = IF owed[t] = NoAnswer THEN "idle" ELSE "handler"]

Goto(t, label) == pc' = [pc EXCEPT ![t] = label]

Idle(t) == pc[t] = "idle"

\* A scan of the queue is over when every producer has been seen empty; the
\* next scan starts afresh.
Scanned(t) == seen[t] = Writers
ForgetScan(t) == seen' = [seen EXCEPT ![t] = {}]

\* async_write_some on _sock: a closed descriptor fails at once, through a
\* posted completion; one that _sock.close() is just closing completes at once
\* with no octets and no error, which ends the composed write; otherwise the
\* operation waits in the reactor.
Initiate(o) == CASE sock = "closed" -> [o EXCEPT !.st = "done", !.ec = "failed"]
                 [] sock = "closing" -> [o EXCEPT !.st = "done"]
                 [] OTHER -> [o EXCEPT !.st = "pending"]

\* _sock_m is held by close() from the moment the descriptor is deregistered.
Unlocked == sock # "closing"
-----------------------------------------------------------------------------
(* write_async and write_next_async *)

\* write_async: enqueue, then enter write_next_async.
WriteAsync(t) ==
  /\ t \in Writers /\ Idle(t) /\ enq[t] < MaxWrites
  /\ enq' = [enq EXCEPT ![t] = @ + 1]
  /\ Goto(t, "exchange")
  /\ UNCHANGED <<deq, writing, wbuf, cur, seen, owed, ops, posted, netVars, log>>

\* Mutant: the result of _writing.exchange(true) is ignored.
ExchangeIgnored(t) ==
  /\ pc[t] = "exchange" /\ writing' = TRUE /\ Goto(t, "dequeue")
  /\ UNCHANGED <<queueVars, wbuf, cur, seen, owed, ops, posted, netVars, log>>

\* _writing.exchange(true): someone else is writing, or t becomes the writer.
Exchange(t) ==
  /\ pc[t] = "exchange"
  /\ \/ writing /\ Return(t) /\ UNCHANGED writing
     \/ ~writing /\ writing' = TRUE /\ Goto(t, "dequeue")
  /\ UNCHANGED <<queueVars, wbuf, cur, seen, owed, ops, posted, netVars, log>>

\* try_dequeue, here and in close(), looks at the producers one at a time ...
SeeEmpty(t, p) ==
  /\ pc[t] \in {"dequeue", "drain"}
  /\ p \notin seen[t] /\ ~NonEmpty(p)
  /\ seen' = [seen EXCEPT ![t] = @ \cup {p}]
  /\ UNCHANGED <<queueVars, writing, wbuf, pc, cur, owed, ops, posted, netVars, log>>

\* Mutant: the result of try_dequeue is ignored.
DequeueUnchecked(t, p) ==
  /\ pc[t] = "dequeue" /\ deq[p] < MaxWrites
  /\ Pop(p) /\ cur' = [cur EXCEPT ![t] = Front(p)]
  /\ Goto(t, "serialize") /\ ForgetScan(t)
  /\ UNCHANGED <<enq, writing, wbuf, owed, ops, posted, netVars, log>>

\* ... and takes the oldest command of one that is not empty ...
Dequeue(t, p) ==
  /\ pc[t] = "dequeue" /\ ~Scanned(t) /\ NonEmpty(p)
  /\ Pop(p) /\ cur' = [cur EXCEPT ![t] = Front(p)]
  /\ Goto(t, "serialize") /\ ForgetScan(t)
  /\ UNCHANGED <<enq, writing, wbuf, owed, ops, posted, netVars, log>>

\* ... or returns false, having seen each of them empty at some moment.
Release(t) ==
  /\ pc[t] = "dequeue" /\ Scanned(t)
  /\ writing' = FALSE
  /\ Return(t) /\ ForgetScan(t)
  /\ UNCHANGED <<queueVars, wbuf, cur, owed, ops, posted, netVars, log>>

\* _write_buff = cmd.p_pdu->serialize()
Serialize(t) ==
  /\ pc[t] = "serialize"
  /\ wbuf' = cur[t]
  /\ Goto(t, "start")
  /\ UNCHANGED <<queueVars, writing, cur, seen, owed, ops, posted, netVars, log>>

\* asio::async_write under _sock_m; its handler never runs inside the call.
Start(t) ==
  /\ pc[t] = "start" /\ Unlocked
  /\ ops' = ops \cup {Initiate([cmd |-> cur[t], sent |-> 0, st |-> "pending", ec |-> "ok"])}
  /\ cur' = [cur EXCEPT ![t] = NoCmd]
  /\ Return(t)
  /\ UNCHANGED <<queueVars, writing, wbuf, seen, owed, posted, netVars, log>>
-----------------------------------------------------------------------------
(* What the io_context's threads run *)

\* The intermediate handler of the composed async_write after a short write.
\* It is asio's, and does not take _sock_m.
Continue(t, o) ==
  /\ t \in IoThreads /\ Idle(t) /\ o.st = "more"
  /\ ops' = (ops \ {o}) \cup {Initiate(o)}
  /\ UNCHANGED <<queueVars, writing, wbuf, threadVars, posted, netVars, log>>

\* Mutant: async_write_some in place of async_write.
CompleteShort(t, o) ==
  /\ t \in IoThreads /\ Idle(t) /\ o.st # "pending"
  /\ ops' = ops \ {o}
  /\ writing' = FALSE
  /\ owed' = [owed EXCEPT ![t] = [cmd |-> o.cmd, ec |-> o.ec]]
  /\ Goto(t, "exchange")
  /\ UNCHANGED <<queueVars, wbuf, cur, seen, posted, netVars, log>>

\* Mutant: the lambda does not call write_next_async.
CompleteAndStop(t, o) ==
  /\ t \in IoThreads /\ Idle(t) /\ o.st = "done"
  /\ ops' = ops \ {o}
  /\ writing' = FALSE
  /\ owed' = [owed EXCEPT ![t] = [cmd |-> o.cmd, ec |-> o.ec]]
  /\ Goto(t, "handler")
  /\ UNCHANGED <<queueVars, wbuf, cur, seen, posted, netVars, log>>

\* Mutant: the lambda returns early when the write failed.
CompleteUnanswered(t, o) ==
  /\ t \in IoThreads /\ Idle(t) /\ o.st = "done"
  /\ ops' = ops \ {o}
  /\ writing' = FALSE
  /\ owed' = [owed EXCEPT ![t] = IF o.ec = "ok" THEN [cmd |-> o.cmd, ec |-> o.ec] ELSE @]
  /\ Goto(t, "exchange")
  /\ UNCHANGED <<queueVars, wbuf, cur, seen, posted, netVars, log>>

\* The completion lambda: _writing = false, then write_next_async, and only
\* then handler(ec).
Complete(t, o) ==
  /\ t \in IoThreads /\ Idle(t) /\ o.st = "done"
  /\ ops' = ops \ {o}
  /\ writing' = FALSE
  /\ owed' = [owed EXCEPT ![t] = [cmd |-> o.cmd, ec |-> o.ec]]
  /\ Goto(t, "exchange")
  /\ UNCHANGED <<queueVars, wbuf, cur, seen, posted, netVars, log>>

CallHandler(t) ==
  /\ pc[t] = "handler"
  /\ log' = Append(log, owed[t])
  /\ owed' = [owed EXCEPT ![t] = NoAnswer]
  /\ Goto(t, "idle")
  /\ UNCHANGED <<queueVars, writing, wbuf, cur, seen, ops, posted, netVars>>

\* A handler posted by close().
RunPosted(t, c) ==
  /\ t \in IoThreads /\ Idle(t) /\ c \in posted
  /\ posted' = posted \ {c}
  /\ log' = Append(log, [cmd |-> c, ec |-> "canceled"])
  /\ UNCHANGED <<queueVars, writing, wbuf, threadVars, ops, netVars>>
-----------------------------------------------------------------------------
(* close and open_async *)

Close(t) ==
  /\ t \in Closers /\ Idle(t) /\ closes < MaxCloses
  /\ closes' = closes + 1
  /\ Goto(t, "drain")
  /\ UNCHANGED <<queueVars, writing, wbuf, cur, seen, owed, ops, posted, sock, conn, wire, log>>

\* One turn of the loop that empties the queue.
Drain(t, p) ==
  /\ pc[t] = "drain" /\ ~Scanned(t) /\ NonEmpty(p)
  /\ Pop(p) /\ posted' = posted \cup {Front(p)}
  /\ ForgetScan(t)
  /\ UNCHANGED <<enq, writing, wbuf, pc, cur, owed, ops, netVars, log>>

\* Mutant: the descriptor is closed without aborting what waits for it.
KeptPending(o) == o

Aborted(o) == IF o.st = "pending" THEN [o EXCEPT !.st = "done", !.ec = "aborted"] ELSE o

\* Mutant: close() also answers the write in progress.
ShutAndAnswer(t) ==
  /\ pc[t] = "drain" /\ Scanned(t) /\ Unlocked
  /\ sock' = IF sock = "closed" THEN sock ELSE "closing"
  /\ ops' = {Aborted(o) : o \in ops}
  /\ posted' = posted \cup {o.cmd : o \in {o \in ops : o.st # "done"}}
  /\ Goto(t, IF sock = "closed" THEN "idle" ELSE "closing") /\ ForgetScan(t)
  /\ UNCHANGED <<queueVars, writing, wbuf, cur, owed, conn, closes, wire, log>>

\* Mutant: close() does not wait for the queue to be empty.
ShutUndrained(t) ==
  /\ pc[t] = "drain" /\ Unlocked
  /\ sock' = IF sock = "closed" THEN sock ELSE "closing"
  /\ ops' = {Aborted(o) : o \in ops}
  /\ Goto(t, IF sock = "closed" THEN "idle" ELSE "closing") /\ ForgetScan(t)
  /\ UNCHANGED <<queueVars, writing, wbuf, cur, owed, posted, conn, closes, wire, log>>

\* _sock.cancel and _sock.close under _sock_m, up to where the descriptor is
\* deregistered: what waits in the reactor is aborted, what has already
\* completed is not touched.  On a closed socket both calls do nothing.
Shut(t) ==
  /\ pc[t] = "drain" /\ Scanned(t) /\ Unlocked
  /\ sock' = IF sock = "closed" THEN sock ELSE "closing"
  /\ ops' = {Aborted(o) : o \in ops}
  /\ Goto(t, IF sock = "closed" THEN "idle" ELSE "closing") /\ ForgetScan(t)
  /\ UNCHANGED <<queueVars, writing, wbuf, cur, owed, posted, conn, closes, wire, log>>

\* The rest of _sock.close: the descriptor is closed, and _sock_m released.
Shutdown(t) ==
  /\ pc[t] = "closing"
  /\ sock' = "closed" /\ Goto(t, "idle")
  /\ UNCHANGED <<queueVars, writing, wbuf, cur, seen, owed, ops, posted, conn, closes, wire, log>>

\* open_async, called on a closed socket.  (Its completion lambda, which calls
\* the caller's open handler and changes no state of the socket, is left out.)
OpenAsync(t) ==
  /\ t \in Closers /\ Idle(t) /\ sock = "closed" /\ conn < MaxConns
  /\ sock' = "connecting" /\ conn' = conn + 1
  /\ UNCHANGED <<queueVars, writing, wbuf, threadVars, ops, posted, closes, wire, log>>
-----------------------------------------------------------------------------
(* The network *)

Connected ==
  /\ sock = "connecting"
  /\ sock' \in {"connected", "broken"}
  /\ UNCHANGED <<queueVars, writing, wbuf, threadVars, ops, posted, conn, closes, wire, log>>

\* The peer resets the connection: the descriptor stays open, sends fail.
Reset ==
  /\ sock = "connected" /\ sock' = "broken"
  /\ UNCHANGED <<queueVars, writing, wbuf, threadVars, ops, posted, conn, closes, wire, log>>

\* The kernel takes n more pieces of what _write_buff holds now.
NetSend(o, n) ==
  /\ o.st = "pending" /\ sock = "connected" /\ o.sent + n <= Parts
  /\ wire' = wire \o [i \in 1..n |-> [conn |-> conn, cmd |-> wbuf, part |-> o.sent + i]]
  /\ ops' = (ops \ {o}) \cup
              {[o EXCEPT !.sent = @ + n, !.st = IF o.sent + n = Parts THEN "done" ELSE "more"]}
  /\ UNCHANGED <<queueVars, writing, wbuf, threadVars, posted, sock, conn, closes, log>>

NetFail(o) ==
  /\ o.st = "pending" /\ sock = "broken"
  /\ ops' = (ops \ {o}) \cup {[o EXCEPT !.st = "done", !.ec = "failed"]}
  /\ UNCHANGED <<queueVars, writing, wbuf, threadVars, posted, netVars, log>>
-----------------------------------------------------------------------------
\* Calls the application decides on.
CallStep(t) == WriteAsync(t) \/ Close(t) \/ OpenAsync(t)

\* A thread inside a method of the socket or a completion lambda.
MethodStep(t) ==
  \/ Exchange(t) \/ Release(t) \/ Serialize(t) \/ Start(t) \/ CallHandler(t)
  \/ \E p \in Writers : SeeEmpty(t, p) \/ Dequeue(t, p) \/ Drain(t, p)

ThreadStep(t) == MethodStep(t) \/ Shut(t) \/ Shutdown(t)

\* A free thread of the io_context takes a task that is ready.
IoTask(t) ==
  \/ \E o \in ops : Continue(t, o) \/ Complete(t, o)
  \/ \E c \in posted : RunPosted(t, c)

\* The reactor completes an operation that is ready.
SendStep == \E o \in ops : NetFail(o) \/ \E n \in 1..Parts : NetSend(o, n)

NetStep == Connected \/ SendStep

Next ==
  \/ \E t \in Threads : CallStep(t) \/ ThreadStep(t) \/ IoTask(t)
  \/ NetStep \/ Reset

Spec == Init /\ [][Next]_vars

\* Threads that are inside a method run, the io_context's threads take ready
\* tasks, the network accepts bytes or reports an error.  Nothing obliges the
\* application to call a method or the peer to reset the connection.
Fairness ==
  /\ \A t \in Threads : WF_vars(ThreadStep(t))
  /\ WF_vars(\E t \in IoThreads : IoTask(t))
  /\ WF_vars(NetStep)

FairSpec == Spec /\ Fairness
-----------------------------------------------------------------------------
(* Properties *)

Holding(t) == pc[t] \in {"dequeue", "serialize", "start"}
Carrying(t) == pc[t] \in {"serialize", "start"}

PartsOnWire(c) == {i \in DOMAIN wire : wire[i].cmd = c}
Answered(c) == \E i \in DOMAIN log : log[i].cmd = c
Queued(c) == deq[c[1]] < c[2] /\ c[2] <= enq[c[1]]

\* _writing is set exactly while one thread is between exchange(true) and
\* async_write, or one asynchronous write is unfinished, never two of them
\* (socket.cpp:86-104): nobody else may touch _write_buff or the stream.
ExclusiveWriter ==
  /\ \A t, u \in Threads : Holding(t) /\ Holding(u) => t = u
  /\ \A o, q \in ops : o = q
  /\ ops # {} => \A t \in Threads : ~Holding(t)
  /\ writing <=> (ops # {} \/ \E t \in Threads : Holding(t))

\* While the kernel may still read _write_buff it holds the PDU of the
\* operation in progress: the next serialize() (socket.cpp:95) never replaces
\* the bytes of a PDU that is half sent.
WriteBufferStable == \A o \in ops : o.st # "done" => wbuf = o.cmd

\* What is sent on a connection is whole PDUs, one after the other: the first
\* piece on it begins a PDU, a PDU begins where another has ended, and nothing
\* comes between its pieces (socket.cpp:95-104).
WholePdus ==
  \A i \in DOMAIN wire :
    \/ wire[i].part = 1 /\ (i = 1 \/ wire[i-1].part = Parts \/ wire[i-1].conn # wire[i].conn)
    \/ i > 1 /\ wire[i] = [wire[i-1] EXCEPT !.part = @ + 1]

\* A command taken from the queue is in the hands of exactly one of: the
\* writer, an asynchronous write, a completion lambda that owes its answer, a
\* handler posted by close(), or the calls already made (socket.cpp:83-113).
\* No handler is lost between the two consumers of the queue, none runs twice.
OneOwner ==
  \A c \in Cmds :
    LET owners == {<<"writer", t>> : t \in {t \in Threads : Carrying(t) /\ cur[t] = c}}
            \cup {<<"op", o>> : o \in {o \in ops : o.cmd = c}}
            \cup {<<"owed", t>> : t \in {t \in Threads : owed[t] # NoAnswer /\ owed[t].cmd = c}}
            \cup {<<"posted", x>> : x \in posted \cap {c}}
            \cup {<<"log", i>> : i \in {i \in DOMAIN log : log[i].cmd = c}}
    IN Cardinality(owners) = IF c[2] <= deq[c[1]] THEN 1 ELSE 0

\* All of c's PDU was sent on one connection.
SentWhole(c) ==
  \E n \in 0..MaxConns : {wire[j].part : j \in {j \in PartsOnWire(c) : wire[j].conn = n}} = 1..Parts

\* What a handler is told is true: errc::success only when every piece of the
\* PDU has been written, all of them on one connection, operation_canceled only
\* when none has (socket.cpp:100-112).
TruthfulAnswers ==
  \A i \in DOMAIN log :
    /\ log[i].ec = "ok" => SentWhole(log[i].cmd)
    /\ log[i].ec = "canceled" => PartsOnWire(log[i].cmd) = {}

\* Nobody has called close() yet, or only the thread that runs the io_context
\* does, so that no lambda of asio's runs while the descriptor is being closed.
OneThreadCloses == \A t \in Closers, u \in IoThreads : t = u
Unraced == closes = 0 \/ OneThreadCloses

\* What a handler is told is true unless another thread's close() met the
\* intermediate handler of the composed write (socket.cpp:115-121), with any
\* number of failures, short writes and, opened at rest, reconnections.
TruthfulUnlessRaced == Unraced => TruthfulAnswers

\* The application opens the socket again when no composed write is between two
\* of its short writes, as when it waits for the handler of every write that
\* close() found begun.  Such a write would go on on the next connection.
AtRest == conn' # conn => \A o \in ops : o.st # "more"
RestfulSpec == Init /\ [][Next /\ AtRest]_vars

\* No piece of a PDU leaves after the handler of its command was called: the
\* caller may then reuse what the command refers to (socket.cpp:100-104).
NoSendAfterAnswer ==
  [][\A i \in (DOMAIN wire') \ (DOMAIN wire) : ~Answered(wire'[i].cmd)]_vars

\* One thread in io_context::run().
OneIo == \A t, u \in IoThreads : t = u

\* With one thread in io_context::run(), successful handlers are called in the
\* order in which their PDUs were written, although the lambda starts the next
\* write before it calls the handler of the last one (socket.cpp:101-103).
HandlersInWireOrder ==
  \A i, j \in DOMAIN log :
    i < j /\ log[i].ec = "ok" /\ log[j].ec = "ok" =>
      \A m \in PartsOnWire(log[i].cmd), n \in PartsOnWire(log[j].cmd) : m < n

\* A connection is given all of a PDU or a failed write: no PDU is continued
\* on the connection opened after the one that carried its beginning.
OneConnectionPerPdu ==
  \A i, j \in DOMAIN wire : wire[i].cmd = wire[j].cmd => wire[i].conn = wire[j].conn

\* Every write_async is answered (socket.cpp:17-21, 100-104, 109-113).
EveryWriteAnswered == \A c \in Cmds : Queued(c) ~> Answered(c)

\* A command that is in somebody's hands, or queued behind another that is.
Behind(c) == Queued(c) /\ (ops # {} \/ \E t \in Threads : Carrying(t))
Taken(c) == c[2] <= deq[c[1]]

\* A command that has left the queue is answered, and so is one that was queued
\* when another was being written: the completion lambda passes the
\* writer's role on (socket.cpp:86-104).  What may be left behind is only a
\* command enqueued while its predecessor in that role was giving it up.
WriterServesQueue == \A c \in Cmds : (Taken(c) \/ Behind(c)) ~> Answered(c)

\* A command that was queued when close() started to drain is answered, with
\* any number of threads: by the drain, or by the chain of completions that
\* close() provokes (socket.cpp:107-121).
CloseAnswers ==
  \A c \in Cmds :
    (Queued(c) /\ \E t \in Threads : pc[t] = "drain" /\ seen[t] = {}) ~> Answered(c)
-----------------------------------------------------------------------------
(* What callers of write_async are promised: see Outbox. *)

\* The stage a command has reached, as its caller sees it.
Stage(c) ==
  IF c[2] > enq[c[1]] THEN "new"
  ELSE IF c[2] > deq[c[1]] THEN "queued"
  ELSE IF (\E t \in Threads : Carrying(t) /\ cur[t] = c)
          \/ (\E o \in ops : o.cmd = c /\ o.st # "done") THEN "writing"
  ELSE IF Answered(c) THEN "answered" ELSE "settled"

Promise == INSTANCE Outbox WITH Producers <- Writers, stage <- [c \in Cmds |-> Stage(c)]

\* The write path implements the outbox.
ImplementsOutbox == Promise!Spec
=============================================================================
