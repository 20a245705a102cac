------------------------------- MODULE ReadPath -------------------------------
(***************************************************************************)
(* The receiving half of smpp::socket: the flag _reading that lets one     *)
(* read_async at a time through, the peek of the command length into       *)
(* _read_length_buff, the composed asio::async_read of the whole PDU into  *)
(* _read_buff, the parse, and close() and open_async(), which interfere    *)
(* with all of them.  (The other thing close() does, draining the write    *)
(* queue, is in WritePath.)  The granularity is one access to shared state *)
(* per step.                                                               *)
(***************************************************************************)
EXTENDS Naturals, Sequences, FiniteSets

CONSTANTS
  Threads,    \* threads that may call the socket's methods
  IoThreads,  \* those of them that run io_context::run()
  Callers,    \* those of them that call read_async
  Closers,    \* those of them that call close and open_async
  Overlap,    \* may read_async be called before the last call is answered?
  MaxReads,   \* bound: calls of read_async per caller
  MaxCloses,  \* bound: calls of close()
  MaxConns,   \* bound: connections the one socket object goes through
  Stream,     \* octets the peer sends on a connection
  LengthSize, \* octets of the command length
  MinLen,     \* octets of a PDU header
  NoCall,     \* no call
  NoAnswer    \* no handler call owed

\* The stream is cut into PDUs: an octet knows its PDU, its place in it and
\* the length that the PDU announces.
Octets == [msg : Nat, pos : Nat \ {0}, len : Nat]

ASSUME BoundsAssumption ==
  /\ MaxReads \in Nat /\ MaxCloses \in Nat /\ MaxConns \in Nat
  /\ Overlap \in BOOLEAN
  /\ LengthSize \in Nat \ {0} /\ MinLen \in Nat /\ MinLen >= LengthSize
ASSUME ThreadsAssumption ==
  IoThreads \subseteq Threads /\ Callers \subseteq Threads /\ Closers \subseteq Threads

\* The peer announces the length it sends, or zero.
ASSUME StreamAssumption ==
  /\ Stream \in Seq(Octets)
  /\ \A i \in DOMAIN Stream :
       /\ Stream[i].len = 0 \/ Stream[i].len >= LengthSize
       /\ i = 1 => Stream[i].pos = 1 /\ Stream[i].msg = 1
       /\ i > 1 => \/ Stream[i] = [Stream[i-1] EXCEPT !.pos = @ + 1]
                   \/ /\ Stream[i].pos = 1 /\ Stream[i].msg = Stream[i-1].msg + 1
                      /\ Stream[i-1].pos >= LengthSize /\ Stream[i-1].pos >= Stream[i-1].len
       /\ Stream[i].pos > LengthSize => Stream[i].pos <= Stream[i].len

\* The n-th call of read_async by thread t.
Calls == Callers \X (1..MaxReads)

\* An octet in one of the socket's buffers; resize() adds zeroes.
Zero == [conn |-> 0, msg |-> 0, pos |-> 1, len |-> 0]
Cell == [conn : 0..MaxConns, msg : Nat, pos : Nat \ {0}, len : Nat]

\* What a read handler is called with: errc::success or errc::protocol_error
\* from the parser, operation_in_progress, end of file, operation_aborted for
\* an operation pending when _sock was closed, another error of the network or
\* of a closed descriptor.
Codes == {"ok", "protocol", "busy", "eof", "aborted", "failed"}
Answers == [call : Calls, ec : Codes, pdu : Seq(Cell)]

ASSUME NoneAssumption == NoCall \notin Calls /\ NoAnswer \notin Answers

VARIABLES
  reading,     \* _reading
  lbuf, rbuf,  \* _read_length_buff and _read_buff
  pc,          \* where each thread is
  cur,         \* the call whose handler the thread carries
  owed,        \* answer the thread is about to pass to its handler
  calls,       \* calls of read_async by each caller
  ops,         \* receive operations that have not run their completion
  posted,      \* functions posted to the io_context that have not run
  sock, conn,  \* _sock, and how many connections it has had
  arrived,     \* octets of Stream that have reached this host
  taken,       \* octets of them taken out of the kernel's buffer
  fin,         \* the peer will send no more on this connection
  closes,      \* calls of close() so far
  log          \* handler calls, in order

bufVars == <<lbuf, rbuf>>
threadVars == <<pc, cur, owed>>
netVars == <<sock, conn, arrived, taken, fin>>
vars == <<reading, lbuf, rbuf, pc, cur, owed, calls, ops, posted,
          sock, conn, arrived, taken, fin, closes, log>>

\* size is what a peek returned, or how much of rbuf a body read has filled.
Ops == [kind : {"peek", "body"}, call : Calls, size : Nat,
        st : {"pending", "more", "done"}, ec : Codes]
Tasks == [task : {"busy", "repeek"}, call : Calls]

TypeOK ==
  /\ reading \in BOOLEAN
  /\ lbuf \in Seq(Cell) /\ rbuf \in Seq(Cell)
  /\ pc \in [Threads -> {"idle", "exchange", "peek", "body", "parse", "handler",
                         "closing"}]
  /\ cur \in [Threads -> Calls \cup {NoCall}]
  /\ owed \in [Threads -> Answers \cup {NoAnswer}]
  /\ calls \in [Callers -> 0..MaxReads]
  /\ ops \subseteq Ops /\ posted \subseteq Tasks
  /\ sock \in {"closed", "connecting", "connected", "broken", "closing"} /\ conn \in 0..MaxConns
  /\ arrived \in 0..Len(Stream) /\ taken \in 0..arrived
  /\ fin \in BOOLEAN /\ closes \in 0..MaxCloses
  /\ log \in Seq(Answers)

Init ==
  /\ reading = FALSE /\ lbuf = <<>> /\ rbuf = <<>>
  /\ pc = [t \in Threads |-> "idle"]
  /\ cur = [t \in Threads |-> NoCall]
  /\ owed = [t \in Threads |-> NoAnswer]
  /\ calls = [t \in Callers |-> 0]
  /\ ops = {} /\ posted = {}
  /\ sock \in {"closed", "connected"} /\ conn = 0
  /\ arrived = 0 /\ taken = 0 /\ fin = FALSE
  /\ closes = 0 /\ log = <<>>
-----------------------------------------------------------------------------
(* Helpers *)

Goto(t, label) == pc' = [pc EXCEPT ![t] = label]
Idle(t) == pc[t] = "idle"
Owe(t, a) == owed' = [owed EXCEPT ![t] = a]
Error(c, ec) == [call |-> c, ec |-> ec, pdu |-> <<>>]

Made(c) == c[2] <= calls[c[1]]
Answered(c) == \E i \in DOMAIN log : log[i].call = c

Available == arrived - taken
Smaller(m, n) == IF m < n THEN m ELSE n

\* The octets k of the stream, as they are copied from this connection.
Receive(k) == [conn |-> conn, msg |-> Stream[k].msg, pos |-> Stream[k].pos, len |-> Stream[k].len]

\* The command length that LengthSize peeked octets spell.  Octets from the middle
\* of a PDU spell anything.
Announced(cells) == IF cells[1].pos = 1 THEN {cells[1].len} ELSE 0..Len(Stream)

\* vector::resize
Resize(cells, n) == [i \in 1..n |-> IF i <= Len(cells) THEN cells[i] ELSE Zero]

\* async_receive and async_read_some on _sock: an empty buffer completes at
\* once, a closed descriptor fails at once, both through a posted completion;
\* one that _sock.close() is just closing completes at once with no octets and
\* no error, which ends a composed read; any other operation waits in the
\* reactor.
Initiate(o, want) ==
  IF sock = "closing" \/ (o.kind = "body" /\ want = 0) THEN [o EXCEPT !.st = "done"]
  ELSE IF sock = "closed" THEN [o EXCEPT !.st = "done", !.ec = "failed"]
  ELSE [o EXCEPT !.st = "pending"]

\* _sock_m is held by close() from the moment the descriptor is deregistered.
Unlocked == sock # "closing"

Operation(kind, c) == [kind |-> kind, call |-> c, size |-> 0, st |-> "pending", ec |-> "ok"]
-----------------------------------------------------------------------------
(* read_async *)

ReadAsync(t) ==
  /\ t \in Callers /\ Idle(t) /\ calls[t] < MaxReads
  /\ Overlap \/ \A c \in Calls : Made(c) => Answered(c)
  /\ calls' = [calls EXCEPT ![t] = @ + 1]
  /\ cur' = [cur EXCEPT ![t] = <<t, calls[t] + 1>>]
  /\ Goto(t, "exchange")
  /\ UNCHANGED <<reading, bufVars, owed, ops, posted, netVars, closes, log>>

\* Mutant: the result of _reading.exchange(true) is ignored.
ExchangeIgnored(t) ==
  /\ pc[t] = "exchange" /\ reading' = TRUE /\ Goto(t, "peek")
  /\ UNCHANGED <<posted, cur, bufVars, owed, calls, ops, netVars, closes, log>>

\* Mutant: no return after the handler has been posted.
ExchangeFallsThrough(t) ==
  /\ pc[t] = "exchange" /\ reading' = TRUE /\ Goto(t, "peek")
  /\ posted' = IF reading THEN posted \cup {[task |-> "busy", call |-> cur[t]]} ELSE posted
  /\ UNCHANGED <<cur, bufVars, owed, calls, ops, netVars, closes, log>>

\* _reading.exchange(true): another read is in progress, and the handler is
\* posted with operation_in_progress, or t goes on to _read_async.
Exchange(t) ==
  /\ pc[t] = "exchange"
  /\ \/ /\ reading
        /\ posted' = posted \cup {[task |-> "busy", call |-> cur[t]]}
        /\ cur' = [cur EXCEPT ![t] = NoCall]
        /\ Goto(t, "idle") /\ UNCHANGED reading
     \/ /\ ~reading /\ reading' = TRUE
        /\ Goto(t, "peek") /\ UNCHANGED <<posted, cur>>
  /\ UNCHANGED <<bufVars, owed, calls, ops, netVars, closes, log>>

\* _read_async: async_receive with message_peek, under _sock_m.
StartPeek(t) ==
  /\ pc[t] = "peek" /\ Unlocked
  /\ ops' = ops \cup {Initiate(Operation("peek", cur[t]), LengthSize)}
  /\ cur' = [cur EXCEPT ![t] = NoCall]
  /\ Goto(t, "idle")
  /\ UNCHANGED <<reading, bufVars, owed, calls, posted, netVars, closes, log>>
-----------------------------------------------------------------------------
(* What the io_context's threads run *)

RunBusy(t, p) ==
  /\ t \in IoThreads /\ Idle(t) /\ p.task = "busy"
  /\ posted' = posted \ {p}
  /\ log' = Append(log, Error(p.call, "busy"))
  /\ UNCHANGED <<reading, bufVars, threadVars, calls, ops, netVars, closes>>

\* Mutant: the posted function has not captured the handler.
RunRepeekBare(t, p) ==
  /\ t \in IoThreads /\ Idle(t) /\ p.task = "repeek"
  /\ posted' = posted \ {p} /\ Goto(t, "peek")
  /\ UNCHANGED <<reading, bufVars, cur, owed, calls, ops, netVars, closes, log>>

\* The posted _read_async after a short peek.
RunRepeek(t, p) ==
  /\ t \in IoThreads /\ Idle(t) /\ p.task = "repeek"
  /\ posted' = posted \ {p}
  /\ cur' = [cur EXCEPT ![t] = p.call]
  /\ Goto(t, "peek")
  /\ UNCHANGED <<reading, bufVars, owed, calls, ops, netVars, closes, log>>

Completing(t, o) == t \in IoThreads /\ Idle(t) /\ o.st = "done"

\* Either operation failed: _reading = false, and then handler(ec, nullptr).
Failed(t, o) ==
  /\ Completing(t, o) /\ o.ec # "ok"
  /\ ops' = ops \ {o}
  /\ reading' = FALSE
  /\ Owe(t, Error(o.call, o.ec)) /\ Goto(t, "handler")
  /\ UNCHANGED <<bufVars, cur, calls, posted, netVars, closes, log>>

\* Mutant: a short peek is not repeated.
PeekShortDropped(t, o) ==
  /\ Completing(t, o) /\ o.kind = "peek" /\ o.ec = "ok" /\ o.size < LengthSize
  /\ ops' = ops \ {o}
  /\ UNCHANGED <<reading, bufVars, threadVars, calls, posted, netVars, closes, log>>

\* The peek returned fewer octets than a command length has.
PeekShort(t, o) ==
  /\ Completing(t, o) /\ o.kind = "peek" /\ o.ec = "ok" /\ o.size < LengthSize
  /\ ops' = ops \ {o}
  /\ posted' = posted \cup {[task |-> "repeek", call |-> o.call]}
  /\ UNCHANGED <<reading, bufVars, threadVars, calls, netVars, closes, log>>

\* The command length is known: _read_buff.resize(length) ...
PeekFull(t, o) ==
  /\ Completing(t, o) /\ o.kind = "peek" /\ o.ec = "ok" /\ o.size >= LengthSize
  /\ ops' = ops \ {o}
  /\ \E n \in Announced(lbuf) : rbuf' = Resize(rbuf, n)
  /\ cur' = [cur EXCEPT ![t] = o.call] /\ Goto(t, "body")
  /\ UNCHANGED <<reading, lbuf, owed, calls, posted, netVars, closes, log>>

\* ... and async_read of as many octets, under _sock_m.
StartBody(t) ==
  /\ pc[t] = "body" /\ Unlocked
  /\ ops' = ops \cup {Initiate(Operation("body", cur[t]), Len(rbuf))}
  /\ cur' = [cur EXCEPT ![t] = NoCall]
  /\ Goto(t, "idle")
  /\ UNCHANGED <<reading, bufVars, owed, calls, posted, netVars, closes, log>>

\* The intermediate handler of the composed async_read after a short read.
\* It is asio's, and does not take _sock_m.
Continue(t, o) ==
  /\ t \in IoThreads /\ Idle(t) /\ o.st = "more"
  /\ ops' = (ops \ {o}) \cup {Initiate(o, Len(rbuf) - o.size)}
  /\ UNCHANGED <<reading, bufVars, threadVars, calls, posted, netVars, closes, log>>

\* Mutant: async_read_some in place of async_read.
BodyDoneShort(t, o) ==
  /\ t \in IoThreads /\ Idle(t) /\ o.st # "pending" /\ o.kind = "body" /\ o.ec = "ok"
  /\ ops' = ops \ {o}
  /\ reading' = FALSE
  /\ cur' = [cur EXCEPT ![t] = o.call] /\ Goto(t, "parse")
  /\ UNCHANGED <<bufVars, owed, calls, posted, netVars, closes, log>>

\* Mutant: the error code of async_read is not looked at.
BodyDoneUnchecked(t, o) ==
  /\ Completing(t, o) /\ o.kind = "body"
  /\ ops' = ops \ {o}
  /\ reading' = FALSE
  /\ cur' = [cur EXCEPT ![t] = o.call] /\ Goto(t, "parse")
  /\ UNCHANGED <<bufVars, owed, calls, posted, netVars, closes, log>>

\* The PDU has been read: _reading = false ...
BodyDone(t, o) ==
  /\ Completing(t, o) /\ o.kind = "body" /\ o.ec = "ok"
  /\ ops' = ops \ {o}
  /\ reading' = FALSE
  /\ cur' = [cur EXCEPT ![t] = o.call] /\ Goto(t, "parse")
  /\ UNCHANGED <<bufVars, owed, calls, posted, netVars, closes, log>>

\* ... and only then tryParse(_read_buff).
Parse(t) ==
  /\ pc[t] = "parse"
  /\ Owe(t, [call |-> cur[t], ec |-> IF Len(rbuf) >= MinLen THEN "ok" ELSE "protocol", pdu |-> rbuf])
  /\ cur' = [cur EXCEPT ![t] = NoCall]
  /\ Goto(t, "handler")
  /\ UNCHANGED <<reading, bufVars, calls, ops, posted, netVars, closes, log>>

CallHandler(t) ==
  /\ pc[t] = "handler"
  /\ log' = Append(log, owed[t])
  /\ Owe(t, NoAnswer) /\ Goto(t, "idle")
  /\ UNCHANGED <<reading, bufVars, cur, calls, ops, posted, netVars, closes>>
-----------------------------------------------------------------------------
(* close and open_async *)

Aborted(o) == IF o.st = "pending" THEN [o EXCEPT !.st = "done", !.ec = "aborted"] ELSE o

\* Mutant: the descriptor is closed without aborting what waits for it.
CloseKeepsOps(t) ==
  /\ t \in Closers /\ Idle(t) /\ closes < MaxCloses /\ Unlocked
  /\ closes' = closes + 1
  /\ sock' = IF sock = "closed" THEN sock ELSE "closing"
  /\ Goto(t, IF sock = "closed" THEN "idle" ELSE "closing")
  /\ UNCHANGED <<reading, bufVars, cur, owed, calls, ops, posted, conn, arrived, taken, fin, log>>

\* _sock.cancel and _sock.close under _sock_m, up to where the descriptor is
\* deregistered.  On a closed socket both calls do nothing.
Close(t) ==
  /\ t \in Closers /\ Idle(t) /\ closes < MaxCloses /\ Unlocked
  /\ closes' = closes + 1
  /\ sock' = IF sock = "closed" THEN sock ELSE "closing"
  /\ ops' = {Aborted(o) : o \in ops}
  /\ Goto(t, IF sock = "closed" THEN "idle" ELSE "closing")
  /\ UNCHANGED <<reading, bufVars, cur, owed, calls, posted, conn, arrived, taken, fin, log>>

\* The rest of _sock.close: the descriptor is closed, and _sock_m released.
Shutdown(t) ==
  /\ pc[t] = "closing"
  /\ sock' = "closed" /\ Goto(t, "idle")
  /\ UNCHANGED <<reading, bufVars, cur, owed, calls, ops, posted, conn, arrived, taken, fin,
                 closes, log>>

\* open_async, called on a closed socket.  (Its completion lambda, which calls
\* the caller's open handler and changes no state of the socket, is left out.)
OpenAsync(t) ==
  /\ t \in Closers /\ Idle(t) /\ sock = "closed" /\ conn < MaxConns
  /\ sock' = "connecting" /\ conn' = conn + 1
  /\ arrived' = 0 /\ taken' = 0 /\ fin' = FALSE
  /\ UNCHANGED <<reading, bufVars, threadVars, calls, ops, posted, closes, log>>
-----------------------------------------------------------------------------
(* The network and the reactor *)

Connected ==
  /\ sock = "connecting"
  /\ sock' \in {"connected", "broken"}
  /\ UNCHANGED <<reading, bufVars, threadVars, calls, ops, posted, conn, arrived, taken, fin,
                 closes, log>>

\* The peer resets the connection: the descriptor stays open, receives fail.
Reset ==
  /\ sock = "connected" /\ sock' = "broken"
  /\ UNCHANGED <<reading, bufVars, threadVars, calls, ops, posted, conn, arrived, taken, fin,
                 closes, log>>

Arrive ==
  /\ sock = "connected" /\ ~fin /\ arrived < Len(Stream)
  /\ arrived' = arrived + 1
  /\ UNCHANGED <<reading, bufVars, threadVars, calls, ops, posted, sock, conn, taken, fin,
                 closes, log>>

\* The peer closes its end, wherever it is in its stream.
Fin ==
  /\ sock = "connected" /\ ~fin /\ fin' = TRUE
  /\ UNCHANGED <<reading, bufVars, threadVars, calls, ops, posted, sock, conn, arrived, taken,
                 closes, log>>

Finish(o, changed) == ops' = (ops \ {o}) \cup {changed}

\* A peek copies up to LengthSize octets and leaves them in the kernel's buffer.
NetPeek(o) ==
  /\ o.st = "pending" /\ o.kind = "peek" /\ sock = "connected" /\ Available > 0
  /\ lbuf' = [i \in 1..Smaller(LengthSize, Available) |-> Receive(taken + i)]
  /\ Finish(o, [o EXCEPT !.size = Smaller(LengthSize, Available), !.st = "done"])
  /\ UNCHANGED <<reading, rbuf, threadVars, calls, posted, netVars, closes, log>>

\* A read takes n octets.
NetRead(o, n) ==
  /\ o.st = "pending" /\ o.kind = "body" /\ sock = "connected"
  /\ n <= Available /\ o.size + n <= Len(rbuf)
  /\ taken' = taken + n
  /\ rbuf' = [i \in DOMAIN rbuf |->
                IF i \in (o.size + 1)..(o.size + n) THEN Receive(taken + i - o.size) ELSE rbuf[i]]
  /\ Finish(o, [o EXCEPT !.size = @ + n, !.st = IF o.size + n = Len(rbuf) THEN "done" ELSE "more"])
  /\ UNCHANGED <<reading, lbuf, threadVars, calls, posted, sock, conn, arrived, fin, closes, log>>

\* End of file, or an error of the connection.
NetFail(o) ==
  /\ o.st = "pending"
  /\ \/ /\ sock = "connected" /\ fin /\ Available = 0
        /\ Finish(o, [o EXCEPT !.st = "done", !.ec = "eof"])
     \/ /\ sock = "broken"
        /\ Finish(o, [o EXCEPT !.st = "done", !.ec = "failed"])
  /\ UNCHANGED <<reading, bufVars, threadVars, calls, posted, netVars, closes, log>>
-----------------------------------------------------------------------------
\* Calls the application decides on.
CallStep(t) == ReadAsync(t) \/ Close(t) \/ OpenAsync(t)

\* A thread inside a method of the socket or a completion lambda.
MethodStep(t) == Exchange(t) \/ StartPeek(t) \/ StartBody(t) \/ Parse(t) \/ CallHandler(t)

ThreadStep(t) == MethodStep(t) \/ Shutdown(t)

\* A free thread of the io_context takes a ready task, on behalf of call c.
IoTask(t, c) ==
  \/ \E o \in ops : /\ o.call = c
                    /\ \/ Failed(t, o) \/ PeekShort(t, o) \/ PeekFull(t, o)
                       \/ Continue(t, o) \/ BodyDone(t, o)
  \/ \E p \in posted : p.call = c /\ (RunBusy(t, p) \/ RunRepeek(t, p))

\* The reactor completes an operation that is ready.
ReceiveStep ==
  \E o \in ops : NetPeek(o) \/ NetFail(o) \/ \E n \in 1..Len(Stream) : NetRead(o, n)

NetStep == Connected \/ ReceiveStep

PeerStep == Arrive \/ Fin \/ Reset

Next ==
  \/ \E t \in Threads : CallStep(t) \/ ThreadStep(t) \/ \E c \in Calls : IoTask(t, c)
  \/ NetStep \/ PeerStep

Spec == Init /\ [][Next]_vars

\* Threads inside a method run, and the reactor completes ready operations.
\* The io_context runs its tasks in the order in which they became ready, so
\* a task that some free thread could take again and again is taken, however
\* often a peek is repeated meanwhile.  Nothing obliges the application to
\* call a method or the peer to send.
Fairness ==
  /\ \A t \in Threads : WF_vars(ThreadStep(t))
  /\ \A c \in Calls : SF_vars(\E t \in IoThreads : IoTask(t, c))
  /\ WF_vars(NetStep)

FairSpec == Spec /\ Fairness
-----------------------------------------------------------------------------
(* Properties *)

\* What keeps _reading set: a thread about to start an operation, an
\* operation, a posted _read_async.
Reader(t) == pc[t] \in {"peek", "body"}
Repeeks == {p \in posted : p.task = "repeek"}

\* _reading is set exactly while one read is under way, through all the
\* handlers it goes through (socket.cpp:26-76): two reads never share
\* _read_length_buff, _read_buff and the stream, and the flag never stays set
\* with nobody to clear it.
ExclusiveReader ==
  /\ \A t, u \in Threads : Reader(t) /\ Reader(u) => t = u
  /\ \A o, q \in ops : o = q
  /\ \A p, q \in Repeeks : p = q
  /\ ops # {} => Repeeks = {}
  /\ ops # {} \/ Repeeks # {} => \A t \in Threads : ~Reader(t)
  /\ reading <=> (ops # {} \/ Repeeks # {} \/ \E t \in Threads : Reader(t))

\* A call of read_async is in the hands of exactly one of: a thread, an
\* operation, a posted function, a lambda that owes its answer, the handler
\* calls made (socket.cpp:23-76): no handler is lost, none runs twice.
OneHandler ==
  \A c \in Calls :
    LET owners == {<<"thread", t>> : t \in {t \in Threads : cur[t] = c}}
            \cup {<<"op", o>> : o \in {o \in ops : o.call = c}}
            \cup {<<"posted", p>> : p \in {p \in posted : p.call = c}}
            \cup {<<"owed", t>> : t \in {t \in Threads : owed[t] # NoAnswer /\ owed[t].call = c}}
            \cup {<<"log", i>> : i \in {i \in DOMAIN log : log[i].call = c}}
    IN Cardinality(owners) = IF Made(c) THEN 1 ELSE 0

Whole(pdu) == \A i \in DOMAIN pdu : pdu[i] = [pdu[1] EXCEPT !.pos = i] /\ Len(pdu) = pdu[1].len

\* A handler that is given a PDU is given all of one PDU of the stream and
\* nothing else, although _reading is cleared before _read_buff is parsed
\* (socket.cpp:66-74).
DeliveredWhole == \A i \in DOMAIN log : Whole(log[i].pdu)

\* The next read is asked for when the last one was delivered, or one thread
\* runs the io_context: no body is asked for while another thread still parses.
OneIo == \A t, u \in IoThreads : t = u
Orderly == ~Overlap \/ OneIo

\* Nobody has called close() yet, or only the thread that runs the io_context
\* does, so that no lambda of asio's runs while the descriptor is being closed.
OneThreadCloses == \A t \in Closers, u \in IoThreads : t = u
Unraced == closes = 0 \/ OneThreadCloses

\* The application opens the socket again when each of its reads was answered.
\* A read that close() left between two of its receives would go on on the
\* next connection.
AtRest == conn' # conn /\ closes > 0 => \A c \in Calls : Made(c) => Answered(c)
RestfulSpec == Init /\ [][Next /\ AtRest]_vars

\* A call that can be answered without the help of the application or the peer.
Answerable(c) ==
  /\ Made(c) /\ ~Answered(c)
  /\ \/ sock \in {"closed", "broken"}
     \/ sock = "connected" /\ fin /\ Available = 0
     \/ /\ sock = "connected" /\ Available >= LengthSize
        /\ Available >= Stream[taken + 1].len - (Stream[taken + 1].pos - 1)
     \/ [task |-> "busy", call |-> c] \in posted

\* No call waits for ever that can be answered: because its PDU is here, the
\* peer has finished at a boundary, the connection is broken, or the
\* application has closed it, even out of the loop of short peeks
\* (socket.cpp:40-76).  A peer that finishes inside a command length keeps
\* that loop turning until close().
ReadAnswered == \A c \in Calls : Answerable(c) ~> ~Answerable(c)
-----------------------------------------------------------------------------
(* What callers of read_async are promised: see Inbox. *)

\* A read operation that is not over.
Unfinished(o) == (o.kind = "peek" /\ o.ec = "ok") \/ o.st # "done"

InLog(c) == {i \in DOMAIN log : log[i].call = c}

Stage(c) ==
  IF ~Made(c) THEN "new"
  ELSE IF \E t \in Threads : cur[t] = c /\ pc[t] = "exchange" THEN "made"
  ELSE IF \/ \E t \in Threads : cur[t] = c /\ pc[t] \in {"peek", "body"}
          \/ \E o \in ops : o.call = c /\ Unfinished(o)
          \/ [task |-> "repeek", call |-> c] \in posted THEN "serving"
  ELSE IF Answered(c) THEN "answered" ELSE "settled"

\* The connection and the number of the PDU in a buffer.
Number(pdu) == IF pdu = <<>> THEN <<0, 0>> ELSE <<pdu[1].conn, pdu[1].msg>>

Result(c) ==
  IF Stage(c) \notin {"settled", "answered"} THEN <<0, 0>>
  ELSE IF \E o \in ops : o.call = c /\ o.kind = "body" /\ o.ec = "ok" THEN Number(rbuf)
  ELSE IF \E t \in Threads : cur[t] = c /\ pc[t] = "parse" THEN Number(rbuf)
  ELSE IF \E t \in Threads : owed[t] # NoAnswer /\ owed[t].call = c
    THEN Number((CHOOSE a \in {owed[t] : t \in Threads} : a # NoAnswer /\ a.call = c).pdu)
  ELSE IF InLog(c) # {} THEN Number(log[CHOOSE i \in InLog(c) : TRUE].pdu) ELSE <<0, 0>>

Promise == INSTANCE Inbox WITH stage <- [c \in Calls |-> Stage(c)],
                               result <- [c \in Calls |-> Result(c)]

\* The read path implements the inbox.
ImplementsInbox == Promise!Spec
=============================================================================
