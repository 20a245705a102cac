-------------------------------- MODULE Session --------------------------------
(***************************************************************************)
(* One smpp::socket: the sending half (WritePath) and the receiving half   *)
(* (ReadPath) over one _sock.  A thread is in one method at a time; close()*)
(* drains the queue of the one half and then closes the descriptor under   *)
(* the operations of both; open_async, the outcome of a connect and a reset*)
(* by the peer concern both.  The threads of the io_context run the tasks  *)
(* of both halves.                                                         *)
(***************************************************************************)
EXTENDS Naturals, Sequences, FiniteSets

CONSTANTS
  Threads, IoThreads, Writers, Callers, Closers,
  MaxWrites, MaxReads, MaxCloses, MaxConns,
  Overlap, Parts, Stream, LengthSize, MinLen,
  NoCmd, NoCall, NoAnswer

VARIABLES
  enq, deq, writing, wbuf, wpc, wcur, seen, wowed, wops, wposted, wcloses, wire, wlog,
  reading, lbuf, rbuf, rpc, rcur, rowed, calls, rops, rposted, arrived, taken, fin, rcloses, rlog,
  sock, conn   \* _sock, which both halves use

writeVars == <<enq, deq, writing, wbuf, wpc, wcur, seen, wowed, wops, wposted, wcloses, wire, wlog>>
readVars == <<reading, lbuf, rbuf, rpc, rcur, rowed, calls, rops, rposted, arrived, taken, fin,
              rcloses, rlog>>
vars == <<writeVars, readVars, sock, conn>>

W == INSTANCE WritePath WITH pc <- wpc, cur <- wcur, owed <- wowed, ops <- wops,
                             posted <- wposted, closes <- wcloses, log <- wlog
R == INSTANCE ReadPath WITH pc <- rpc, cur <- rcur, owed <- rowed, ops <- rops,
                            posted <- rposted, closes <- rcloses, log <- rlog

\* What the halves assume of the constants they share.
ASSUME HalvesAssumption ==
  /\ W!BoundsAssumption /\ W!ThreadsAssumption /\ W!NoneAssumption
  /\ R!BoundsAssumption /\ R!ThreadsAssumption /\ R!StreamAssumption /\ R!NoneAssumption

TypeOK == W!TypeOK /\ R!TypeOK

Init == W!Init /\ R!Init
-----------------------------------------------------------------------------
(* What one half does alone *)

\* A thread that is in no method of the socket, nor in a lambda.
Idle(t) == W!Idle(t) /\ R!Idle(t)

\* A thread enters a method of the sending half, the first part of close() among
\* them, or goes on in one, or in a lambda.
WriteStep(t) ==
  /\ \/ Idle(t) /\ (W!WriteAsync(t) \/ W!Close(t))
     \/ W!MethodStep(t)
  /\ UNCHANGED readVars

ReadStep(t) ==
  /\ \/ Idle(t) /\ R!ReadAsync(t)
     \/ R!MethodStep(t)
  /\ UNCHANGED writeVars

\* A thread in io_context::run() takes a ready task of either half.
WriteTask(t) == Idle(t) /\ W!IoTask(t) /\ UNCHANGED readVars
ReadTask(t, c) == Idle(t) /\ R!IoTask(t, c) /\ UNCHANGED writeVars

Send == W!SendStep /\ UNCHANGED readVars
Receive == R!ReceiveStep /\ UNCHANGED writeVars

\* The peer's stream.
PeerSends == (R!Arrive \/ R!Fin) /\ UNCHANGED writeVars
-----------------------------------------------------------------------------
(* What concerns both, written out for the one _sock *)

\* Mutant: the descriptor is closed without aborting the reads that wait for it.
KeptReads == rops

\* cancel and close of _sock: what waits in the reactor is aborted.
AbortedWrites == {W!Aborted(o) : o \in wops}
AbortedReads == {R!Aborted(o) : o \in rops}

\* The second part of close(), when the queue has been drained, up to where the
\* descriptor is deregistered.  On a closed socket cancel and close do nothing.
Shut(t) ==
  /\ wpc[t] = "drain" /\ W!Scanned(t) /\ sock # "closing"
  /\ sock' = IF sock = "closed" THEN sock ELSE "closing"
  /\ wops' = AbortedWrites /\ rops' = AbortedReads
  /\ W!Goto(t, IF sock = "closed" THEN "idle" ELSE "closing")
  /\ R!Goto(t, IF sock = "closed" THEN "idle" ELSE "closing")
  /\ W!ForgetScan(t) /\ rcloses' = rcloses + 1
  /\ UNCHANGED <<enq, deq, writing, wbuf, wcur, wowed, wposted, wcloses, wire, wlog>>
  /\ UNCHANGED <<reading, lbuf, rbuf, rcur, rowed, calls, rposted, arrived, taken, fin, rlog>>
  /\ UNCHANGED conn

\* The rest of close(): the descriptor is closed, and _sock_m released.
Shutdown(t) ==
  /\ wpc[t] = "closing" /\ sock' = "closed"
  /\ W!Goto(t, "idle") /\ R!Goto(t, "idle")
  /\ UNCHANGED <<enq, deq, writing, wbuf, wcur, seen, wowed, wops, wposted, wcloses, wire, wlog>>
  /\ UNCHANGED <<reading, lbuf, rbuf, rcur, rowed, calls, rops, rposted, arrived, taken, fin, rcloses, rlog>>
  /\ UNCHANGED conn

\* open_async, called on a closed socket: a new stream begins.
OpenAsync(t) ==
  /\ t \in Closers /\ Idle(t) /\ sock = "closed" /\ conn < MaxConns
  /\ sock' = "connecting" /\ conn' = conn + 1
  /\ arrived' = 0 /\ taken' = 0 /\ fin' = FALSE
  /\ UNCHANGED <<reading, lbuf, rbuf, rpc, rcur, rowed, calls, rops, rposted, rcloses, rlog>>
  /\ UNCHANGED writeVars

\* The outcome of a connect, and a reset by the peer.
Connected ==
  /\ sock = "connecting" /\ sock' \in {"connected", "broken"}
  /\ UNCHANGED <<writeVars, readVars, conn>>

Reset ==
  /\ sock = "connected" /\ sock' = "broken"
  /\ UNCHANGED <<writeVars, readVars, conn>>
-----------------------------------------------------------------------------

Next ==
  \/ \E t \in Threads : \/ WriteStep(t) \/ ReadStep(t) \/ Shut(t) \/ Shutdown(t) \/ OpenAsync(t)
                        \/ WriteTask(t) \/ \E c \in R!Calls : ReadTask(t, c)
  \/ Connected \/ Reset \/ Send \/ Receive \/ PeerSends

Spec == Init /\ [][Next]_vars

\* The application opens the socket again when no write is between two of its
\* short writes and every read was answered: see AtRest in the halves.
AtRest == W!AtRest /\ R!AtRest
RestfulSpec == Init /\ [][Next /\ AtRest]_vars

\* A thread that is inside a method, as opposed to one that calls it.
Inside(t) == \/ W!MethodStep(t) /\ UNCHANGED readVars
             \/ R!MethodStep(t) /\ UNCHANGED writeVars
             \/ Shut(t) \/ Shutdown(t)

\* Threads inside a method run; the reactor completes the ready operations of
\* both halves; the io_context runs its tasks in the order in which they
\* became ready, so that the tasks of one half do not keep those of the other
\* from running for ever.
Fairness ==
  /\ \A t \in Threads : WF_vars(Inside(t))
  /\ SF_vars(\E t \in IoThreads : WriteTask(t))
  /\ \A c \in R!Calls : SF_vars(\E t \in IoThreads : ReadTask(t, c))
  /\ WF_vars(Connected) /\ WF_vars(Send) /\ WF_vars(Receive)

FairSpec == Spec /\ Fairness
-----------------------------------------------------------------------------
(* Properties *)

\* The one close(), with all it does to the writes and the reads, the one
\* open_async and the threads that go from one half to the other are, for each
\* half, what its own specification says: no thread closes in the middle of a
\* read, no close() or reconnection that one half sees is missed by the
\* other, and _sock changes for both as either expects (socket.cpp:17-128).
ImplementsHalves == W!Spec /\ R!Spec

\* With one io thread, which also calls close(), handlers are told the truth
\* about their writes, success meaning that one connection had all of the PDU,
\* unless a PDU has been torn over two connections (OneConnectionPerPdu), which
\* opening the socket at rest rules out; and until it is opened again they are
\* given whole PDUs only (socket.cpp:65-74, 100-112).
TruthfulHandlers ==
  W!Unraced => /\ W!OneConnectionPerPdu => W!TruthfulAnswers
               /\ conn = 0 => R!DeliveredWhole

\* A write is answered though the io thread is kept busy by a peek that is
\* repeated for ever, because the peer shut down inside a command length, or
\* never stops sending (socket.cpp:52-57, 100-104).
WritesServed == W!WriterServesQueue

\* close() settles all there is: every write that was queued when it began,
\* and every read under way, whatever state it is in: no octets here yet, the
\* peek being repeated, a PDU half read (socket.cpp:107-121).  A read that is
\* between two operations when the application opens the socket again goes on
\* with the next connection instead.
CloseSettles ==
  LET Closing == \E t \in Threads : wpc[t] = "drain" /\ seen[t] = {}
  IN /\ \A c \in W!Cmds : Closing /\ (W!Queued(c) \/ W!Taken(c)) ~> W!Answered(c)
     /\ \A c \in R!Calls, n \in 0..MaxConns :
          Closing /\ conn = n /\ R!Made(c) ~> R!Answered(c) \/ conn # n
=============================================================================
