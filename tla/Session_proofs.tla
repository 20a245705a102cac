----------------------------- MODULE Session_proofs -----------------------------
(***************************************************************************)
(* A socket is a use of each of its halves: no step of Session is one that *)
(* WritePath or ReadPath does not allow, so that what is proved of either  *)
(* holds in the socket, and what its handlers are told follows from both.  *)
(* Session writes the steps that concern both halves for itself; that they *)
(* are what each half says rests on two invariants, about where a thread   *)
(* can be and how often close() was called.                                *)
(***************************************************************************)
EXTENDS Session, FiniteSetTheorems, TLAPS

\* A thread is in a method or lambda of one half at a time, but for the end of
\* close(), where it is in both; only Closers call close() (socket.cpp:107-121).
Apart ==
  /\ wpc \in [Threads -> {"idle", "exchange", "dequeue", "serialize", "start", "handler", "drain",
                          "closing"}]
  /\ rpc \in [Threads -> {"idle", "exchange", "peek", "body", "parse", "handler", "closing"}]
  /\ \A t \in Threads : wpc[t] = "closing" <=> rpc[t] = "closing"
  /\ \A t \in Threads : wpc[t] \notin {"idle", "closing"} => rpc[t] = "idle"
  /\ \A t \in Threads : wpc[t] = "drain" => t \in Closers

\* The calls of close() that have not yet come to the reads are those that drain the
\* queue: one close() is one close() for both (socket.cpp:107-120).
Drainers == {t \in Threads : wpc[t] = "drain"}
Counted ==
  /\ IsFiniteSet(Drainers) /\ wcloses \in Nat /\ rcloses \in Nat /\ wcloses <= MaxCloses
  /\ rcloses + Cardinality(Drainers) = wcloses

-----------------------------------------------------------------------------
(* Steps of one half *)

\* Threads and calls of close(), in a step of the sending half only.
LEMMA WriteStepAlone ==
  ASSUME NEW t \in Threads, Apart, WriteStep(t)
  PROVE  /\ UNCHANGED <<sock, conn, rpc, rcloses>> /\ rpc[t] = "idle"
         /\ \E l \in {"idle", "exchange", "dequeue", "serialize", "start", "handler", "drain"} :
              wpc' = [wpc EXCEPT ![t] = l]
         /\ \/ wcloses' = wcloses /\ (wpc'[t] = "drain" <=> wpc[t] = "drain")
            \/ /\ wcloses' = wcloses + 1 /\ wcloses < MaxCloses /\ t \in Closers
               /\ wpc[t] = "idle" /\ wpc'[t] = "drain"
<1> USE DEF Apart, W!Goto, W!Return, W!Idle, W!netVars, readVars
<1>1. CASE Idle(t) /\ W!WriteAsync(t)
  BY <1>1 DEF WriteStep, Idle, R!Idle, W!WriteAsync
<1>2. CASE Idle(t) /\ W!Close(t)
  BY <1>2 DEF WriteStep, Idle, R!Idle, W!Close
<1>3. CASE W!Exchange(t)
  BY <1>3 DEF WriteStep, W!Exchange
<1>4. CASE W!Release(t) \/ W!Serialize(t) \/ W!Start(t)
  BY <1>4 DEF WriteStep, W!Release, W!Serialize, W!Start
<1>5. CASE W!CallHandler(t)
  BY <1>5 DEF WriteStep, W!CallHandler
<1>6. ASSUME NEW p \in Writers, W!Dequeue(t, p)
      PROVE  wpc' = [wpc EXCEPT ![t] = "serialize"] /\ wpc[t] = "dequeue" /\ UNCHANGED <<sock, conn, wcloses>>
  BY <1>6 DEF W!Dequeue
<1>7. ASSUME NEW p \in Writers, W!SeeEmpty(t, p) \/ W!Drain(t, p)
      PROVE  wpc[t] \in {"dequeue", "drain"} /\ wpc' = wpc /\ UNCHANGED <<sock, conn, wcloses>>
  BY <1>7 DEF W!SeeEmpty, W!Drain
<1>8. wpc = [wpc EXCEPT ![t] = wpc[t]] OBVIOUS
<1>9. CASE \E p \in Writers : W!Dequeue(t, p)
  BY <1>6, <1>9 DEF WriteStep
<1>10. CASE \E p \in Writers : W!SeeEmpty(t, p) \/ W!Drain(t, p)
  BY <1>7, <1>8, <1>10 DEF WriteStep
<1> QED
  BY <1>1, <1>2, <1>3, <1>4, <1>5, <1>9, <1>10 DEF WriteStep, W!MethodStep

\* And of the receiving half only.
LEMMA ReadStepAlone ==
  ASSUME NEW t \in Threads, Apart, ReadStep(t)
  PROVE  /\ UNCHANGED <<sock, conn, wpc, wcloses, rcloses>> /\ wpc[t] = "idle"
         /\ \E l \in {"idle", "exchange", "peek", "handler"} : rpc' = [rpc EXCEPT ![t] = l]
<1> USE DEF Apart, R!Goto, R!Idle, R!netVars, writeVars
<1>1. CASE Idle(t) /\ R!ReadAsync(t)
  BY <1>1 DEF ReadStep, Idle, W!Idle, R!ReadAsync
<1>2. CASE R!Exchange(t)
  BY <1>2 DEF ReadStep, R!Exchange
<1>3. CASE R!StartPeek(t) \/ R!StartBody(t)
  BY <1>3 DEF ReadStep, R!StartPeek, R!StartBody
<1>4. CASE R!Parse(t) \/ R!CallHandler(t)
  BY <1>4 DEF ReadStep, R!Parse, R!CallHandler
<1> QED BY <1>1, <1>2, <1>3, <1>4 DEF ReadStep, R!MethodStep

LEMMA WriteTaskAlone ==
  ASSUME NEW t \in Threads, Apart, WriteTask(t)
  PROVE  /\ UNCHANGED <<sock, conn, rpc, wcloses, rcloses>> /\ rpc[t] = "idle" /\ wpc[t] = "idle"
         /\ wpc' = wpc \/ wpc' = [wpc EXCEPT ![t] = "exchange"]
BY DEF WriteTask, Idle, W!Idle, R!Idle, W!IoTask, W!Continue, W!Complete, W!RunPosted, W!Goto,
       W!netVars, W!threadVars, readVars

LEMMA ReadTaskAlone ==
  ASSUME NEW t \in Threads, NEW c \in R!Calls, Apart, ReadTask(t, c)
  PROVE  /\ UNCHANGED <<sock, conn, wpc, wcloses, rcloses>> /\ wpc[t] = "idle" /\ rpc[t] = "idle"
         /\ rpc' = rpc \/ \E l \in {"peek", "body", "parse", "handler"} : rpc' = [rpc EXCEPT ![t] = l]
BY DEF ReadTask, Idle, W!Idle, R!Idle, R!IoTask, R!Failed, R!PeekShort, R!PeekFull, R!Continue,
       R!BodyDone, R!RunBusy, R!RunRepeek, R!Completing, R!Goto, R!netVars, R!threadVars, writeVars

LEMMA NetAlone ==
  ASSUME Send \/ Receive \/ PeerSends
  PROVE  UNCHANGED <<sock, conn, wpc, rpc, wcloses, rcloses>>
<1>1. CASE Send
  BY <1>1 DEF Send, W!SendStep, W!NetFail, W!NetSend, W!netVars, W!threadVars, readVars
<1>2. CASE Receive
  BY <1>2 DEF Receive, R!ReceiveStep, R!NetPeek, R!NetRead, R!NetFail, R!netVars, R!threadVars, writeVars
<1>3. CASE PeerSends
  BY <1>3 DEF PeerSends, R!Arrive, R!Fin, R!threadVars, writeVars
<1> QED BY <1>1, <1>2, <1>3

-----------------------------------------------------------------------------
(* Where threads are, and how often close() was called *)

LEMMA ApartStep == ASSUME Apart, [Next]_vars PROVE Apart'
<1>1. CASE UNCHANGED <<wpc, rpc>>
  BY <1>1 DEF Apart
<1>2. ASSUME NEW t \in Threads, WriteStep(t)
      PROVE  Apart'
  <2>1. PICK l \in {"idle", "exchange", "dequeue", "serialize", "start", "handler", "drain"} :
          wpc' = [wpc EXCEPT ![t] = l]
    BY <1>2, WriteStepAlone
  <2>2. rpc' = rpc /\ rpc[t] = "idle" BY <1>2, WriteStepAlone
  <2>3. wpc'[t] = "drain" => t \in Closers BY <1>2, WriteStepAlone DEF Apart
  <2> QED BY <2>1, <2>2, <2>3 DEF Apart
<1>3. ASSUME NEW t \in Threads, ReadStep(t)
      PROVE  Apart'
  <2>1. PICK l \in {"idle", "exchange", "peek", "handler"} : rpc' = [rpc EXCEPT ![t] = l]
    BY <1>3, ReadStepAlone
  <2>2. wpc' = wpc /\ wpc[t] = "idle" BY <1>3, ReadStepAlone
  <2> QED BY <2>1, <2>2 DEF Apart
<1>4. ASSUME NEW t \in Threads, Shut(t)
      PROVE  Apart'
  BY <1>4 DEF Shut, W!Goto, R!Goto, Apart
<1>5. ASSUME NEW t \in Threads, Shutdown(t)
      PROVE  Apart'
  BY <1>5 DEF Shutdown, W!Goto, R!Goto, Apart
<1>6. ASSUME NEW t \in Threads, OpenAsync(t)
      PROVE  Apart'
  BY <1>1, <1>6 DEF OpenAsync, writeVars
<1>7. ASSUME NEW t \in Threads, WriteTask(t)
      PROVE  Apart'
  BY <1>7, WriteTaskAlone DEF Apart
<1>8. ASSUME NEW t \in Threads, NEW c \in R!Calls, ReadTask(t, c)
      PROVE  Apart'
  BY <1>8, ReadTaskAlone DEF Apart
<1>9. CASE Connected \/ Reset
  BY <1>1, <1>9 DEF Connected, Reset, writeVars, readVars
<1>10. CASE Send \/ Receive \/ PeerSends
  BY <1>1, <1>10, NetAlone
<1>11. CASE UNCHANGED vars
  BY <1>1, <1>11 DEF vars, writeVars, readVars
<1> QED BY <1>2, <1>3, <1>4, <1>5, <1>6, <1>7, <1>8, <1>9, <1>10, <1>11 DEF Next

LEMMA CountedStep == ASSUME Apart, Counted, [Next]_vars PROVE Counted'
<1>t. MaxCloses \in Nat BY HalvesAssumption DEF W!BoundsAssumption
<1>f. IsFiniteSet(Drainers) /\ Cardinality(Drainers) \in Nat
  BY FS_CardinalityType DEF Counted
<1>1. ASSUME Drainers' = Drainers, UNCHANGED <<wcloses, rcloses>>
      PROVE  Counted'
  BY <1>1 DEF Counted
<1>2. CASE UNCHANGED <<wpc, wcloses, rcloses>>
  BY <1>1, <1>2 DEF Drainers
<1>3. ASSUME NEW t \in Threads, WriteStep(t)
      PROVE  Counted'
  <2>1. PICK l \in {"idle", "exchange", "dequeue", "serialize", "start", "handler", "drain"} :
          wpc' = [wpc EXCEPT ![t] = l]
    BY <1>3, WriteStepAlone
  <2>2. rcloses' = rcloses BY <1>3, WriteStepAlone
  <2>3. CASE wcloses' = wcloses /\ (wpc'[t] = "drain" <=> wpc[t] = "drain")
    <3>1. Drainers' = Drainers BY <2>1, <2>3 DEF Drainers, Apart
    <3> QED BY <1>1, <2>2, <2>3, <3>1
  <2>4. CASE /\ wcloses' = wcloses + 1 /\ wcloses < MaxCloses
             /\ wpc[t] = "idle" /\ wpc'[t] = "drain"
    <3>1. Drainers' = Drainers \cup {t} /\ t \notin Drainers BY <2>1, <2>4 DEF Drainers, Apart
    <3>2. IsFiniteSet(Drainers') /\ Cardinality(Drainers') = Cardinality(Drainers) + 1
      BY <1>f, <3>1, FS_AddElement
    <3> QED BY <1>t, <1>f, <2>2, <2>4, <3>2 DEF Counted
  <2> QED BY <1>3, <2>3, <2>4, WriteStepAlone
<1>4. ASSUME NEW t \in Threads, Shut(t)
      PROVE  Counted'
  <2>1. t \in Drainers BY <1>4 DEF Shut, Drainers
  <2>2. \A u \in Threads : wpc'[u] = "drain" <=> (wpc[u] = "drain" /\ u # t)
    BY <1>4 DEF Shut, W!Goto, Apart
  <2>3. Drainers' = Drainers \ {t} BY <2>2 DEF Drainers
  <2>4. IsFiniteSet(Drainers') /\ Cardinality(Drainers') = Cardinality(Drainers) - 1
    BY <1>f, <2>1, <2>3, FS_RemoveElement
  <2>5. wcloses' = wcloses /\ rcloses' = rcloses + 1 BY <1>4 DEF Shut
  <2> QED BY <1>f, <2>4, <2>5 DEF Counted
<1>5. ASSUME NEW t \in Threads, Shutdown(t)
      PROVE  Counted'
  <2>1. \A u \in Threads : wpc'[u] = "drain" <=> wpc[u] = "drain"
    BY <1>5 DEF Shutdown, W!Goto, Apart
  <2> QED BY <1>1, <1>5, <2>1 DEF Drainers, Shutdown
<1>6. ASSUME NEW t \in Threads, OpenAsync(t) \/ ReadStep(t)
      PROVE  Counted'
  BY <1>2, <1>6, ReadStepAlone DEF OpenAsync, writeVars
<1>7. ASSUME NEW t \in Threads, WriteTask(t)
      PROVE  Counted'
  <2>1. \A u \in Threads : wpc'[u] = "drain" <=> wpc[u] = "drain"
    BY <1>7, WriteTaskAlone DEF Apart
  <2> QED BY <1>1, <1>7, <2>1, WriteTaskAlone DEF Drainers
<1>8. ASSUME NEW t \in Threads, NEW c \in R!Calls, ReadTask(t, c)
      PROVE  Counted'
  BY <1>2, <1>8, ReadTaskAlone
<1>9. CASE Connected \/ Reset
  BY <1>2, <1>9 DEF Connected, Reset, writeVars, readVars
<1>10. CASE Send \/ Receive \/ PeerSends
  BY <1>2, <1>10, NetAlone
<1>11. CASE UNCHANGED vars
  BY <1>2, <1>11 DEF vars, writeVars, readVars
<1> QED BY <1>3, <1>4, <1>5, <1>6, <1>7, <1>8, <1>9, <1>10, <1>11 DEF Next

\* Apart and Counted hold of every state of a socket.
LEMMA OneMethodAtATime == Spec => [](Apart /\ Counted)
<1>1. ASSUME Init
      PROVE  Apart /\ Counted
  <2>1. /\ wpc = [t \in Threads |-> "idle"] /\ rpc = [t \in Threads |-> "idle"]
        /\ wcloses = 0 /\ rcloses = 0
    BY <1>1 DEF Init, W!Init, R!Init
  <2>2. Drainers = {} BY <2>1 DEF Drainers
  <2>3. IsFiniteSet(Drainers) /\ Cardinality(Drainers) = 0 BY <2>2, FS_EmptySet
  <2>4. MaxCloses \in Nat BY HalvesAssumption DEF W!BoundsAssumption
  <2> QED BY <2>1, <2>3, <2>4 DEF Apart, Counted
<1>2. Apart /\ Counted /\ [Next]_vars => (Apart /\ Counted)' BY ApartStep, CountedStep
<1> QED BY <1>1, <1>2, PTL DEF Spec

-----------------------------------------------------------------------------
(* Steps of the socket as steps of the halves *)

\* What close(), open_async and the peer do to the writes.
LEMMA SharedWrites ==
  /\ \A t \in Threads : Shut(t) => W!Shut(t)
  /\ \A t \in Threads : Shutdown(t) => W!Shutdown(t)
  /\ \A t \in Threads : OpenAsync(t) => W!OpenAsync(t)
  /\ Connected => W!Connected
  /\ Reset => W!Reset
<1>1. ASSUME NEW t \in Threads, Shut(t) PROVE W!Shut(t)
  BY <1>1 DEF Shut, AbortedWrites, W!Shut, W!Unlocked, W!queueVars
<1>2. ASSUME NEW t \in Threads, Shutdown(t) PROVE W!Shutdown(t)
  BY <1>2 DEF Shutdown, W!Shutdown, W!queueVars
<1>3. ASSUME NEW t \in Threads, OpenAsync(t) PROVE W!OpenAsync(t)
  BY <1>3 DEF OpenAsync, Idle, W!OpenAsync, W!queueVars, W!threadVars, writeVars
<1>4. Connected => W!Connected
  BY DEF Connected, W!Connected, W!queueVars, W!threadVars, writeVars
<1>5. Reset => W!Reset
  BY DEF Reset, W!Reset, W!queueVars, W!threadVars, writeVars
<1> QED BY <1>1, <1>2, <1>3, <1>4, <1>5

\* What they do to the reads: a thread that has drained the queue is in no method of
\* the receiving half, may close, and has not closed it yet.
LEMMA SharedReads ==
  ASSUME Apart, Counted
  PROVE  /\ \A t \in Threads : Shut(t) => R!Close(t)
         /\ \A t \in Threads : Shutdown(t) => R!Shutdown(t)
         /\ \A t \in Threads : OpenAsync(t) => R!OpenAsync(t)
         /\ Connected => R!Connected
         /\ Reset => R!Reset
<1>1. ASSUME NEW t \in Threads, Shut(t) PROVE R!Close(t)
  <2>1. t \in Drainers BY <1>1 DEF Shut, Drainers
  <2>2. Cardinality(Drainers) \in Nat /\ Cardinality(Drainers) # 0
    BY <2>1, FS_CardinalityType, FS_EmptySet DEF Counted
  <2>3. MaxCloses \in Nat BY HalvesAssumption DEF W!BoundsAssumption
  <2>4. rcloses < MaxCloses BY <2>2, <2>3 DEF Counted
  <2>5. t \in Closers /\ R!Idle(t) BY <1>1 DEF Shut, Apart, R!Idle
  <2> QED BY <1>1, <2>4, <2>5 DEF Shut, AbortedReads, R!Close, R!Unlocked, R!bufVars
<1>2. ASSUME NEW t \in Threads, Shutdown(t) PROVE R!Shutdown(t)
  BY <1>2 DEF Shutdown, Apart, R!Shutdown, R!bufVars
<1>3. ASSUME NEW t \in Threads, OpenAsync(t) PROVE R!OpenAsync(t)
  BY <1>3 DEF OpenAsync, Idle, R!OpenAsync, R!bufVars, R!threadVars
<1>4. Connected => R!Connected
  BY DEF Connected, R!Connected, R!bufVars, R!threadVars, readVars
<1>5. Reset => R!Reset
  BY DEF Reset, R!Reset, R!bufVars, R!threadVars, readVars
<1> QED BY <1>1, <1>2, <1>3, <1>4, <1>5

\* Every step of the socket is a step of its sending half, or none.
LEMMA NextWrites ==
  ASSUME Apart, [Next]_vars
  PROVE  [W!Next]_(W!vars)
<1> USE DEF W!vars, readVars, writeVars
<1>1. CASE UNCHANGED vars
  BY <1>1 DEF vars
<1>2. ASSUME NEW t \in Threads, WriteStep(t) \/ WriteTask(t)
      PROVE  W!Next
  BY <1>2 DEF WriteStep, WriteTask, W!Next, W!CallStep, W!ThreadStep
<1>3. ASSUME NEW t \in Threads, Shut(t) \/ Shutdown(t) \/ OpenAsync(t)
      PROVE  W!Next
  BY <1>3, SharedWrites DEF W!Next, W!CallStep, W!ThreadStep
<1>4. ASSUME NEW t \in Threads, ReadStep(t)
      PROVE  UNCHANGED W!vars
  BY <1>4, ReadStepAlone DEF ReadStep
<1>5. ASSUME NEW t \in Threads, NEW c \in R!Calls, ReadTask(t, c)
      PROVE  UNCHANGED W!vars
  BY <1>5, ReadTaskAlone DEF ReadTask
<1>6. CASE Connected \/ Reset
  BY <1>6, SharedWrites DEF W!Next, W!NetStep
<1>7. CASE Send
  BY <1>7 DEF Send, W!Next, W!NetStep
<1>8. CASE Receive \/ PeerSends
  BY <1>8, NetAlone DEF Receive, PeerSends
<1> QED BY <1>1, <1>2, <1>3, <1>4, <1>5, <1>6, <1>7, <1>8 DEF Next

\* Every step of the socket is a step of its receiving half, or none.
LEMMA NextReads ==
  ASSUME Apart, Counted, [Next]_vars
  PROVE  [R!Next]_(R!vars)
<1> USE DEF R!vars, readVars, writeVars
<1>1. CASE UNCHANGED vars
  BY <1>1 DEF vars
<1>2. ASSUME NEW t \in Threads, ReadStep(t)
      PROVE  R!Next
  BY <1>2 DEF ReadStep, R!Next, R!CallStep, R!ThreadStep
<1>3. ASSUME NEW t \in Threads, NEW c \in R!Calls, ReadTask(t, c)
      PROVE  R!Next
  BY <1>3 DEF ReadTask, R!Next
<1>4. ASSUME NEW t \in Threads, Shut(t) \/ Shutdown(t) \/ OpenAsync(t)
      PROVE  R!Next
  BY <1>4, SharedReads DEF R!Next, R!CallStep, R!ThreadStep
<1>5. ASSUME NEW t \in Threads, WriteStep(t)
      PROVE  UNCHANGED R!vars
  BY <1>5, WriteStepAlone DEF WriteStep
<1>6. ASSUME NEW t \in Threads, WriteTask(t)
      PROVE  UNCHANGED R!vars
  BY <1>6, WriteTaskAlone DEF WriteTask
<1>7. CASE Connected \/ Reset
  BY <1>7, SharedReads DEF R!Next, R!NetStep, R!PeerStep
<1>8. CASE Receive \/ PeerSends
  BY <1>8 DEF Receive, PeerSends, R!Next, R!NetStep, R!PeerStep
<1>9. CASE Send
  BY <1>9, NetAlone DEF Send
<1> QED BY <1>1, <1>2, <1>3, <1>4, <1>5, <1>6, <1>7, <1>8, <1>9 DEF Next

\* ImplementsHalves: every behaviour of a socket is a behaviour of each of its halves.
\* The one close() closes for both when its thread has drained the queue, in no
\* method of the receiving half, once for each call; open_async begins a
\* connection for both (socket.cpp:17-128).
THEOREM SocketImplementsHalves == Spec => ImplementsHalves
<1>1. Init => W!Init /\ R!Init
  BY DEF Init
<1>2. Apart /\ Counted /\ [Next]_vars => [W!Next]_(W!vars) /\ [R!Next]_(R!vars)
  BY NextWrites, NextReads
<1> QED BY <1>1, <1>2, OneMethodAtATime, PTL DEF Spec, ImplementsHalves, W!Spec, R!Spec

\* And when the socket is opened again at rest, each half sees it opened at rest.
LEMMA RestImplementsHalves == RestfulSpec => Spec /\ W!RestfulSpec /\ R!RestfulSpec
<1>1. Init => W!Init /\ R!Init
  BY DEF Init
<1>2. [Next /\ AtRest]_vars => [Next]_vars OBVIOUS
<1>3. RestfulSpec => Spec BY <1>2, PTL DEF Spec, RestfulSpec
<1>4. ASSUME Apart, Counted, [Next /\ AtRest]_vars
      PROVE  [W!Next /\ W!AtRest]_(W!vars) /\ [R!Next /\ R!AtRest]_(R!vars)
  <2>1. CASE UNCHANGED vars
    BY <2>1 DEF vars, writeVars, readVars, W!vars, R!vars
  <2>2. CASE Next /\ AtRest
    BY <1>4, <2>2, NextWrites, NextReads DEF AtRest
  <2> QED BY <1>4, <2>1, <2>2
<1>5. Apart /\ Counted /\ [Next /\ AtRest]_vars
        => [W!Next /\ W!AtRest]_(W!vars) /\ [R!Next /\ R!AtRest]_(R!vars)
  BY <1>4
<1> QED
  BY <1>1, <1>3, <1>5, OneMethodAtATime, PTL DEF RestfulSpec, W!RestfulSpec, R!RestfulSpec
-----------------------------------------------------------------------------
(* What the halves promise, of the socket *)

\* The proofs about the halves, for the halves of this socket.
WH == INSTANCE WritePath_proofs WITH pc <- wpc, cur <- wcur, owed <- wowed, ops <- wops,
                                     posted <- wposted, closes <- wcloses, log <- wlog
RH == INSTANCE ReadPath_proofs WITH pc <- rpc, cur <- rcur, owed <- rowed, ops <- rops,
                                    posted <- rposted, closes <- rcloses, log <- rlog

\* They are about the same modules.
LEMMA WriteAssumptions == WH!BoundsAssumption /\ WH!ThreadsAssumption /\ WH!NoneAssumption
BY HalvesAssumption
DEF W!Cmds, WH!Cmds, W!Codes, WH!Codes, W!Answers, WH!Answers

LEMMA ReadAssumptions ==
  RH!BoundsAssumption /\ RH!ThreadsAssumption /\ RH!StreamAssumption /\ RH!NoneAssumption
BY HalvesAssumption
DEF R!Octets, RH!Octets, R!Calls, RH!Calls, R!Cell, RH!Cell, R!Codes, RH!Codes, R!Answers, RH!Answers

LEMMA SameWrites == (W!Spec <=> WH!Spec) /\ (W!RestfulSpec <=> WH!RestfulSpec)
BY DEF W!Cmds, WH!Cmds, W!Codes, WH!Codes, W!Answers, WH!Answers, W!queueVars, WH!queueVars,
       W!threadVars, WH!threadVars, W!netVars, WH!netVars, W!vars, WH!vars, W!Ops, WH!Ops,
       W!Pieces, WH!Pieces, W!Init, WH!Init, W!NonEmpty, WH!NonEmpty, W!Front, WH!Front, W!Pop, WH!Pop,
       W!Return, WH!Return, W!Goto, WH!Goto, W!Idle, WH!Idle, W!Scanned, WH!Scanned,
       W!ForgetScan, WH!ForgetScan, W!Initiate, WH!Initiate, W!Unlocked, WH!Unlocked,
       W!WriteAsync, WH!WriteAsync, W!Exchange, WH!Exchange, W!SeeEmpty, WH!SeeEmpty,
       W!Dequeue, WH!Dequeue, W!Release, WH!Release, W!Serialize, WH!Serialize, W!Start, WH!Start,
       W!Continue, WH!Continue, W!Complete, WH!Complete, W!CallHandler, WH!CallHandler,
       W!RunPosted, WH!RunPosted, W!Close, WH!Close, W!Drain, WH!Drain, W!Aborted, WH!Aborted,
       W!Shut, WH!Shut, W!Shutdown, WH!Shutdown, W!OpenAsync, WH!OpenAsync, W!Connected, WH!Connected,
       W!Reset, WH!Reset, W!NetSend, WH!NetSend, W!NetFail, WH!NetFail, W!CallStep, WH!CallStep,
       W!MethodStep, WH!MethodStep, W!ThreadStep, WH!ThreadStep, W!IoTask, WH!IoTask,
       W!SendStep, WH!SendStep, W!NetStep, WH!NetStep, W!Next, WH!Next, W!Spec, WH!Spec,
       W!AtRest, WH!AtRest, W!RestfulSpec, WH!RestfulSpec

LEMMA SameReads == (R!Spec <=> RH!Spec) /\ (R!RestfulSpec <=> RH!RestfulSpec)
BY DEF R!Octets, RH!Octets, R!Calls, RH!Calls, R!Zero, RH!Zero, R!Cell, RH!Cell, R!Codes, RH!Codes,
       R!Answers, RH!Answers, R!bufVars, RH!bufVars, R!threadVars, RH!threadVars, R!netVars, RH!netVars,
       R!vars, RH!vars, R!Ops, RH!Ops, R!Tasks, RH!Tasks, R!Init, RH!Init, R!Goto, RH!Goto,
       R!Idle, RH!Idle, R!Owe, RH!Owe, R!Error, RH!Error, R!Made, RH!Made, R!Answered, RH!Answered,
       R!Available, RH!Available, R!Smaller, RH!Smaller, R!Receive, RH!Receive, R!Announced, RH!Announced,
       R!Resize, RH!Resize, R!Initiate, RH!Initiate, R!Unlocked, RH!Unlocked, R!Operation, RH!Operation,
       R!ReadAsync, RH!ReadAsync, R!Exchange, RH!Exchange, R!StartPeek, RH!StartPeek,
       R!RunBusy, RH!RunBusy, R!RunRepeek, RH!RunRepeek, R!Completing, RH!Completing, R!Failed, RH!Failed,
       R!PeekShort, RH!PeekShort, R!PeekFull, RH!PeekFull, R!StartBody, RH!StartBody,
       R!Continue, RH!Continue, R!BodyDone, RH!BodyDone, R!Parse, RH!Parse, R!CallHandler, RH!CallHandler,
       R!Aborted, RH!Aborted, R!Close, RH!Close, R!Shutdown, RH!Shutdown, R!OpenAsync, RH!OpenAsync,
       R!Connected, RH!Connected, R!Reset, RH!Reset, R!Arrive, RH!Arrive, R!Fin, RH!Fin,
       R!Finish, RH!Finish, R!NetPeek, RH!NetPeek, R!NetRead, RH!NetRead, R!NetFail, RH!NetFail,
       R!CallStep, RH!CallStep, R!MethodStep, RH!MethodStep, R!ThreadStep, RH!ThreadStep,
       R!IoTask, RH!IoTask, R!ReceiveStep, RH!ReceiveStep, R!NetStep, RH!NetStep, R!PeerStep, RH!PeerStep,
       R!Next, RH!Next, R!Spec, RH!Spec, R!AtRest, RH!AtRest, R!RestfulSpec, RH!RestfulSpec

\* Type correctness of the whole socket (socket.h:43-66).
THEOREM TypeCorrect == Spec => []TypeOK
<1>1. Spec => []WH!TypeOK
  BY SocketImplementsHalves, SameWrites, WriteAssumptions, WH!TypeCorrect DEF ImplementsHalves
<1>2. Spec => []RH!TypeOK
  BY SocketImplementsHalves, SameReads, ReadAssumptions, RH!TypeCorrect DEF ImplementsHalves
<1>3. WH!TypeOK => W!TypeOK
  BY DEF W!TypeOK, WH!TypeOK, W!Cmds, WH!Cmds, W!Codes, WH!Codes, W!Answers, WH!Answers, W!Ops, WH!Ops,
         W!Pieces, WH!Pieces
<1>4. RH!TypeOK => R!TypeOK
  BY DEF R!TypeOK, RH!TypeOK, R!Calls, RH!Calls, R!Cell, RH!Cell, R!Codes, RH!Codes, R!Answers, RH!Answers,
         R!Ops, RH!Ops, R!Tasks, RH!Tasks
<1> QED BY <1>1, <1>2, <1>3, <1>4, PTL DEF TypeOK
-----------------------------------------------------------------------------
(* What the handlers are told *)

\* What the halves prove is about the same operators.
LEMMA SameTruth ==
  /\ W!Unraced <=> WH!Unraced
  /\ W!TruthfulAnswers <=> WH!TruthfulAnswers
  /\ W!OneConnectionPerPdu <=> WH!OneConnectionPerPdu
  /\ R!DeliveredWhole <=> RH!DeliveredWhole
  /\ W!OneThreadCloses <=> RH!OneThreadCloses
  /\ R!Orderly <=> RH!Orderly
<1>1. W!Unraced <=> WH!Unraced
  BY DEF W!Unraced, WH!Unraced, W!OneThreadCloses, WH!OneThreadCloses
<1>2. W!TruthfulAnswers <=> WH!TruthfulAnswers
  BY DEF W!TruthfulAnswers, WH!TruthfulAnswers, W!PartsOnWire, WH!PartsOnWire, W!SentWhole, WH!SentWhole
<1>3. W!OneConnectionPerPdu <=> WH!OneConnectionPerPdu
  BY DEF W!OneConnectionPerPdu, WH!OneConnectionPerPdu
<1>4. R!DeliveredWhole <=> RH!DeliveredWhole
  BY DEF R!DeliveredWhole, RH!DeliveredWhole, R!Whole, RH!Whole
<1>5. W!OneThreadCloses <=> RH!OneThreadCloses
  BY DEF W!OneThreadCloses, RH!OneThreadCloses
<1>6. R!Orderly <=> RH!Orderly
  BY DEF R!Orderly, R!OneIo, RH!Orderly, RH!OneIo
<1> QED BY <1>1, <1>2, <1>3, <1>4, <1>5, <1>6

\* A close() that has come to the reads had begun before.
LEMMA NoneForReads == ASSUME Counted, wcloses = 0 PROVE rcloses = 0
<1>1. Cardinality(Drainers) \in Nat BY FS_CardinalityType DEF Counted
<1> QED BY <1>1 DEF Counted

\* TruthfulHandlers: as long as no other thread closes beside the io_context and no PDU
\* was torn over two connections, a handler is told the truth about its write, one
\* connection having had all of the PDU; and until the socket is opened again a
\* handler that is given a PDU is given a whole one (socket.cpp:65-74, 100-112).
THEOREM HandlersAreTruthful ==
  ASSUME R!Orderly PROVE Spec => []TruthfulHandlers
<1>1. Spec => WH!Spec /\ RH!Spec
  BY SocketImplementsHalves, SameWrites, SameReads DEF ImplementsHalves
<1>2. Spec => [](WH!OneConnectionPerPdu => WH!TruthfulUnlessRaced /\ WH!WholePdus)
  BY <1>1, WriteAssumptions, WH!TrueUnlessTorn
<1>3. Spec => [](rcloses = 0 \/ (RH!OneThreadCloses /\ conn = 0) => RH!DeliveredWhole)
  <2>1. RH!Orderly BY SameTruth
  <2> QED BY <1>1, <2>1, ReadAssumptions, RH!PdusOfFirstConnection
<1>4. ASSUME Counted, WH!OneConnectionPerPdu => WH!TruthfulUnlessRaced /\ WH!WholePdus,
             rcloses = 0 \/ (RH!OneThreadCloses /\ conn = 0) => RH!DeliveredWhole, W!Unraced
      PROVE  /\ W!OneConnectionPerPdu => W!TruthfulAnswers
             /\ conn = 0 => R!DeliveredWhole
  <2>1. W!OneConnectionPerPdu => W!TruthfulAnswers
    BY <1>4, SameTruth DEF WH!TruthfulUnlessRaced
  <2>2. wcloses = 0 => rcloses = 0 BY <1>4, NoneForReads
  <2>3. conn = 0 => R!DeliveredWhole BY <1>4, <2>2, SameTruth DEF W!Unraced
  <2> QED BY <2>1, <2>3
<1>5. /\ Counted /\ (WH!OneConnectionPerPdu => WH!TruthfulUnlessRaced /\ WH!WholePdus)
      /\ (rcloses = 0 \/ (RH!OneThreadCloses /\ conn = 0) => RH!DeliveredWhole)
      => TruthfulHandlers
  BY <1>4 DEF TruthfulHandlers
<1> QED BY <1>2, <1>3, <1>5, OneMethodAtATime, PTL

\* When the socket is opened again at rest both are true however often it is: as long as
\* no other thread closes beside the io_context, success means that one connection
\* had all of the PDU, operation_canceled that none had anything of it, and PDUs
\* given are whole (socket.cpp:65-74, 100-112, 123-128).
THEOREM HandlersAreTruthfulAtRest ==
  ASSUME R!Orderly PROVE RestfulSpec => [](W!Unraced => W!TruthfulAnswers /\ R!DeliveredWhole)
<1>1. RestfulSpec => WH!RestfulSpec /\ RH!RestfulSpec
  BY RestImplementsHalves, SameWrites, SameReads
<1>2. RestfulSpec => []WH!TruthfulUnlessRaced
  BY <1>1, WriteAssumptions, WH!AnswersAreTruthful
<1>3. RestfulSpec => [](RH!Unraced => RH!DeliveredWhole)
  <2>1. RH!Orderly BY SameTruth
  <2> QED BY <1>1, <2>1, ReadAssumptions, RH!PdusAreDeliveredWhole
<1>4. ASSUME Counted, RH!Unraced => RH!DeliveredWhole, WH!TruthfulUnlessRaced, W!Unraced
      PROVE  W!TruthfulAnswers /\ R!DeliveredWhole
  <2>1. W!TruthfulAnswers BY <1>4, SameTruth DEF WH!TruthfulUnlessRaced
  <2>2. wcloses = 0 => rcloses = 0 BY <1>4, NoneForReads
  <2>3. R!DeliveredWhole BY <1>4, <2>2, SameTruth DEF W!Unraced, RH!Unraced
  <2> QED BY <2>1, <2>3
<1>5. Counted /\ (RH!Unraced => RH!DeliveredWhole) /\ WH!TruthfulUnlessRaced
      => (W!Unraced => W!TruthfulAnswers /\ R!DeliveredWhole)
  BY <1>4
<1> QED BY <1>2, <1>3, <1>5, RestImplementsHalves, OneMethodAtATime, PTL
=============================================================================
