----------------------------- MODULE Inbox_proofs -----------------------------
(***************************************************************************)
(* Proof that the read path implements Inbox: every step of ReadPath is a  *)
(* step of one call, a reconnection, or is hidden from callers of          *)
(* read_async.  Where a call is, which ReadPath_proofs tells, decides the  *)
(* stage it has reached and what it has been given; where the stream       *)
(* is decides which PDUs were given so far.                                *)
(***************************************************************************)
EXTENDS ReadPath_proofs

USE BoundsAssumption, ThreadsAssumption, NoneAssumption

-----------------------------------------------------------------------------
(* Stages and results *)

\* A call at _reading.exchange(true), and one that is served.
Exchanging(c) == \E t \in Threads : cur[t] = c /\ pc[t] = "exchange"
Serving(c) == \/ \E t \in Threads : cur[t] = c /\ pc[t] \in {"peek", "body"}
              \/ \E o \in ops : o.call = c /\ Unfinished(o)
              \/ [task |-> "repeek", call |-> c] \in posted

\* An operation that has read a body, which _read_buff holds.
Full(o) == Body(o) /\ o.st = "done"

\* A call has been given r by an operation or a thread that parses, by an answer
\* owed or by its handler's call; or it has been given nothing.
FromOp(c) == \E o \in ops : o.call = c /\ Full(o)
FromParse(c) == \E t \in Threads : cur[t] = c /\ pc[t] = "parse"
Gets(c, r) ==
  \/ (FromOp(c) \/ FromParse(c)) /\ r = Number(rbuf)
  \/ \E t \in Threads : Owes(t, c) /\ r = Number(owed[t].pdu)
  \/ \E i \in DOMAIN log : log[i].call = c /\ r = Number(log[i].pdu)
  \/ ~FromOp(c) /\ ~FromParse(c) /\ ~InOwed(c) /\ ~Answered(c) /\ r = <<0, 0>>

Stages == [c \in Calls |-> Stage(c)]
Results == [c \in Calls |-> Result(c)]

\* The number of the PDU that follows k octets.
Msg(k) == Stream[k + 1].msg

\* An unfinished read of a body wants more.
Hungry == \A o \in ops : Body(o) /\ o.st # "done" => o.size < Len(rbuf)

\* The PDUs given on this connection are those before the one at which the stream is;
\* while a body is read, those before the one it belongs to, with it at the end.
Ordered ==
  /\ AtPdu(taken) => Promise!Given = 1..(Msg(taken) - 1)
  /\ \A o \in ops : Body(o) =>
       Promise!Given = 1..(Msg(taken - o.size) - (IF o.st = "done" /\ o.size > 0 THEN 0 ELSE 1))

\* Nothing is given before its connection.
Past == \A c \in Calls : Result(c)[1] \in 0..conn

InOrder == Hungry /\ Ordered /\ Past

\* The stage of a call.
LEMMA StageOf ==
  ASSUME NEW c \in Calls
  PROVE  Stage(c) = IF ~Made(c) THEN "new" ELSE IF Exchanging(c) THEN "made" ELSE IF Serving(c) THEN "serving"
                    ELSE IF Answered(c) THEN "answered" ELSE "settled"
BY DEF Stage, Exchanging, Serving

\* A call that holds a PDU, or an answer, is settled.
LEMMA HoldersSettled ==
  ASSUME Inv, Placed, Once, NEW c \in Calls, FromOp(c) \/ FromParse(c) \/ InOwed(c) \/ Answered(c)
  PROVE  Made(c) /\ ~Exchanging(c) /\ ~Serving(c) /\ Stage(c) \in {"settled", "answered"}
<1>1. \A p \in posted : p.call = c => ~FromOp(c) /\ ~FromParse(c) /\ ~InOwed(c) /\ ~Answered(c)
  BY DEF Placed, InPosted, InOp, InThread, FromOp, FromParse
<1>2. [task |-> "repeek", call |-> c] \notin posted
  <2>1. [task |-> "repeek", call |-> c].call = c OBVIOUS
  <2> QED BY <1>1, <2>1
<1>3. \A t \in Threads : cur[t] = c => pc[t] = "parse"
  <2>1. ASSUME NEW t \in Threads, cur[t] = c PROVE FromParse(c)
    BY <2>1 DEF Placed, InThread, InOp, FromOp
  <2> QED BY <2>1 DEF FromParse, Once
<1>4. \A o \in ops : o.call = c => ~Unfinished(o)
  <2>1. SUFFICES ASSUME NEW o \in ops, o.call = c PROVE ~Unfinished(o) OBVIOUS
  <2>2. FromOp(c) BY <2>1 DEF Placed, InOp, InThread, FromParse
  <2>3. Full(o) BY <2>1, <2>2, TheOperation DEF FromOp
  <2> QED BY <2>3 DEF Full, Body, Unfinished
<1>5. Made(c) BY DEF Placed, InOp, InThread, FromOp, FromParse
<1>6. ~Exchanging(c) /\ ~Serving(c) BY <1>2, <1>3, <1>4 DEF Exchanging, Serving
<1> QED BY <1>5, <1>6, StageOf

\* A call's result is what it gets.
LEMMA ResultOf ==
  ASSUME Inv, Placed, Once, NEW c \in Calls, NEW r, Gets(c, r)
  PROVE  Result(c) = r
<1> DEFINE Settled == Stage(c) \in {"settled", "answered"}
<1>1. CASE (FromOp(c) \/ FromParse(c)) /\ r = Number(rbuf)
  <2>1. Settled BY <1>1, HoldersSettled
  <2>2. (\E o \in ops : o.call = c /\ o.kind = "body" /\ o.ec = "ok")
        \/ \E t \in Threads : cur[t] = c /\ pc[t] = "parse"
    BY <1>1 DEF FromOp, FromParse, Full, Body
  <2> QED BY <1>1, <2>1, <2>2 DEF Result
<1>2. ASSUME NEW t \in Threads, Owes(t, c), r = Number(owed[t].pdu) PROVE Result(c) = r
  <2>1. InOwed(c) BY <1>2 DEF InOwed
  <2>2. Settled BY <2>1, HoldersSettled
  <2>3. /\ ~\E o \in ops : o.call = c /\ o.kind = "body" /\ o.ec = "ok"
        /\ ~\E u \in Threads : cur[u] = c /\ pc[u] = "parse"
    BY <2>1 DEF Placed, InOp, InThread
  <2> DEFINE a == CHOOSE x \in {owed[u] : u \in Threads} : x # NoAnswer /\ x.call = c
  <2>4. owed[t] \in {owed[u] : u \in Threads} /\ owed[t] # NoAnswer /\ owed[t].call = c
    BY <1>2 DEF Owes
  <2>5. a \in {owed[u] : u \in Threads} /\ a # NoAnswer /\ a.call = c BY <2>4
  <2>6. a = owed[t]
    <3>1. PICK u \in Threads : a = owed[u] BY <2>5
    <3>2. Owes(u, c) BY <2>5, <3>1 DEF Owes
    <3> QED BY <1>2, <3>1, <3>2 DEF Once
  <2>7. \E u \in Threads : owed[u] # NoAnswer /\ owed[u].call = c BY <2>4
  <2>8. Result(c) = Number(a.pdu) BY <2>2, <2>3, <2>7 DEF Result
  <2> QED BY <1>2, <2>6, <2>8
<1>3. ASSUME NEW i \in DOMAIN log, log[i].call = c, r = Number(log[i].pdu) PROVE Result(c) = r
  <2>1. Answered(c) BY <1>3 DEF Answered
  <2>2. Settled BY <2>1, HoldersSettled
  <2>3. /\ ~\E o \in ops : o.call = c /\ o.kind = "body" /\ o.ec = "ok"
        /\ ~\E u \in Threads : cur[u] = c /\ pc[u] = "parse"
        /\ ~\E u \in Threads : owed[u] # NoAnswer /\ owed[u].call = c
    BY <2>1 DEF Placed, InOp, InThread, InOwed, Owes
  <2>4. i \in InLog(c) BY <1>3 DEF InLog
  <2>5. PICK j : j = CHOOSE k \in InLog(c) : TRUE OBVIOUS
  <2>6. j \in InLog(c) BY <2>4, <2>5
  <2>7. j = i BY <1>3, <2>6 DEF Once, InLog
  <2>8. Result(c) = Number(log[j].pdu) BY <2>2, <2>3, <2>4, <2>5 DEF Result
  <2> QED BY <1>3, <2>7, <2>8
<1>4. CASE ~FromOp(c) /\ ~FromParse(c) /\ ~InOwed(c) /\ ~Answered(c) /\ r = <<0, 0>>
  <2>1. CASE ~Settled BY <1>4, <2>1 DEF Result
  <2>2. CASE Settled
    <3>1. Made(c) /\ ~Serving(c) BY <2>2, StageOf
    <3>2. ~\E o \in ops : o.call = c /\ o.kind = "body" /\ o.ec = "ok"
      BY <1>4, <3>1 DEF Serving, Unfinished, FromOp, Full, Body
    <3>3. ~\E u \in Threads : cur[u] = c /\ pc[u] = "parse" BY <1>4 DEF FromParse
    <3>4. ~\E u \in Threads : owed[u] # NoAnswer /\ owed[u].call = c BY <1>4 DEF InOwed, Owes
    <3>5. InLog(c) = {} BY <1>4 DEF InLog, Answered
    <3> QED BY <1>4, <3>2, <3>3, <3>4, <3>5 DEF Result
  <2> QED BY <2>1, <2>2
<1> QED BY <1>1, <1>2, <1>3, <1>4 DEF Gets

\* It gets something.
LEMMA GetsSomething == ASSUME NEW c \in Calls PROVE \E r : Gets(c, r)
<1>1. CASE FromOp(c) \/ FromParse(c) BY <1>1 DEF Gets
<1>2. CASE InOwed(c) BY <1>2 DEF Gets, InOwed
<1>3. CASE Answered(c) BY <1>3 DEF Gets, Answered
<1> QED BY <1>1, <1>2, <1>3 DEF Gets

LEMMA GetsResult ==
  ASSUME Inv, Placed, Once, NEW c \in Calls
  PROVE  Gets(c, Result(c))
BY ResultOf, GetsSomething

\* The calls' places, with the invariants they rest on.
Located == Inv /\ Placed /\ Once

\* A call has the result it gets, and the stage its place says.
Resulted ==
  \A c \in Calls :
    /\ Gets(c, Result(c)) /\ \A r : Gets(c, r) => Result(c) = r
    /\ Stage(c) = IF ~Made(c) THEN "new" ELSE IF Exchanging(c) THEN "made" ELSE IF Serving(c) THEN "serving"
                  ELSE IF Answered(c) THEN "answered" ELSE "settled"

LEMMA ResultedAlways == Located => Resulted
BY ResultOf, GetsResult, StageOf DEF Resulted, Located
LEMMA ResultedNext == Located' => Resulted'
BY ResultedAlways, PTL

\* What a call's stage depends on is as it was; it keeps what it was given.
Same(c) == /\ Made(c)' <=> Made(c)
           /\ Exchanging(c)' <=> Exchanging(c)
           /\ Serving(c)' <=> Serving(c)
           /\ Answered(c)' <=> Answered(c)
Keeps(c) == \A r : Gets(c, r) => Gets(c, r)'

LEMMA StageSame ==
  ASSUME Located, Located', NEW c \in Calls, Same(c)
  PROVE  Stage(c)' = Stage(c)
BY ResultedAlways, ResultedNext DEF Resulted, Same

LEMMA ResultSame ==
  ASSUME Located, Located', NEW c \in Calls, Keeps(c)
  PROVE  Result(c)' = Result(c)
<1>1. PICK r : Gets(c, r) BY GetsSomething
<1>2. Result(c) = r BY <1>1, ResultedAlways DEF Resulted
<1>3. Gets(c, r)' BY <1>1 DEF Keeps
<1>4. Result(c)' = r BY <1>3, ResultedNext DEF Resulted
<1> QED BY <1>2, <1>4

\* A step that callers do not see.
LEMMA Stutters ==
  ASSUME Located, Located', \A c \in Calls : Same(c) /\ Keeps(c)
  PROVE  UNCHANGED <<Stages, Results>>
BY StageSame, ResultSame DEF Stages, Results

\* A step that callers see moves one call.
LEMMA MovesOne ==
  ASSUME Located, Located', NEW d \in Calls, \A c \in Calls : c # d => Same(c), NEW to, Stage(d)' = to
  PROVE  Promise!Move(d, Stage(d), to)
<1>1. \A c \in Calls : c # d => Stage(c)' = Stage(c) BY StageSame
<1>2. Stages' = [Stages EXCEPT ![d] = to] BY <1>1 DEF Stages
<1>3. Stages[d] = Stage(d) BY DEF Stages
<1> QED BY <1>2, <1>3 DEF Promise!Move, Stages

\* Most steps give nothing.
LEMMA MovesOnly ==
  ASSUME Located, Located', NEW d \in Calls, \A c \in Calls : c # d => Same(c), \A c \in Calls : Keeps(c),
         NEW to, Stage(d)' = to
  PROVE  Promise!Move(d, Stage(d), to) /\ UNCHANGED Results
<1>1. UNCHANGED Results BY ResultSame DEF Results
<1> QED BY <1>1, MovesOne

\* The inbox's calls are the read path's.
LEMMA PromisedCalls == Promise!Calls = Calls
BY DEF Promise!Calls, Calls

-----------------------------------------------------------------------------
(* Steps that give nothing *)

\* What the steps below leave alone, they leave to those who hold it.
LEMMA KeepsHeld ==
  ASSUME NEW c \in Calls, UNCHANGED <<owed, log>>,
         FromOp(c)' \/ FromParse(c)' <=> FromOp(c) \/ FromParse(c),
         FromOp(c) \/ FromParse(c) => rbuf' = rbuf
  PROVE  Keeps(c) /\ (Answered(c)' <=> Answered(c))
<1>1. (InOwed(c)' <=> InOwed(c)) /\ (Answered(c)' <=> Answered(c)) BY DEF InOwed, Owes, Answered
<1>2. FromOp(c) \/ FromParse(c) => Number(rbuf') = Number(rbuf) BY DEF Number
<1>3. \A r : Gets(c, r) => Gets(c, r)' BY <1>1, <1>2 DEF Gets, Owes, Number
<1> QED BY <1>1, <1>3 DEF Keeps

\* Steps of the network and of the socket that concern no operation.
LEMMA ApartStutters ==
  ASSUME Located, Located', UNCHANGED <<rbuf, cur, owed, calls, ops, posted, log>>,
         \A t \in Threads : cur[t] # NoCall => pc'[t] = pc[t]
  PROVE  UNCHANGED <<Stages, Results>>
<1> SUFFICES ASSUME NEW c \in Calls PROVE Same(c) /\ Keeps(c) BY Stutters
<1>1. \A t \in Threads : cur[t] = c => pc'[t] = pc[t] OBVIOUS
<1>2. (Made(c)' <=> Made(c)) /\ (Exchanging(c)' <=> Exchanging(c)) /\ (Serving(c)' <=> Serving(c))
  BY <1>1 DEF Made, Exchanging, Serving, Unfinished
<1>3. (FromOp(c)' <=> FromOp(c)) /\ (FromParse(c)' <=> FromParse(c))
  BY <1>1 DEF FromOp, FromParse, Full, Body
<1> QED BY <1>2, <1>3, KeepsHeld DEF Same

\* read_async makes a call (socket.cpp:23).
LEMMA ReadAsyncMakes ==
  ASSUME Located, Located', NEW t \in Threads, ReadAsync(t)
  PROVE  (\E c \in Calls : Promise!Make(c)) /\ UNCHANGED Results
<1>t. calls \in [Callers -> 0..MaxReads] BY DEF Located, Inv, TypeOK
<1>1. t \in Callers /\ calls \in [Callers -> Nat] /\ calls[t] < MaxReads /\ cur[t] = NoCall
  BY <1>t DEF ReadAsync, Idle, Located, Inv, Carried
<1>2. <<t, calls[t] + 1>> \in Calls BY <1>1 DEF Calls
<1>3. PICK d \in Calls : d = <<t, calls[t] + 1>> BY <1>2
<1>4. calls' = [calls EXCEPT ![t] = @ + 1] /\ cur' = [cur EXCEPT ![t] = d]
      /\ pc' = [pc EXCEPT ![t] = "exchange"] /\ UNCHANGED <<rbuf, owed, ops, posted, log, conn>>
  BY <1>3 DEF ReadAsync, Goto, bufVars, netVars
<1>5. ~Made(d) /\ Made(d)'
  <2>1. d[1] = t /\ d[2] = calls[t] + 1 BY <1>3
  <2> QED BY <1>1, <1>4, <2>1 DEF Made
<1>6. ASSUME NEW c \in Calls, c # d
      PROVE  Made(c)' <=> Made(c)
  <2>1. c[1] \in Callers /\ c[2] \in Nat /\ c = <<c[1], c[2]>> BY DEF Calls
  <2>2. CASE c[1] = t
    <3>1. calls'[c[1]] = calls[t] + 1 /\ c[2] # calls[t] + 1 BY <1>1, <1>3, <1>4, <1>6, <2>1, <2>2
    <3> QED BY <1>1, <2>1, <2>2, <3>1 DEF Made
  <2>3. CASE c[1] # t BY <1>1, <1>4, <2>1, <2>3 DEF Made
  <2> QED BY <2>2, <2>3
<1>7. \A u \in Threads : cur'[u] = IF u = t THEN d ELSE cur[u]
  BY <1>4, Typed DEF Located
<1>8. \A u \in Threads : pc'[u] = IF u = t THEN "exchange" ELSE pc[u]
  BY <1>4 DEF Located, Inv, TypeOK
<1>9. pc[t] = "idle" /\ NoCall \notin Calls BY DEF ReadAsync, Idle
<1>10. ASSUME NEW c \in Calls
       PROVE  Keeps(c) /\ (Answered(c)' <=> Answered(c)) /\ (Serving(c)' <=> Serving(c))
              /\ (c # d => (Exchanging(c)' <=> Exchanging(c)))
  <2>1. FromParse(c)' <=> FromParse(c) BY <1>7, <1>8, <1>9, <1>1 DEF FromParse
  <2>2. FromOp(c)' <=> FromOp(c) BY <1>4 DEF FromOp, Full, Body
  <2>3. Serving(c)' <=> Serving(c) BY <1>1, <1>4, <1>7, <1>8, <1>9 DEF Serving, Unfinished
  <2>4. c # d => (Exchanging(c)' <=> Exchanging(c)) BY <1>1, <1>7, <1>8, <1>9 DEF Exchanging
  <2> QED BY <1>4, <2>1, <2>2, <2>3, <2>4, KeepsHeld
<1>11. \A c \in Calls : c # d => Same(c) BY <1>6, <1>10 DEF Same
<1>12. t \in Threads /\ Exchanging(d)' BY <1>7, <1>8 DEF Exchanging
<1>13. Stage(d) = "new" /\ Stage(d)' = "made" BY <1>5, <1>12, ResultedAlways, ResultedNext DEF Resulted
<1>14. Promise!Move(d, "new", "made") /\ UNCHANGED Results BY <1>10, <1>11, <1>13, MovesOnly
<1> QED BY <1>4, <1>14 DEF Promise!Make, Results

\* A call that a step does not touch.
LEMMA OthersSame ==
  ASSUME NEW c \in Calls, UNCHANGED calls,
         \A u \in Threads : cur[u] = c \/ cur'[u] = c => cur'[u] = cur[u] /\ pc'[u] = pc[u],
         \A o : o.call = c => (o \in ops' <=> o \in ops),
         [task |-> "repeek", call |-> c] \in posted' <=> [task |-> "repeek", call |-> c] \in posted,
         Answered(c)' <=> Answered(c)
  PROVE  Same(c) /\ (FromOp(c)' <=> FromOp(c)) /\ (FromParse(c)' <=> FromParse(c))
<1>1. Made(c)' <=> Made(c) BY DEF Made
<1>2. Exchanging(c)' <=> Exchanging(c) BY DEF Exchanging
<1>3. FromParse(c)' <=> FromParse(c) BY DEF FromParse
<1>4. FromOp(c)' <=> FromOp(c) BY DEF FromOp, Full, Body
<1>5. Serving(c)' <=> Serving(c)
  <2>1. (\E o \in ops' : o.call = c /\ Unfinished(o)) <=> \E o \in ops : o.call = c /\ Unfinished(o)
    BY DEF Unfinished
  <2>2. (\E t \in Threads : cur'[t] = c /\ pc'[t] \in {"peek", "body"})
        <=> \E t \in Threads : cur[t] = c /\ pc[t] \in {"peek", "body"}
    OBVIOUS
  <2> QED BY <2>1, <2>2 DEF Serving, Unfinished
<1> QED BY <1>1, <1>2, <1>3, <1>4, <1>5 DEF Same

\* _reading.exchange(true): the call is refused, or served, when no other is (socket.cpp:26-33).
LEMMA ExchangeDecides ==
  ASSUME Located, Located', NEW t \in Threads, Exchange(t)
  PROVE  (\E c \in Calls : Promise!Refuse(c) \/ Promise!Serve(c)) /\ UNCHANGED Results
<1>1. cur[t] \in Calls BY Typed DEF Exchange, Located, Inv, Carried
<1>2. PICK d \in Calls : d = cur[t] BY <1>1
<1>3. UNCHANGED <<rbuf, owed, ops, calls, log, conn>> BY DEF Exchange, bufVars, netVars
<1>4. \A u \in Threads : cur[u] = d => u = t BY <1>2 DEF Located, Once
<1>5. /\ Made(d) /\ Exchanging(d) /\ ~Answered(d)
      /\ \A o \in ops : o.call # d
      /\ \A p \in posted : p.call # d
  BY <1>2 DEF Exchange, Exchanging, Located, Placed, InThread, InOp, InPosted
<1>6. \A c \in Calls : Answered(c)' <=> Answered(c) BY <1>3 DEF Answered
<1>7. Made(d)' BY <1>3, <1>5 DEF Made
<1>p. pc \in [Threads -> {"idle", "exchange", "peek", "body", "parse", "handler", "closing"}]
      /\ cur \in [Threads -> Calls \cup {NoCall}]
  BY DEF Located, Inv, TypeOK
<1>8. \A u \in Threads : pc'[u] = IF u = t THEN (IF reading THEN "idle" ELSE "peek") ELSE pc[u]
  BY <1>p DEF Exchange, Goto
<1>9. ~FromParse(d) /\ ~FromParse(d)' /\ ~FromOp(d) /\ ~FromOp(d)'
  <2>1. ~FromOp(d) /\ ~FromOp(d)' BY <1>3, <1>5 DEF FromOp
  <2>2. ~FromParse(d) BY <1>2, <1>4 DEF FromParse, Exchange
  <2>3. \A u \in Threads : cur'[u] = d => u = t /\ pc'[u] # "parse" BY <1>p, <1>4, <1>8 DEF Exchange
  <2> QED BY <2>1, <2>2, <2>3 DEF FromParse
<1>10. \A c \in Calls : c # d => Same(c) /\ Keeps(c)
  <2>1. SUFFICES ASSUME NEW c \in Calls, c # d PROVE Same(c) /\ Keeps(c) OBVIOUS
  <2>2. \A u \in Threads : cur[u] = c \/ cur'[u] = c => cur'[u] = cur[u] /\ pc'[u] = pc[u]
    BY <1>2, <1>p, <1>8, <2>1 DEF Exchange
  <2>3. [task |-> "repeek", call |-> c] \in posted' <=> [task |-> "repeek", call |-> c] \in posted
    BY DEF Exchange
  <2>4. Same(c) /\ (FromOp(c)' <=> FromOp(c)) /\ (FromParse(c)' <=> FromParse(c))
    BY <1>3, <1>6, <2>2, <2>3, OthersSame
  <2> QED BY <1>3, <2>4, KeepsHeld
<1>11. \A c \in Calls : Keeps(c) BY <1>3, <1>9, <1>10, KeepsHeld
<1>12. \A c \in Calls : c # d => Same(c) BY <1>10
<1>13. Stage(d) = "made" BY <1>5, ResultedAlways DEF Resulted
<1>14. CASE reading
  <2>1. cur' = [cur EXCEPT ![t] = NoCall] /\ posted' = posted \cup {[task |-> "busy", call |-> d]}
    BY <1>2, <1>14 DEF Exchange
  <2>2. \A u \in Threads : cur'[u] # d BY <1>4, <1>p, <2>1
  <2>3. [task |-> "repeek", call |-> d] \notin posted'
    <3>1. [task |-> "repeek", call |-> d].call = d OBVIOUS
    <3> QED BY <1>5, <2>1, <3>1
  <2>4. ~Exchanging(d)' /\ ~Serving(d)' BY <1>3, <1>5, <2>2, <2>3 DEF Exchanging, Serving
  <2>5. Stage(d)' = "settled" BY <1>5, <1>6, <1>7, <2>4, ResultedNext DEF Resulted
  <2>6. Promise!Move(d, "made", "settled") /\ UNCHANGED Results
    BY <1>11, <1>12, <1>13, <2>5, MovesOnly
  <2> QED BY <1>3, <2>6 DEF Promise!Refuse, Results
<1>15. CASE ~reading
  <2>1. cur' = cur /\ posted' = posted BY <1>15 DEF Exchange
  <2>2. ~Exchanging(d)' /\ Serving(d)' BY <1>2, <1>4, <1>8, <1>15, <2>1 DEF Exchanging, Serving
  <2>3. Stage(d)' = "serving" BY <1>5, <1>6, <1>7, <2>2, ResultedNext DEF Resulted
  <2>4. Promise!Move(d, "made", "serving") /\ UNCHANGED Results
    BY <1>11, <1>12, <1>13, <2>3, MovesOnly
  <2>5. ASSUME NEW c \in Calls PROVE Stages[c] # "serving"
    <3>1. ops = {} /\ Repeeks = {} /\ \A u \in Threads : ~Reader(u)
      BY <1>15 DEF Located, Inv, ExclusiveReader
    <3>2. ~Serving(c)
      <4>1. [task |-> "repeek", call |-> c].task = "repeek" OBVIOUS
      <4> QED BY <3>1, <4>1 DEF Serving, Repeeks, Reader
    <3> QED BY <3>2, StageOf DEF Stages
  <2> QED BY <1>3, <2>4, <2>5, PromisedCalls DEF Promise!Serve, Results, Stages
<1> QED BY <1>14, <1>15

\* A step touches what call d is in the hands of, and nothing of another call's.
TouchesOnly(d) ==
  /\ calls' = calls
  /\ \A u \in Threads : \/ cur'[u] = cur[u] /\ pc'[u] = pc[u]
                        \/ cur[u] \in {d, NoCall} /\ cur'[u] \in {d, NoCall}
  /\ \A u \in Threads : \/ owed'[u] = owed[u]
                        \/ /\ owed[u] # NoAnswer => owed[u].call = d
                           /\ owed'[u] # NoAnswer => owed'[u].call = d
  /\ \A o : (o \in ops <=> o \in ops') \/ o.call = d
  /\ \A p : (p \in posted <=> p \in posted') \/ p.call = d
  /\ \A i \in DOMAIN log : i \in DOMAIN log' /\ log'[i] = log[i]
  /\ \A i \in DOMAIN log' : i \in DOMAIN log \/ log'[i].call = d
  /\ rbuf' = rbuf \/ ((\A u \in Threads : pc[u] # "parse") /\ \A o \in ops : o.call = d)

LEMMA OthersKeep ==
  ASSUME NEW d \in Calls, TouchesOnly(d), NEW c \in Calls, c # d
  PROVE  Same(c) /\ Keeps(c)
<1>1. \A u \in Threads : cur[u] = c \/ cur'[u] = c => cur'[u] = cur[u] /\ pc'[u] = pc[u]
  BY DEF TouchesOnly
<1>2. \A o : o.call = c => (o \in ops' <=> o \in ops) BY DEF TouchesOnly
<1>3. [task |-> "repeek", call |-> c] \in posted' <=> [task |-> "repeek", call |-> c] \in posted
  <2>1. [task |-> "repeek", call |-> c].call # d OBVIOUS
  <2> QED BY <2>1 DEF TouchesOnly
<1>4. \A i \in DOMAIN log' : log'[i].call = c => i \in DOMAIN log /\ log'[i] = log[i] BY DEF TouchesOnly
<1>5. \A i \in DOMAIN log : log[i].call = c => i \in DOMAIN log' /\ log'[i] = log[i] BY DEF TouchesOnly
<1>6. Answered(c)' <=> Answered(c) BY <1>4, <1>5 DEF Answered
<1>7. Same(c) /\ (FromOp(c)' <=> FromOp(c)) /\ (FromParse(c)' <=> FromParse(c))
  BY <1>1, <1>2, <1>3, <1>6, OthersSame DEF TouchesOnly
<1>8. \A u \in Threads : Owes(u, c) => Owes(u, c)' /\ owed'[u] = owed[u] BY DEF TouchesOnly, Owes
<1>9. \A u \in Threads : Owes(u, c)' => Owes(u, c) BY DEF TouchesOnly, Owes
<1>10. InOwed(c)' <=> InOwed(c) BY <1>8, <1>9 DEF InOwed
<1>11. FromOp(c) \/ FromParse(c) => rbuf' = rbuf BY DEF TouchesOnly, FromOp, FromParse
<1>12. ASSUME NEW r, Gets(c, r) PROVE Gets(c, r)'
  <2>1. CASE (FromOp(c) \/ FromParse(c)) /\ r = Number(rbuf)
    BY <1>7, <1>11, <2>1 DEF Gets, Number
  <2>2. ASSUME NEW u \in Threads, Owes(u, c), r = Number(owed[u].pdu) PROVE Gets(c, r)'
    BY <1>8, <2>2 DEF Gets, Number
  <2>3. ASSUME NEW i \in DOMAIN log, log[i].call = c, r = Number(log[i].pdu) PROVE Gets(c, r)'
    <3>1. i \in DOMAIN log' /\ log'[i].call = c /\ r = Number(log'[i].pdu) BY <1>5, <2>3
    <3> QED BY <3>1 DEF Gets, Number
  <2>4. CASE ~FromOp(c) /\ ~FromParse(c) /\ ~InOwed(c) /\ ~Answered(c) /\ r = <<0, 0>>
    BY <1>6, <1>7, <1>10, <2>4 DEF Gets
  <2> QED BY <1>12, <2>1, <2>2, <2>3, <2>4 DEF Gets
<1> QED BY <1>7, <1>12 DEF Keeps

\* A call that is served has been given nothing; one that holds an answer is settled.
Apart ==
  \A c \in Calls :
    /\ Serving(c) => Stage(c) = "serving" /\ Result(c) = <<0, 0>>
    /\ FromOp(c) \/ FromParse(c) \/ InOwed(c) \/ Answered(c) =>
         Stage(c) = IF Answered(c) THEN "answered" ELSE "settled"

LEMMA ApartAlways == Located => Apart
<1> SUFFICES ASSUME Located, NEW c \in Calls
             PROVE  /\ Serving(c) => Stage(c) = "serving" /\ Result(c) = <<0, 0>>
                    /\ FromOp(c) \/ FromParse(c) \/ InOwed(c) \/ Answered(c) =>
                         Stage(c) = IF Answered(c) THEN "answered" ELSE "settled"
  BY DEF Apart
<1>1. FromOp(c) \/ FromParse(c) \/ InOwed(c) \/ Answered(c) => Made(c) /\ ~Exchanging(c) /\ ~Serving(c)
  BY HoldersSettled DEF Located
<1>2. ASSUME Serving(c) PROVE Stage(c) = "serving" /\ Result(c) = <<0, 0>>
  <2>1. ~FromOp(c) /\ ~FromParse(c) /\ ~InOwed(c) /\ ~Answered(c) BY <1>1, <1>2
  <2>2. Gets(c, <<0, 0>>) BY <2>1 DEF Gets
  <2>3. Result(c) = <<0, 0>> BY <2>2, ResultedAlways DEF Resulted
  <2>4. InThread(c) \/ InOp(c) \/ InPosted(c)
    <3>1. [task |-> "repeek", call |-> c].call = c OBVIOUS
    <3> QED BY <1>2, <3>1 DEF Serving, InThread, InOp, InPosted
  <2>5. Made(c) BY <2>4 DEF Located, Placed
  <2>6. ~Exchanging(c)
    <3>1. SUFFICES ASSUME NEW t \in Threads, cur[t] = c, pc[t] = "exchange" PROVE FALSE BY DEF Exchanging
    <3>2. InThread(c) BY <3>1 DEF InThread
    <3>3. ~InOp(c) /\ ~InPosted(c) BY <3>2 DEF Located, Placed
    <3>4. PICK u \in Threads : cur[u] = c /\ pc[u] \in {"peek", "body"}
      <4>1. [task |-> "repeek", call |-> c].call = c OBVIOUS
      <4> QED BY <1>2, <3>3, <4>1 DEF Serving, InOp, InPosted
    <3> QED BY <3>1, <3>4 DEF Located, Once
  <2> QED BY <1>2, <2>3, <2>5, <2>6, StageOf
<1> QED BY <1>1, <1>2, StageOf
LEMMA ApartNext == Located' => Apart'
BY ApartAlways, PTL

\* A step that touches one call and leaves it with the stage and the result it had.
LEMMA HandedOn ==
  ASSUME Located, Located', NEW d \in Calls, TouchesOnly(d),
         Stage(d)' = Stage(d), Result(d)' = Result(d)
  PROVE  UNCHANGED <<Stages, Results>>
<1>1. \A c \in Calls : c # d => Same(c) /\ Keeps(c) BY OthersKeep
<1>2. \A c \in Calls : Stage(c)' = Stage(c) /\ Result(c)' = Result(c) BY <1>1, StageSame, ResultSame
<1> QED BY <1>2 DEF Stages, Results

\* A step that touches one call and gives it nothing.
LEMMA MovedOn ==
  ASSUME Located, Located', NEW d \in Calls, TouchesOnly(d), NEW to, Stage(d)' = to, Result(d)' = Result(d)
  PROVE  Promise!Move(d, Stage(d), to) /\ UNCHANGED Results
<1>1. \A c \in Calls : c # d => Same(c) /\ Keeps(c) BY OthersKeep
<1>2. \A c \in Calls : Result(c)' = Result(c) BY <1>1, ResultSame
<1>3. UNCHANGED Results BY <1>2 DEF Results
<1> QED BY <1>1, <1>3, MovesOne

\* The stage and the result of a call in the hands of ...
Holdings ==
  \A c \in Calls :
    \* ... an operation that has read no body and is over,
    /\ InOp(c) /\ (\A o \in ops : ~Unfinished(o) /\ ~Full(o)) => Stage(c) = "settled" /\ Result(c) = <<0, 0>>
    \* an operation that has read one or a thread that parses it,
    /\ FromOp(c) \/ FromParse(c) => Stage(c) = "settled" /\ Result(c) = Number(rbuf)
    \* a lambda about to call its handler,
    /\ \A t \in Threads : Owes(t, c) => Stage(c) = "settled" /\ Result(c) = Number(owed[t].pdu)
    \* the handler itself, or the function that refuses it.
    /\ \A i \in DOMAIN log : log[i].call = c => Stage(c) = "answered" /\ Result(c) = Number(log[i].pdu)
    /\ [task |-> "busy", call |-> c] \in posted => Stage(c) = "settled" /\ Result(c) = <<0, 0>>

LEMMA HoldingsAlways == Located => Holdings
<1> SUFFICES ASSUME Located, NEW c \in Calls
             PROVE  /\ InOp(c) /\ (\A o \in ops : ~Unfinished(o) /\ ~Full(o)) =>
                         Stage(c) = "settled" /\ Result(c) = <<0, 0>>
                    /\ FromOp(c) \/ FromParse(c) => Stage(c) = "settled" /\ Result(c) = Number(rbuf)
                    /\ \A t \in Threads : Owes(t, c) => Stage(c) = "settled" /\ Result(c) = Number(owed[t].pdu)
                    /\ \A i \in DOMAIN log : log[i].call = c =>
                         Stage(c) = "answered" /\ Result(c) = Number(log[i].pdu)
                    /\ [task |-> "busy", call |-> c] \in posted => Stage(c) = "settled" /\ Result(c) = <<0, 0>>
  BY DEF Holdings
<1>1. ASSUME ~InThread(c), ~InOwed(c), ~Answered(c), Made(c), ~Serving(c), ~FromOp(c)
      PROVE  Stage(c) = "settled" /\ Result(c) = <<0, 0>>
  <2>1. ~FromParse(c) /\ ~Exchanging(c) BY <1>1 DEF InThread, FromParse, Exchanging
  <2>2. Gets(c, <<0, 0>>) BY <1>1, <2>1 DEF Gets
  <2> QED BY <1>1, <2>1, <2>2, ResultedAlways DEF Resulted
<1>2. ASSUME InOp(c), \A o \in ops : ~Unfinished(o) /\ ~Full(o)
      PROVE  Stage(c) = "settled" /\ Result(c) = <<0, 0>>
  <2>1. Made(c) /\ ~InThread(c) /\ ~InPosted(c) /\ ~InOwed(c) /\ ~Answered(c) BY <1>2 DEF Located, Placed
  <2>2. [task |-> "repeek", call |-> c] \notin posted
    <3>1. [task |-> "repeek", call |-> c].call = c OBVIOUS
    <3> QED BY <2>1, <3>1 DEF InPosted
  <2>3. ~Serving(c) /\ ~FromOp(c) BY <1>2, <2>1, <2>2 DEF Serving, FromOp, InThread
  <2> QED BY <1>1, <2>1, <2>3
<1>3. ASSUME FromOp(c) \/ FromParse(c) PROVE Stage(c) = "settled" /\ Result(c) = Number(rbuf)
  <2>1. ~Answered(c) BY <1>3 DEF Located, Placed, FromOp, FromParse, InOp, InThread
  <2>2. Gets(c, Number(rbuf)) BY <1>3 DEF Gets
  <2> QED BY <1>3, <2>1, <2>2, ResultedAlways, ApartAlways DEF Resulted, Apart
<1>4. ASSUME NEW t \in Threads, Owes(t, c) PROVE Stage(c) = "settled" /\ Result(c) = Number(owed[t].pdu)
  <2>1. InOwed(c) BY <1>4 DEF InOwed
  <2>2. ~Answered(c) BY <2>1 DEF Located, Placed
  <2>3. Gets(c, Number(owed[t].pdu)) BY <1>4 DEF Gets
  <2> QED BY <2>1, <2>2, <2>3, ResultedAlways, ApartAlways DEF Resulted, Apart
<1>5. ASSUME NEW i \in DOMAIN log, log[i].call = c PROVE Stage(c) = "answered" /\ Result(c) = Number(log[i].pdu)
  <2>1. Answered(c) BY <1>5 DEF Answered
  <2>2. Gets(c, Number(log[i].pdu)) BY <1>5 DEF Gets
  <2> QED BY <2>1, <2>2, ResultedAlways, ApartAlways DEF Resulted, Apart
<1>6. ASSUME [task |-> "busy", call |-> c] \in posted PROVE Stage(c) = "settled" /\ Result(c) = <<0, 0>>
  <2>1. [task |-> "busy", call |-> c].call = c /\ [task |-> "repeek", call |-> c].call = c
        /\ [task |-> "busy", call |-> c] # [task |-> "repeek", call |-> c]
    <3>1. [task |-> "busy", call |-> c].task = "busy" /\ [task |-> "repeek", call |-> c].task = "repeek" OBVIOUS
    <3> QED BY <3>1
  <2>2. InPosted(c) BY <1>6, <2>1 DEF InPosted
  <2>3. Made(c) /\ ~InThread(c) /\ ~InOp(c) /\ ~InOwed(c) /\ ~Answered(c) BY <2>2 DEF Located, Placed
  <2>4. [task |-> "repeek", call |-> c] \notin posted BY <1>6, <2>1 DEF Located, Once
  <2>5. ~Serving(c) /\ ~FromOp(c) BY <2>3, <2>4 DEF Serving, FromOp, InThread, InOp
  <2> QED BY <1>1, <2>3, <2>5
<1> QED BY <1>2, <1>3, <1>4, <1>5, <1>6
LEMMA HoldingsNext == Located' => Holdings'
BY HoldingsAlways, PTL

\* A read that goes on, or ends without a PDU.
LEMMA GoesOnOrFails ==
  ASSUME Located, Located', NEW d \in Calls, TouchesOnly(d), UNCHANGED conn, Serving(d),
         NEW q, ops' = {q}, q.call = d,
         Unfinished(q) \/ ~Full(q) \/ rbuf' = <<>>
  PROVE  UNCHANGED <<Stages, Results>> \/ (Promise!Fail(d) /\ UNCHANGED Results)
<1>1. Stage(d) = "serving" /\ Result(d) = <<0, 0>> BY ApartAlways DEF Apart
<1>2. CASE Unfinished(q)
  <2>1. Serving(d)' BY <1>2 DEF Serving, Unfinished
  <2>2. Stage(d)' = "serving" /\ Result(d)' = <<0, 0>> BY <2>1, ApartNext DEF Apart
  <2> QED BY <1>1, <2>2, HandedOn
<1>3. CASE ~Unfinished(q)
  <2>1. InOp(d)' BY DEF InOp
  <2>2. ASSUME ~Full(q) PROVE Stage(d)' = "settled" /\ Result(d)' = <<0, 0>>
    <3>1. \A o \in ops' : ~Unfinished(o)' /\ ~Full(o)' BY <1>3, <2>2 DEF Unfinished, Full, Body
    <3> QED BY <2>1, <3>1, HoldingsNext DEF Holdings
  <2>3. ASSUME Full(q), rbuf' = <<>> PROVE Stage(d)' = "settled" /\ Result(d)' = <<0, 0>>
    <3>1. FromOp(d)' BY <2>3 DEF FromOp, Full, Body
    <3>2. Number(rbuf)' = <<0, 0>> BY <2>3 DEF Number
    <3> QED BY <3>1, <3>2, HoldingsNext DEF Holdings
  <2>4. Stage(d)' = "settled" /\ Result(d)' = <<0, 0>> BY <1>3, <2>2, <2>3
  <2>5. Promise!Move(d, "serving", "settled") /\ UNCHANGED Results BY <1>1, <2>4, MovedOn
  <2> QED BY <2>5 DEF Promise!Fail, Results
<1> QED BY <1>2, <1>3

\* The results of the calls tell what has been given on this connection.
LEMMA GivenResults ==
  /\ \A m : m \in Promise!Given <=> m # 0 /\ \E c \in Calls : Result(c)[1] = conn /\ m = Result(c)[2]
  /\ UNCHANGED <<Results, conn>> => Promise!Given' = Promise!Given
<1>1. \A m : m \in Promise!Given <=> m # 0 /\ \E c \in Calls : Result(c)[1] = conn /\ m = Result(c)[2]
  BY PromisedCalls DEF Promise!Given
<1>2. Promise!Given = {Results[c][2] : c \in {d \in Calls : Results[d][1] = conn}} \ {0}
  BY PromisedCalls DEF Promise!Given, Results
<1>3. Promise!Given' = {Results'[c][2] : c \in {d \in Calls : Results'[d][1] = conn'}} \ {0}
  BY PromisedCalls DEF Promise!Given, Results
<1> QED BY <1>1, <1>2, <1>3

\* Cardinality as the instance of Inbox has it.
LEMMA PromisedCardinality == \A S : Promise!Cardinality(S) = Cardinality(S)
BY DEF Promise!Cardinality, Cardinality

\* A read that ends with a PDU gives the next one of the connection.
LEMMA Gives ==
  ASSUME Located, Located', NEW d \in Calls, TouchesOnly(d), UNCHANGED conn, Serving(d),
         NEW q, ops' = {q}, q.call = d, Full(q),
         NEW m \in Nat \ {0}, Number(rbuf)' = <<conn, m>>, Promise!Given = 1..(m - 1)
  PROVE  /\ Promise!Give(d)
         /\ Promise!Given' = 1..m
         /\ \A c \in Calls : Result(c)' = Result(c) \/ Result(c)' = <<conn, m>>
<1>1. Stage(d) = "serving" /\ Result(d) = <<0, 0>> BY ApartAlways DEF Apart
<1>2. FromOp(d)' BY DEF FromOp, Full, Body
<1>3. Stage(d)' = "settled" /\ Result(d)' = <<conn, m>> BY <1>2, HoldingsNext DEF Holdings
<1>4. \A c \in Calls : c # d => Same(c) /\ Keeps(c) BY OthersKeep
<1>5. \A c \in Calls : c # d => Result(c)' = Result(c) BY <1>4, ResultSame
<1>6. Promise!Move(d, "serving", "settled") BY <1>1, <1>3, <1>4, MovesOne
<1>7. Results' = [Results EXCEPT ![d] = <<conn, m>>] BY <1>3, <1>5 DEF Results
<1>8. Promise!Cardinality(Promise!Given) + 1 = m
  <2>1. Cardinality(1..(m - 1)) = IF 1 > m - 1 THEN 0 ELSE (m - 1) - 1 + 1 BY FS_Interval
  <2> QED BY <2>1, PromisedCardinality
<1>9. Promise!Give(d)
  <2>1. Promise!Given = 1..((Promise!Cardinality(Promise!Given) + 1) - 1) BY <1>8
  <2>2. Results' = [Results EXCEPT ![d] = <<conn, Promise!Cardinality(Promise!Given) + 1>>] BY <1>7, <1>8
  <2> QED BY <1>6, <2>1, <2>2 DEF Promise!Give, Results
<1>10. ASSUME NEW n PROVE n \in Promise!Given' <=> n \in Promise!Given \/ n = m
  <2>1. n \in Promise!Given' <=> n # 0 /\ \E c \in Calls : Result(c)'[1] = conn' /\ n = Result(c)'[2]
    BY PromisedCalls DEF Promise!Given
  <2>2. n \in Promise!Given <=> n # 0 /\ \E c \in Calls : Result(c)[1] = conn /\ n = Result(c)[2]
    BY GivenResults
  <2>3. CASE n = m BY <1>3, <2>1, <2>3
  <2>4. CASE n # m
    <3>1. \A c \in Calls : Result(c)'[1] = conn' /\ n = Result(c)'[2] => c # d BY <1>3, <2>4
    <3>2. n # 0 => \A c \in Calls : n = Result(c)[2] => c # d BY <1>1
    <3> QED BY <1>5, <2>1, <2>2, <2>4, <3>1, <3>2
  <2> QED BY <2>3, <2>4
<1>11. Promise!Given' = 1..m
  <2>1. \A n : n \in 1..m <=> n \in 1..(m - 1) \/ n = m OBVIOUS
  <2> QED BY <1>10, <2>1
<1> QED BY <1>3, <1>5, <1>9, <1>11

-----------------------------------------------------------------------------
(* Steps of one call *)

\* The operation under way is of one call, and a step of it touches no other.
LEMMA OpTouches ==
  ASSUME Located, NEW o \in ops, NEW q, ops' = {q}, q.call = o.call,
         UNCHANGED <<calls, cur, owed, posted, log>>,
         \A u \in Threads : pc'[u] = pc[u] \/ cur[u] = NoCall,
         rbuf' = rbuf \/ \A u \in Threads : pc[u] # "parse"
  PROVE  TouchesOnly(o.call)
<1>1. ops = {o} BY TheOperation DEF Located
<1>2. \A p \in ops : p.call = o.call BY <1>1
<1>3. \A p : (p \in ops <=> p \in ops') \/ p.call = o.call BY <1>1
<1>4. \A u \in Threads : \/ cur'[u] = cur[u] /\ pc'[u] = pc[u]
                         \/ cur[u] \in {o.call, NoCall} /\ cur'[u] \in {o.call, NoCall}
  OBVIOUS
<1>5. \A i \in DOMAIN log : i \in DOMAIN log' /\ log'[i] = log[i] OBVIOUS
<1>6. \A i \in DOMAIN log' : i \in DOMAIN log OBVIOUS
<1> QED BY <1>2, <1>3, <1>4, <1>5, <1>6 DEF TouchesOnly

\* An operation that is not over is of a call that is served.
LEMMA OpServes ==
  ASSUME Located, NEW o \in ops, o.st # "done" \/ (o.kind = "peek" /\ o.ec = "ok")
  PROVE  o.call \in Calls /\ Serving(o.call)
BY Typed DEF Located, Serving, Unfinished

\* An operation goes on, or fails.
LEMMA OpGoesOn ==
  ASSUME Located, Located', NEW o \in ops, o.st # "done", NEW q, ops' = {q}, q.call = o.call,
         Unfinished(q) \/ ~Full(q), UNCHANGED <<rbuf, conn, calls, cur, owed, posted, log>>,
         \A u \in Threads : pc'[u] = pc[u] \/ cur[u] = NoCall
  PROVE  UNCHANGED <<Stages, Results>> \/ (Promise!Fail(o.call) /\ UNCHANGED Results)
<1>1. o.call \in Calls /\ Serving(o.call) BY OpServes
<1>2. TouchesOnly(o.call) BY OpTouches
<1> QED BY <1>1, <1>2, GoesOnOrFails

\* A thread starts an operation (socket.cpp:40-42, 62-64).
LEMMA StartGoesOn ==
  ASSUME Located, Located', NEW t \in Threads, StartPeek(t) \/ StartBody(t)
  PROVE  \/ UNCHANGED <<Stages, Results>>
         \/ UNCHANGED Results /\ \E c \in Calls : Promise!Fail(c)
<1>1. cur[t] \in Calls BY Typed DEF StartPeek, StartBody, Located, Inv, Carried
<1>2. PICK d \in Calls : d = cur[t] BY <1>1
<1>3. Serving(d) BY <1>2 DEF StartPeek, StartBody, Serving
<1>4. ops = {} BY TheReader DEF StartPeek, StartBody, Located
<1>5. /\ cur' = [cur EXCEPT ![t] = NoCall] /\ pc' = [pc EXCEPT ![t] = "idle"]
      /\ UNCHANGED <<rbuf, owed, calls, posted, conn, log>> /\ sock # "closing"
  BY DEF StartPeek, StartBody, Goto, bufVars, netVars, Unlocked
<1>6. \A u \in Threads : \/ cur'[u] = cur[u] /\ pc'[u] = pc[u]
                         \/ cur[u] \in {d, NoCall} /\ cur'[u] \in {d, NoCall}
  BY <1>2, <1>5, Typed DEF Located, Inv, TypeOK
<1>7. PICK q : ops' = {q} /\ q.call = d /\ (Unfinished(q) \/ ~Full(q) \/ rbuf' = <<>>)
  <2>1. CASE StartPeek(t)
    <3>1. PICK o \in Ops : o = Operation("peek", d) BY Started
    <3>2. o.kind = "peek" /\ o.call = d BY <3>1, Started DEF Operation
    <3>3. PICK q : q = Initiate(o, LengthSize) OBVIOUS
    <3>4. q.call = d /\ q.kind = "peek" BY <3>2, <3>3, Initiated, InitiateCall
    <3>5. ops' = {q} BY <1>2, <1>4, <2>1, <3>1, <3>3 DEF StartPeek
    <3> QED BY <3>4, <3>5 DEF Full, Body
  <2>2. CASE StartBody(t)
    <3>1. PICK o \in Ops : o = Operation("body", d) BY Started
    <3>2. o.kind = "body" /\ o.call = d BY <3>1, Started DEF Operation
    <3>3. PICK q : q = Initiate(o, Len(rbuf)) OBVIOUS
    <3>4. q.call = d /\ (q.st = "done" /\ q.ec = "ok" => Len(rbuf) = 0)
      BY <1>5, <3>2, <3>3, Initiated, InitiateCall
    <3>5. ops' = {q} BY <1>2, <1>4, <2>2, <3>1, <3>3 DEF StartBody
    <3>6. Len(rbuf) = 0 => rbuf' = <<>> BY <1>5, EmptySeq DEF Located, Inv, TypeOK
    <3> QED BY <3>4, <3>5, <3>6 DEF Full, Body, Unfinished
  <2> QED BY <2>1, <2>2
<1>8. \A o : (o \in ops <=> o \in ops') \/ o.call = d BY <1>4, <1>7
<1>9. TouchesOnly(d) BY <1>5, <1>6, <1>8 DEF TouchesOnly
<1>10. UNCHANGED conn BY <1>5
<1> QED BY <1>3, <1>7, <1>9, <1>10, GoesOnOrFails

\* A short peek, and its repetition (socket.cpp:52-57).
LEMMA PeekShortHandsOn ==
  ASSUME Located, Located', NEW t \in Threads, NEW o \in ops, PeekShort(t, o)
  PROVE  UNCHANGED <<Stages, Results>>
<1>1. PICK d \in Calls : d = o.call BY Typed DEF Located
<1>2. Serving(d) BY <1>1, OpServes DEF PeekShort, Completing
<1>3. ops' = {} /\ posted' = posted \cup {[task |-> "repeek", call |-> d]}
      /\ UNCHANGED <<rbuf, cur, pc, owed, calls, log>> /\ ops = {o}
  BY <1>1, TheOperation DEF PeekShort, Located, bufVars, threadVars
<1>4. [task |-> "repeek", call |-> d].call = d OBVIOUS
<1>5. \A p : (p \in posted <=> p \in posted') \/ p.call = d BY <1>3, <1>4
<1>6. \A p : (p \in ops <=> p \in ops') \/ p.call = d BY <1>1, <1>3
<1>7. TouchesOnly(d) BY <1>3, <1>5, <1>6 DEF TouchesOnly
<1>8. Serving(d)' BY <1>3 DEF Serving
<1> QED BY <1>2, <1>7, <1>8, HandedOn, ApartAlways, ApartNext DEF Apart

LEMMA RunRepeekHandsOn ==
  ASSUME Located, Located', NEW t \in Threads, NEW p \in posted, RunRepeek(t, p)
  PROVE  UNCHANGED <<Stages, Results>>
<1>1. PICK d \in Calls : d = p.call BY Typed DEF Located
<1>2. p = [task |-> "repeek", call |-> d] BY <1>1 DEF RunRepeek, Located, Inv, TypeOK, Tasks
<1>3. Serving(d) BY <1>2 DEF Serving
<1>4. /\ cur' = [cur EXCEPT ![t] = d] /\ pc' = [pc EXCEPT ![t] = "peek"] /\ posted' = posted \ {p}
      /\ UNCHANGED <<rbuf, owed, calls, ops, log>> /\ cur[t] = NoCall
  BY <1>1 DEF RunRepeek, Goto, bufVars, Located, Inv, Carried, Idle
<1>5. \A u \in Threads : cur'[u] = (IF u = t THEN d ELSE cur[u]) /\ pc'[u] = IF u = t THEN "peek" ELSE pc[u]
  BY <1>4, Typed DEF Located, Inv, TypeOK
<1>6. \A x : (x \in posted <=> x \in posted') \/ x.call = d BY <1>1, <1>4
<1>7. TouchesOnly(d) BY <1>4, <1>5, <1>6 DEF TouchesOnly
<1>8. Serving(d)' BY <1>5 DEF Serving
<1> QED BY <1>3, <1>7, <1>8, HandedOn, ApartAlways, ApartNext DEF Apart

\* The length is known, and the thread is about to read the body (socket.cpp:60-64).
LEMMA PeekFullHandsOn ==
  ASSUME Located, Located', NEW t \in Threads, NEW o \in ops, PeekFull(t, o),
         \A u \in Threads : pc[u] # "parse"
  PROVE  UNCHANGED <<Stages, Results>>
<1>1. PICK d \in Calls : d = o.call BY Typed DEF Located
<1>2. Serving(d) BY <1>1, OpServes DEF PeekFull, Completing
<1>3. /\ ops = {o} /\ ops' = {} /\ cur' = [cur EXCEPT ![t] = d] /\ pc' = [pc EXCEPT ![t] = "body"]
      /\ UNCHANGED <<owed, calls, posted, log>> /\ cur[t] = NoCall
  BY <1>1, TheOperation DEF PeekFull, Goto, Completing, Idle, Located, Inv, Carried
<1>4. \A u \in Threads : cur'[u] = (IF u = t THEN d ELSE cur[u]) /\ pc'[u] = IF u = t THEN "body" ELSE pc[u]
  BY <1>3, Typed DEF Located, Inv, TypeOK
<1>5. \A q : (q \in ops <=> q \in ops') \/ q.call = d BY <1>1, <1>3
<1>6. \A q \in ops : q.call = d BY <1>1, <1>3
<1>7. TouchesOnly(d) BY <1>3, <1>4, <1>5, <1>6 DEF TouchesOnly
<1>8. Serving(d)' BY <1>4 DEF Serving
<1> QED BY <1>2, <1>7, <1>8, HandedOn, ApartAlways, ApartNext DEF Apart

\* A body that has been read is parsed (socket.cpp:66, 72-73).
LEMMA BodyDoneHandsOn ==
  ASSUME Located, Located', NEW t \in Threads, NEW o \in ops, BodyDone(t, o)
  PROVE  UNCHANGED <<Stages, Results>>
<1>1. PICK d \in Calls : d = o.call BY Typed DEF Located
<1>2. FromOp(d) BY <1>1 DEF FromOp, Full, Body, BodyDone, Completing
<1>3. /\ ops = {o} /\ ops' = {} /\ cur' = [cur EXCEPT ![t] = d] /\ pc' = [pc EXCEPT ![t] = "parse"]
      /\ UNCHANGED <<rbuf, owed, calls, posted, log>> /\ cur[t] = NoCall
  BY <1>1, TheOperation DEF BodyDone, Goto, Completing, Idle, bufVars, Located, Inv, Carried
<1>4. \A u \in Threads : cur'[u] = (IF u = t THEN d ELSE cur[u]) /\ pc'[u] = IF u = t THEN "parse" ELSE pc[u]
  BY <1>3, Typed DEF Located, Inv, TypeOK
<1>5. \A q : (q \in ops <=> q \in ops') \/ q.call = d BY <1>1, <1>3
<1>6. TouchesOnly(d) BY <1>3, <1>4, <1>5 DEF TouchesOnly
<1>7. FromParse(d)' BY <1>4 DEF FromParse
<1>8. Number(rbuf)' = Number(rbuf) BY <1>3 DEF Number
<1>9. Stage(d)' = Stage(d) /\ Result(d)' = Result(d)
  BY <1>2, <1>7, <1>8, HoldingsAlways, HoldingsNext DEF Holdings
<1> QED BY <1>6, <1>9, HandedOn

\* A thread that comes to owe d an answer.
LEMMA OwesHandsOn ==
  ASSUME Located, Located', Unowing, NEW t \in Threads, pc[t] # "handler", NEW d \in Calls,
         NEW a, a # NoAnswer, a.call = d, owed' = [owed EXCEPT ![t] = a], pc' = [pc EXCEPT ![t] = "handler"],
         cur' = [cur EXCEPT ![t] = NoCall], cur[t] \in {d, NoCall}, ops' = ops \ {o \in ops : o.call = d},
         UNCHANGED <<rbuf, calls, posted, log>>,
         Stage(d) = "settled", Result(d) = Number(a.pdu)
  PROVE  UNCHANGED <<Stages, Results>>
<1>1. owed[t] = NoAnswer BY DEF Unowing
<1>2. \A u \in Threads : /\ cur'[u] = IF u = t THEN NoCall ELSE cur[u]
                         /\ pc'[u] = IF u = t THEN "handler" ELSE pc[u]
                         /\ owed'[u] = IF u = t THEN a ELSE owed[u]
  BY Typed DEF Located, Inv, TypeOK
<1>3. \A q : (q \in ops <=> q \in ops') \/ q.call = d OBVIOUS
<1>4. TouchesOnly(d) BY <1>1, <1>2, <1>3 DEF TouchesOnly
<1>5. Owes(t, d)' BY <1>2 DEF Owes
<1>6. Number(owed[t].pdu)' = Number(a.pdu) BY <1>2 DEF Number
<1>7. Stage(d)' = "settled" /\ Result(d)' = Number(a.pdu) BY <1>5, <1>6, HoldingsNext DEF Holdings
<1> QED BY <1>4, <1>7, HandedOn

\* The operation failed (socket.cpp:46-50, 67-70).
LEMMA FailedHandsOn ==
  ASSUME Located, Located', Unowing, NEW t \in Threads, NEW o \in ops, Failed(t, o)
  PROVE  UNCHANGED <<Stages, Results>>
<1>1. PICK d \in Calls : d = o.call BY Typed DEF Located
<1>2. ops = {o} /\ cur[t] = NoCall /\ pc[t] = "idle"
  BY TheOperation DEF Failed, Completing, Idle, Located, Inv, Carried
<1>3. InOp(d) /\ \A q \in ops : ~Unfinished(q) /\ ~Full(q)
  BY <1>1, <1>2 DEF InOp, Failed, Completing, Unfinished, Full, Body
<1>4. Stage(d) = "settled" /\ Result(d) = <<0, 0>> BY <1>3, HoldingsAlways DEF Holdings
<1>5. o.ec \in Codes BY Typed DEF Located
<1>6. Error(d, o.ec) \in Answers BY <1>5, ErrorType
<1>7. PICK a \in Answers : a = Error(d, o.ec) BY <1>6
<1>8. a # NoAnswer /\ a.call = d /\ Number(a.pdu) = <<0, 0>> BY <1>7 DEF Error, Number
<1>9. /\ owed' = [owed EXCEPT ![t] = a] /\ pc' = [pc EXCEPT ![t] = "handler"] /\ ops' = ops \ {o}
      /\ UNCHANGED <<rbuf, cur, calls, posted, log>>
  BY <1>1, <1>7 DEF Failed, Owe, Goto, bufVars
<1>10. ops' = ops \ {q \in ops : q.call = d} BY <1>1, <1>2, <1>9
<1>11. cur' = [cur EXCEPT ![t] = NoCall] BY <1>2, <1>9, Typed DEF Located
<1> QED BY <1>2, <1>4, <1>8, <1>9, <1>10, <1>11, OwesHandsOn

\* tryParse(_read_buff) (socket.cpp:73).
LEMMA ParseHandsOn ==
  ASSUME Located, Located', Unowing, NEW t \in Threads, Parse(t)
  PROVE  UNCHANGED <<Stages, Results>>
<1>1. cur[t] \in Calls BY Typed DEF Parse, Located, Inv, Carried
<1>2. PICK d \in Calls : d = cur[t] BY <1>1
<1>3. FromParse(d) BY <1>2 DEF FromParse, Parse
<1>4. Stage(d) = "settled" /\ Result(d) = Number(rbuf) BY <1>3, HoldingsAlways DEF Holdings
<1> DEFINE b == [call |-> cur[t], ec |-> IF Len(rbuf) >= MinLen THEN "ok" ELSE "protocol", pdu |-> rbuf]
<1>5. b \in Answers BY <1>1 DEF Located, Inv, TypeOK, Answers, Codes
<1>6. PICK a \in Answers : a = b BY <1>5
<1>7. a # NoAnswer /\ a.call = d /\ a.pdu = rbuf BY <1>2, <1>6
<1>8. /\ owed' = [owed EXCEPT ![t] = a] /\ pc' = [pc EXCEPT ![t] = "handler"]
      /\ cur' = [cur EXCEPT ![t] = NoCall] /\ UNCHANGED <<rbuf, calls, ops, posted, log>>
  BY <1>6 DEF Parse, Owe, Goto, bufVars
<1> HIDE DEF b
<1>9. InThread(d) BY <1>2 DEF InThread
<1>10. \A o \in ops : o.call # d BY <1>9 DEF Located, Placed, InOp
<1>11. ops' = ops \ {o \in ops : o.call = d} BY <1>8, <1>10
<1>12. pc[t] # "handler" BY DEF Parse
<1> QED BY <1>2, <1>4, <1>7, <1>8, <1>11, <1>12, OwesHandsOn

\* A handler call answers a call that is settled.
LEMMA LoggedAnswers ==
  ASSUME Located, Located', NEW a \in Answers, log' = Append(log, a), TouchesOnly(a.call), UNCHANGED conn,
         Stage(a.call) = "settled", Result(a.call) = Number(a.pdu)
  PROVE  Promise!Answer(a.call) /\ UNCHANGED Results
<1>1. PICK d \in Calls : d = a.call BY Typed DEF Located
<1>2. Len(log) + 1 \in DOMAIN log' /\ log'[Len(log) + 1] = a BY Logged DEF Located, Inv
<1>3. PICK i \in DOMAIN log' : log'[i] = a BY <1>2
<1>4. Stage(d)' = "answered" /\ Result(d)' = Number(log'[i].pdu)
  BY <1>1, <1>3, HoldingsNext DEF Holdings, Number
<1>5. Result(d)' = Result(d) BY <1>1, <1>3, <1>4
<1>6. Promise!Move(d, "settled", "answered") /\ UNCHANGED Results BY <1>1, <1>4, <1>5, MovedOn
<1> QED BY <1>1, <1>6 DEF Promise!Answer, Results

\* The lambda calls its handler (socket.cpp:50, 70, 74).
LEMMA CallHandlerAnswers ==
  ASSUME Located, Located', NEW t \in Threads, CallHandler(t)
  PROVE  (\E c \in Calls : Promise!Answer(c)) /\ UNCHANGED Results
<1>1. PICK a \in Answers : a = owed[t] BY Typed DEF CallHandler, Located, Inv, Owing
<1>2. PICK d \in Calls : d = a.call BY Typed DEF Located
<1>3. Owes(t, d) BY <1>1, <1>2 DEF Owes
<1>4. Stage(d) = "settled" /\ Result(d) = Number(a.pdu) BY <1>1, <1>3, HoldingsAlways DEF Holdings
<1>5. /\ log' = Append(log, a) /\ owed' = [owed EXCEPT ![t] = NoAnswer] /\ pc' = [pc EXCEPT ![t] = "idle"]
      /\ UNCHANGED <<rbuf, cur, calls, ops, posted, conn>> /\ cur[t] = NoCall
  BY <1>1 DEF CallHandler, Owe, Goto, bufVars, netVars, Located, Inv, Carried
<1>6. \A u \in Threads : /\ owed'[u] = IF u = t THEN NoAnswer ELSE owed[u]
                         /\ pc'[u] = IF u = t THEN "idle" ELSE pc[u]
  BY <1>5, Typed DEF Located, Inv, TypeOK
<1>7. /\ \A i \in DOMAIN log : i \in DOMAIN log' /\ log'[i] = log[i]
      /\ \A i \in DOMAIN log' : i \in DOMAIN log \/ log'[i].call = d
  BY <1>2, <1>5, Logged DEF Located, Inv
<1>8. TouchesOnly(d) BY <1>1, <1>2, <1>5, <1>6, <1>7 DEF TouchesOnly
<1> QED BY <1>2, <1>4, <1>5, <1>8, LoggedAnswers

\* The posted function tells the handler operation_in_progress (socket.cpp:27-29).
LEMMA RunBusyAnswers ==
  ASSUME Located, Located', NEW t \in Threads, NEW p \in posted, RunBusy(t, p)
  PROVE  (\E c \in Calls : Promise!Answer(c)) /\ UNCHANGED Results
<1>1. PICK d \in Calls : d = p.call BY Typed DEF Located
<1>2. p = [task |-> "busy", call |-> d] BY <1>1 DEF RunBusy, Located, Inv, TypeOK, Tasks
<1>3. Stage(d) = "settled" /\ Result(d) = <<0, 0>> BY <1>2, HoldingsAlways DEF Holdings
<1>4. Error(d, "busy") \in Answers BY ErrorType DEF Codes
<1>5. PICK a \in Answers : a = Error(d, "busy") BY <1>4
<1>6. a.call = d /\ Number(a.pdu) = <<0, 0>> BY <1>5 DEF Error, Number
<1>7. /\ log' = Append(log, a) /\ posted' = posted \ {p}
      /\ UNCHANGED <<rbuf, pc, cur, owed, calls, ops, conn>>
  BY <1>1, <1>5 DEF RunBusy, bufVars, threadVars, netVars
<1>8. /\ \A i \in DOMAIN log : i \in DOMAIN log' /\ log'[i] = log[i]
      /\ \A i \in DOMAIN log' : i \in DOMAIN log \/ log'[i].call = d
  BY <1>6, <1>7, Logged DEF Located, Inv
<1>9. \A x : (x \in posted <=> x \in posted') \/ x.call = d BY <1>1, <1>7
<1>10. TouchesOnly(d) BY <1>7, <1>8, <1>9 DEF TouchesOnly
<1> QED BY <1>3, <1>6, <1>7, <1>10, LoggedAnswers

-----------------------------------------------------------------------------
(* Steps that give nothing keep the order *)

\* A step that callers see at most as one of Inbox that gives nothing.
Withheld ==
  /\ UNCHANGED <<Results, conn>>
  /\ \/ UNCHANGED Stages
     \/ \E c \in Calls : \/ Promise!Make(c) \/ Promise!Refuse(c) \/ Promise!Serve(c)
                         \/ Promise!Fail(c) \/ Promise!Answer(c)

\* What the inbox may do in a step.
Seen == [Promise!Next]_(Promise!vars)

LEMMA WithheldSeen == Withheld => Seen
<1>1. ASSUME UNCHANGED <<Stages, Results, conn>> PROVE UNCHANGED Promise!vars
  BY <1>1 DEF Promise!vars, Stages, Results
<1> QED BY <1>1, PromisedCalls DEF Withheld, Seen, Promise!Next

\* It keeps the order when the bodies under way stay as they are, or one is begun.
LEMMA WithheldInOrder ==
  ASSUME Located, InOrder, UNCHANGED <<Results, conn, taken>>,
         \A q \in ops' : Body(q) =>
           \/ \E o \in ops : Body(o) /\ o.size = q.size /\ (o.st = "done" <=> q.st = "done") /\ rbuf' = rbuf
           \/ q.size = 0 /\ AtPdu(taken) /\ (q.st # "done" => Len(rbuf') > 0)
  PROVE  InOrder'
<1>1. Promise!Given' = Promise!Given BY GivenResults
<1>2. \A c \in Calls : Result(c)' = Result(c) BY DEF Results
<1>3. Past' BY <1>2 DEF InOrder, Past
<1>4. Hungry' BY DEF InOrder, Hungry, Body
<1>5. AtPdu(taken)' <=> AtPdu(taken) BY DEF AtPdu
<1>6. ASSUME NEW q \in ops', Body(q)'
      PROVE  Promise!Given' = 1..(Msg(taken' - q.size) - (IF q.st = "done" /\ q.size > 0 THEN 0 ELSE 1))
  <2>1. CASE \E o \in ops : Body(o) /\ o.size = q.size /\ (o.st = "done" <=> q.st = "done")
    BY <1>1, <2>1 DEF InOrder, Ordered
  <2>2. CASE q.size = 0 /\ AtPdu(taken)
    <3>1. taken - 0 = taken BY Counts DEF Located
    <3> QED BY <1>1, <2>2, <3>1 DEF InOrder, Ordered
  <2>3. Body(q) BY <1>6 DEF Body
  <2> QED BY <2>1, <2>2, <2>3
<1>7. Ordered' BY <1>1, <1>5, <1>6 DEF InOrder, Ordered, Msg, Body
<1> QED BY <1>3, <1>4, <1>7 DEF InOrder

\* A step of a call that begins no body.
LEMMA CallInOrder ==
  ASSUME Located, InOrder, Withheld, UNCHANGED taken, \A q \in ops' : q \in ops \/ ~Body(q),
         (\E q \in ops : Body(q)) => ops' = {} \/ rbuf' = rbuf
  PROVE  Seen /\ InOrder'
<1>1. UNCHANGED <<Results, conn>> BY DEF Withheld
<1>2. \A q \in ops' : Body(q) =>
        \E o \in ops : Body(o) /\ o.size = q.size /\ (o.st = "done" <=> q.st = "done") /\ rbuf' = rbuf
  OBVIOUS
<1> QED BY <1>1, <1>2, WithheldSeen, WithheldInOrder

\* Steps of the threads in read_async and in the functions posted (socket.cpp:23-42, 46-76).
LEMMA MethodInOrder ==
  ASSUME Located, Located', Unowing, InOrder, NEW t \in Threads,
         \/ ReadAsync(t) \/ Exchange(t) \/ StartPeek(t) \/ Parse(t) \/ CallHandler(t)
         \/ \E p \in posted : RunBusy(t, p) \/ RunRepeek(t, p)
  PROVE  Seen /\ InOrder'
<1>1. CASE ReadAsync(t)
  <2>1. (\E c \in Calls : Promise!Make(c)) /\ UNCHANGED Results BY <1>1, ReadAsyncMakes
  <2>2. UNCHANGED <<rbuf, ops, conn, taken>> BY <1>1 DEF ReadAsync, bufVars, netVars
  <2> QED BY <2>1, <2>2, CallInOrder DEF Withheld
<1>2. CASE Exchange(t)
  <2>1. (\E c \in Calls : Promise!Refuse(c) \/ Promise!Serve(c)) /\ UNCHANGED Results BY <1>2, ExchangeDecides
  <2>2. UNCHANGED <<rbuf, ops, conn, taken>> BY <1>2 DEF Exchange, bufVars, netVars
  <2> QED BY <2>1, <2>2, CallInOrder DEF Withheld
<1>3. CASE StartPeek(t)
  <2>1. UNCHANGED Results /\ (UNCHANGED Stages \/ \E c \in Calls : Promise!Fail(c)) BY <1>3, StartGoesOn
  <2>2. PICK c \in Calls : c = cur[t] BY <1>3, Typed DEF StartPeek, Located, Inv, Carried
  <2>3. UNCHANGED <<rbuf, conn, taken>> /\ ops' = ops \cup {Initiate(Operation("peek", c), LengthSize)}
    BY <1>3, <2>2 DEF StartPeek, bufVars, netVars
  <2>4. PICK o \in Ops : o = Operation("peek", c) /\ o.kind = "peek" BY Started
  <2>5. ~Body(Initiate(o, LengthSize)) BY <2>4, Initiated DEF Body
  <2>6. \A q \in ops' : q \in ops \/ ~Body(q) BY <2>3, <2>4, <2>5
  <2> QED BY <2>1, <2>3, <2>6, CallInOrder DEF Withheld
<1>4. CASE Parse(t)
  <2>1. UNCHANGED <<rbuf, ops, conn, taken>> BY <1>4 DEF Parse, bufVars, netVars
  <2> QED BY <1>4, <2>1, ParseHandsOn, CallInOrder DEF Withheld
<1>5. CASE CallHandler(t)
  <2>1. (\E c \in Calls : Promise!Answer(c)) /\ UNCHANGED Results BY <1>5, CallHandlerAnswers
  <2>2. UNCHANGED <<rbuf, ops, conn, taken>> BY <1>5 DEF CallHandler, bufVars, netVars
  <2> QED BY <2>1, <2>2, CallInOrder DEF Withheld
<1>6. ASSUME NEW p \in posted, RunBusy(t, p) PROVE Seen /\ InOrder'
  <2>1. (\E c \in Calls : Promise!Answer(c)) /\ UNCHANGED Results BY <1>6, RunBusyAnswers
  <2>2. UNCHANGED <<rbuf, ops, conn, taken>> BY <1>6 DEF RunBusy, bufVars, netVars
  <2> QED BY <2>1, <2>2, CallInOrder DEF Withheld
<1>7. ASSUME NEW p \in posted, RunRepeek(t, p) PROVE Seen /\ InOrder'
  <2>1. UNCHANGED <<Stages, Results>> BY <1>7, RunRepeekHandsOn
  <2>2. UNCHANGED <<rbuf, ops, conn, taken>> BY <1>7 DEF RunRepeek, bufVars, netVars
  <2> QED BY <2>1, <2>2, CallInOrder DEF Withheld
<1> QED BY <1>1, <1>2, <1>3, <1>4, <1>5, <1>6, <1>7

\* Completions of a peek or of a body, and a failed one (socket.cpp:45-74).
LEMMA CompletionInOrder ==
  ASSUME Located, Located', Unowing, Base, Orderly, InOrder, NEW t \in Threads, NEW o \in ops,
         Failed(t, o) \/ PeekShort(t, o) \/ PeekFull(t, o) \/ BodyDone(t, o)
  PROVE  Seen /\ InOrder'
<1>1. UNCHANGED <<conn, taken>> /\ ops' = {}
  BY TheOperation DEF Failed, PeekShort, PeekFull, BodyDone, netVars, Located
<1>2. UNCHANGED <<Stages, Results>>
  <2>1. CASE Failed(t, o) BY <2>1, FailedHandsOn
  <2>2. CASE PeekShort(t, o) BY <2>2, PeekShortHandsOn
  <2>3. CASE PeekFull(t, o)
    <3>1. \A u \in Threads : pc[u] # "parse" BY <2>3, NoOtherRead DEF Base, Located
    <3> QED BY <2>3, <3>1, PeekFullHandsOn
  <2>4. CASE BodyDone(t, o) BY <2>4, BodyDoneHandsOn
  <2> QED BY <2>1, <2>2, <2>3, <2>4
<1> QED BY <1>1, <1>2, CallInOrder DEF Withheld

\* The read of a body begins where the stream is at a PDU (socket.cpp:62-64).
LEMMA StartBodyInOrder ==
  ASSUME Located, Located', Framed, InOrder, NEW t \in Threads, StartBody(t)
  PROVE  Seen /\ InOrder'
<1>1. UNCHANGED Results /\ (UNCHANGED Stages \/ \E c \in Calls : Promise!Fail(c)) BY StartGoesOn
<1>2. PICK c \in Calls : c = cur[t] BY Typed DEF StartBody, Located, Inv, Carried
<1>3. /\ UNCHANGED <<rbuf, conn, taken>> /\ pc[t] = "body"
      /\ ops' = ops \cup {Initiate(Operation("body", c), Len(rbuf))}
  BY <1>2 DEF StartBody, bufVars, netVars
<1>4. PICK o \in Ops : o = Operation("body", c) /\ o.kind = "body" /\ o.size = 0 BY Started
<1>5. PICK q : q = Initiate(o, Len(rbuf)) OBVIOUS
<1>6. ops' = {q} BY <1>3, <1>4, <1>5, TheReader DEF Located
<1>7. q.size = 0 /\ AtPdu(taken) BY <1>3, <1>4, <1>5, Initiated DEF Framed, Sized
<1>8. q.st # "done" => Len(rbuf) # 0
  BY <1>4, <1>5 DEF Initiate, Ops
<1>9. Len(rbuf) \in Nat BY Counts DEF Located
<1>10. UNCHANGED <<Results, conn, taken>> BY <1>1, <1>3
<1>11. q.st # "done" => Len(rbuf') > 0 BY <1>3, <1>8, <1>9
<1>12. InOrder' BY <1>6, <1>7, <1>10, <1>11, WithheldInOrder
<1> QED BY <1>1, <1>3, <1>12, WithheldSeen DEF Withheld

-----------------------------------------------------------------------------
(* Steps of the socket, and receives that give nothing *)

\* What a step that concerns no operation leaves as it was.
LEMMA ApartInOrder ==
  ASSUME Located, Located', InOrder, UNCHANGED <<rbuf, cur, owed, calls, ops, posted, log, conn, taken>>,
         \A t \in Threads : cur[t] # NoCall => pc'[t] = pc[t]
  PROVE  Seen /\ InOrder'
<1>1. UNCHANGED <<Stages, Results>> BY ApartStutters
<1> QED BY <1>1, CallInOrder DEF Withheld

\* An operation that goes on, or ends with an error.
LEMMA GoesOnInOrder ==
  ASSUME Located, Located', InOrder, NEW o \in ops, o.st # "done", NEW q, ops' = {q}, q.call = o.call,
         Unfinished(q) \/ ~Full(q), UNCHANGED <<rbuf, conn, taken, calls, cur, owed, posted, log>>,
         \A u \in Threads : pc'[u] = pc[u] \/ cur[u] = NoCall,
         Body(q) => Body(o) /\ q.size = o.size /\ q.st # "done"
  PROVE  Seen /\ InOrder'
<1>1. UNCHANGED Results /\ (UNCHANGED Stages \/ Promise!Fail(o.call)) BY OpGoesOn
<1>2. o.call \in Calls BY Typed DEF Located
<1>3. UNCHANGED <<Results, conn, taken>> BY <1>1
<1>4. InOrder' BY <1>3, WithheldInOrder
<1> QED BY <1>1, <1>2, <1>4, WithheldSeen DEF Withheld

\* close() aborts what waits for the descriptor (socket.cpp:116-120).
LEMMA CloseInOrder ==
  ASSUME Located, Located', InOrder, NEW t \in Threads, Close(t)
  PROVE  Seen /\ InOrder'
<1>1. /\ UNCHANGED <<rbuf, cur, owed, calls, posted, log, conn, taken>>
      /\ ops' = {Aborted(o) : o \in ops} /\ cur[t] = NoCall
  BY DEF Close, bufVars, Idle, Located, Inv, Carried
<1>2. \A u \in Threads : pc'[u] = pc[u] \/ u = t BY DEF Close, Goto, Located, Inv, TypeOK
<1>3. CASE \A o \in ops : o.st # "pending"
  <2>1. \A o \in ops : Aborted(o) = o BY <1>3 DEF Aborted
  <2>2. ops' = ops BY <1>1, <2>1
  <2>3. \A u \in Threads : cur[u] # NoCall => pc'[u] = pc[u] BY <1>1, <1>2
  <2> QED BY <1>1, <2>2, <2>3, ApartInOrder
<1>4. ASSUME NEW o \in ops, o.st = "pending" PROVE Seen /\ InOrder'
  <2>1. ops = {o} BY TheOperation DEF Located
  <2>2. PICK q : q = [o EXCEPT !.st = "done", !.ec = "aborted"] OBVIOUS
  <2>3. ops' = {q} BY <1>1, <1>4, <2>1, <2>2 DEF Aborted
  <2>4. o \in Ops BY Typed DEF Located
  <2>5. q.call = o.call /\ q.ec # "ok" BY <2>2, <2>4 DEF Ops
  <2>6. ~Full(q) /\ ~Body(q) BY <2>5 DEF Full, Body
  <2>7. \A u \in Threads : pc'[u] = pc[u] \/ cur[u] = NoCall BY <1>1, <1>2
  <2> QED BY <1>1, <1>4, <2>3, <2>5, <2>6, <2>7, GoesOnInOrder
<1> QED BY <1>3, <1>4

\* The composed read asks for what is missing.
LEMMA ContinueInOrder ==
  ASSUME Located, Located', Base, Unraced, InOrder, NEW t \in Threads, NEW o \in ops, Continue(t, o)
  PROVE  Seen /\ InOrder'
<1>1. /\ UNCHANGED <<rbuf, pc, cur, owed, calls, posted, log, conn, taken>> /\ o.st = "more"
      /\ t \in IoThreads /\ pc[t] = "idle"
  BY DEF Continue, bufVars, threadVars, netVars, Idle
<1>2. sock # "closing" BY <1>1, NoIoWhileClosing DEF Base, Located
<1>3. PICK q : q = Initiate(o, Len(rbuf) - o.size) OBVIOUS
<1>4. ops' = {q} BY <1>3, TheOperation DEF Continue, Located
<1>5. o \in Ops BY Typed DEF Located
<1>6. /\ q.kind = o.kind /\ q.size = o.size /\ (q.ec = "ok" => o.ec = "ok") /\ q.call = o.call
      /\ q.st = "done" /\ q.ec = "ok" => o.kind = "body" /\ Len(rbuf) - o.size = 0
  BY <1>2, <1>3, <1>5, Initiated, InitiateCall
<1>7. Body(q) => Body(o) BY <1>6 DEF Body
<1>8. Body(o) => Len(rbuf) - o.size # 0
  BY <1>1, Counts DEF InOrder, Hungry, Located
<1>9. ~Full(q) /\ (Body(q) => q.st # "done") BY <1>6, <1>7, <1>8 DEF Full, Body
<1> QED BY <1>1, <1>4, <1>6, <1>7, <1>9, GoesOnInOrder

\* The end of the connection, and a peek.
LEMMA NetFailInOrder ==
  ASSUME Located, Located', InOrder, NEW o \in ops, NetFail(o)
  PROVE  Seen /\ InOrder'
<1>1. UNCHANGED <<rbuf, pc, cur, owed, calls, posted, log, conn, taken>> /\ o.st = "pending"
  BY DEF NetFail, bufVars, threadVars, netVars
<1>2. o \in Ops /\ ops = {o} BY Typed, TheOperation DEF Located
<1>3. PICK q : ops' = {q} /\ q.call = o.call /\ q.ec # "ok"
  <2>1. PICK q : /\ q = [o EXCEPT !.st = "done", !.ec = "eof"] \/ q = [o EXCEPT !.st = "done", !.ec = "failed"]
                 /\ ops' = (ops \ {o}) \cup {q}
    BY DEF NetFail, Finish
  <2> QED BY <1>2, <2>1 DEF Ops
<1>4. ~Full(q) /\ ~Body(q) BY <1>3 DEF Full, Body
<1> QED BY <1>1, <1>3, <1>4, GoesOnInOrder

LEMMA NetPeekInOrder ==
  ASSUME Located, Located', InOrder, NEW o \in ops, NetPeek(o)
  PROVE  Seen /\ InOrder'
<1>1. UNCHANGED <<rbuf, pc, cur, owed, calls, posted, log, conn, taken>> /\ o.st = "pending" /\ o.kind = "peek"
  BY DEF NetPeek, threadVars, netVars
<1>2. o \in Ops /\ ops = {o} BY Typed, TheOperation DEF Located
<1>3. PICK q : q = [o EXCEPT !.size = Smaller(LengthSize, Available), !.st = "done"] OBVIOUS
<1>4. ops' = {q} BY <1>2, <1>3 DEF NetPeek, Finish
<1>5. q.call = o.call /\ q.kind = "peek" BY <1>1, <1>2, <1>3 DEF Ops
<1>6. ~Full(q) /\ ~Body(q) BY <1>5 DEF Full, Body
<1> QED BY <1>1, <1>4, <1>5, <1>6, GoesOnInOrder

\* The rest of close(), the connection's beginning and end, octets that arrive.
LEMMA SockInOrder ==
  ASSUME Located, Located', InOrder, Connected \/ Reset \/ Arrive \/ Fin \/ \E t \in Threads : Shutdown(t)
  PROVE  Seen /\ InOrder'
<1>1. UNCHANGED <<rbuf, cur, owed, calls, ops, posted, log, conn, taken>>
  BY DEF Connected, Reset, Arrive, Fin, Shutdown, bufVars, threadVars
<1>2. ASSUME NEW u \in Threads, cur[u] # NoCall PROVE pc'[u] = pc[u]
  <2>1. pc[u] # "closing" BY <1>2 DEF Located, Inv, Carried
  <2> QED BY <2>1 DEF Connected, Reset, Arrive, Fin, Shutdown, threadVars, Goto, Located, Inv, TypeOK
<1> QED BY <1>1, <1>2, ApartInOrder

-----------------------------------------------------------------------------
(* Receives that give a PDU, and the next connection *)

\* The number of an octet's PDU.
LEMMA MsgOfNext ==
  ASSUME NEW i \in Nat, i >= 1, i < Len(Stream)
  PROVE  /\ Stream[i].msg \in Nat /\ Stream[i + 1].msg \in Nat /\ Stream[i].pos \in Nat \ {0}
         /\ \/ Stream[i + 1].msg = Stream[i].msg /\ Stream[i + 1].pos = Stream[i].pos + 1
            \/ Stream[i + 1].msg = Stream[i].msg + 1
<1>1. /\ Stream \in Seq(Octets) /\ Len(Stream) \in Nat /\ DOMAIN Stream = 1..Len(Stream)
  BY StreamAssumption, LenProperties
<1>2. i + 1 \in DOMAIN Stream /\ i + 1 > 1 /\ (i + 1) - 1 = i BY <1>1
<1>3. Stream[i] \in Octets /\ Stream[i + 1] \in Octets BY NextOctet
<1>4. \/ Stream[i + 1] = [Stream[i] EXCEPT !.pos = @ + 1]
      \/ Stream[i + 1].msg = Stream[i].msg + 1
  BY <1>2, StreamAssumption
<1>5. PICK m \in Nat, p \in Nat \ {0}, n \in Nat : Stream[i] = [msg |-> m, pos |-> p, len |-> n]
  BY <1>3 DEF Octets
<1>6. [Stream[i] EXCEPT !.pos = @ + 1] = [msg |-> m, pos |-> p + 1, len |-> n] BY <1>5
<1>7. Stream[i].msg = m /\ Stream[i].pos = p /\ Stream[i + 1].msg \in Nat BY <1>3, <1>5 DEF Octets
<1>8. CASE Stream[i + 1] = [msg |-> m, pos |-> p + 1, len |-> n] BY <1>7, <1>8
<1> QED BY <1>4, <1>6, <1>7, <1>8

\* PDUs are numbered from 1 on.
LEMMA MsgPositive == ASSUME NEW b \in Nat, b < Len(Stream) PROVE Msg(b) \in Nat \ {0}
<1> DEFINE Zeroes == {i \in 1..Len(Stream) : Stream[i].msg = 0}
<1>1. /\ Len(Stream) \in Nat /\ DOMAIN Stream = 1..Len(Stream)
      /\ \A i \in 1..Len(Stream) : Stream[i] \in Octets
  BY StreamAssumption, LenProperties, ElementOfSeq
<1>2. \A i \in 1..Len(Stream) : Stream[i].msg \in Nat BY <1>1 DEF Octets
<1>3. Zeroes = {}
  <2>1. SUFFICES ASSUME Zeroes # {} PROVE FALSE OBVIOUS
  <2>2. Zeroes \in SUBSET Nat OBVIOUS
  <2>3. PICK i \in Zeroes : \A j \in Zeroes : i <= j BY <2>1, <2>2, Least
  <2>4. i # 1 BY <1>1, <2>3, StreamAssumption
  <2>5. PICK k \in Nat : k = i - 1 BY <1>1, <2>3
  <2>6. k >= 1 /\ k < Len(Stream) /\ k + 1 = i /\ k \in 1..Len(Stream) BY <1>1, <2>3, <2>4, <2>5
  <2>7. Stream[k].msg = 0
    <3>1. Stream[i].msg = 0 BY <2>3
    <3> QED BY <2>6, <3>1, MsgOfNext
  <2> QED BY <2>3, <2>6, <2>7
<1>4. b + 1 \in 1..Len(Stream) BY <1>1
<1> QED BY <1>2, <1>3, <1>4 DEF Msg

\* The PDU that follows a whole one has the next number.
LEMMA NextMsg ==
  ASSUME NEW b \in Nat, AtPdu(b), NEW l \in Nat \ {0}, l = Stream[b + 1].len, AtPdu(b + l)
  PROVE  Msg(b + l) = Msg(b) + 1
<1>1. Len(Stream) \in Nat /\ Stream[b + 1] \in Octets BY StreamAssumption, ElementOfSeq, LenProperties DEF AtPdu
<1>2. b + l < Len(Stream) /\ Stream[(b + l) + 1].pos = 1 BY DEF AtPdu
<1>3. l \in 1..l /\ l <= Stream[b + 1].len /\ b + l <= Len(Stream) BY <1>1, <1>2
<1>4. Stream[b + l] = [Stream[b + 1] EXCEPT !.pos = l] BY <1>3, PduOctets
<1>5. Stream[b + l].msg = Stream[b + 1].msg BY <1>1, <1>4 DEF Octets
<1>6. PICK k \in Nat : k = b + l OBVIOUS
<1>7. k >= 1 /\ k < Len(Stream) BY <1>2, <1>6
<1>8. Stream[k].pos + 1 # 1 BY <1>7, MsgOfNext
<1>9. Stream[k + 1].msg = Stream[k].msg + 1 BY <1>2, <1>6, <1>7, <1>8, MsgOfNext
<1> QED BY <1>5, <1>6, <1>9 DEF Msg

\* Inside a PDU the stream is not at one.
LEMMA InsidePdu ==
  ASSUME NEW b \in Nat, AtPdu(b), NEW s \in Nat \ {0}, s < Stream[b + 1].len
  PROVE  ~AtPdu(b + s)
<1>1. SUFFICES ASSUME AtPdu(b + s) PROVE FALSE OBVIOUS
<1>2. Len(Stream) \in Nat /\ Stream[b + 1] \in Octets BY StreamAssumption, ElementOfSeq, LenProperties DEF AtPdu
<1>3. Stream[b + 1].len \in Nat BY <1>2 DEF Octets
<1>4. PICK n \in Nat : n = s + 1 OBVIOUS
<1>5. n <= Stream[b + 1].len /\ n \in 1..n /\ b + n <= Len(Stream) /\ (b + s) + 1 = b + n
  BY <1>1, <1>2, <1>3, <1>4 DEF AtPdu
<1>6. Stream[b + n] = [Stream[b + 1] EXCEPT !.pos = n] BY <1>5, PduOctets
<1>7. Stream[b + n].pos = n BY <1>2, <1>6 DEF Octets
<1> QED BY <1>1, <1>4, <1>5, <1>7 DEF AtPdu

\* A receive of a body: the read goes on, or has the whole PDU (socket.cpp:63-66).
LEMMA NetReadInOrder ==
  ASSUME Located, Located', Base, Framed, Framed', InOrder,
         NEW o \in ops, NEW n \in 1..Len(Stream), NetRead(o, n)
  PROVE  Seen /\ InOrder'
<1>1. /\ UNCHANGED <<conn, pc, cur, owed, calls, posted, log>> /\ taken' = taken + n
      /\ o.st = "pending" /\ o.kind = "body" /\ o.size + n <= Len(rbuf)
  BY DEF NetRead, threadVars
<1>2. PICK s : s = o.size + n OBVIOUS
<1>3. PICK st : st = IF o.size + n = Len(rbuf) THEN "done" ELSE "more" OBVIOUS
<1>4. PICK q : q = [o EXCEPT !.size = s, !.st = st] OBVIOUS
<1>5. o \in Ops /\ o.ec = "ok" BY <1>1, Typed DEF Base, Running, Located
<1>6. ops' = {q} BY <1>2, <1>3, <1>4, TheOperation DEF NetRead, Finish, Located
<1>7. q.kind = "body" /\ q.ec = "ok" /\ q.size = s /\ q.st = st /\ q.call = o.call BY <1>1, <1>4, <1>5 DEF Ops
<1>8. Body(o) /\ Body(q) BY <1>1, <1>5, <1>7 DEF Body
<1>9. Filled(o) /\ Filled(q)'
  <2>1. Filled(o) BY <1>8 DEF Framed, Fills
  <2>2. \A x \in ops' : Body(x)' => Filled(x)' BY DEF Framed, Fills
  <2>3. Body(q)' BY <1>8 DEF Body
  <2> QED BY <1>6, <2>1, <2>2, <2>3
<1>10. PICK b \in Nat : b = taken - o.size BY <1>9, Counts DEF Filled, Located
<1>11. /\ n \in Nat \ {0} /\ s \in Nat \ {0} /\ o.size \in Nat /\ taken' = b + s /\ taken' - s = b /\ s <= Len(rbuf)
       /\ Len(rbuf) \in Nat
  <2>1. n \in Nat \ {0} /\ o.size \in Nat /\ taken \in Nat /\ Len(rbuf) \in Nat BY Counts DEF Located
  <2>2. s \in Nat \ {0} /\ s <= Len(rbuf) BY <1>1, <1>2, <2>1
  <2>3. taken' = b + s
    <3>1. taken = b + o.size BY <1>10, <2>1
    <3> QED BY <1>1, <1>2, <2>1, <3>1
  <2>4. taken' - s = b BY <2>2, <2>3
  <2> QED BY <2>1, <2>2, <2>3, <2>4
<1>12. AtPdu(b) /\ Len(rbuf) = Stream[b + 1].len /\ Len(rbuf') = Len(rbuf)
  <2>1. AtPdu(b) /\ Len(rbuf) = Stream[b + 1].len BY <1>9, <1>10 DEF Filled
  <2>2. Len(rbuf') = Stream[(taken' - q.size) + 1].len BY <1>9 DEF Filled
  <2> QED BY <1>7, <1>11, <2>1, <2>2
<1>13. Promise!Given = 1..(Msg(b) - 1) /\ Msg(b) \in Nat \ {0}
  <2>1. Msg(b) \in Nat \ {0} BY <1>12, MsgPositive DEF AtPdu
  <2>2. Promise!Given = 1..(Msg(taken - o.size) - 1) BY <1>1, <1>8 DEF InOrder, Ordered
  <2> QED BY <1>10, <2>1, <2>2
<1>14. o.call \in Calls /\ Serving(o.call) BY <1>1, OpServes
<1>15. TouchesOnly(o.call)
  <2>1. \A u \in Threads : pc[u] # "parse" BY <1>1 DEF Base, ParseAlone
  <2> QED BY <1>1, <1>6, <1>7, <2>1, OpTouches
<1>16. CASE st = "done"
  <2>1. s = Len(rbuf) BY <1>2, <1>3, <1>16
  <2>2. Full(q) BY <1>7, <1>8, <1>16 DEF Full
  <2>3. rbuf'[1] = Receive(b + 1)
    <3>1. \A i \in 1..q.size : rbuf'[i] = Receive(taken - q.size + i)' BY <1>9 DEF Filled
    <3>2. 1 \in 1..q.size /\ taken' - q.size = b BY <1>7, <1>11
    <3> QED BY <1>1, <3>1, <3>2 DEF Receive
  <2>4. Number(rbuf)' = <<conn, Msg(b)>>
    <3>1. rbuf' # <<>> BY <1>11, <1>12, <2>1, EmptySeq
    <3>2. rbuf'[1].conn = conn /\ rbuf'[1].msg = Stream[b + 1].msg BY <1>1, <2>3 DEF Receive
    <3> QED BY <3>1, <3>2 DEF Number, Msg
  <2>5. /\ Promise!Give(o.call) /\ Promise!Given' = 1..Msg(b)
        /\ \A c \in Calls : Result(c)' = Result(c) \/ Result(c)' = <<conn, Msg(b)>>
    BY <1>1, <1>6, <1>7, <1>13, <1>14, <1>15, <2>2, <2>4, Gives
  <2>6. Seen BY <1>14, <2>5, PromisedCalls DEF Seen, Promise!Next
  <2>7. Past'
    <3>1. conn \in Nat BY DEF Located, Inv, TypeOK
    <3>2. ASSUME NEW c \in Calls PROVE Result(c)'[1] \in 0..conn'
      BY <1>1, <2>5, <3>1 DEF InOrder, Past
    <3> QED BY <3>2 DEF Past
  <2>8. Hungry' BY <1>6, <1>7, <1>16 DEF Hungry
  <2>9. AtPdu(taken') => Promise!Given' = 1..(Msg(taken') - 1)
    <3>1. SUFFICES ASSUME AtPdu(taken') PROVE Promise!Given' = 1..(Msg(taken') - 1) OBVIOUS
    <3>2. Msg(b + s) = Msg(b) + 1 BY <1>11, <1>12, <2>1, <3>1, NextMsg
    <3>3. Msg(taken') - 1 = Msg(b) BY <1>11, <1>13, <3>2
    <3> QED BY <2>5, <3>3
  <2>10. Promise!Given' = 1..(Msg(taken' - q.size) - 0) BY <1>7, <1>11, <1>13, <2>5
  <2>11. q.st = "done" /\ q.size > 0 BY <1>7, <1>11, <1>16
  <2>12. Ordered' BY <1>6, <2>9, <2>10, <2>11 DEF Ordered, AtPdu, Msg
  <2> QED BY <2>6, <2>7, <2>8, <2>12 DEF InOrder
<1>17. CASE st # "done"
  <2>1. s < Len(rbuf) BY <1>2, <1>3, <1>11, <1>17
  <2>2. Unfinished(q) BY <1>7, <1>17 DEF Unfinished
  <2>3. UNCHANGED Results /\ (UNCHANGED Stages \/ Promise!Fail(o.call))
    BY <1>1, <1>6, <1>7, <1>14, <1>15, <2>2, GoesOnOrFails
  <2>4. Seen BY <1>1, <1>14, <2>3, WithheldSeen DEF Withheld
  <2>5. Promise!Given' = Promise!Given BY <1>1, <2>3, GivenResults
  <2>6. Past'
    <3>1. \A c \in Calls : Result(c)' = Result(c) BY <2>3 DEF Results
    <3> QED BY <1>1, <3>1 DEF InOrder, Past
  <2>7. Hungry' BY <1>6, <1>7, <1>12, <2>1 DEF Hungry
  <2>8. ~AtPdu(taken') BY <1>11, <1>12, <2>1, InsidePdu
  <2>9. Promise!Given' = 1..(Msg(taken' - q.size) - 1) BY <1>7, <1>11, <1>13, <2>5
  <2>10. Ordered' BY <1>6, <1>7, <1>17, <2>8, <2>9 DEF Ordered, AtPdu, Msg
  <2> QED BY <2>4, <2>6, <2>7, <2>10 DEF InOrder
<1> QED BY <1>16, <1>17

\* A new connection begins with the first PDU (socket.cpp:123-131).
LEMMA OpenAsyncInOrder ==
  ASSUME Located, Located', Base, InOrder, NEW t \in Threads, OpenAsync(t), AtRest
  PROVE  Seen /\ InOrder'
<1>1. /\ UNCHANGED <<rbuf, cur, pc, owed, calls, ops, posted, log, closes>>
      /\ taken' = 0 /\ conn' = conn + 1 /\ sock = "closed" /\ conn \in Nat
  BY DEF OpenAsync, bufVars, threadVars, Located, Inv, TypeOK
<1>2. UNCHANGED <<Stages, Results>> BY <1>1, ApartStutters
<1>3. \A c \in Calls : Result(c)' = Result(c) BY <1>2 DEF Results
<1>4. Past' BY <1>1, <1>3 DEF InOrder, Past
<1>5. \A o \in ops : ~Body(o)
  <2>1. CASE closes = 0 BY <1>1, <2>1 DEF Base, Fresh, Body
  <2>2. CASE closes > 0
    <3>1. conn' # conn BY <1>1
    <3>2. \A c \in Calls : ~InOp(c) BY <2>2, <3>1 DEF AtRest, Located, Placed
    <3> QED BY <3>2, Typed DEF InOp, Located
  <2> QED BY <2>1, <2>2 DEF Located, Inv, TypeOK
<1>6. Hungry' BY <1>1, <1>5 DEF Hungry, Body
<1>7. Promise!Given' = {}
  <2>1. \A m : m \in Promise!Given' <=> m # 0 /\ \E c \in Calls : Result(c)'[1] = conn' /\ m = Result(c)'[2]
    BY PromisedCalls DEF Promise!Given
  <2>2. \A c \in Calls : Result(c)'[1] # conn' BY <1>1, <1>3 DEF InOrder, Past
  <2> QED BY <2>1, <2>2
<1>8. AtPdu(0) => Msg(0) = 1
  BY StreamAssumption, LenProperties DEF AtPdu, Msg
<1>9. Ordered'
  <2>1. AtPdu(taken') => Promise!Given' = 1..(Msg(taken') - 1) BY <1>1, <1>7, <1>8
  <2> QED BY <1>1, <1>5, <2>1 DEF Ordered, AtPdu, Msg, Body
<1>10. Seen
  <2>1. UNCHANGED <<[c \in Calls |-> Stage(c)], [c \in Calls |-> Result(c)]>> BY <1>2 DEF Stages, Results
  <2>2. Promise!Reopen BY <1>1, <2>1 DEF Promise!Reopen
  <2> QED BY <2>2 DEF Seen, Promise!Next
<1> QED BY <1>4, <1>6, <1>9, <1>10 DEF InOrder

-----------------------------------------------------------------------------
(* The theorem *)

\* At first no call was made and nothing was given.
LEMMA InboxInit == Init => Promise!Init /\ InOrder
<1> SUFFICES ASSUME Init PROVE Promise!Init /\ InOrder OBVIOUS
<1>1. \A c \in Calls : c[1] \in Callers /\ c[2] \in Nat /\ c[2] >= 1 BY DEF Calls
<1>2. \A c \in Calls : ~Made(c) BY <1>1 DEF Made, Init
<1>3. \A c \in Calls : Stage(c) = "new" /\ Result(c) = <<0, 0>> BY <1>2 DEF Stage, Result
<1>4. conn = 0 /\ taken = 0 /\ ops = {} BY DEF Init
<1>5. Promise!Init BY <1>3, <1>4, PromisedCalls DEF Promise!Init, Promise!None
<1>6. Promise!Given = {} BY <1>3, GivenResults
<1>7. AtPdu(0) => Msg(0) = 1
  BY StreamAssumption, LenProperties DEF AtPdu, Msg
<1>8. AtPdu(taken) => Promise!Given = 1..(Msg(taken) - 1) BY <1>4, <1>6, <1>7
<1>9. Past BY <1>3, <1>4 DEF Past
<1> QED BY <1>4, <1>5, <1>8, <1>9 DEF InOrder, Hungry, Ordered

\* Every step is one of the inbox, and keeps the PDUs in order.
LEMMA InboxStep ==
  ASSUME Orderly, Located, Located', Unowing, Base, Unraced, Framed, Framed', InOrder, [Next /\ AtRest]_vars
  PROVE  Seen /\ InOrder'
<1>1. CASE UNCHANGED vars
  BY <1>1, ApartInOrder DEF vars
<1>2. ASSUME NEW t \in Threads, CallStep(t), AtRest
      PROVE  Seen /\ InOrder'
  BY <1>2, MethodInOrder, CloseInOrder, OpenAsyncInOrder DEF CallStep
<1>3. ASSUME NEW t \in Threads, ThreadStep(t)
      PROVE  Seen /\ InOrder'
  BY <1>3, MethodInOrder, StartBodyInOrder, SockInOrder DEF ThreadStep, MethodStep
<1>4. ASSUME NEW t \in Threads, NEW c \in Calls, IoTask(t, c)
      PROVE  Seen /\ InOrder'
  <2>1. ASSUME NEW o \in ops, Failed(t, o) \/ PeekShort(t, o) \/ PeekFull(t, o) \/ BodyDone(t, o)
        PROVE  Seen /\ InOrder'
    BY <2>1, CompletionInOrder
  <2>2. ASSUME NEW o \in ops, Continue(t, o) PROVE Seen /\ InOrder'
    BY <2>2, ContinueInOrder
  <2>3. ASSUME NEW p \in posted, RunBusy(t, p) \/ RunRepeek(t, p) PROVE Seen /\ InOrder'
    BY <2>3, MethodInOrder
  <2> QED BY <1>4, <2>1, <2>2, <2>3 DEF IoTask
<1>5. CASE NetStep \/ PeerStep
  <2>1. ASSUME NEW o \in ops, NetPeek(o) \/ NetFail(o) \/ \E n \in 1..Len(Stream) : NetRead(o, n)
        PROVE  Seen /\ InOrder'
    BY <2>1, NetPeekInOrder, NetFailInOrder, NetReadInOrder
  <2> QED BY <1>5, <2>1, SockInOrder DEF NetStep, ReceiveStep, PeerStep
<1> QED BY <1>1, <1>2, <1>3, <1>4, <1>5 DEF Next

\* ImplementsInbox: as long as no other thread closes beside the io_context, and
\* the socket is opened again when its reads were answered, read_async serves one
\* call at a time and refuses the others, gives the call it serves the next PDU
\* of the connection, all of them in order and none twice, or an error, and calls
\* each handler once (socket.cpp:23-76).
THEOREM InboxImplemented ==
  ASSUME Orderly, OneThreadCloses \/ MaxCloses = 0
  PROVE  RestfulSpec => ImplementsInbox
<1> DEFINE Reads == Unowing /\ Placed /\ Once
<1>1. Inv => Unraced BY DEF Inv, TypeOK, Unraced
<1>2. Spec => []Reads BY PlacesInvariance
<1>3. RestfulSpec => Spec
  <2>1. [Next /\ AtRest]_vars => [Next]_vars OBVIOUS
  <2> QED BY <2>1, PTL DEF Spec, RestfulSpec
<1>4. RestfulSpec => [](Base /\ (Unraced => Framed)) BY RestfulInvariance
<1> DEFINE Reading == Inv /\ Unowing /\ Placed /\ Once /\ Base /\ Framed
<1>5. RestfulSpec => []Reading BY <1>1, <1>2, <1>3, <1>4, Invariance, PTL
<1>6. Reading /\ Reading' /\ InOrder /\ [Next /\ AtRest]_vars => Seen /\ InOrder'
  <2> SUFFICES ASSUME Reading, Reading', InOrder, [Next /\ AtRest]_vars PROVE Seen /\ InOrder' OBVIOUS
  <2>1. Located /\ Located' /\ Unraced BY <1>1 DEF Located
  <2> QED BY <2>1, InboxStep
<1> HIDE DEF Reading
<1>7. RestfulSpec => [][Promise!Next]_(Promise!vars)
  BY <1>5, <1>6, InboxInit, PTL DEF RestfulSpec, Seen
<1>8. RestfulSpec => Promise!Init BY InboxInit DEF RestfulSpec
<1> QED BY <1>7, <1>8 DEF ImplementsInbox, Promise!Spec
===============================================================================
