---------------------------- MODULE ReadPath_proofs ----------------------------
(***************************************************************************)
(* Proofs about the read path for any sets of threads, any well-formed     *)
(* stream, any number of reads, closes and connections.                    *)
(*                                                                         *)
(* The first part is about who reads and what is in the buffers; Inv is    *)
(* its inductive invariant.  The second, which uses Inv throughout, is     *)
(* about the whole life of a call: in whose hands its handler is, and      *)
(* that a PDU it is given is one PDU of the stream.                        *)
(***************************************************************************)
EXTENDS ReadPath, SequenceTheorems, FiniteSetTheorems, WellFoundedInduction, TLAPS
-----------------------------------------------------------------------------
(* PDUs in the stream *)

\* After k octets comes the first one of a PDU, or nothing.
AtPdu(k) == k < Len(Stream) /\ Stream[k + 1].pos = 1
Boundary(k) == k = Len(Stream) \/ AtPdu(k)

\* A set of naturals has a least one.
LEMMA Least == ASSUME NEW T \in SUBSET Nat, T # {} PROVE \E x \in T : \A y \in T : x <= y
<1> DEFINE R == {ss \in Nat \X Nat : ss[1] < ss[2]}
<1>1. IsWellFoundedOn(R, Nat) BY NatLessThanWellFounded DEF OpToRel
<1>2. \A x, y \in Nat : y < x => <<y, x>> \in R OBVIOUS
<1> HIDE DEF R
<1>3. PICK x \in T : \A y \in T : ~ (<<y, x>> \in R) BY <1>1, WFMin
<1>4. \A y \in T : ~ (y < x) BY <1>2, <1>3
<1>5. x \in Nat /\ \A y \in T : y \in Nat OBVIOUS
<1>6. \A y \in T : x <= y BY <1>4, <1>5
<1> QED BY <1>6

\* What follows an octet of the stream.
LEMMA NextOctet ==
  ASSUME NEW i \in Nat, i >= 1, i < Len(Stream)
  PROVE  /\ Stream[i] \in Octets /\ Stream[i + 1] \in Octets
         /\ Stream[i].len = 0 \/ Stream[i].len >= LengthSize
         /\ Stream[i + 1].pos > LengthSize => Stream[i + 1].pos <= Stream[i + 1].len
         /\ \/ Stream[i + 1] = [Stream[i] EXCEPT !.pos = @ + 1]
            \/ Stream[i + 1].pos = 1 /\ Stream[i].pos >= LengthSize /\ Stream[i].pos >= Stream[i].len
<1>1. /\ Stream \in Seq(Octets) /\ LengthSize \in Nat
      /\ Len(Stream) \in Nat /\ DOMAIN Stream = 1..Len(Stream)
  BY BoundsAssumption, StreamAssumption, LenProperties
<1>2. i \in 1..Len(Stream) /\ i + 1 \in 1..Len(Stream) BY <1>1
<1>3. Stream[i] \in Octets /\ Stream[i + 1] \in Octets BY <1>1, <1>2, ElementOfSeq
<1>4. (i + 1) - 1 = i /\ i + 1 > 1 OBVIOUS
<1>5. \/ Stream[i + 1] = [Stream[(i + 1) - 1] EXCEPT !.pos = @ + 1]
      \/ Stream[i + 1].pos = 1 /\ Stream[(i + 1) - 1].pos >= LengthSize
         /\ Stream[(i + 1) - 1].pos >= Stream[(i + 1) - 1].len
  BY <1>1, <1>2, <1>4, StreamAssumption
<1>6. /\ Stream[i].len = 0 \/ Stream[i].len >= LengthSize
      /\ Stream[i + 1].pos > LengthSize => Stream[i + 1].pos <= Stream[i + 1].len
  BY <1>1, <1>2, StreamAssumption
<1> QED BY <1>3, <1>4, <1>5, <1>6

\* In the middle of a PDU: the octet that follows continues it, at the end it starts
\* the next.
LEMMA Follows ==
  ASSUME NEW i \in Nat, i >= 1, i < Len(Stream)
  PROVE  /\ Stream[i].pos < Stream[i].len => Stream[i + 1] = [Stream[i] EXCEPT !.pos = @ + 1]
         /\ Stream[i].pos = Stream[i].len => Stream[i + 1].pos = 1
<1>1. Stream[i] \in Octets /\ Stream[i + 1] \in Octets BY NextOctet
<1>2. PICK m \in Nat, p \in Nat \ {0}, n \in Nat : Stream[i] = [msg |-> m, pos |-> p, len |-> n]
  BY <1>1 DEF Octets
<1>3. [Stream[i] EXCEPT !.pos = @ + 1] = [msg |-> m, pos |-> p + 1, len |-> n] BY <1>2
<1>a. Stream[i].len = n /\ Stream[i].pos = p BY <1>2
<1>4. n = 0 \/ n >= LengthSize BY <1>a, NextOctet
<1>5. Stream[i + 1].pos > LengthSize => Stream[i + 1].pos <= Stream[i + 1].len BY NextOctet
<1>6. \/ Stream[i + 1] = [msg |-> m, pos |-> p + 1, len |-> n]
      \/ Stream[i + 1].pos = 1 /\ p >= LengthSize /\ p >= n
  BY <1>2, <1>3, NextOctet
<1>7. p < n => Stream[i + 1] = [msg |-> m, pos |-> p + 1, len |-> n] BY <1>6
<1>8. p = n => Stream[i + 1].pos = 1 BY <1>4, <1>5, <1>6, BoundsAssumption
<1> QED BY <1>2, <1>3, <1>7, <1>8

\* The octets of a PDU follow its first one.
LEMMA PduOctets ==
  ASSUME NEW b \in Nat, AtPdu(b), NEW n \in Nat, n <= Stream[b + 1].len, b + n <= Len(Stream),
         NEW i \in 1..n
  PROVE  Stream[b + i] = [Stream[b + 1] EXCEPT !.pos = i]
<1> DEFINE Wrong == {j \in 1..n : Stream[b + j] # [Stream[b + 1] EXCEPT !.pos = j]}
<1>1. Stream[b + 1] \in Octets /\ Len(Stream) \in Nat BY StreamAssumption, ElementOfSeq, LenProperties DEF AtPdu
<1>2. PICK m \in Nat, l \in Nat : Stream[b + 1] = [msg |-> m, pos |-> 1, len |-> l]
  BY <1>1 DEF Octets, AtPdu
<1>3. \A j : [Stream[b + 1] EXCEPT !.pos = j] = [msg |-> m, pos |-> j, len |-> l] BY <1>2
<1>4. SUFFICES ASSUME Wrong # {} PROVE FALSE OBVIOUS
<1>5. Wrong \in SUBSET Nat OBVIOUS
<1>6. PICK j \in Wrong : \A k \in Wrong : j <= k BY <1>4, <1>5, Least
<1>7. j # 1 BY <1>2
<1>8. j - 1 \in 1..n /\ j - 1 \notin Wrong
  <2>1. j \in 1..n /\ j - 1 \in 1..n BY <1>6, <1>7
  <2>2. ~ (j <= j - 1) BY <2>1
  <2> QED BY <1>6, <2>1, <2>2
<1>9. Stream[b + (j - 1)] = [msg |-> m, pos |-> j - 1, len |-> l] BY <1>3, <1>8
<1>10. j - 1 < l /\ n \in Nat BY <1>2, <1>6
<1>11. PICK k \in Nat : k = b + (j - 1) BY <1>8
<1>12. k >= 1 /\ k < Len(Stream) /\ k + 1 = b + j
  <2>1. j \in Nat /\ j - 1 \in Nat /\ j - 1 >= 1 /\ j <= n BY <1>6, <1>8
  <2>2. k + 1 = b + j /\ k >= 1 BY <1>11, <2>1
  <2>3. b + j <= Len(Stream) BY <1>1, <2>1
  <2> QED BY <1>1, <2>2, <2>3
<1>13. Stream[k] = [msg |-> m, pos |-> j - 1, len |-> l] BY <1>9, <1>11
<1>a. Stream[k].pos = j - 1 /\ Stream[k].len = l /\ (j - 1) + 1 = j BY <1>8, <1>13
<1>b. [Stream[k] EXCEPT !.pos = j] = [msg |-> m, pos |-> j, len |-> l]
  <2> DEFINE octet == Stream[k]
  <2>1. octet = [msg |-> m, pos |-> j - 1, len |-> l] BY <1>13
  <2> HIDE DEF octet
  <2>2. [octet EXCEPT !.pos = j] = [msg |-> m, pos |-> j, len |-> l] BY <2>1
  <2> QED BY <2>2 DEF octet
<1>14. Stream[k].pos < Stream[k].len /\ [Stream[k] EXCEPT !.pos = @ + 1] = [msg |-> m, pos |-> j, len |-> l]
  BY <1>10, <1>a, <1>b
<1>15. Stream[b + j] = [msg |-> m, pos |-> j, len |-> l] BY <1>12, <1>14, Follows
<1> QED BY <1>3, <1>6, <1>15

\* After all the octets of a PDU the stream is at the next PDU or at its end.
LEMMA PduEnd ==
  ASSUME NEW b \in Nat, AtPdu(b), b + Stream[b + 1].len <= Len(Stream)
  PROVE  Boundary(b + Stream[b + 1].len)
<1>1. Stream[b + 1] \in Octets /\ Len(Stream) \in Nat BY StreamAssumption, ElementOfSeq, LenProperties DEF AtPdu
<1>2. PICK m \in Nat, l \in Nat : Stream[b + 1] = [msg |-> m, pos |-> 1, len |-> l]
  BY <1>1 DEF Octets, AtPdu
<1>3. CASE l = 0 BY <1>2, <1>3 DEF Boundary
<1>4. CASE l > 0 /\ b + l < Len(Stream)
  <2>1. l \in 1..l BY <1>4
  <2>2. Stream[b + l] = [msg |-> m, pos |-> l, len |-> l]
    <3>1. Stream[b + l] = [Stream[b + 1] EXCEPT !.pos = l] BY <1>2, <1>4, <2>1, PduOctets
    <3> QED BY <1>2, <3>1
  <2>3. PICK k \in Nat : k = b + l OBVIOUS
  <2>4. k >= 1 /\ k < Len(Stream) /\ Stream[k].pos = Stream[k].len BY <1>4, <2>2, <2>3
  <2>5. Stream[k + 1].pos = 1 BY <2>4, Follows
  <2> QED BY <1>2, <2>3, <2>4, <2>5 DEF Boundary, AtPdu
<1> QED BY <1>1, <1>2, <1>3, <1>4 DEF Boundary
-----------------------------------------------------------------------------
(* Who reads, and what is in the buffers *)

\* A thread has a handler in its hands exactly from the call of read_async to
\* the start of an operation, and from its completion to the answer.
Carried == \A t \in Threads : pc[t] \in {"exchange", "peek", "body", "parse"} <=> cur[t] # NoCall

\* A thread about to call a handler has one to call.
Owing == \A t \in Threads : pc[t] = "handler" => owed[t] # NoAnswer

\* A peek is one operation, never continued, and _read_length_buff holds what
\* the one that has completed returned.
Peeked ==
  \A o \in ops : o.kind = "peek" =>
    o.st # "more" /\ (o.st = "done" /\ o.ec = "ok" => Len(lbuf) = o.size)

\* The inductive invariant.
Inv == TypeOK /\ Carried /\ Owing /\ Peeked /\ ExclusiveReader

USE BoundsAssumption, ThreadsAssumption, NoneAssumption

-----------------------------------------------------------------------------
(* Handing octets around *)

\* What is received from the stream can be kept in a buffer.
LEMMA ReceiveType ==
  ASSUME TypeOK, NEW k \in 1..Len(Stream)
  PROVE  Receive(k) \in Cell
<1>1. Stream[k] \in Octets BY StreamAssumption, ElementOfSeq
<1> QED BY <1>1 DEF TypeOK, Receive, Octets, Cell

\* A buffer is a function on an interval of integers.
LEMMA CellsType ==
  ASSUME NEW n \in Nat, NEW f \in [1..n -> Cell]
  PROVE  f \in Seq(Cell) /\ Len(f) = n
BY SeqDef

LEMMA ResizeType ==
  ASSUME NEW s \in Seq(Cell), NEW n \in Nat
  PROVE  Resize(s, n) \in Seq(Cell) /\ Len(Resize(s, n)) = n
<1>1. Zero \in Cell BY DEF Zero, Cell
<1>2. \A i \in 1..n : i <= Len(s) => s[i] \in Cell BY ElementOfSeq
<1>3. Resize(s, n) \in [1..n -> Cell] BY <1>1, <1>2 DEF Resize
<1> QED BY <1>3, CellsType

LEMMA AnnouncedType ==
  ASSUME NEW s \in Seq(Cell), Len(s) > 0
  PROVE  Announced(s) \subseteq Nat
<1>1. s[1] \in Cell BY ElementOfSeq
<1>2. Len(Stream) \in Nat BY LenProperties
<1> QED BY <1>1, <1>2 DEF Announced, Cell

\* Handing an operation to asio keeps its handler.
LEMMA InitiateOp ==
  ASSUME NEW o \in Ops, NEW want
  PROVE  /\ Initiate(o, want) \in Ops
         /\ Initiate(o, want).kind = o.kind
         /\ o.kind = "peek" /\ Unlocked =>
              Initiate(o, want).st = "pending"
              \/ (Initiate(o, want).st = "done" /\ Initiate(o, want).ec # "ok")
BY DEF Ops, Initiate, Codes, Unlocked

LEMMA OperationType ==
  ASSUME NEW kind \in {"peek", "body"}, NEW c \in Calls
  PROVE  Operation(kind, c) \in Ops /\ Operation(kind, c).kind = kind
BY DEF Ops, Operation, Codes

LEMMA AdvanceOp ==
  ASSUME NEW o \in Ops, NEW size \in Nat, NEW st \in {"pending", "more", "done"}
  PROVE  LET q == [o EXCEPT !.size = size, !.st = st] IN q \in Ops /\ q.kind = o.kind
BY DEF Ops, Codes

LEMMA EndOp ==
  ASSUME NEW o \in Ops
  PROVE  /\ [o EXCEPT !.st = "done", !.ec = "aborted"] \in Ops
         /\ [o EXCEPT !.st = "done", !.ec = "failed"] \in Ops
         /\ [o EXCEPT !.st = "done", !.ec = "eof"] \in Ops
         /\ [o EXCEPT !.st = "done", !.ec = "failed"].ec # "ok"
         /\ [o EXCEPT !.st = "done", !.ec = "eof"].ec # "ok"
         /\ [o EXCEPT !.st = "done", !.ec = "failed"].st = "done"
         /\ [o EXCEPT !.st = "done", !.ec = "eof"].st = "done"
BY DEF Ops, Codes

\* The error answers are answers.
LEMMA ErrorType ==
  ASSUME NEW c \in Calls, NEW ec \in Codes
  PROVE  Error(c, ec) \in Answers
BY EmptySeq DEF Error, Answers

LEMMA InitInv == Init => Inv
<1> SUFFICES ASSUME Init PROVE Inv OBVIOUS
<1>1. TypeOK
  <2>1. lbuf \in Seq(Cell) /\ rbuf \in Seq(Cell) /\ log \in Seq(Answers) BY EmptySeq DEF Init
  <2>2. pc \in [Threads -> {"idle", "exchange", "peek", "body", "parse", "handler", "closing"}] BY DEF Init
  <2>3. cur \in [Threads -> Calls \cup {NoCall}] /\ owed \in [Threads -> Answers \cup {NoAnswer}]
    BY DEF Init
  <2>4. calls \in [Callers -> 0..MaxReads] BY DEF Init
  <2>5. conn \in 0..MaxConns /\ closes \in 0..MaxCloses BY DEF Init
  <2>6. arrived \in 0..Len(Stream) /\ taken \in 0..arrived BY LenProperties DEF Init
  <2> QED BY <2>1, <2>2, <2>3, <2>4, <2>5, <2>6 DEF Init, TypeOK
<1>2. Carried /\ Owing /\ Peeked BY DEF Init, Carried, Owing, Peeked
<1>3. ExclusiveReader BY DEF Init, ExclusiveReader, Reader, Repeeks
<1> QED BY <1>1, <1>2, <1>3 DEF Inv

-----------------------------------------------------------------------------
(* One lemma per action *)

LEMMA ReadAsyncInv == ASSUME Inv, NEW t \in Threads, ReadAsync(t) PROVE Inv'
<1> USE DEF Inv, ReadAsync, Goto, Idle, netVars, bufVars, threadVars
<1>a. <<t, calls[t] + 1>> \in Calls BY DEF TypeOK, Calls
<1>b. calls' \in [Callers -> 0..MaxReads] BY DEF TypeOK
<1>1. TypeOK' BY <1>a, <1>b DEF TypeOK
<1>2. Carried' /\ Owing' /\ Peeked'
  BY <1>a DEF TypeOK, Carried, Owing, Peeked
<1>3. ExclusiveReader'
  BY DEF TypeOK, ExclusiveReader, Reader, Repeeks
<1> QED BY <1>1, <1>2, <1>3 DEF Inv

LEMMA ExchangeInv == ASSUME Inv, NEW t \in Threads, Exchange(t) PROVE Inv'
<1> USE DEF Inv, Exchange, Goto, netVars, bufVars, threadVars
<1>a. cur[t] \in Calls BY DEF TypeOK, Carried
<1>b. [task |-> "busy", call |-> cur[t]] \in Tasks BY <1>a DEF Tasks
<1>c. Repeeks' = Repeeks BY DEF Repeeks
<1>1. TypeOK' BY <1>b DEF TypeOK
<1>2. Carried' /\ Owing' /\ Peeked'
  BY DEF TypeOK, Carried, Owing, Peeked
<1>3. ExclusiveReader'
  <2>1. CASE reading
    BY <1>c, <2>1 DEF TypeOK, ExclusiveReader, Reader
  <2>2. CASE ~reading
    <3>1. ops = {} /\ Repeeks = {} /\ \A u \in Threads : ~Reader(u)
      BY <2>2 DEF ExclusiveReader
    <3>2. \A u \in Threads : Reader(u)' => u = t BY <2>2, <3>1 DEF TypeOK, Reader
    <3>3. reading' = TRUE /\ Reader(t)' BY <2>2 DEF TypeOK, Reader
    <3> QED BY <1>c, <2>2, <3>1, <3>2, <3>3 DEF ExclusiveReader
  <2> QED BY <2>1, <2>2 DEF TypeOK
<1> QED BY <1>1, <1>2, <1>3 DEF Inv

LEMMA StartPeekInv == ASSUME Inv, NEW t \in Threads, StartPeek(t) PROVE Inv'
<1> USE DEF Inv, StartPeek, Goto, netVars, bufVars, threadVars
<1> DEFINE q == Initiate(Operation("peek", cur[t]), LengthSize)
<1>a. cur[t] \in Calls BY DEF TypeOK, Carried
<1>b. q \in Ops /\ q.kind = "peek" /\ (q.kind = "peek" => q.st = "pending" \/ (q.st = "done" /\ q.ec # "ok"))
  BY <1>a, OperationType, InitiateOp
<1>c. ops' = ops \cup {q} OBVIOUS
<1> HIDE DEF q
<1>1. TypeOK' BY <1>b, <1>c DEF TypeOK
<1>2. Carried' /\ Owing' /\ Peeked'
  BY <1>b, <1>c DEF TypeOK, Carried, Owing, Peeked
<1>3. ExclusiveReader'
  BY <1>c DEF TypeOK, ExclusiveReader, Reader, Repeeks
<1> QED BY <1>1, <1>2, <1>3 DEF Inv

LEMMA StartBodyInv == ASSUME Inv, NEW t \in Threads, StartBody(t) PROVE Inv'
<1> USE DEF Inv, StartBody, Goto, netVars, bufVars, threadVars
<1> DEFINE q == Initiate(Operation("body", cur[t]), Len(rbuf))
<1>a. cur[t] \in Calls BY DEF TypeOK, Carried
<1>b. q \in Ops /\ q.kind = "body" /\ (q.kind = "peek" => q.st = "pending" \/ (q.st = "done" /\ q.ec # "ok"))
  BY <1>a, OperationType, InitiateOp
<1>c. ops' = ops \cup {q} OBVIOUS
<1> HIDE DEF q
<1>1. TypeOK' BY <1>b, <1>c DEF TypeOK
<1>2. Carried' /\ Owing' /\ Peeked'
  BY <1>b, <1>c DEF TypeOK, Carried, Owing, Peeked
<1>3. ExclusiveReader'
  BY <1>c DEF TypeOK, ExclusiveReader, Reader, Repeeks
<1> QED BY <1>1, <1>2, <1>3 DEF Inv

LEMMA RunBusyInv == ASSUME Inv, NEW t \in Threads, NEW p \in posted, RunBusy(t, p) PROVE Inv'
<1> USE DEF Inv, RunBusy, Idle, netVars, bufVars, threadVars
<1>a. Error(p.call, "busy") \in Answers BY ErrorType DEF TypeOK, Tasks, Codes
<1>1. TypeOK' BY <1>a DEF TypeOK
<1>2. Carried' /\ Owing' /\ Peeked'
  BY DEF TypeOK, Carried, Owing, Peeked
<1>3. ExclusiveReader'
  BY DEF TypeOK, ExclusiveReader, Reader, Repeeks
<1> QED BY <1>1, <1>2, <1>3 DEF Inv

LEMMA RunRepeekInv == ASSUME Inv, NEW t \in Threads, NEW p \in posted, RunRepeek(t, p) PROVE Inv'
<1> USE DEF Inv, RunRepeek, Goto, Idle, netVars, bufVars, threadVars
<1>a. p.call \in Calls BY DEF TypeOK, Tasks
<1>1. TypeOK' BY <1>a DEF TypeOK
<1>2. Carried' /\ Owing' /\ Peeked'
  BY <1>a DEF TypeOK, Carried, Owing, Peeked
<1>3. ExclusiveReader'
  BY DEF TypeOK, ExclusiveReader, Reader, Repeeks
<1> QED BY <1>1, <1>2, <1>3 DEF Inv

LEMMA FailedInv == ASSUME Inv, NEW t \in Threads, NEW o \in ops, Failed(t, o) PROVE Inv'
<1> USE DEF Inv, Failed, Completing, Owe, Goto, Idle, netVars, bufVars, threadVars
<1>a. Error(o.call, o.ec) \in Answers BY ErrorType DEF TypeOK, Ops
<1>1. TypeOK' BY <1>a DEF TypeOK
<1>2. Carried' /\ Owing' /\ Peeked'
  BY <1>a DEF TypeOK, Carried, Owing, Peeked
<1>3. ExclusiveReader'
  BY DEF TypeOK, ExclusiveReader, Reader, Repeeks
<1> QED BY <1>1, <1>2, <1>3 DEF Inv

LEMMA PeekShortInv == ASSUME Inv, NEW t \in Threads, NEW o \in ops, PeekShort(t, o) PROVE Inv'
<1> USE DEF Inv, PeekShort, Completing, Idle, netVars, bufVars, threadVars
<1>1. TypeOK' BY DEF TypeOK, Ops, Tasks
<1>2. Carried' /\ Owing' /\ Peeked'
  BY DEF TypeOK, Carried, Owing, Peeked
<1>3. ExclusiveReader'
  <2>1. ops' = {} /\ Repeeks = {} BY DEF ExclusiveReader
  <2>2. Repeeks' = {[task |-> "repeek", call |-> o.call]} BY <2>1 DEF Repeeks
  <2> QED BY <2>1, <2>2 DEF ExclusiveReader, Reader
<1> QED BY <1>1, <1>2, <1>3 DEF Inv

LEMMA PeekFullInv == ASSUME Inv, NEW t \in Threads, NEW o \in ops, PeekFull(t, o) PROVE Inv'
<1> USE DEF Inv, PeekFull, Completing, Goto, Idle, netVars, bufVars, threadVars
<1>a. o.call \in Calls BY DEF TypeOK, Ops
<1>b. rbuf' \in Seq(Cell)
  <2>1. Len(lbuf) > 0 BY DEF Peeked, TypeOK, Ops
  <2>2. PICK n \in Announced(lbuf) : rbuf' = Resize(rbuf, n) OBVIOUS
  <2>3. n \in Nat BY <2>1, AnnouncedType DEF TypeOK
  <2> QED BY <2>2, <2>3, ResizeType DEF TypeOK
<1>1. TypeOK' BY <1>a, <1>b DEF TypeOK
<1>2. Carried' /\ Owing' /\ Peeked'
  BY <1>a DEF TypeOK, Carried, Owing, Peeked
<1>3. ExclusiveReader'
  BY DEF TypeOK, ExclusiveReader, Reader, Repeeks
<1> QED BY <1>1, <1>2, <1>3 DEF Inv

LEMMA ContinueInv == ASSUME Inv, NEW t \in Threads, NEW o \in ops, Continue(t, o) PROVE Inv'
<1> USE DEF Inv, Continue, Idle, netVars, bufVars, threadVars
<1> DEFINE q == Initiate(o, Len(rbuf) - o.size)
<1>a. o \in Ops BY DEF TypeOK
<1>b. q \in Ops /\ q.kind = o.kind /\ q.kind # "peek"
  BY <1>a, InitiateOp DEF Peeked
<1>c. ops' = (ops \ {o}) \cup {q} OBVIOUS
<1> HIDE DEF q
<1>1. TypeOK' BY <1>b, <1>c DEF TypeOK
<1>2. Carried' /\ Owing' /\ Peeked'
  BY <1>b, <1>c DEF TypeOK, Carried, Owing, Peeked
<1>3. ExclusiveReader'
  BY <1>c DEF TypeOK, ExclusiveReader, Reader, Repeeks
<1> QED BY <1>1, <1>2, <1>3 DEF Inv

LEMMA BodyDoneInv == ASSUME Inv, NEW t \in Threads, NEW o \in ops, BodyDone(t, o) PROVE Inv'
<1> USE DEF Inv, BodyDone, Completing, Goto, Idle, netVars, bufVars, threadVars
<1>a. o.call \in Calls BY DEF TypeOK, Ops
<1>1. TypeOK' BY <1>a DEF TypeOK
<1>2. Carried' /\ Owing' /\ Peeked'
  BY <1>a DEF TypeOK, Carried, Owing, Peeked
<1>3. ExclusiveReader'
  BY DEF TypeOK, ExclusiveReader, Reader, Repeeks
<1> QED BY <1>1, <1>2, <1>3 DEF Inv

LEMMA ParseInv == ASSUME Inv, NEW t \in Threads, Parse(t) PROVE Inv'
<1> USE DEF Inv, Parse, Owe, Goto, netVars, bufVars, threadVars
<1>a. [call |-> cur[t], ec |-> IF Len(rbuf) >= MinLen THEN "ok" ELSE "protocol", pdu |-> rbuf] \in Answers
  BY DEF TypeOK, Carried, Answers, Codes
<1>1. TypeOK' BY <1>a DEF TypeOK
<1>2. Carried' /\ Owing' /\ Peeked'
  BY <1>a DEF TypeOK, Carried, Owing, Peeked
<1>3. ExclusiveReader'
  BY DEF TypeOK, ExclusiveReader, Reader, Repeeks
<1> QED BY <1>1, <1>2, <1>3 DEF Inv

LEMMA CallHandlerInv == ASSUME Inv, NEW t \in Threads, CallHandler(t) PROVE Inv'
<1> USE DEF Inv, CallHandler, Owe, Goto, netVars, bufVars, threadVars
<1>1. TypeOK' BY DEF TypeOK, Owing
<1>2. Carried' /\ Owing' /\ Peeked'
  BY DEF TypeOK, Carried, Owing, Peeked
<1>3. ExclusiveReader'
  BY DEF TypeOK, ExclusiveReader, Reader, Repeeks
<1> QED BY <1>1, <1>2, <1>3 DEF Inv

LEMMA CloseInv == ASSUME Inv, NEW t \in Threads, Close(t) PROVE Inv'
<1> USE DEF Inv, Close, Goto, Idle, bufVars
<1>a. \A o \in ops : o \in Ops BY DEF TypeOK
<1>b. \A o \in ops : Aborted(o) \in Ops /\ (Aborted(o).ec = "ok" => Aborted(o) = o)
                   /\ Aborted(o).kind = o.kind /\ (Aborted(o).st = "more" => Aborted(o) = o)
  BY <1>a, EndOp DEF Aborted, Ops
<1>c. ops' = {Aborted(o) : o \in ops} OBVIOUS
<1>d. (ops' = {} <=> ops = {}) /\ ((\A o, q \in ops : o = q) => \A o, q \in ops' : o = q)
  BY <1>c
<1>e. closes' \in 0..MaxCloses
  <2>1. closes \in 0..MaxCloses /\ closes' = closes + 1 /\ closes < MaxCloses BY DEF TypeOK
  <2> HIDE DEF Close, Inv
  <2> QED BY <2>1
<1>1. TypeOK' BY <1>b, <1>c, <1>e DEF TypeOK
<1>2. Carried' /\ Owing' BY DEF TypeOK, Carried, Owing
<1>3. Peeked' BY <1>b, <1>c DEF Peeked
<1>4. ExclusiveReader'
  <2>1. \A u \in Threads : Reader(u)' <=> Reader(u) BY DEF TypeOK, Reader
  <2>2. Repeeks' = Repeeks BY DEF Repeeks
  <2> QED BY <1>d, <2>1, <2>2 DEF ExclusiveReader
<1> QED BY <1>1, <1>2, <1>3, <1>4 DEF Inv

LEMMA ShutdownInv == ASSUME Inv, NEW t \in Threads, Shutdown(t) PROVE Inv'
<1> USE DEF Inv, Shutdown, Goto, bufVars
<1>1. TypeOK' BY DEF TypeOK
<1>2. Carried' /\ Owing' /\ Peeked'
  BY DEF TypeOK, Carried, Owing, Peeked
<1>3. ExclusiveReader'
  BY DEF TypeOK, ExclusiveReader, Reader, Repeeks
<1> QED BY <1>1, <1>2, <1>3 DEF Inv

LEMMA OpenAsyncInv == ASSUME Inv, NEW t \in Threads, OpenAsync(t) PROVE Inv'
<1> USE DEF Inv, OpenAsync, netVars, bufVars, threadVars
<1>a. Len(Stream) \in Nat BY LenProperties
<1>b. arrived' \in 0..Len(Stream) /\ taken' \in 0..arrived' BY <1>a
<1>c. conn' \in 0..MaxConns BY DEF TypeOK
<1>1. TypeOK' BY <1>b, <1>c DEF TypeOK
<1>2. Carried' /\ Owing' /\ Peeked'
  BY DEF TypeOK, Carried, Owing, Peeked
<1>3. ExclusiveReader'
  BY DEF TypeOK, ExclusiveReader, Reader, Repeeks
<1> QED BY <1>1, <1>2, <1>3 DEF Inv

LEMMA NetworkInv == ASSUME Inv, Connected \/ Reset \/ Arrive \/ Fin PROVE Inv'
<1> USE DEF Inv, Connected, Reset, Arrive, Fin, netVars, bufVars, threadVars
<1>a. Len(Stream) \in Nat BY LenProperties
<1>b. arrived' \in 0..Len(Stream) /\ taken' \in 0..arrived' BY <1>a DEF TypeOK
<1>1. TypeOK' BY <1>b DEF TypeOK
<1>2. Carried' /\ Owing' /\ Peeked'
  BY DEF TypeOK, Carried, Owing, Peeked
<1>3. ExclusiveReader'
  BY DEF TypeOK, ExclusiveReader, Reader, Repeeks
<1> QED BY <1>1, <1>2, <1>3 DEF Inv

LEMMA NetPeekInv == ASSUME Inv, NEW o \in ops, NetPeek(o) PROVE Inv'
<1> USE DEF Inv, NetPeek, Finish, netVars, bufVars, threadVars
<1> DEFINE m == Smaller(LengthSize, Available)
           q == [o EXCEPT !.size = m, !.st = "done"]
<1>a. o \in Ops /\ Len(Stream) \in Nat BY LenProperties DEF TypeOK
<1>b. m \in Nat /\ m <= Available /\ Available \in Nat BY <1>a DEF TypeOK, Smaller, Available
<1>c. q \in Ops /\ q.kind = o.kind /\ q.size = m /\ q.st = "done" BY <1>a, <1>b DEF Ops
<1>d. lbuf' \in Seq(Cell) /\ Len(lbuf') = m
  <2>1. \A i \in 1..m : taken + i \in 1..Len(Stream)
    <3>1. taken \in Nat /\ arrived \in Nat /\ arrived <= Len(Stream) BY <1>a DEF TypeOK
    <3>2. m \in Nat /\ m <= arrived - taken BY <1>b DEF Available
    <3> HIDE DEF m
    <3> QED BY <1>a, <3>1, <3>2
  <2>2. \A i \in 1..m : Receive(taken + i) \in Cell BY <2>1, ReceiveType
  <2>3. lbuf' \in [1..m -> Cell] BY <2>2
  <2> QED BY <2>3, <1>b, CellsType
<1>e. ops' = (ops \ {o}) \cup {q} OBVIOUS
<1>f. ops' = {q} BY <1>e DEF ExclusiveReader
<1> HIDE DEF q, m
<1>1. TypeOK' BY <1>c, <1>d, <1>e DEF TypeOK
<1>2. Carried' /\ Owing' /\ Peeked'
  BY <1>c, <1>d, <1>f DEF TypeOK, Carried, Owing, Peeked
<1>3. ExclusiveReader'
  BY <1>f DEF ExclusiveReader, Reader, Repeeks
<1> QED BY <1>1, <1>2, <1>3 DEF Inv

\* A read of n octets takes octets that have arrived.
LEMMA OctetTaken ==
  ASSUME NEW from \in Nat, NEW size \in Nat, NEW n \in Nat, NEW i \in Nat, NEW total \in Nat,
         NEW limit \in Nat,
         size < i, i <= size + n, from + n <= limit, limit <= total
  PROVE  from + i - size \in 1..total
<1> DEFINE d == i - size
<1>1. d \in Nat /\ 1 <= d /\ d <= n OBVIOUS
<1>2. from + i - size = from + d OBVIOUS
<1> HIDE DEF d
<1> QED BY <1>1, <1>2

LEMMA NetReadInv == ASSUME Inv, NEW o \in ops, NEW n \in 1..Len(Stream), NetRead(o, n) PROVE Inv'
<1> USE DEF Inv, NetRead, Finish, netVars, bufVars, threadVars
<1> DEFINE m == Len(rbuf)
           q == [o EXCEPT !.size = @ + n, !.st = IF o.size + n = Len(rbuf) THEN "done" ELSE "more"]
<1>a. o \in Ops /\ Len(Stream) \in Nat /\ m \in Nat BY LenProperties DEF TypeOK
<1>b. n \in Nat /\ taken + n <= arrived /\ arrived <= Len(Stream) /\ o.size \in Nat /\ taken \in Nat
  <2>1. taken \in Nat /\ arrived \in Nat /\ arrived <= Len(Stream) BY <1>a DEF TypeOK
  <2>2. n <= arrived - taken BY DEF Available
  <2>3. o.size \in Nat BY <1>a DEF Ops
  <2>4. n \in Nat BY <1>a
  <2> QED BY <2>1, <2>2, <2>3, <2>4
<1>c. q \in Ops /\ q.kind = o.kind
  <2>1. (IF o.size + n = Len(rbuf) THEN "done" ELSE "more") \in {"pending", "more", "done"}
    OBVIOUS
  <2>2. o.size + n \in Nat BY <1>b
  <2>3. q = [o EXCEPT !.size = o.size + n, !.st = IF o.size + n = Len(rbuf) THEN "done" ELSE "more"]
    OBVIOUS
  <2> HIDE DEF q, NetRead
  <2> QED BY <1>a, <2>1, <2>2, <2>3, AdvanceOp
<1>d. rbuf' \in Seq(Cell)
  <2>1. ASSUME NEW i \in (o.size + 1)..(o.size + n) PROVE taken + i - o.size \in 1..Len(Stream)
    <3>1. i \in Nat /\ o.size < i /\ i <= o.size + n BY <1>b
    <3>2. arrived \in Nat BY <1>a DEF TypeOK
    <3> HIDE DEF NetRead, Inv
    <3> QED BY <3>1, <3>2, <1>a, <1>b, OctetTaken
  <2>2. \A i \in (o.size + 1)..(o.size + n) : Receive(taken + i - o.size) \in Cell
    BY <2>1, ReceiveType
  <2>3. DOMAIN rbuf = 1..m /\ \A i \in 1..m : rbuf[i] \in Cell
    BY LenProperties, ElementOfSeq DEF TypeOK
  <2>4. rbuf' \in [1..m -> Cell] BY <2>2, <2>3
  <2> QED BY <2>4, <1>a, CellsType
<1>e. ops' = (ops \ {o}) \cup {q} OBVIOUS
<1>f. ops' = {q} BY <1>e DEF ExclusiveReader
<1>g. taken' \in 0..arrived BY <1>b DEF TypeOK
<1> HIDE DEF q, m
<1>1. TypeOK' BY <1>c, <1>d, <1>e, <1>g DEF TypeOK
<1>2. Carried' /\ Owing' /\ Peeked'
  BY <1>c, <1>f DEF TypeOK, Carried, Owing, Peeked
<1>3. ExclusiveReader'
  BY <1>f DEF ExclusiveReader, Reader, Repeeks
<1> QED BY <1>1, <1>2, <1>3 DEF Inv

LEMMA NetFailInv == ASSUME Inv, NEW o \in ops, NetFail(o) PROVE Inv'
<1> USE DEF Inv, NetFail, Finish, netVars, bufVars, threadVars
<1>a. o \in Ops /\ \A q \in ops' : q \in Ops BY EndOp DEF TypeOK
<1>1. TypeOK' BY <1>a DEF TypeOK
<1>2. Carried' /\ Owing' /\ Peeked'
  <2>1. \A q \in ops' : q \in ops \/ q.ec # "ok" BY <1>a, EndOp
  <2>2. \A q \in ops' : q \in ops \/ q.st = "done"
    <3>1. o \in [kind : {"peek", "body"}, call : Calls, size : Nat, st : {"pending", "more", "done"}, ec : Codes]
      BY <1>a DEF Ops
    <3>2. \A q \in ops' : q \in ops \/ q = [o EXCEPT !.st = "done", !.ec = "eof"]
                               \/ q = [o EXCEPT !.st = "done", !.ec = "failed"]
      OBVIOUS
    <3> HIDE DEF NetFail, Inv
    <3> QED BY <3>1, <3>2
  <2> QED BY <2>1, <2>2 DEF TypeOK, Carried, Owing, Peeked
<1>3. ExclusiveReader'
  BY DEF TypeOK, ExclusiveReader, Reader, Repeeks
<1> QED BY <1>1, <1>2, <1>3 DEF Inv

LEMMA NextInv == ASSUME Inv, [Next]_vars PROVE Inv'
<1>1. CASE UNCHANGED vars
  BY <1>1 DEF Inv, vars, TypeOK, Carried, Owing, Peeked, ExclusiveReader, Reader, Repeeks
<1>2. ASSUME NEW t \in Threads, CallStep(t) PROVE Inv'
  BY <1>2, ReadAsyncInv, CloseInv, OpenAsyncInv DEF CallStep
<1>3. ASSUME NEW t \in Threads, ThreadStep(t) PROVE Inv'
  BY <1>3, ExchangeInv, StartPeekInv, StartBodyInv, ParseInv, CallHandlerInv, ShutdownInv
  DEF ThreadStep, MethodStep
<1>4. ASSUME NEW t \in Threads, NEW c \in Calls, IoTask(t, c) PROVE Inv'
  <2>1. ASSUME NEW o \in ops,
               Failed(t, o) \/ PeekShort(t, o) \/ PeekFull(t, o) \/ Continue(t, o) \/ BodyDone(t, o)
        PROVE  Inv'
    BY <2>1, FailedInv, PeekShortInv, PeekFullInv, ContinueInv, BodyDoneInv
  <2>2. ASSUME NEW p \in posted, RunBusy(t, p) \/ RunRepeek(t, p) PROVE Inv'
    BY <2>2, RunBusyInv, RunRepeekInv
  <2> QED BY <1>4, <2>1, <2>2 DEF IoTask
<1>5. ASSUME NetStep \/ PeerStep PROVE Inv'
  <2>1. ASSUME NEW o \in ops, NetPeek(o) \/ NetFail(o) \/ \E n \in 1..Len(Stream) : NetRead(o, n)
        PROVE  Inv'
    BY <2>1, NetPeekInv, NetReadInv, NetFailInv
  <2> QED BY <1>5, <2>1, NetworkInv DEF NetStep, ReceiveStep, PeerStep
<1> QED BY <1>1, <1>2, <1>3, <1>4, <1>5 DEF Next

\* The invariant holds in every reachable state of any instance.
THEOREM Invariance == Spec => []Inv
BY InitInv, NextInv, PTL DEF Spec

\* Type correctness: in particular what is copied into _read_length_buff and
\* _read_buff are octets that have arrived, every operation and posted function
\* carries the handler of a call, and a handler is called with an answer.
THEOREM TypeCorrect == Spec => []TypeOK
BY Invariance, PTL DEF Inv

\* The exchange on _reading (socket.cpp:26) lets one read at a time through
\* all its steps, the repeated peeks included, across close(), reconnection and
\* errors, and the flag is set only as long as such a read exists.
THEOREM ReaderIsExclusive == Spec => []ExclusiveReader
BY Invariance, PTL DEF Inv

-----------------------------------------------------------------------------
(* Whose hands a call is in *)

\* A call is carried by a thread, by a receive operation's completion (socket.cpp:
\* 47-74), by a posted function (27-29, 54-56), or has an answer to come from the
\* lambda that runs (50, 70, 74).
InThread(c) == \E t \in Threads : cur[t] = c
InOp(c) == \E o \in ops : o.call = c
InPosted(c) == \E p \in posted : p.call = c
Owes(t, c) == owed[t] # NoAnswer /\ owed[t].call = c
InOwed(c) == \E t \in Threads : Owes(t, c)

\* A call that was made is in one of these places or is answered.
Placed ==
  /\ \A c \in Calls : Made(c) <=> InThread(c) \/ InOp(c) \/ InPosted(c) \/ InOwed(c) \/ Answered(c)
  /\ \A c \in Calls :
       /\ InThread(c) => ~InOp(c) /\ ~InPosted(c) /\ ~InOwed(c) /\ ~Answered(c)
       /\ InOp(c) => ~InPosted(c) /\ ~InOwed(c) /\ ~Answered(c)
       /\ InPosted(c) => ~InOwed(c) /\ ~Answered(c)
       /\ InOwed(c) => ~Answered(c)

\* Nothing is twice in a place that could hold it twice; that there is one
\* operation is ExclusiveReader's.
Once ==
  /\ \A c \in Calls : \A t, u \in Threads : cur[t] = c /\ cur[u] = c => t = u
  /\ \A p, q \in posted : p.call = q.call => p = q
  /\ \A c \in Calls : \A t, u \in Threads : Owes(t, c) /\ Owes(u, c) => t = u
  /\ \A i, j \in DOMAIN log : log[i].call = log[j].call => i = j

\* An answer is owed only by a thread about to give it.
Unowing == \A t \in Threads : pc[t] # "handler" => owed[t] = NoAnswer
-----------------------------------------------------------------------------
(* Who is where *)

\* Calls that must not overlap do not.
Solo == ~Overlap => \A c, d \in Calls : Made(c) /\ ~Answered(c) /\ Made(d) /\ ~Answered(d) => c = d

\* Bodies are asked for, and PDUs parsed, in completions (socket.cpp:57-75).
IoWork == \A t \in Threads : pc[t] \in {"body", "parse"} => t \in IoThreads

\* Who closes the descriptor has called close() (socket.cpp:116-120).
ClosersClose ==
  /\ \A t \in Threads : pc[t] = "closing" => t \in Closers /\ closes > 0
  /\ sock = "closing" => \E t \in Threads : pc[t] = "closing"

\* While a thread parses _read_buff, _reading being cleared already, the next read
\* has at most asked for its length (socket.cpp:67-73): nothing resizes or fills
\* the buffer.
ParseAlone ==
  \A t \in Threads : pc[t] = "parse" =>
    /\ \A o \in ops : o.kind = "peek"
    /\ \A u \in Threads : pc[u] # "body"

\* Before the first open_async nothing is received.
Fresh ==
  closes = 0 /\ sock = "closed" =>
    /\ \A o \in ops : o.ec # "ok"
    /\ \A t \in Threads : pc[t] # "body"

\* An operation that is not over has not failed.
Running == \A o \in ops : o.st # "done" => o.ec = "ok"

Base == Running /\ Solo /\ IoWork /\ ClosersClose /\ ParseAlone /\ Fresh
-----------------------------------------------------------------------------
(* Where the stream is *)

Body(o) == o.kind = "body" /\ o.ec = "ok"

\* What a peek has copied is the length of the PDU at which the stream is, and the
\* buffer is given that length (socket.cpp:60-61).
Announces == \A o \in ops : o.kind = "peek" /\ o.st = "done" /\ o.ec = "ok" /\ o.size > 0 =>
   AtPdu(taken) /\ lbuf[1].pos = 1 /\ lbuf[1].len = Stream[taken + 1].len
Sized == \A t \in Threads : pc[t] = "body" => AtPdu(taken) /\ Len(rbuf) = Stream[taken + 1].len

\* The composed read took the octets of _read_buff's PDU from its first one on,
\* and is over only with the last (socket.cpp:63-66).
Filled(o) ==
  /\ o.size <= taken /\ AtPdu(taken - o.size)
  /\ Len(rbuf) = Stream[taken - o.size + 1].len
  /\ o.size <= Len(rbuf)
  /\ o.st = "done" => o.size = Len(rbuf)
  /\ \A i \in 1..o.size : rbuf[i] = Receive(taken - o.size + i)
Fills == \A o \in ops : Body(o) => Filled(o)

\* Without a body under way the stream is between two PDUs, so that the next peek
\* reads a length; or its end was cut off, and nothing more comes.
Aligned ==
  sock \in {"connecting", "connected"} /\ (\A o \in ops : ~Body(o)) =>
    Boundary(taken) \/ (fin /\ taken = arrived)

\* What is parsed, owed and given is whole.
Parsed == \A t \in Threads : pc[t] = "parse" => Whole(rbuf)
Kept == (\A t \in Threads : owed[t] # NoAnswer => Whole(owed[t].pdu)) /\ DeliveredWhole

Framed == Announces /\ Sized /\ Fills /\ Aligned /\ Parsed /\ Kept
-----------------------------------------------------------------------------
(* Calls pass from hand to hand *)

\* What the steps below need of the types.
LEMMA Typed ==
  ASSUME Inv
  PROVE  /\ cur \in [Threads -> Calls \cup {NoCall}]
         /\ owed \in [Threads -> Answers \cup {NoAnswer}]
         /\ ops \subseteq Ops /\ posted \subseteq Tasks
         /\ \A o \in ops : o.call \in Calls /\ o.ec \in Codes
         /\ \A p \in posted : p.call \in Calls
         /\ \A a \in Answers : a.call \in Calls /\ a.ec \in Codes
BY DEF Inv, TypeOK, Ops, Tasks, Answers

\* Handing an operation to asio keeps its call.
LEMMA InitiateCall ==
  ASSUME NEW o \in Ops, NEW want
  PROVE  Initiate(o, want).call = o.call
BY DEF Ops, Initiate

\* Only a step to label "handler" takes on an answer.
LEMMA UnowingStep == ASSUME Inv, Unowing, [Next]_vars PROVE Unowing'
<1>1. CASE UNCHANGED vars
  BY <1>1 DEF vars, Unowing
<1>2. ASSUME NEW t \in Threads, CallStep(t)
      PROVE  Unowing'
  BY <1>2 DEF CallStep, ReadAsync, Close, OpenAsync, Idle, Goto, threadVars, Inv, TypeOK, Unowing
<1>3. ASSUME NEW t \in Threads, ThreadStep(t)
      PROVE  Unowing'
  BY <1>3 DEF ThreadStep, MethodStep, Exchange, StartPeek, StartBody, Parse, CallHandler, Shutdown,
              Goto, Owe, Inv, TypeOK, Unowing
<1>4. ASSUME NEW t \in Threads, NEW c \in Calls, IoTask(t, c)
      PROVE  Unowing'
  BY <1>4 DEF IoTask, Failed, PeekShort, PeekFull, Continue, BodyDone, RunBusy, RunRepeek, Completing,
              Idle, Goto, Owe, threadVars, Inv, TypeOK, Unowing
<1>5. CASE NetStep \/ PeerStep
  BY <1>5 DEF NetStep, PeerStep, ReceiveStep, Connected, NetPeek, NetRead, NetFail, Arrive, Fin, Reset,
              threadVars, Unowing
<1> QED BY <1>1, <1>2, <1>3, <1>4, <1>5 DEF Next

\* Calls that stay where they are.
LEMMA StillPlaced ==
  ASSUME Placed, Once, UNCHANGED <<cur, owed, posted, calls, log>>,
         \A c \in Calls : InOp(c)' <=> InOp(c)
  PROVE  Placed' /\ Once'
BY DEF Placed, Once, Made, InThread, InPosted, InOwed, Owes, Answered

\* A call begins in its thread (socket.cpp:23-26).
LEMMA ReadAsyncPlaced ==
  ASSUME Inv, Placed, Once, NEW t \in Threads, ReadAsync(t)
  PROVE  Placed' /\ Once'
<1>t. calls \in [Callers -> 0..MaxReads] BY DEF Inv, TypeOK
<1>1. t \in Callers /\ calls \in [Callers -> Nat] /\ calls[t] < MaxReads /\ cur[t] = NoCall
  BY <1>t DEF ReadAsync, Idle, Inv, Carried
<1>2. <<t, calls[t] + 1>> \in Calls BY <1>1 DEF Calls
<1>3. PICK d \in Calls : d = <<t, calls[t] + 1>> BY <1>2
<1>4. d[1] = t /\ d[2] = calls[t] + 1 BY <1>3
<1>5. ~Made(d) BY <1>1, <1>4 DEF Made
<1>6. calls' = [calls EXCEPT ![t] = @ + 1] /\ cur' = [cur EXCEPT ![t] = d]
      /\ UNCHANGED <<owed, ops, posted, log>>
  BY <1>3 DEF ReadAsync
<1>7. ASSUME NEW c \in Calls
      PROVE  Made(c)' <=> Made(c) \/ c = d
  <2>1. c[1] \in Callers /\ c[2] \in Nat /\ c = <<c[1], c[2]>> BY DEF Calls
  <2>2. CASE c[1] = t
    <3>1. calls'[c[1]] = calls[t] + 1 BY <1>1, <1>6, <2>2
    <3>2. c = d <=> c[2] = calls[t] + 1 BY <1>3, <2>1, <2>2
    <3> QED BY <1>1, <2>1, <2>2, <3>1, <3>2 DEF Made
  <2>3. CASE c[1] # t BY <1>1, <1>4, <1>6, <2>1, <2>3 DEF Made
  <2> QED BY <2>2, <2>3
<1>8. \A c \in Calls : InThread(c)' <=> InThread(c) \/ c = d
  BY <1>1, <1>6, Typed DEF InThread
<1>9. \A u \in Threads : cur'[u] = d => u = t
  BY <1>5, <1>6, Typed DEF Placed, InThread
<1>10. Placed'
  BY <1>5, <1>6, <1>7, <1>8 DEF Placed, InOp, InPosted, InOwed, Owes, Answered
<1>11. Once' BY <1>6, <1>9, Typed DEF Once, Owes
<1> QED BY <1>10, <1>11

\* _reading.exchange(true) found a read in progress.
LEMMA ExchangePlaced ==
  ASSUME Inv, Placed, Once, NEW t \in Threads, Exchange(t)
  PROVE  Placed' /\ Once'
<1>1. CASE ~reading
  <2>1. UNCHANGED <<cur, owed, posted, calls, ops, log>> BY <1>1 DEF Exchange
  <2> QED BY <2>1, StillPlaced DEF InOp
<1>2. CASE reading
  <2>1. cur[t] \in Calls BY Typed DEF Exchange, Inv, Carried
  <2>2. PICK d \in Calls : d = cur[t] BY <2>1
  <2> DEFINE q == [task |-> "busy", call |-> d]
  <2>3. q.call = d OBVIOUS
  <2>4. posted' = posted \cup {q} /\ cur' = [cur EXCEPT ![t] = NoCall]
        /\ UNCHANGED <<owed, ops, calls, log>>
    BY <1>2, <2>2 DEF Exchange
  <2> HIDE DEF q
  <2>5. InThread(d) BY <2>2 DEF InThread
  <2>6. \A c \in Calls : InThread(c)' <=> InThread(c) /\ c # d
    BY <2>2, <2>4, Typed DEF InThread, Once
  <2>7. \A c \in Calls : InPosted(c)' <=> InPosted(c) \/ c = d BY <2>3, <2>4 DEF InPosted
  <2>8. Placed' BY <2>4, <2>5, <2>6, <2>7 DEF Placed, Made, InOp, InOwed, Owes, Answered
  <2>9. \A p \in posted : p.call # d BY <2>5, Typed DEF Placed, InPosted
  <2>10. Once' BY <2>3, <2>4, <2>9, Typed DEF Once, Owes
  <2> QED BY <2>8, <2>10
<1> QED BY <1>1, <1>2 DEF Inv, TypeOK

\* A thread starts an operation.
LEMMA StartPlaced ==
  ASSUME Inv, Placed, Once, NEW t \in Threads, StartPeek(t) \/ StartBody(t)
  PROVE  Placed' /\ Once'
<1>1. cur[t] \in Calls BY Typed DEF StartPeek, StartBody, Inv, Carried
<1>2. PICK d \in Calls : d = cur[t] BY <1>1
<1>3. \A o \in ops' : o \in ops \/ o.call = d
  BY <1>2, OperationType, InitiateCall DEF StartPeek, StartBody, Operation
<1>4. \A o \in ops : o \in ops' BY DEF StartPeek, StartBody
<1>5. \E o \in ops' : o.call = d
  BY <1>2, OperationType, InitiateCall DEF StartPeek, StartBody, Operation
<1>6. cur' = [cur EXCEPT ![t] = NoCall] /\ UNCHANGED <<owed, calls, posted, log>>
  BY DEF StartPeek, StartBody
<1>7. \A c \in Calls : InOp(c)' <=> InOp(c) \/ c = d BY <1>3, <1>4, <1>5 DEF InOp
<1>8. InThread(d) BY <1>2 DEF InThread
<1>9. \A c \in Calls : InThread(c)' <=> InThread(c) /\ c # d
  BY <1>2, <1>6, Typed DEF InThread, Once
<1>10. Placed' BY <1>6, <1>7, <1>8, <1>9 DEF Placed, Made, InPosted, InOwed, Owes, Answered
<1>11. Once' BY <1>6, Typed DEF Once, Owes
<1> QED BY <1>10, <1>11

\* A call moves from where it is to the log.
LEMMA Logged ==
  ASSUME TypeOK, NEW a \in Answers, log' = Append(log, a)
  PROVE  /\ DOMAIN log' = DOMAIN log \cup {Len(log) + 1} /\ Len(log) + 1 \notin DOMAIN log
         /\ \A i \in DOMAIN log : log'[i] = log[i]
         /\ log'[Len(log) + 1] = a
         /\ \A c \in Calls : Answered(c)' <=> Answered(c) \/ c = a.call
<1>1. log \in Seq(Answers) BY DEF TypeOK
<1>2. Len(log) \in Nat /\ DOMAIN log = 1..Len(log) BY <1>1, LenProperties
<1>3. /\ DOMAIN log' = 1..(Len(log) + 1)
      /\ \A i \in 1..Len(log) : log'[i] = log[i]
      /\ log'[Len(log) + 1] = a
  BY <1>1, <1>2
<1>4. DOMAIN log' = DOMAIN log \cup {Len(log) + 1} /\ Len(log) + 1 \notin DOMAIN log
  BY <1>2, <1>3
<1>5. \A i \in DOMAIN log : log'[i] = log[i] BY <1>2, <1>3
<1>6. \A c \in Calls : Answered(c)' <=> Answered(c) \/ c = a.call
  BY <1>3, <1>4, <1>5 DEF Answered
<1> QED BY <1>3, <1>4, <1>5, <1>6

\* A handler that was not called yet is now called once.
LEMMA LoggedOnce ==
  ASSUME TypeOK, Once, NEW a \in Answers, log' = Append(log, a), ~Answered(a.call)
  PROVE  \A i, j \in DOMAIN log' : log'[i].call = log'[j].call => i = j
BY Logged DEF Once, Answered

\* The handler is called.
LEMMA CallHandlerPlaced ==
  ASSUME Inv, Placed, Once, NEW t \in Threads, CallHandler(t)
  PROVE  Placed' /\ Once'
<1>1. PICK a \in Answers : a = owed[t] BY Typed DEF CallHandler, Inv, Owing
<1>2. PICK d \in Calls : d = a.call BY Typed
<1>3. log' = Append(log, a) /\ owed' = [owed EXCEPT ![t] = NoAnswer]
      /\ UNCHANGED <<cur, calls, ops, posted>>
  BY <1>1 DEF CallHandler, Owe
<1>4. Owes(t, d) BY <1>1, <1>2 DEF Owes
<1>5. \A u \in Threads, c \in Calls : Owes(u, c)' <=> Owes(u, c) /\ u # t
  BY <1>3, Typed DEF Owes
<1>6. \A c \in Calls : InOwed(c)' <=> InOwed(c) /\ c # d
  BY <1>1, <1>2, <1>4, <1>5 DEF InOwed, Once, Owes
<1>7. InOwed(d) BY <1>4 DEF InOwed
<1>8. \A c \in Calls : Answered(c)' <=> Answered(c) \/ c = d BY <1>2, <1>3, Logged DEF Inv
<1>9. \A i, j \in DOMAIN log' : log'[i].call = log'[j].call => i = j
  BY <1>2, <1>3, <1>7, LoggedOnce DEF Placed, Inv
<1>10. Placed' BY <1>3, <1>6, <1>7, <1>8 DEF Placed, Made, InThread, InOp, InPosted
<1>11. Once' BY <1>3, <1>5, <1>9 DEF Once
<1> QED BY <1>10, <1>11

\* A handler told operation_in_progress is called (socket.cpp:27-29).
LEMMA RunBusyPlaced ==
  ASSUME Inv, Placed, Once, NEW t \in Threads, NEW p \in posted, RunBusy(t, p)
  PROVE  Placed' /\ Once'
<1>1. PICK d \in Calls : d = p.call BY Typed
<1>2. Error(d, "busy") \in Answers BY ErrorType DEF Codes
<1>3. PICK a \in Answers : a = Error(d, "busy") BY <1>2
<1>4. a.call = d BY <1>3 DEF Error
<1>5. log' = Append(log, a) /\ posted' = posted \ {p} /\ UNCHANGED <<cur, owed, calls, ops>>
  BY <1>1, <1>3 DEF RunBusy, threadVars
<1>6. InPosted(d) BY <1>1 DEF InPosted
<1>7. \A c \in Calls : InPosted(c)' <=> InPosted(c) /\ c # d BY <1>1, <1>5 DEF InPosted, Once
<1>8. \A c \in Calls : Answered(c)' <=> Answered(c) \/ c = d BY <1>4, <1>5, Logged DEF Inv
<1>9. \A i, j \in DOMAIN log' : log'[i].call = log'[j].call => i = j
  BY <1>4, <1>5, <1>6, LoggedOnce DEF Placed, Inv
<1>10. Placed' BY <1>5, <1>6, <1>7, <1>8 DEF Placed, Made, InThread, InOp, InOwed, Owes
<1>11. Once' BY <1>5, <1>9 DEF Once, Owes
<1> QED BY <1>10, <1>11

\* The posted _read_async begins (socket.cpp:54-56).
LEMMA RunRepeekPlaced ==
  ASSUME Inv, Placed, Once, NEW t \in Threads, NEW p \in posted, RunRepeek(t, p)
  PROVE  Placed' /\ Once'
<1>1. PICK d \in Calls : d = p.call BY Typed
<1>2. cur[t] = NoCall BY DEF RunRepeek, Idle, Inv, Carried
<1>3. posted' = posted \ {p} /\ cur' = [cur EXCEPT ![t] = d] /\ UNCHANGED <<owed, calls, ops, log>>
  BY <1>1 DEF RunRepeek
<1>4. InPosted(d) BY <1>1 DEF InPosted
<1>5. \A c \in Calls : InPosted(c)' <=> InPosted(c) /\ c # d BY <1>1, <1>3 DEF InPosted, Once
<1>6. \A c \in Calls : InThread(c)' <=> InThread(c) \/ c = d BY <1>2, <1>3, Typed DEF InThread
<1>7. \A u \in Threads : cur'[u] = d => u = t BY <1>3, <1>4, Typed DEF Placed, InThread
<1>8. Placed' BY <1>3, <1>4, <1>5, <1>6 DEF Placed, Made, InOp, InOwed, Owes, Answered
<1>9. Once' BY <1>3, <1>7, Typed DEF Once, Owes
<1> QED BY <1>8, <1>9

\* An operation is over.
LEMMA OpGone ==
  ASSUME Inv, NEW o \in ops, ops' = ops \ {o}
  PROVE  \A c \in Calls : InOp(c)' <=> InOp(c) /\ c # o.call
BY DEF InOp, Inv, ExclusiveReader

\* The completion of a failed operation owes its answer (socket.cpp:48-52, 67-71).
LEMMA FailedPlaced ==
  ASSUME Inv, Placed, Once, Unowing, NEW t \in Threads, NEW o \in ops, Failed(t, o)
  PROVE  Placed' /\ Once'
<1>1. PICK d \in Calls : d = o.call BY Typed
<1>2. o.ec \in Codes BY Typed
<1>3. Error(d, o.ec) \in Answers BY <1>2, ErrorType
<1>4. PICK a \in Answers : a = Error(d, o.ec) BY <1>3
<1>5. a.call = d /\ a # NoAnswer BY <1>4 DEF Error
<1>6. ops' = ops \ {o} /\ owed' = [owed EXCEPT ![t] = a] /\ owed[t] = NoAnswer
      /\ UNCHANGED <<cur, calls, posted, log>>
  BY <1>1, <1>4 DEF Failed, Completing, Idle, Owe, Unowing
<1>7. \A c \in Calls : InOp(c)' <=> InOp(c) /\ c # d BY <1>1, <1>6, OpGone
<1>8. InOp(d) BY <1>1 DEF InOp
<1>9. \A u \in Threads, c \in Calls : Owes(u, c)' <=> Owes(u, c) \/ (u = t /\ c = d)
  BY <1>5, <1>6, Typed DEF Owes
<1>10. \A c \in Calls : InOwed(c)' <=> InOwed(c) \/ c = d BY <1>9 DEF InOwed
<1>11. \A u, v \in Threads, c \in Calls : Owes(u, c)' /\ Owes(v, c)' => u = v
  BY <1>8, <1>9 DEF Placed, Once, InOwed
<1>12. Placed' BY <1>6, <1>7, <1>8, <1>10 DEF Placed, Made, InThread, InPosted, Answered
<1>13. Once' BY <1>6, <1>11 DEF Once
<1> QED BY <1>12, <1>13

\* A short peek is posted again (socket.cpp:53-58).
LEMMA PeekShortPlaced ==
  ASSUME Inv, Placed, Once, NEW t \in Threads, NEW o \in ops, PeekShort(t, o)
  PROVE  Placed' /\ Once'
<1>1. PICK d \in Calls : d = o.call BY Typed
<1> DEFINE q == [task |-> "repeek", call |-> d]
<1>2. q.call = d OBVIOUS
<1>3. ops' = ops \ {o} /\ posted' = posted \cup {q} /\ UNCHANGED <<cur, owed, calls, log>>
  BY <1>1 DEF PeekShort, threadVars
<1> HIDE DEF q
<1>4. \A c \in Calls : InOp(c)' <=> InOp(c) /\ c # d BY <1>1, <1>3, OpGone
<1>5. InOp(d) BY <1>1 DEF InOp
<1>6. \A c \in Calls : InPosted(c)' <=> InPosted(c) \/ c = d BY <1>2, <1>3 DEF InPosted
<1>7. \A p \in posted : p.call # d BY <1>5, Typed DEF Placed, InPosted
<1>8. Placed' BY <1>3, <1>4, <1>5, <1>6 DEF Placed, Made, InThread, InOwed, Owes, Answered
<1>9. Once' BY <1>2, <1>3, <1>7 DEF Once, Owes
<1> QED BY <1>8, <1>9

\* The completion of an operation goes on.
LEMMA GoOnPlaced ==
  ASSUME Inv, Placed, Once, NEW t \in Threads, NEW o \in ops, PeekFull(t, o) \/ BodyDone(t, o)
  PROVE  Placed' /\ Once'
<1>1. PICK d \in Calls : d = o.call BY Typed
<1>2. cur[t] = NoCall BY DEF PeekFull, BodyDone, Completing, Idle, Inv, Carried
<1>3. ops' = ops \ {o} /\ cur' = [cur EXCEPT ![t] = d] /\ UNCHANGED <<owed, calls, posted, log>>
  BY <1>1 DEF PeekFull, BodyDone
<1>4. \A c \in Calls : InOp(c)' <=> InOp(c) /\ c # d BY <1>1, <1>3, OpGone
<1>5. InOp(d) BY <1>1 DEF InOp
<1>6. \A c \in Calls : InThread(c)' <=> InThread(c) \/ c = d BY <1>2, <1>3, Typed DEF InThread
<1>7. \A u \in Threads : cur'[u] = d => u = t BY <1>3, <1>5, Typed DEF Placed, InThread
<1>8. Placed' BY <1>3, <1>4, <1>5, <1>6 DEF Placed, Made, InPosted, InOwed, Owes, Answered
<1>9. Once' BY <1>3, <1>7, Typed DEF Once, Owes
<1> QED BY <1>8, <1>9

\* The parse yields the answer (socket.cpp:73-75).
LEMMA ParsePlaced ==
  ASSUME Inv, Placed, Once, Unowing, NEW t \in Threads, Parse(t)
  PROVE  Placed' /\ Once'
<1> DEFINE b == [call |-> cur[t], ec |-> IF Len(rbuf) >= MinLen THEN "ok" ELSE "protocol", pdu |-> rbuf]
<1>1. cur[t] \in Calls BY Typed DEF Parse, Inv, Carried
<1>2. PICK d \in Calls : d = cur[t] BY <1>1
<1>3. b \in Answers BY <1>1 DEF Inv, TypeOK, Answers, Codes
<1>4. PICK a \in Answers : a = b BY <1>3
<1>5. a.call = d /\ a # NoAnswer BY <1>2, <1>4
<1>6. owed' = [owed EXCEPT ![t] = a] /\ owed[t] = NoAnswer /\ cur' = [cur EXCEPT ![t] = NoCall]
      /\ UNCHANGED <<calls, ops, posted, log>>
  BY <1>4 DEF Parse, Owe, Unowing
<1> HIDE DEF b
<1>7. InThread(d) BY <1>2 DEF InThread
<1>8. \A c \in Calls : InThread(c)' <=> InThread(c) /\ c # d
  BY <1>2, <1>6, Typed DEF InThread, Once
<1>9. \A u \in Threads, c \in Calls : Owes(u, c)' <=> Owes(u, c) \/ (u = t /\ c = d)
  BY <1>5, <1>6, Typed DEF Owes
<1>10. \A c \in Calls : InOwed(c)' <=> InOwed(c) \/ c = d BY <1>9 DEF InOwed
<1>11. \A u, v \in Threads, c \in Calls : Owes(u, c)' /\ Owes(v, c)' => u = v
  BY <1>7, <1>9 DEF Placed, Once, InOwed
<1>12. Placed' BY <1>6, <1>7, <1>8, <1>10 DEF Placed, Made, InOp, InPosted, Answered
<1>13. Once' BY <1>6, <1>11, Typed DEF Once
<1> QED BY <1>12, <1>13

\* An operation that goes on, completes or is aborted is still of its call.
LEMMA OpsKeep ==
  ASSUME Inv, NEW o \in ops,
         \/ \E t \in Threads : Continue(t, o)
         \/ NetPeek(o) \/ NetFail(o) \/ \E n \in 1..Len(Stream) : NetRead(o, n)
  PROVE  \A c \in Calls : InOp(c)' <=> InOp(c)
<1>1. o \in Ops BY DEF Inv, TypeOK
<1>2. \E q : q.call = o.call /\ ops' = (ops \ {o}) \cup {q}
  <2>1. CASE \E t \in Threads : Continue(t, o)
    BY <1>1, <2>1, InitiateCall DEF Continue
  <2>2. CASE NetPeek(o)
    <3>1. PICK q : q = [o EXCEPT !.size = Smaller(LengthSize, Available), !.st = "done"] OBVIOUS
    <3>2. q.call = o.call BY <1>1, <3>1 DEF Ops
    <3> QED BY <2>2, <3>1, <3>2 DEF NetPeek, Finish
  <2>3. CASE \E n \in 1..Len(Stream) : NetRead(o, n)
    <3>1. PICK n \in 1..Len(Stream) : NetRead(o, n) BY <2>3
    <3>2. PICK q : q = [o EXCEPT !.size = @ + n, !.st = IF o.size + n = Len(rbuf) THEN "done" ELSE "more"]
      OBVIOUS
    <3>3. q.call = o.call BY <1>1, <3>2 DEF Ops
    <3> QED BY <3>1, <3>2, <3>3 DEF NetRead, Finish
  <2>4. CASE NetFail(o)
    <3>1. PICK q : q \in {[o EXCEPT !.st = "done", !.ec = "eof"], [o EXCEPT !.st = "done", !.ec = "failed"]}
                   /\ Finish(o, q)
      BY <2>4 DEF NetFail
    <3>2. q.call = o.call BY <1>1, <3>1 DEF Ops
    <3> QED BY <3>1, <3>2 DEF Finish
  <2> QED BY <2>1, <2>2, <2>3, <2>4
<1> QED BY <1>2 DEF InOp

\* close() changes operations, but not their calls.
LEMMA ClosePlaced ==
  ASSUME Inv, Placed, Once, NEW t \in Threads, Close(t)
  PROVE  Placed' /\ Once'
<1>1. \A o \in ops : Aborted(o).call = o.call BY DEF Aborted, Inv, TypeOK, Ops
<1>2. \A c \in Calls : InOp(c)' <=> InOp(c) BY <1>1 DEF Close, InOp
<1> QED BY <1>2, StillPlaced DEF Close

\* Every step leaves each call in one place.
LEMMA PlacedStep ==
  ASSUME Inv, Unowing, Placed, Once, [Next]_vars
  PROVE  Placed' /\ Once'
<1>1. CASE UNCHANGED vars
  BY <1>1, StillPlaced DEF vars, InOp
<1>2. ASSUME NEW t \in Threads, CallStep(t)
      PROVE  Placed' /\ Once'
  <2>1. CASE OpenAsync(t) BY <2>1, StillPlaced DEF OpenAsync, threadVars, InOp
  <2> QED BY <1>2, <2>1, ReadAsyncPlaced, ClosePlaced DEF CallStep
<1>3. ASSUME NEW t \in Threads, ThreadStep(t)
      PROVE  Placed' /\ Once'
  <2>1. CASE Shutdown(t) BY <2>1, StillPlaced DEF Shutdown, InOp
  <2> QED BY <1>3, <2>1, ExchangePlaced, StartPlaced, ParsePlaced, CallHandlerPlaced
          DEF ThreadStep, MethodStep
<1>4. ASSUME NEW t \in Threads, NEW c \in Calls, IoTask(t, c)
      PROVE  Placed' /\ Once'
  <2>1. ASSUME NEW o \in ops,
               Failed(t, o) \/ PeekShort(t, o) \/ PeekFull(t, o) \/ Continue(t, o) \/ BodyDone(t, o)
        PROVE  Placed' /\ Once'
    <3>1. CASE Continue(t, o) BY <3>1, OpsKeep, StillPlaced DEF Continue, threadVars
    <3> QED BY <2>1, <3>1, FailedPlaced, PeekShortPlaced, GoOnPlaced
  <2>2. ASSUME NEW p \in posted, RunBusy(t, p) \/ RunRepeek(t, p)
        PROVE  Placed' /\ Once'
    BY <2>2, RunBusyPlaced, RunRepeekPlaced
  <2> QED BY <1>4, <2>1, <2>2 DEF IoTask
<1>5. CASE NetStep \/ PeerStep
  <2>1. CASE Connected \/ PeerStep
    BY <2>1, StillPlaced DEF Connected, PeerStep, Arrive, Fin, Reset, threadVars, InOp
  <2>2. ASSUME NEW o \in ops, NetPeek(o) \/ NetFail(o) \/ \E n \in 1..Len(Stream) : NetRead(o, n)
        PROVE  Placed' /\ Once'
    <3>1. UNCHANGED <<cur, owed, posted, calls, log>>
      BY <2>2 DEF NetPeek, NetFail, NetRead, threadVars
    <3> QED BY <2>2, <3>1, OpsKeep, StillPlaced
  <2> QED BY <1>5, <2>1, <2>2 DEF NetStep, ReceiveStep
<1> QED BY <1>1, <1>2, <1>3, <1>4, <1>5 DEF Next

\* No call was made at first.
LEMMA PlacedInit == Init => Unowing /\ Placed /\ Once
<1> SUFFICES ASSUME Init PROVE Unowing /\ Placed /\ Once OBVIOUS
<1>1. log = <<>> /\ DOMAIN log = {} BY DEF Init
<1>2. \A c \in Calls : ~Made(c) BY DEF Init, Made, Calls
<1>3. \A c \in Calls : ~InThread(c) /\ ~InOp(c) /\ ~InPosted(c) /\ ~InOwed(c) /\ ~Answered(c)
  BY <1>1 DEF Init, InThread, InOp, InPosted, InOwed, Owes, Answered
<1>4. Placed BY <1>2, <1>3 DEF Placed
<1>5. Once BY <1>1 DEF Init, Once, Owes
<1> QED BY <1>4, <1>5 DEF Init, Unowing

\* What is in one place, and once there, has one owner.
LEMMA OwnerFromPlaced == ASSUME Inv, Placed, Once PROVE OneHandler
<1> SUFFICES ASSUME NEW c \in Calls
             PROVE  LET owners == {<<"thread", t>> : t \in {t \in Threads : cur[t] = c}}
            \cup {<<"op", o>> : o \in {o \in ops : o.call = c}}
            \cup {<<"posted", p>> : p \in {p \in posted : p.call = c}}
            \cup {<<"owed", t>> : t \in {t \in Threads : owed[t] # NoAnswer /\ owed[t].call = c}}
            \cup {<<"log", i>> : i \in {i \in DOMAIN log : log[i].call = c}}
                    IN Cardinality(owners) = IF Made(c) THEN 1 ELSE 0
  BY DEF OneHandler
<1> DEFINE carriers == {t \in Threads : cur[t] = c}
           holders == {o \in ops : o.call = c}
           functions == {p \in posted : p.call = c}
           debtors == {t \in Threads : owed[t] # NoAnswer /\ owed[t].call = c}
           entries == {i \in DOMAIN log : log[i].call = c}
           owners == {<<"thread", t>> : t \in carriers} \cup {<<"op", o>> : o \in holders}
                     \cup {<<"posted", p>> : p \in functions} \cup {<<"owed", t>> : t \in debtors}
                     \cup {<<"log", i>> : i \in entries}
<1>1. /\ carriers # {} <=> InThread(c)
      /\ \A t, u \in carriers : t = u
  BY DEF InThread, Once
<1>2. /\ holders # {} <=> InOp(c)
      /\ \A o, q \in holders : o = q
  BY DEF InOp, Inv, ExclusiveReader
<1>3. /\ debtors # {} <=> InOwed(c)
      /\ \A t, u \in debtors : t = u
  BY DEF InOwed, Owes, Once
<1>4. /\ functions # {} <=> InPosted(c)
      /\ \A x, y \in functions : x = y
  BY DEF InPosted, Once
<1>5. /\ entries # {} <=> Answered(c)
      /\ \A i, j \in entries : i = j
  BY DEF Answered, Once
<1> HIDE DEF carriers, holders, debtors, functions, entries
<1>6. CASE Made(c)
  <2>1. \E x : owners = {x}
    <3>1. CASE InThread(c)
      <4>1. PICK t \in carriers : carriers = {t} BY <1>1, <3>1
      <4>2. owners = {<<"thread", t>>} BY <1>2, <1>3, <1>4, <1>5, <3>1, <4>1 DEF Placed
      <4> QED BY <4>2
    <3>2. CASE InOp(c)
      <4>1. PICK o \in holders : holders = {o} BY <1>2, <3>2
      <4>2. owners = {<<"op", o>>} BY <1>1, <1>3, <1>4, <1>5, <3>2, <4>1 DEF Placed
      <4> QED BY <4>2
    <3>3. CASE InPosted(c)
      <4>1. PICK p \in functions : functions = {p} BY <1>4, <3>3
      <4>2. owners = {<<"posted", p>>} BY <1>1, <1>2, <1>3, <1>5, <3>3, <4>1 DEF Placed
      <4> QED BY <4>2
    <3>4. CASE InOwed(c)
      <4>1. PICK t \in debtors : debtors = {t} BY <1>3, <3>4
      <4>2. owners = {<<"owed", t>>} BY <1>1, <1>2, <1>4, <1>5, <3>4, <4>1 DEF Placed
      <4> QED BY <4>2
    <3>5. CASE Answered(c)
      <4>1. PICK i \in entries : entries = {i} BY <1>5, <3>5
      <4>2. owners = {<<"log", i>>} BY <1>1, <1>2, <1>3, <1>4, <3>5, <4>1 DEF Placed
      <4> QED BY <4>2
    <3> QED BY <1>6, <3>1, <3>2, <3>3, <3>4, <3>5 DEF Placed
  <2> HIDE DEF owners
  <2>2. Cardinality(owners) = 1 BY <2>1, FS_Singleton
  <2> QED BY <2>2, <1>6 DEF carriers, holders, debtors, functions, entries, owners
<1>7. CASE ~Made(c)
  <2>1. owners = {} BY <1>1, <1>2, <1>3, <1>4, <1>5, <1>7 DEF Placed
  <2> HIDE DEF owners
  <2>2. Cardinality(owners) = 0 BY <2>1, FS_EmptySet
  <2> QED BY <2>2, <1>7 DEF carriers, holders, debtors, functions, entries, owners
<1> QED BY <1>6, <1>7

\* Calls, operations, posted functions and the log agree in any reachable state:
\* each handler passes its call on to one successor (socket.cpp:23-76).
THEOREM PlacesInvariance == Spec => [](Unowing /\ Placed /\ Once)
BY PlacedInit, PlacedStep, UnowingStep, Invariance, PTL DEF Spec

\* OneHandler: no handler is lost and none is called twice, whatever closes,
\* reconnections and overlapping calls happen (socket.cpp:23-76).
THEOREM HandlerIsUnique == Spec => []OneHandler
BY OwnerFromPlaced, PlacesInvariance, Invariance, PTL
-----------------------------------------------------------------------------
(* The calls under way *)

\* The log grows.
LEMMA LogGrows ==
  ASSUME Inv, [Next]_vars
  PROVE  /\ \A c \in Calls : Answered(c) => Answered(c)'
         /\ calls' # calls => log' = log /\ \E t \in Threads : ReadAsync(t)
<1> DEFINE Grown == /\ \A c \in Calls : Answered(c) => Answered(c)'
                    /\ calls' # calls => log' = log /\ \E t \in Threads : ReadAsync(t)
<1> SUFFICES Grown OBVIOUS
<1>1. CASE UNCHANGED <<log, calls>> BY <1>1 DEF Answered
<1>2. ASSUME NEW t \in Threads, CallHandler(t) PROVE Grown
  <2>1. owed[t] \in Answers BY <1>2, Typed DEF CallHandler, Inv, Owing
  <2>2. log' = Append(log, owed[t]) /\ calls' = calls BY <1>2 DEF CallHandler
  <2> QED BY <2>1, <2>2, Logged DEF Inv
<1>3. ASSUME NEW t \in Threads, NEW p \in posted, RunBusy(t, p) PROVE Grown
  <2>1. Error(p.call, "busy") \in Answers BY Typed, ErrorType DEF Codes
  <2>2. log' = Append(log, Error(p.call, "busy")) /\ calls' = calls BY <1>3 DEF RunBusy
  <2> QED BY <2>1, <2>2, Logged DEF Inv
<1>4. ASSUME NEW t \in Threads, ReadAsync(t) PROVE Grown
  BY <1>4 DEF ReadAsync, Answered
<1>5. CASE UNCHANGED vars BY <1>1, <1>5 DEF vars
<1>6. ASSUME NEW t \in Threads, CallStep(t) PROVE Grown
  BY <1>1, <1>4, <1>6 DEF CallStep, Close, OpenAsync
<1>7. ASSUME NEW t \in Threads, ThreadStep(t) PROVE Grown
  BY <1>1, <1>2, <1>7 DEF ThreadStep, MethodStep, Exchange, StartPeek, StartBody, Parse, Shutdown
<1>8. ASSUME NEW t \in Threads, NEW c \in Calls, IoTask(t, c) PROVE Grown
  <2>1. ASSUME NEW o \in ops,
               Failed(t, o) \/ PeekShort(t, o) \/ PeekFull(t, o) \/ Continue(t, o) \/ BodyDone(t, o)
        PROVE  UNCHANGED <<log, calls>>
    BY <2>1 DEF Failed, PeekShort, PeekFull, Continue, BodyDone
  <2>2. ASSUME NEW p \in posted, RunRepeek(t, p)
        PROVE  UNCHANGED <<log, calls>>
    BY <2>2 DEF RunRepeek
  <2> HIDE DEF Grown
  <2> QED BY <1>1, <1>3, <1>8, <2>1, <2>2 DEF IoTask
<1>9. CASE NetStep \/ PeerStep
  BY <1>1, <1>9 DEF NetStep, PeerStep, ReceiveStep, Connected, NetPeek, NetRead, NetFail, Arrive, Fin, Reset
<1> HIDE DEF Grown
<1> QED BY <1>5, <1>6, <1>7, <1>8, <1>9 DEF Next

\* A call of read_async makes one call.
LEMMA OneMade ==
  ASSUME Inv, NEW t \in Threads, ReadAsync(t)
  PROVE  \E d \in Calls : \A c \in Calls : Made(c)' <=> Made(c) \/ c = d
<1>t. calls \in [Callers -> 0..MaxReads] BY DEF Inv, TypeOK
<1>1. t \in Callers /\ calls \in [Callers -> Nat] /\ calls[t] < MaxReads BY <1>t DEF ReadAsync
<1>2. <<t, calls[t] + 1>> \in Calls BY <1>1 DEF Calls
<1>3. PICK d \in Calls : d = <<t, calls[t] + 1>> BY <1>2
<1>4. d[1] = t /\ d[2] = calls[t] + 1 BY <1>3
<1>6. calls' = [calls EXCEPT ![t] = @ + 1] BY DEF ReadAsync
<1>7. ASSUME NEW c \in Calls
      PROVE  Made(c)' <=> Made(c) \/ c = d
  <2>1. c[1] \in Callers /\ c[2] \in Nat /\ c = <<c[1], c[2]>> BY DEF Calls
  <2>2. CASE c[1] = t
    <3>1. calls'[c[1]] = calls[t] + 1 BY <1>1, <1>6, <2>2
    <3>2. c = d <=> c[2] = calls[t] + 1 BY <1>3, <2>1, <2>2
    <3> QED BY <1>1, <2>1, <2>2, <3>1, <3>2 DEF Made
  <2>3. CASE c[1] # t BY <1>1, <1>4, <1>6, <2>1, <2>3 DEF Made
  <2> QED BY <2>2, <2>3
<1> QED BY <1>7

\* A thread makes a call only when none is unanswered, or calls may overlap.
LEMMA SoloStep == ASSUME Inv, Solo, [Next]_vars PROVE Solo'
<1> SUFFICES ASSUME ~Overlap
             PROVE  \A c, d \in Calls : Made(c)' /\ ~Answered(c)' /\ Made(d)' /\ ~Answered(d)' => c = d
  BY DEF Solo
<1>1. CASE calls' = calls
  BY <1>1, LogGrows DEF Solo, Made
<1>2. CASE calls' # calls
  <2>1. PICK t \in Threads : ReadAsync(t) BY <1>2, LogGrows
  <2>2. \A c \in Calls : Made(c) => Answered(c) BY <2>1 DEF ReadAsync
  <2>3. PICK d \in Calls : \A c \in Calls : Made(c)' <=> Made(c) \/ c = d BY <2>1, OneMade
  <2>4. \A c \in Calls : Made(c) => Answered(c)' BY <2>2, LogGrows
  <2> QED BY <2>3, <2>4
<1> QED BY <1>1, <1>2
-----------------------------------------------------------------------------
(* Roles *)

\* Completions run on threads of the io_context.
LEMMA IoWorkStep == ASSUME Inv, IoWork, [Next]_vars PROVE IoWork'
<1>1. CASE UNCHANGED vars BY <1>1 DEF vars, IoWork
<1>2. ASSUME NEW t \in Threads, CallStep(t)
      PROVE  IoWork'
  BY <1>2 DEF CallStep, ReadAsync, Close, OpenAsync, Idle, Goto, threadVars, Inv, TypeOK, IoWork
<1>3. ASSUME NEW t \in Threads, ThreadStep(t)
      PROVE  IoWork'
  BY <1>3 DEF ThreadStep, MethodStep, Exchange, StartPeek, StartBody, Parse, CallHandler, Shutdown,
              Goto, Inv, TypeOK, IoWork
<1>4. ASSUME NEW t \in Threads, NEW c \in Calls, IoTask(t, c)
      PROVE  IoWork'
  BY <1>4 DEF IoTask, Failed, PeekShort, PeekFull, Continue, BodyDone, RunBusy, RunRepeek, Completing,
              Idle, Goto, threadVars, Inv, TypeOK, IoWork
<1>5. CASE NetStep \/ PeerStep
  BY <1>5 DEF NetStep, PeerStep, ReceiveStep, Connected, NetPeek, NetRead, NetFail, Arrive, Fin, Reset,
              threadVars, IoWork
<1> QED BY <1>1, <1>2, <1>3, <1>4, <1>5 DEF Next

\* _sock is half closed only while a thread closes it.
LEMMA ClosersStep == ASSUME Inv, ClosersClose, [Next]_vars PROVE ClosersClose'
<1>1. CASE UNCHANGED vars BY <1>1 DEF vars, ClosersClose
<1>2. ASSUME NEW t \in Threads, CallStep(t)
      PROVE  ClosersClose'
  BY <1>2 DEF CallStep, ReadAsync, Close, OpenAsync, Idle, Goto, threadVars, netVars, Unlocked,
              Inv, TypeOK, ClosersClose
<1>3. ASSUME NEW t \in Threads, ThreadStep(t)
      PROVE  ClosersClose'
  BY <1>3 DEF ThreadStep, MethodStep, Exchange, StartPeek, StartBody, Parse, CallHandler, Shutdown,
              Goto, netVars, Inv, TypeOK, ClosersClose
<1>4. ASSUME NEW t \in Threads, NEW c \in Calls, IoTask(t, c)
      PROVE  ClosersClose'
  BY <1>4 DEF IoTask, Failed, PeekShort, PeekFull, Continue, BodyDone, RunBusy, RunRepeek, Completing,
              Idle, Goto, threadVars, netVars, Inv, TypeOK, ClosersClose
<1>5. CASE NetStep \/ PeerStep
  BY <1>5 DEF NetStep, PeerStep, ReceiveStep, Connected, NetPeek, NetRead, NetFail, Arrive, Fin, Reset,
              threadVars, netVars, ClosersClose
<1> QED BY <1>1, <1>2, <1>3, <1>4, <1>5 DEF Next
-----------------------------------------------------------------------------
(* Operations *)

\* What comes of handing an operation to asio.
LEMMA Initiated ==
  ASSUME NEW o \in Ops, NEW want
  PROVE  /\ Initiate(o, want).kind = o.kind
         /\ Initiate(o, want).size = o.size
         /\ Initiate(o, want).st # "done" => Initiate(o, want).ec = o.ec
         /\ Initiate(o, want).ec = "ok" => o.ec = "ok"
         /\ Initiate(o, want).ec # "ok" => o.ec # "ok" \/ sock = "closed"
         /\ Initiate(o, want).st = "done" /\ Initiate(o, want).ec = "ok" =>
              sock = "closing" \/ (o.kind = "body" /\ want = 0)
         /\ sock = "closed" => Initiate(o, want).ec # "ok" \/ (o.kind = "body" /\ want = 0)
BY DEF Ops, Initiate

\* An operation as it starts.
LEMMA Started ==
  ASSUME NEW kind \in {"peek", "body"}, NEW c \in Calls
  PROVE  Operation(kind, c) \in Ops /\ Operation(kind, c).kind = kind
         /\ Operation(kind, c).ec = "ok" /\ Operation(kind, c).size = 0
BY OperationType DEF Operation

\* An operation that is closed.
LEMMA Closed ==
  ASSUME NEW o \in Ops
  PROVE  /\ Aborted(o).kind = o.kind
         /\ Aborted(o) = o \/ (Aborted(o).ec # "ok" /\ Aborted(o).st = "done")
BY DEF Ops, Aborted

\* Where the operations of the next state come from.
LEMMA OpsFrom ==
  ASSUME Inv, [Next]_vars, NEW q \in ops'
  PROVE  \/ q \in ops
         \/ /\ \E t \in Threads : StartPeek(t)
            /\ q.kind = "peek" /\ (q.st # "done" => q.ec = "ok")
            /\ sock = "closed" => q.ec # "ok"
         \/ /\ \E t \in Threads : StartBody(t)
            /\ q.kind = "body" /\ (q.st # "done" => q.ec = "ok")
         \/ \E o \in ops :
              /\ q.kind = o.kind
              /\ q.ec = "ok" => o.ec = "ok"
              /\ q.st # "done" => q.ec = o.ec /\ o.st # "done"
<1> DEFINE New == \/ q \in ops
                  \/ /\ \E t \in Threads : StartPeek(t)
                     /\ q.kind = "peek" /\ (q.st # "done" => q.ec = "ok")
                     /\ sock = "closed" => q.ec # "ok"
                  \/ /\ \E t \in Threads : StartBody(t)
                     /\ q.kind = "body" /\ (q.st # "done" => q.ec = "ok")
                  \/ \E o \in ops :
                       /\ q.kind = o.kind
                       /\ q.ec = "ok" => o.ec = "ok"
                       /\ q.st # "done" => q.ec = o.ec /\ o.st # "done"
<1> SUFFICES New OBVIOUS
<1>t. \A o \in ops : o \in Ops BY DEF Inv, TypeOK
<1>1. CASE \A o \in ops' : o \in ops BY <1>1
<1>2. ASSUME NEW t \in Threads, Close(t) PROVE New
  <2>1. PICK o \in ops : q = Aborted(o) BY <1>2 DEF Close
  <2>2. q = o \/ (q.kind = o.kind /\ q.ec # "ok" /\ q.st = "done") BY <1>t, <2>1, Closed
  <2> QED BY <2>2
<1>3. ASSUME NEW t \in Threads, StartPeek(t) PROVE New
  <2>1. cur[t] \in Calls BY <1>3, Typed DEF StartPeek, Inv, Carried
  <2>2. PICK o \in Ops : o = Operation("peek", cur[t]) BY <2>1, Started
  <2>3. o.kind = "peek" /\ o.ec = "ok" BY <2>1, <2>2, Started
  <2>4. q \in ops \/ q = Initiate(o, LengthSize) BY <1>3, <2>2 DEF StartPeek
  <2> QED BY <1>3, <2>3, <2>4, Initiated
<1>4. ASSUME NEW t \in Threads, StartBody(t) PROVE New
  <2>1. cur[t] \in Calls BY <1>4, Typed DEF StartBody, Inv, Carried
  <2>2. PICK o \in Ops : o = Operation("body", cur[t]) BY <2>1, Started
  <2>3. o.kind = "body" /\ o.ec = "ok" BY <2>1, <2>2, Started
  <2>4. q \in ops \/ q = Initiate(o, Len(rbuf)) BY <1>4, <2>2 DEF StartBody
  <2> QED BY <1>4, <2>3, <2>4, Initiated
<1>5. ASSUME NEW t \in Threads, NEW o \in ops, Continue(t, o) PROVE New
  <2>1. q \in ops \/ q = Initiate(o, Len(rbuf) - o.size) BY <1>5 DEF Continue
  <2>2. o.st # "done" BY <1>5 DEF Continue
  <2> QED BY <1>t, <2>1, <2>2, Initiated
<1>6. ASSUME NEW o \in ops, NetPeek(o) PROVE New
  <2>1. PICK m : m = Smaller(LengthSize, Available) OBVIOUS
  <2>2. CASE q = [o EXCEPT !.size = m, !.st = "done"]
    <3>1. q.kind = o.kind /\ q.ec = o.ec /\ q.st = "done" BY <1>t, <2>2 DEF Ops
    <3> QED BY <3>1
  <2>3. q \in ops \/ q = [o EXCEPT !.size = m, !.st = "done"] BY <1>6, <2>1 DEF NetPeek, Finish
  <2> QED BY <2>2, <2>3
<1>7. ASSUME NEW o \in ops, NEW n \in 1..Len(Stream), NetRead(o, n) PROVE New
  <2>1. PICK m : m = o.size + n OBVIOUS
  <2>2. PICK st : st = IF o.size + n = Len(rbuf) THEN "done" ELSE "more" OBVIOUS
  <2>3. CASE q = [o EXCEPT !.size = m, !.st = st]
    <3>1. q.kind = o.kind /\ q.ec = o.ec BY <1>t, <2>3 DEF Ops
    <3>2. o.st # "done" BY <1>7 DEF NetRead
    <3> QED BY <3>1, <3>2
  <2>4. q \in ops \/ q = [o EXCEPT !.size = m, !.st = st] BY <1>7, <2>1, <2>2 DEF NetRead, Finish
  <2> QED BY <2>3, <2>4
<1>8. ASSUME NEW o \in ops, NetFail(o) PROVE New
  <2>1. ASSUME NEW ec \in {"eof", "failed"}, q = [o EXCEPT !.st = "done", !.ec = ec] PROVE New
    <3>1. q.kind = o.kind /\ q.ec = ec /\ q.st = "done" BY <1>t, <2>1 DEF Ops
    <3> QED BY <2>1, <3>1
  <2>2. q \in ops \/ \E ec \in {"eof", "failed"} : q = [o EXCEPT !.st = "done", !.ec = ec]
    BY <1>8 DEF NetFail, Finish
  <2> QED BY <2>1, <2>2
<1>9. CASE UNCHANGED vars BY <1>1, <1>9 DEF vars
<1>10. ASSUME NEW t \in Threads, CallStep(t) PROVE New
  BY <1>1, <1>2, <1>10 DEF CallStep, ReadAsync, OpenAsync
<1>11. ASSUME NEW t \in Threads, ThreadStep(t) PROVE New
  BY <1>1, <1>3, <1>4, <1>11 DEF ThreadStep, MethodStep, Exchange, Parse, CallHandler, Shutdown
<1>12. ASSUME NEW t \in Threads, NEW c \in Calls, IoTask(t, c) PROVE New
  BY <1>1, <1>5, <1>12 DEF IoTask, Failed, PeekShort, PeekFull, BodyDone, RunBusy, RunRepeek
<1>13. CASE NetStep \/ PeerStep
  BY <1>1, <1>6, <1>7, <1>8, <1>13 DEF NetStep, PeerStep, ReceiveStep, Connected, Arrive, Fin, Reset
<1> HIDE DEF New
<1> QED BY <1>9, <1>10, <1>11, <1>12, <1>13 DEF Next

\* An operation that fails is over.
LEMMA RunningStep == ASSUME Inv, Running, [Next]_vars PROVE Running'
BY OpsFrom DEF Running
-----------------------------------------------------------------------------
(* Where the reads are *)

\* Labels "body" and "parse" are entered by the completion of a peek and of a body.
LEMMA Entered ==
  ASSUME Inv, [Next]_vars, NEW t \in Threads
  PROVE  /\ pc[t]' = "body" => pc[t] = "body" \/ \E o \in ops : PeekFull(t, o)
         /\ pc[t]' = "parse" => pc[t] = "parse" \/ \E o \in ops : BodyDone(t, o)
<1> DEFINE In == /\ pc[t]' = "body" => pc[t] = "body" \/ \E o \in ops : PeekFull(t, o)
                 /\ pc[t]' = "parse" => pc[t] = "parse" \/ \E o \in ops : BodyDone(t, o)
<1> SUFFICES In OBVIOUS
<1>t. pc \in [Threads -> {"idle", "exchange", "peek", "body", "parse", "handler", "closing"}]
  BY DEF Inv, TypeOK
<1>1. CASE pc[t]' \in {pc[t], "idle", "exchange", "peek", "handler", "closing"} BY <1>1
<1> HIDE DEF In
<1>2. CASE UNCHANGED vars BY <1>1, <1>2 DEF vars
<1>3. ASSUME NEW u \in Threads, CallStep(u) PROVE In
  BY <1>t, <1>1, <1>3 DEF CallStep, ReadAsync, Close, OpenAsync, Goto, threadVars
<1>4. ASSUME NEW u \in Threads, ThreadStep(u) PROVE In
  BY <1>t, <1>1, <1>4 DEF ThreadStep, MethodStep, Exchange, StartPeek, StartBody, Parse, CallHandler,
                          Shutdown, Goto
<1>5. ASSUME NEW u \in Threads, NEW o \in ops, PeekFull(u, o) PROVE In
  BY <1>t, <1>5 DEF PeekFull, Goto, In
<1>6. ASSUME NEW u \in Threads, NEW o \in ops, BodyDone(u, o) PROVE In
  BY <1>t, <1>6 DEF BodyDone, Goto, In
<1>7. ASSUME NEW u \in Threads, NEW c \in Calls, IoTask(u, c) PROVE In
  BY <1>t, <1>1, <1>5, <1>6, <1>7
  DEF IoTask, Failed, PeekShort, Continue, RunBusy, RunRepeek, Goto, threadVars
<1>8. CASE NetStep \/ PeerStep
  BY <1>1, <1>8 DEF NetStep, PeerStep, ReceiveStep, Connected, NetPeek, NetRead, NetFail, Arrive, Fin,
                    Reset, threadVars
<1> QED BY <1>2, <1>3, <1>4, <1>7, <1>8 DEF Next

\* While a thread parses, no body is asked for.
LEMMA NoOtherRead ==
  ASSUME Inv, Placed, Solo, IoWork, Orderly, NEW t \in Threads, pc[t] = "parse",
         NEW u \in Threads, NEW o \in ops
  PROVE  ~PeekFull(u, o) /\ ~BodyDone(u, o)
<1>1. SUFFICES ASSUME u \in IoThreads, pc[u] = "idle" PROVE FALSE
  BY DEF PeekFull, BodyDone, Completing, Idle
<1>2. u # t BY <1>1
<1>3. ~Overlap BY <1>1, <1>2 DEF Orderly, OneIo, IoWork
<1>4. cur[t] \in Calls BY Typed DEF Inv, Carried
<1>5. InThread(cur[t]) BY DEF InThread
<1>6. InOp(o.call) /\ o.call \in Calls BY Typed DEF InOp
<1> QED BY <1>3, <1>4, <1>5, <1>6 DEF Placed, Solo

\* While a thread parses, the next read gets no further than its peek: no other
\* thread is there to run the peek's completion, or there is no next read yet.
LEMMA ParseAloneStep ==
  ASSUME Inv, Placed, Solo, IoWork, Orderly, ParseAlone, [Next]_vars
  PROVE  ParseAlone'
<1> SUFFICES ASSUME NEW t \in Threads, pc[t]' = "parse"
             PROVE  /\ \A o \in ops' : o.kind = "peek"
                    /\ \A u \in Threads : pc[u]' # "body"
  BY DEF ParseAlone
<1>1. CASE pc[t] = "parse"
  <2>1. \A u \in Threads : pc[u]' # "body"
    BY <1>1, Entered, NoOtherRead DEF ParseAlone
  <2>2. \A u \in Threads : ~StartBody(u) BY <1>1 DEF ParseAlone, StartBody
  <2>3. \A o \in ops' : o.kind = "peek" BY <1>1, <2>2, OpsFrom DEF ParseAlone
  <2> QED BY <2>1, <2>3
<1>2. CASE pc[t] # "parse"
  <2>1. PICK o \in ops : BodyDone(t, o) BY <1>2, Entered
  <2>2. ops' = {} BY <2>1 DEF BodyDone, Inv, ExclusiveReader
  <2>3. \A u \in Threads : pc[u] # "body" BY DEF Inv, ExclusiveReader, Reader
  <2>4. \A u \in Threads : pc[u]' # "body"
    BY <2>1, <2>3 DEF BodyDone, Goto, Inv, TypeOK
  <2> QED BY <2>2, <2>4
<1> QED BY <1>1, <1>2

\* A step that leaves _sock closed finds it closed, or closes it.
LEMMA StaysClosed ==
  ASSUME Inv, ClosersClose, [Next]_vars, closes' = 0, sock' = "closed"
  PROVE  closes = 0 /\ sock = "closed"
<1>t. closes \in Nat BY DEF Inv, TypeOK
<1>1. CASE UNCHANGED <<closes, sock>> BY <1>1
<1>2. CASE UNCHANGED vars BY <1>1, <1>2 DEF vars
<1>3. ASSUME NEW t \in Threads, CallStep(t) PROVE closes = 0 /\ sock = "closed"
  BY <1>t, <1>1, <1>3 DEF CallStep, ReadAsync, Close, OpenAsync, netVars
<1>4. ASSUME NEW t \in Threads, ThreadStep(t) PROVE closes = 0 /\ sock = "closed"
  BY <1>t, <1>1, <1>4 DEF ThreadStep, MethodStep, Exchange, StartPeek, StartBody, Parse, CallHandler,
                          Shutdown, netVars, ClosersClose, Inv, TypeOK
<1>5. ASSUME NEW t \in Threads, NEW c \in Calls, IoTask(t, c) PROVE closes = 0 /\ sock = "closed"
  BY <1>1, <1>5 DEF IoTask, Failed, PeekShort, PeekFull, Continue, BodyDone, RunBusy, RunRepeek, netVars
<1>6. CASE NetStep \/ PeerStep
  BY <1>1, <1>6 DEF NetStep, PeerStep, ReceiveStep, Connected, NetPeek, NetRead, NetFail, Arrive, Fin,
                    Reset, netVars
<1> QED BY <1>2, <1>3, <1>4, <1>5, <1>6 DEF Next

\* An operation that starts on a closed descriptor fails.
LEMMA FreshStep ==
  ASSUME Inv, ClosersClose, Fresh, [Next]_vars
  PROVE  Fresh'
<1> SUFFICES ASSUME closes' = 0, sock' = "closed"
             PROVE  (\A o \in ops' : o.ec # "ok") /\ \A t \in Threads : pc[t]' # "body"
  BY DEF Fresh
<1>1. closes = 0 /\ sock = "closed" BY StaysClosed
<1>2. (\A o \in ops : o.ec # "ok") /\ \A t \in Threads : pc[t] # "body" BY <1>1 DEF Fresh
<1>3. \A o \in ops' : o.ec # "ok" BY <1>1, <1>2, OpsFrom DEF StartBody
<1>4. \A t \in Threads : pc[t]' # "body" BY <1>2, Entered DEF PeekFull
<1> QED BY <1>3, <1>4

\* The first part of the invariant is kept ...
LEMMA BaseStep ==
  ASSUME Inv, Placed, Orderly, Base, [Next]_vars
  PROVE  Base'
BY RunningStep, SoloStep, IoWorkStep, ClosersStep, ParseAloneStep, FreshStep DEF Base

\* ... and holds at first.
LEMMA BaseInit == Init => Base
<1> SUFFICES ASSUME Init PROVE Base OBVIOUS
<1>1. \A c \in Calls : ~Made(c) BY DEF Init, Made, Calls
<1> QED BY <1>1 DEF Init, Base, Running, Solo, IoWork, ClosersClose, ParseAlone, Fresh
-----------------------------------------------------------------------------
(* Steps that take no octets *)

Buffers == <<lbuf, rbuf, taken, conn>>

\* The buffers and the stream stay, and no operation gets any further.
LEMMA Undisturbed ==
  ASSUME Announces, Sized, Fills, Parsed, UNCHANGED Buffers,
         \A o \in ops' : o \in ops \/ o.ec # "ok" \/ (o.kind = "peek" /\ o.st # "done"),
         \A t \in Threads : pc[t]' \in {"body", "parse"} => pc[t]' = pc[t]
  PROVE  Announces' /\ Sized' /\ Fills' /\ Parsed'
<1>1. Announces' BY DEF Announces, Buffers
<1>2. Sized' BY DEF Sized, Buffers
<1>3. Fills' BY DEF Fills, Filled, Body, Receive, Buffers
<1>4. Parsed' BY DEF Parsed, Buffers
<1> QED BY <1>1, <1>2, <1>3, <1>4

\* The stream stays where it is, at a boundary or at an end.
LEMMA StillAligned ==
  ASSUME Aligned, UNCHANGED taken, fin => fin' /\ arrived' = arrived,
         sock' \in {"connecting", "connected"} => sock \in {"connecting", "connected"},
         (\A o \in ops' : ~Body(o)) => \A o \in ops : ~Body(o)
  PROVE  Aligned'
BY DEF Aligned, Boundary, AtPdu, Body

\* A handler that is called or owed is given what it was.
LEMMA StillKept == ASSUME Kept, UNCHANGED <<owed, log>> PROVE Kept'
<1>1. \A t \in Threads : owed[t]' # NoAnswer => Whole(owed[t]'.pdu) BY DEF Kept
<1>2. \A i \in DOMAIN log' : Whole(log'[i].pdu) BY DEF Kept, DeliveredWhole
<1> QED BY <1>1, <1>2 DEF Kept, DeliveredWhole, Whole

\* An error comes with no PDU.
LEMMA NoneWhole == \A c, ec : Whole(Error(c, ec).pdu)
BY DEF Error, Whole

\* A whole PDU is added to the log.
LEMMA AppendKept ==
  ASSUME Inv, Kept, NEW a \in Answers, Whole(a.pdu), log' = Append(log, a),
         \A t \in Threads : owed[t]' # NoAnswer => owed[t]' = owed[t]
  PROVE  Kept'
<1>1. /\ DOMAIN log' = DOMAIN log \cup {Len(log) + 1}
      /\ \A i \in DOMAIN log : log'[i] = log[i]
      /\ log'[Len(log) + 1] = a
  BY Logged DEF Inv
<1>2. \A i \in DOMAIN log : Whole(log[i].pdu) BY DEF Kept, DeliveredWhole
<1>3. \A i \in DOMAIN log' : Whole(log'[i].pdu) BY <1>1, <1>2
<1>4. \A t \in Threads : owed[t]' # NoAnswer => Whole(owed[t]'.pdu) BY DEF Kept
<1> QED BY <1>3, <1>4 DEF Kept, DeliveredWhole, Whole

\* Steps between which the reads stay as they are.
LEMMA QuietFramed ==
  ASSUME Inv, Framed, UNCHANGED Buffers, UNCHANGED <<sock, arrived, fin>>,
         \A o \in ops' : o \in ops \/ (o.kind = "peek" /\ (o.ec # "ok" \/ o.st # "done")),
         \A o \in ops : Body(o) => o \in ops',
         \A t \in Threads : pc[t]' \in {"body", "parse"} => pc[t]' = pc[t],
         Kept'
  PROVE  Framed'
<1>1. Announces' /\ Sized' /\ Fills' /\ Parsed' BY Undisturbed DEF Framed
<1>2. Aligned' BY StillAligned DEF Framed, Buffers
<1> QED BY <1>1, <1>2 DEF Framed

\* read_async.
LEMMA CallFramed ==
  ASSUME Inv, Framed, NEW t \in Threads, ReadAsync(t) \/ Exchange(t)
  PROVE  Framed'
<1>1. UNCHANGED Buffers /\ UNCHANGED <<sock, arrived, fin, ops, owed, log>>
  BY DEF ReadAsync, Exchange, Buffers, bufVars, netVars
<1>2. \A u \in Threads : pc[u]' \in {"body", "parse"} => pc[u]' = pc[u]
  BY DEF ReadAsync, Exchange, Goto, Inv, TypeOK
<1>3. Kept' BY <1>1, StillKept DEF Framed
<1> QED BY <1>1, <1>2, <1>3, QuietFramed

\* A peek that starts has copied nothing.
LEMMA StartPeekFramed ==
  ASSUME Inv, Framed, NEW t \in Threads, StartPeek(t)
  PROVE  Framed'
<1>1. UNCHANGED Buffers /\ UNCHANGED <<sock, arrived, fin, owed, log>>
  BY DEF StartPeek, Buffers, bufVars, netVars
<1>2. \A u \in Threads : pc[u]' \in {"body", "parse"} => pc[u]' = pc[u]
  BY DEF StartPeek, Goto, Inv, TypeOK
<1>3. PICK q : q = Initiate(Operation("peek", cur[t]), LengthSize) /\ ops' = ops \cup {q}
  BY DEF StartPeek
<1>4. q.kind = "peek" /\ (q.ec # "ok" \/ q.st # "done")
  <2>1. cur[t] \in Calls BY Typed DEF StartPeek, Inv, Carried
  <2>2. Operation("peek", cur[t]) \in Ops /\ Operation("peek", cur[t]).kind = "peek" BY <2>1, Started
  <2>3. sock # "closing" BY DEF StartPeek, Unlocked
  <2> QED BY <1>3, <2>2, <2>3, Initiated
<1>5. Kept' BY <1>1, StillKept DEF Framed
<1> QED BY <1>1, <1>2, <1>3, <1>4, <1>5, QuietFramed

\* Posted functions.
LEMMA PostedFramed ==
  ASSUME Inv, Framed, NEW t \in Threads, NEW p \in posted, RunBusy(t, p) \/ RunRepeek(t, p)
  PROVE  Framed'
<1>1. UNCHANGED Buffers /\ UNCHANGED <<sock, arrived, fin, ops, owed>>
  BY DEF RunBusy, RunRepeek, Buffers, bufVars, netVars, threadVars
<1>2. \A u \in Threads : pc[u]' \in {"body", "parse"} => pc[u]' = pc[u]
  BY DEF RunBusy, RunRepeek, Goto, Inv, TypeOK, threadVars
<1>3. CASE RunRepeek(t, p)
  <2>1. Kept' BY <1>1, <1>3, StillKept DEF Framed, RunRepeek
  <2> QED BY <1>1, <1>2, <2>1, QuietFramed
<1>4. CASE RunBusy(t, p)
  <2>1. Error(p.call, "busy") \in Answers BY Typed, ErrorType DEF Codes
  <2>2. log' = Append(log, Error(p.call, "busy")) BY <1>4 DEF RunBusy
  <2>3. Kept' BY <1>1, <2>1, <2>2, NoneWhole, AppendKept DEF Framed
  <2> QED BY <1>1, <1>2, <2>3, QuietFramed
<1> QED BY <1>3, <1>4

\* The handler is given what it is owed.
LEMMA CallHandlerFramed ==
  ASSUME Inv, Framed, NEW t \in Threads, CallHandler(t)
  PROVE  Framed'
<1>1. UNCHANGED Buffers /\ UNCHANGED <<sock, arrived, fin, ops>>
  BY DEF CallHandler, Buffers, bufVars, netVars
<1>2. \A u \in Threads : pc[u]' \in {"body", "parse"} => pc[u]' = pc[u]
  BY DEF CallHandler, Goto, Inv, TypeOK
<1>3. owed[t] \in Answers /\ owed[t] # NoAnswer BY Typed DEF CallHandler, Inv, Owing
<1>4. Whole(owed[t].pdu) BY <1>3 DEF Framed, Kept
<1>5. log' = Append(log, owed[t]) /\ owed' = [owed EXCEPT ![t] = NoAnswer] BY DEF CallHandler, Owe
<1>6. \A u \in Threads : owed[u]' # NoAnswer => owed[u]' = owed[u] BY <1>5, Typed
<1>7. Kept' BY <1>3, <1>4, <1>5, <1>6, AppendKept DEF Framed
<1> QED BY <1>1, <1>2, <1>7, QuietFramed

\* An answer that is whole is owed.
LEMMA OweKept ==
  ASSUME Inv, Kept, NEW t \in Threads, NEW a \in Answers, Whole(a.pdu), owed' = [owed EXCEPT ![t] = a],
         UNCHANGED log
  PROVE  Kept'
<1>1. \A u \in Threads : owed[u]' = IF u = t THEN a ELSE owed[u] BY Typed
<1>2. \A u \in Threads : owed[u]' # NoAnswer => Whole(owed[u]'.pdu) BY <1>1 DEF Kept
<1>3. \A i \in DOMAIN log' : Whole(log'[i].pdu) BY DEF Kept, DeliveredWhole
<1> QED BY <1>2, <1>3 DEF Kept, DeliveredWhole, Whole

\* The parsed PDU is _read_buff.
LEMMA ParseFramed ==
  ASSUME Inv, Framed, NEW t \in Threads, Parse(t)
  PROVE  Framed'
<1>1. UNCHANGED Buffers /\ UNCHANGED <<sock, arrived, fin, ops, log>>
  BY DEF Parse, Buffers, bufVars, netVars
<1>2. \A u \in Threads : pc[u]' \in {"body", "parse"} => pc[u]' = pc[u]
  BY DEF Parse, Goto, Inv, TypeOK
<1>3. PICK a : a = [call |-> cur[t], ec |-> IF Len(rbuf) >= MinLen THEN "ok" ELSE "protocol", pdu |-> rbuf]
  OBVIOUS
<1>4. a \in Answers /\ a.pdu = rbuf
  BY <1>3, Typed DEF Parse, Inv, Carried, TypeOK, Answers, Codes
<1>5. Whole(rbuf) BY DEF Parse, Framed, Parsed
<1>6. owed' = [owed EXCEPT ![t] = a] BY <1>3 DEF Parse, Owe
<1>7. Kept' BY <1>1, <1>4, <1>5, <1>6, OweKept DEF Framed
<1> QED BY <1>1, <1>2, <1>7, QuietFramed

\* The completion of an operation that failed changes no octet.
LEMMA FailedFramed ==
  ASSUME Inv, Framed, NEW t \in Threads, NEW o \in ops, Failed(t, o) \/ PeekShort(t, o)
  PROVE  Framed'
<1>1. UNCHANGED Buffers /\ UNCHANGED <<sock, arrived, fin, log>> /\ ops' = ops \ {o}
  BY DEF Failed, PeekShort, Buffers, bufVars, netVars
<1>2. \A u \in Threads : pc[u]' \in {"body", "parse"} => pc[u]' = pc[u]
  BY DEF Failed, PeekShort, Goto, Inv, TypeOK, threadVars
<1>3. \A q \in ops : Body(q) => q \in ops' BY <1>1 DEF Failed, PeekShort, Body
<1>4. CASE Failed(t, o)
  <2>1. Error(o.call, o.ec) \in Answers BY Typed, ErrorType
  <2>2. owed' = [owed EXCEPT ![t] = Error(o.call, o.ec)] BY <1>4 DEF Failed, Owe
  <2>3. Kept' BY <1>1, <2>1, <2>2, NoneWhole, OweKept DEF Framed
  <2> QED BY <1>1, <1>2, <1>3, <2>3, QuietFramed
<1>5. CASE PeekShort(t, o)
  <2>1. Kept' BY <1>1, <1>5, StillKept DEF Framed, PeekShort, threadVars
  <2> QED BY <1>1, <1>2, <1>3, <2>1, QuietFramed
<1> QED BY <1>4, <1>5
-----------------------------------------------------------------------------
(* Steps of the connection *)

\* Aborted reads leave a socket that is not connected.
LEMMA CloseFramed ==
  ASSUME Inv, Framed, NEW t \in Threads, Close(t)
  PROVE  Framed'
<1>1. UNCHANGED Buffers /\ UNCHANGED <<owed, log>>
  BY DEF Close, Buffers, bufVars
<1>2. \A u \in Threads : pc[u]' \in {"body", "parse"} => pc[u]' = pc[u]
  BY DEF Close, Goto, Inv, TypeOK
<1>3. \A o \in ops' : o \in ops \/ o.ec # "ok"
  BY Closed DEF Close, Inv, TypeOK
<1>4. sock' \notin {"connecting", "connected"} BY DEF Close
<1>5. Announces' /\ Sized' /\ Fills' /\ Parsed' BY <1>1, <1>2, <1>3, Undisturbed DEF Framed
<1>6. Aligned' BY <1>4 DEF Aligned
<1>7. Kept' BY <1>1, StillKept DEF Framed
<1> QED BY <1>5, <1>6, <1>7 DEF Framed

\* Connection, end and reset.
LEMMA SockFramed ==
  ASSUME Inv, Framed, Connected \/ Reset \/ Arrive \/ Fin \/ \E t \in Threads : Shutdown(t)
  PROVE  Framed'
<1>1. UNCHANGED Buffers /\ UNCHANGED <<owed, log, ops>>
  BY DEF Connected, Reset, Arrive, Fin, Shutdown, Buffers, bufVars, threadVars
<1>2. \A u \in Threads : pc[u]' \in {"body", "parse"} => pc[u]' = pc[u]
  BY DEF Connected, Reset, Arrive, Fin, Shutdown, Goto, threadVars, Inv, TypeOK
<1>3. Announces' /\ Sized' /\ Fills' /\ Parsed' BY <1>1, <1>2, Undisturbed DEF Framed
<1>4. Aligned'
  <2>1. /\ fin => fin' /\ arrived' = arrived
        /\ sock' \in {"connecting", "connected"} => sock \in {"connecting", "connected"}
    BY DEF Connected, Reset, Arrive, Fin, Shutdown, Inv, TypeOK
  <2> QED BY <1>1, <2>1, StillAligned DEF Framed, Buffers
<1>5. Kept' BY <1>1, StillKept DEF Framed
<1> QED BY <1>3, <1>4, <1>5 DEF Framed

\* End of file is where all that the peer sent has been taken; another error is the end
\* of the connection.
LEMMA NetFailFramed ==
  ASSUME Inv, Framed, NEW o \in ops, NetFail(o)
  PROVE  Framed'
<1>1. UNCHANGED Buffers /\ UNCHANGED <<owed, log, pc, sock, arrived, fin>>
  BY DEF NetFail, Buffers, bufVars, threadVars, netVars
<1>2. \A q \in ops' : q \in ops \/ q.ec # "ok"
  <2>1. o \in Ops BY DEF Inv, TypeOK
  <2>2. \A q \in ops' : q \in ops \/ q = [o EXCEPT !.st = "done", !.ec = "eof"]
                                 \/ q = [o EXCEPT !.st = "done", !.ec = "failed"]
    BY DEF NetFail, Finish
  <2> QED BY <2>1, <2>2 DEF Ops
<1>3. Announces' /\ Sized' /\ Fills' /\ Parsed' BY <1>1, <1>2, Undisturbed DEF Framed
<1>4. sock \in {"connecting", "connected"} => fin /\ taken = arrived
  BY DEF NetFail, Available, Inv, TypeOK
<1>5. Aligned' BY <1>1, <1>4 DEF Aligned, Buffers
<1>6. Kept' BY <1>1, StillKept DEF Framed
<1> QED BY <1>3, <1>5, <1>6 DEF Framed

\* A connection starts with no read that an earlier one has begun.
LEMMA OpenAsyncFramed ==
  ASSUME Inv, Placed, Fresh, Framed, NEW t \in Threads, OpenAsync(t), AtRest
  PROVE  Framed'
<1>1. UNCHANGED <<lbuf, rbuf, owed, log, ops, pc, closes>> /\ taken' = 0 /\ conn' # conn /\ sock = "closed"
  BY DEF OpenAsync, bufVars, threadVars, Inv, TypeOK
<1>2. \A o \in ops : o.ec # "ok"
  <2>1. CASE closes = 0 BY <1>1, <2>1 DEF Fresh
  <2>2. CASE closes > 0
    <3>1. \A c \in Calls : ~InOp(c) BY <1>1, <2>2 DEF AtRest, Placed
    <3> QED BY <3>1, Typed DEF InOp
  <2> QED BY <2>1, <2>2 DEF Inv, TypeOK
<1>3. \A u \in Threads : pc[u] # "body"
  <2>1. CASE closes = 0 BY <1>1, <2>1 DEF Fresh
  <2>2. CASE closes > 0
    <3>1. \A c \in Calls : ~InThread(c) BY <1>1, <2>2 DEF AtRest, Placed
    <3> QED BY <3>1, Typed DEF InThread, Inv, Carried
  <2> QED BY <2>1, <2>2 DEF Inv, TypeOK
<1>4. Announces' /\ Fills' BY <1>1, <1>2 DEF Announces, Fills, Body
<1>5. Sized' BY <1>1, <1>3 DEF Sized
<1>6. Aligned'
  <2>1. Len(Stream) \in Nat /\ (Len(Stream) > 0 => Stream[1].pos = 1)
    BY StreamAssumption, LenProperties
  <2>2. Boundary(0) BY <2>1 DEF Boundary, AtPdu
  <2> QED BY <1>1, <2>2 DEF Aligned, Boundary, AtPdu
<1>7. Parsed' BY <1>1 DEF Framed, Parsed, Whole
<1>8. Kept' BY <1>1, StillKept DEF Framed
<1> QED BY <1>4, <1>5, <1>6, <1>7, <1>8 DEF Framed
-----------------------------------------------------------------------------
(* Steps that take octets, or that decide how many to take *)

\* There is one operation, and while there is one no thread starts another.
LEMMA TheOperation ==
  ASSUME Inv, NEW o \in ops
  PROVE  ops = {o} /\ \A t \in Threads : pc[t] \notin {"peek", "body"}
BY DEF Inv, ExclusiveReader, Reader

\* While a thread is about to start an operation there is none.
LEMMA TheReader ==
  ASSUME Inv, NEW t \in Threads, pc[t] \in {"peek", "body"}
  PROVE  ops = {} /\ \A u \in Threads : pc[u] \in {"peek", "body"} => u = t
BY DEF Inv, ExclusiveReader, Reader

\* The octets in the kernel's buffer are of the stream.
LEMMA Counts ==
  ASSUME Inv
  PROVE  /\ Len(Stream) \in Nat /\ taken \in Nat /\ arrived \in Nat /\ taken <= arrived
         /\ arrived <= Len(Stream) /\ Len(rbuf) \in Nat /\ DOMAIN rbuf = 1..Len(rbuf)
         /\ \A o \in ops : o.size \in Nat
<1>1. Len(Stream) \in Nat BY StreamAssumption, LenProperties
<1>2. Len(rbuf) \in Nat /\ DOMAIN rbuf = 1..Len(rbuf) BY LenProperties DEF Inv, TypeOK
<1>3. \A o \in ops : o.size \in Nat BY DEF Inv, TypeOK, Ops
<1>4. arrived \in 0..Len(Stream) /\ taken \in 0..arrived BY DEF Inv, TypeOK
<1> QED BY <1>1, <1>2, <1>3, <1>4

\* The announced length is that of the PDU at whose start the stream is.
LEMMA PeekFullFramed ==
  ASSUME Inv, Placed, Solo, IoWork, Orderly, Framed, NEW t \in Threads, NEW o \in ops, PeekFull(t, o)
  PROVE  Framed'
<1>1. ops' = {} /\ UNCHANGED <<lbuf, taken, conn, sock, arrived, fin, owed, log>>
  BY TheOperation DEF PeekFull, netVars
<1>2. \A u \in Threads : pc[u]' = IF u = t THEN "body" ELSE pc[u]
  BY DEF PeekFull, Goto, Inv, TypeOK
<1>3. o.size > 0 BY Counts DEF PeekFull, Completing, Inv, TypeOK
<1>4. AtPdu(taken) /\ lbuf[1].pos = 1 /\ lbuf[1].len = Stream[taken + 1].len
  BY <1>3 DEF PeekFull, Completing, Framed, Announces
<1>5. Len(rbuf') = Stream[taken + 1].len
  <2>1. rbuf' = Resize(rbuf, lbuf[1].len) BY <1>4 DEF PeekFull, Announced
  <2>2. Stream[taken + 1] \in Octets BY <1>4, Counts, StreamAssumption, ElementOfSeq DEF AtPdu
  <2>3. PICK n \in Nat : n = lbuf[1].len BY <1>4, <2>2 DEF Octets
  <2>4. Len(Resize(rbuf, n)) = n BY ResizeType DEF Inv, TypeOK
  <2> QED BY <1>4, <2>1, <2>3, <2>4
<1>6. Announces' /\ Fills' BY <1>1 DEF Announces, Fills
<1>7. Sized'
  <2>1. AtPdu(taken') /\ Len(rbuf') = Stream[taken' + 1].len BY <1>1, <1>4, <1>5
  <2> QED BY <2>1 DEF Sized, AtPdu
<1>8. Aligned'
  <2>1. \A q \in ops : ~Body(q) BY TheOperation DEF PeekFull, Body
  <2> QED BY <1>1, <2>1, StillAligned DEF Framed
<1>9. Parsed'
  <2>1. \A u \in Threads : pc[u] # "parse" BY NoOtherRead
  <2> QED BY <1>2, <2>1 DEF Parsed
<1>10. Kept' BY <1>1, StillKept DEF Framed
<1> QED BY <1>6, <1>7, <1>8, <1>9, <1>10 DEF Framed

\* The read of a body begins at the start of the PDU.
LEMMA StartBodyFramed ==
  ASSUME Inv, Framed, NEW t \in Threads, StartBody(t)
  PROVE  Framed'
<1>1. UNCHANGED Buffers /\ UNCHANGED <<sock, arrived, fin, owed, log>>
  BY DEF StartBody, Buffers, bufVars, netVars
<1>2. \A u \in Threads : pc[u]' = IF u = t THEN "idle" ELSE pc[u]
  BY DEF StartBody, Goto, Inv, TypeOK
<1>3. PICK q : q = Initiate(Operation("body", cur[t]), Len(rbuf)) /\ ops' = ops \cup {q}
  BY DEF StartBody
<1>4. ops' = {q} BY <1>3, TheReader DEF StartBody
<1>5. /\ q.kind = "body" /\ q.size = 0
      /\ q.ec # "ok" => sock = "closed"
      /\ q.st = "done" /\ q.ec = "ok" => Len(rbuf) = 0
  <2>1. cur[t] \in Calls BY Typed DEF StartBody, Inv, Carried
  <2>2. PICK o \in Ops : o = Operation("body", cur[t]) BY <2>1, Started
  <2>3. o.kind = "body" /\ o.ec = "ok" /\ o.size = 0 BY <2>1, <2>2, Started
  <2>4. sock # "closing" BY DEF StartBody, Unlocked
  <2> QED BY <1>3, <2>2, <2>3, <2>4, Initiated
<1>6. AtPdu(taken) /\ Len(rbuf) = Stream[taken + 1].len BY DEF StartBody, Framed, Sized
<1>7. Announces' BY <1>4, <1>5 DEF Announces
<1>8. Sized' BY <1>2, TheReader DEF Sized, StartBody
<1>9. Fills'
  <2>1. taken \in Nat /\ Len(rbuf) \in Nat /\ taken - 0 = taken BY Counts
  <2>2. q.ec = "ok" => /\ q.size <= taken /\ AtPdu(taken - q.size)
                       /\ Len(rbuf) = Stream[taken - q.size + 1].len
                       /\ q.size <= Len(rbuf)
                       /\ q.st = "done" => q.size = Len(rbuf)
                       /\ q.size = 0
    BY <1>5, <1>6, <2>1
  <2>3. q.ec = "ok" => Filled(q)' BY <1>1, <2>2 DEF Filled, Buffers, AtPdu
  <2> QED BY <1>4, <2>3 DEF Fills, Body
<1>10. Aligned' BY <1>1, <1>4, <1>5 DEF Aligned, Body
<1>11. Parsed' BY <1>1, <1>2 DEF Framed, Parsed, Whole, Buffers
<1>12. Kept' BY <1>1, StillKept DEF Framed
<1> QED BY <1>7, <1>8, <1>9, <1>10, <1>11, <1>12 DEF Framed

\* A closer that is just closing is no thread of the io_context's.
LEMMA NoIoWhileClosing ==
  ASSUME Inv, ClosersClose, Unraced, NEW t \in IoThreads, pc[t] = "idle"
  PROVE  sock # "closing"
BY DEF ClosersClose, Unraced, OneThreadCloses, Inv, TypeOK

\* A continuation finds the socket as it was, or aborted the read.
LEMMA ContinueFramed ==
  ASSUME Inv, ClosersClose, Unraced, Framed, NEW t \in Threads, NEW o \in ops, Continue(t, o)
  PROVE  Framed'
<1>1. UNCHANGED Buffers /\ UNCHANGED <<sock, arrived, fin, owed, log, pc>>
  BY DEF Continue, Buffers, bufVars, netVars, threadVars
<1>2. PICK q : q = Initiate(o, Len(rbuf) - o.size) /\ ops' = (ops \ {o}) \cup {q} BY DEF Continue
<1>3. ops = {o} /\ ops' = {q} /\ \A u \in Threads : pc[u] # "body" BY <1>2, TheOperation
<1>4. o.st = "more" /\ o.kind = "body" BY DEF Continue, Inv, TypeOK, Peeked, Ops
<1>5. sock # "closing" BY NoIoWhileClosing DEF Continue, Idle
<1>6. /\ q.kind = "body" /\ q.size = o.size
      /\ q.ec = "ok" => o.ec = "ok"
      /\ q.ec # "ok" => o.ec # "ok" \/ sock = "closed"
      /\ q.st = "done" /\ q.ec = "ok" => Len(rbuf) - o.size = 0
  BY <1>2, <1>4, <1>5, Initiated DEF Inv, TypeOK
<1>7. Announces' BY <1>3, <1>6 DEF Announces
<1>8. Sized' BY <1>1, <1>3 DEF Sized
<1>9. Fills'
  <2>1. SUFFICES ASSUME q.ec = "ok" PROVE Filled(q)' BY <1>3 DEF Fills, Body
  <2>2. Filled(o) BY <1>4, <1>6, <2>1 DEF Framed, Fills, Body
  <2>3. q.st = "done" => q.size = Len(rbuf) BY <1>6, <2>1, Counts
  <2>4. Filled(q) BY <1>6, <2>2, <2>3 DEF Filled
  <2> QED BY <1>1, <2>4 DEF Filled, Buffers, AtPdu, Receive
<1>10. Aligned' BY <1>1, <1>3, <1>4, <1>6 DEF Framed, Aligned, Body, Boundary, AtPdu, Buffers
<1>11. Parsed' BY <1>1 DEF Framed, Parsed, Whole, Buffers
<1>12. Kept' BY <1>1, StillKept DEF Framed
<1> QED BY <1>7, <1>8, <1>9, <1>10, <1>11, <1>12 DEF Framed

\* _read_buff is one PDU of the stream.
LEMMA FilledWhole ==
  ASSUME Inv, NEW o \in ops, Filled(o), o.st = "done"
  PROVE  Whole(rbuf) /\ Boundary(taken)
<1>1. PICK b \in Nat : b = taken - o.size BY Counts DEF Filled
<1>2. PICK n \in Nat : n = o.size BY Counts
<1>3. AtPdu(b) /\ n = Stream[b + 1].len /\ Len(rbuf) = n /\ taken = b + n
  BY <1>1, <1>2, Counts DEF Filled
<1>4. b + n <= Len(Stream) BY <1>3, Counts
<1>5. Boundary(taken) BY <1>3, <1>4, PduEnd
<1>6. \A i \in 1..n : rbuf[i] = Receive(b + i) BY <1>1, <1>2 DEF Filled
<1>7. Stream[b + 1] \in Octets BY <1>3, Counts, StreamAssumption, ElementOfSeq DEF AtPdu
<1>8. PICK m \in Nat : Stream[b + 1] = [msg |-> m, pos |-> 1, len |-> n]
  BY <1>3, <1>7 DEF Octets, AtPdu
<1>9. \A i \in 1..n : rbuf[i] = [conn |-> conn, msg |-> m, pos |-> i, len |-> n]
  <2> TAKE i \in 1..n
  <2>1. AtPdu(b) /\ n <= Stream[b + 1].len /\ b + n <= Len(Stream) BY <1>3, <1>4
  <2>2. Stream[b + i] = [Stream[b + 1] EXCEPT !.pos = i] BY <2>1, PduOctets
  <2>3. Stream[b + i] = [msg |-> m, pos |-> i, len |-> n] BY <1>8, <2>2
  <2> QED BY <1>6, <2>3 DEF Receive
<1>10. Whole(rbuf)
  <2>1. DOMAIN rbuf = 1..n BY <1>3, Counts
  <2>2. SUFFICES ASSUME NEW i \in 1..n PROVE rbuf[i] = [rbuf[1] EXCEPT !.pos = i] /\ Len(rbuf) = rbuf[1].len
    BY <2>1 DEF Whole
  <2>3. rbuf[1] = [conn |-> conn, msg |-> m, pos |-> 1, len |-> n] BY <1>9, <2>2
  <2> QED BY <1>3, <1>9, <2>2, <2>3
<1> QED BY <1>5, <1>10

\* _read_buff holds all of a PDU when its parse begins.
LEMMA BodyDoneFramed ==
  ASSUME Inv, Framed, NEW t \in Threads, NEW o \in ops, BodyDone(t, o)
  PROVE  Framed'
<1>1. ops = {o} /\ ops' = {} /\ UNCHANGED Buffers /\ UNCHANGED <<sock, arrived, fin, owed, log>>
  BY TheOperation DEF BodyDone, netVars, bufVars, Buffers
<1>2. \A u \in Threads : pc[u]' = IF u = t THEN "parse" ELSE pc[u]
  BY DEF BodyDone, Goto, Inv, TypeOK
<1>3. Whole(rbuf) /\ Boundary(taken)
  BY FilledWhole DEF BodyDone, Completing, Framed, Fills, Body
<1>4. Announces' /\ Fills' BY <1>1 DEF Announces, Fills
<1>5. Sized' BY <1>2, TheOperation DEF Sized
<1>6. Aligned' BY <1>1, <1>3 DEF Aligned, Buffers, Boundary, AtPdu
<1>7. Parsed' BY <1>1, <1>3 DEF Parsed, Whole, Buffers
<1>8. Kept' BY <1>1, StillKept DEF Framed
<1> QED BY <1>4, <1>5, <1>6, <1>7, <1>8 DEF Framed

\* What a peek copies starts a PDU.
LEMMA NetPeekFramed ==
  ASSUME Inv, Framed, NEW o \in ops, NetPeek(o)
  PROVE  Framed'
<1>1. UNCHANGED <<rbuf, taken, conn, sock, arrived, fin, owed, log, pc>>
  BY DEF NetPeek, netVars, threadVars
<1>2. PICK m : m = Smaller(LengthSize, Available) OBVIOUS
<1>3. PICK q : q = [o EXCEPT !.size = m, !.st = "done"] OBVIOUS
<1>4. ops = {o} /\ ops' = {q} BY <1>2, <1>3, TheOperation DEF NetPeek, Finish
<1>5. q.kind = "peek" /\ q.size = m
  BY <1>3 DEF NetPeek, Inv, TypeOK, Ops
<1>6. m >= 1 /\ m \in Nat BY <1>2, Counts DEF NetPeek, Smaller, Available
<1>7. \A p \in ops : ~Body(p) BY <1>4 DEF NetPeek, Body
<1>8. AtPdu(taken)
  BY <1>7, Counts DEF NetPeek, Available, Framed, Aligned, Boundary
<1>9. lbuf'[1].pos = 1 /\ lbuf'[1].len = Stream[taken + 1].len
  <2>1. lbuf'[1] = Receive(taken + 1) BY <1>2, <1>6 DEF NetPeek
  <2> QED BY <1>8, <2>1 DEF Receive, AtPdu
<1>10. Announces'
  <2>1. AtPdu(taken') /\ lbuf'[1].pos = 1 /\ lbuf'[1].len = Stream[taken' + 1].len BY <1>1, <1>8, <1>9
  <2> QED BY <2>1 DEF Announces, AtPdu
<1>11. Sized' BY <1>1, TheOperation DEF Sized
<1>12. Fills' BY <1>4, <1>5 DEF Fills, Body
<1>13. Aligned' BY <1>1, <1>7, StillAligned DEF Framed
<1>14. Parsed' BY <1>1 DEF Framed, Parsed, Whole
<1>15. Kept' BY <1>1, StillKept DEF Framed
<1> QED BY <1>10, <1>11, <1>12, <1>13, <1>14, <1>15 DEF Framed

\* A read goes on where the last one ended.
LEMMA NetReadFramed ==
  ASSUME Inv, Running, ParseAlone, Framed, NEW o \in ops, NEW n \in 1..Len(Stream), NetRead(o, n)
  PROVE  Framed'
<1>1. UNCHANGED <<lbuf, conn, sock, arrived, fin, owed, log, pc>> /\ taken' = taken + n
  BY DEF NetRead, threadVars
<1>2. PICK s : s = o.size + n OBVIOUS
<1>3. PICK st : st = IF o.size + n = Len(rbuf) THEN "done" ELSE "more" OBVIOUS
<1>4. PICK q : q = [o EXCEPT !.size = s, !.st = st] OBVIOUS
<1>5. ops = {o} /\ ops' = {q} BY <1>2, <1>3, <1>4, TheOperation DEF NetRead, Finish
<1>6. q.kind = "body" /\ q.ec = "ok" /\ q.size = s /\ q.st = st /\ o.kind = "body" /\ o.ec = "ok"
  BY <1>4 DEF NetRead, Running, Inv, TypeOK, Ops
<1>7. Filled(o) BY <1>6 DEF Framed, Fills, Body
<1>8. PICK b \in Nat : b = taken - o.size BY <1>7, Counts DEF Filled
<1>9. /\ n \in Nat /\ s \in Nat /\ o.size \in Nat /\ taken' - s = b /\ s <= taken' /\ taken = b + o.size
      /\ s <= Len(rbuf)
  <2>1. n \in Nat /\ o.size \in Nat /\ taken \in Nat /\ Len(rbuf) \in Nat BY Counts
  <2>2. o.size <= taken BY <1>7 DEF Filled
  <2>3. o.size + n <= Len(rbuf) BY DEF NetRead
  <2> QED BY <1>1, <1>2, <1>8, <2>1, <2>2, <2>3
<1>10. Len(rbuf') = Len(rbuf) /\ \A i \in 1..Len(rbuf) :
         rbuf'[i] = IF i \in (o.size + 1)..(o.size + n) THEN Receive(taken + i - o.size) ELSE rbuf[i]
  <2>1. rbuf' = [i \in 1..Len(rbuf) |->
                   IF i \in (o.size + 1)..(o.size + n) THEN Receive(taken + i - o.size) ELSE rbuf[i]]
    BY Counts DEF NetRead
  <2>2. rbuf' \in Seq(Cell) BY NetReadInv DEF Inv, TypeOK
  <2>3. DOMAIN rbuf' = 1..Len(rbuf) BY <2>1
  <2>4. Len(rbuf') \in Nat /\ DOMAIN rbuf' = 1..Len(rbuf') BY <2>2, LenProperties
  <2>5. Len(rbuf') = Len(rbuf) BY <2>3, <2>4, Counts
  <2> QED BY <2>1, <2>5
<1>11. \A i \in 1..s : rbuf'[i] = Receive(b + i)
  <2>1. TAKE i \in 1..s
  <2>2. i \in 1..Len(rbuf) BY <1>9, Counts
  <2>3. CASE i <= o.size
    BY <1>7, <1>8, <1>9, <1>10, <2>2, <2>3 DEF Filled
  <2>4. CASE i > o.size
    <3>1. i \in (o.size + 1)..(o.size + n) /\ taken + i - o.size = b + i BY <1>2, <1>9, <2>4
    <3> QED BY <1>10, <2>2, <3>1
  <2> QED BY <1>9, <2>3, <2>4
<1>12. Fills'
  <2>1. AtPdu(b) /\ Len(rbuf) = Stream[b + 1].len BY <1>7, <1>8 DEF Filled
  <2>2. \A k : Receive(k)' = Receive(k) BY <1>1 DEF Receive
  <2>3. \A i \in 1..s : rbuf'[i] = Receive(b + i)' BY <1>11, <2>2
  <2>4. Filled(q)'
    BY <1>2, <1>3, <1>6, <1>9, <1>10, <2>1, <2>3 DEF Filled, AtPdu
  <2> QED BY <1>5, <2>4 DEF Fills
<1>13. Announces' BY <1>5, <1>6 DEF Announces
<1>14. Sized' BY <1>1, TheOperation DEF Sized
<1>15. Aligned' BY <1>5, <1>6 DEF Aligned, Body
<1>16. Parsed' BY <1>1, <1>6 DEF Parsed, ParseAlone
<1>17. Kept' BY <1>1, StillKept DEF Framed
<1> QED BY <1>12, <1>13, <1>14, <1>15, <1>16, <1>17 DEF Framed
-----------------------------------------------------------------------------
(* The theorems *)

\* The stream begins with a PDU.
LEMMA FramedInit == Init => Framed
<1> SUFFICES ASSUME Init PROVE Framed OBVIOUS
<1>1. Announces /\ Sized /\ Fills /\ Parsed BY DEF Init, Announces, Sized, Fills, Parsed
<1>2. Len(Stream) \in Nat /\ (Len(Stream) > 0 => Stream[1].pos = 1)
  BY StreamAssumption, LenProperties
<1>3. Aligned BY <1>2 DEF Init, Aligned, Boundary, AtPdu
<1>4. Kept BY DEF Init, Kept, DeliveredWhole
<1> QED BY <1>1, <1>3, <1>4 DEF Framed

\* Every step keeps the reads within their PDUs.
LEMMA FramedStep ==
  ASSUME Inv, Placed, Orderly, Base, Unraced, Framed, [Next /\ AtRest]_vars
  PROVE  Framed'
<1> USE DEF Base
<1>1. CASE UNCHANGED vars
  BY <1>1, StillKept, QuietFramed DEF vars, Buffers, Framed
<1>2. ASSUME NEW t \in Threads, CallStep(t), AtRest
      PROVE  Framed'
  BY <1>2, CallFramed, CloseFramed, OpenAsyncFramed DEF CallStep
<1>3. ASSUME NEW t \in Threads, ThreadStep(t)
      PROVE  Framed'
  BY <1>3, CallFramed, StartPeekFramed, StartBodyFramed, ParseFramed, CallHandlerFramed, SockFramed
  DEF ThreadStep, MethodStep
<1>4. ASSUME NEW t \in Threads, NEW c \in Calls, IoTask(t, c)
      PROVE  Framed'
  <2>1. ASSUME NEW o \in ops,
               Failed(t, o) \/ PeekShort(t, o) \/ PeekFull(t, o) \/ Continue(t, o) \/ BodyDone(t, o)
        PROVE  Framed'
    BY <2>1, FailedFramed, PeekFullFramed, ContinueFramed, BodyDoneFramed
  <2>2. ASSUME NEW p \in posted, RunBusy(t, p) \/ RunRepeek(t, p)
        PROVE  Framed'
    BY <2>2, PostedFramed
  <2> QED BY <1>4, <2>1, <2>2 DEF IoTask
<1>5. CASE NetStep \/ PeerStep
  <2>1. ASSUME NEW o \in ops, NetPeek(o) \/ NetFail(o) \/ \E n \in 1..Len(Stream) : NetRead(o, n)
        PROVE  Framed'
    BY <2>1, NetPeekFramed, NetFailFramed, NetReadFramed
  <2> QED BY <1>5, <2>1, SockFramed DEF NetStep, ReceiveStep, PeerStep
<1> QED BY <1>1, <1>2, <1>3, <1>4, <1>5 DEF Next

\* Calls of close() and open_async are counted.
LEMMA CountsGrow ==
  ASSUME [Next]_vars
  PROVE  (closes' = closes \/ closes' = closes + 1) /\ (conn' = conn \/ conn' = conn + 1)
<1> DEFINE Grow == (closes' = closes \/ closes' = closes + 1) /\ (conn' = conn \/ conn' = conn + 1)
<1> SUFFICES Grow OBVIOUS
<1>1. CASE UNCHANGED vars BY <1>1 DEF vars
<1>2. ASSUME NEW t \in Threads, CallStep(t) \/ ThreadStep(t)
      PROVE  Grow
  BY <1>2 DEF CallStep, ReadAsync, Close, OpenAsync, ThreadStep, MethodStep, Exchange, StartPeek,
              StartBody, Parse, CallHandler, Shutdown, netVars
<1>3. ASSUME NEW t \in Threads, NEW c \in Calls, IoTask(t, c)
      PROVE  Grow
  BY <1>3 DEF IoTask, Failed, PeekShort, PeekFull, Continue, BodyDone, RunBusy, RunRepeek, netVars
<1>4. CASE NetStep \/ PeerStep
  BY <1>4 DEF NetStep, PeerStep, ReceiveStep, Connected, NetPeek, NetRead, NetFail, Arrive, Fin, Reset,
              netVars
<1> QED BY <1>1, <1>2, <1>3, <1>4 DEF Next

\* Nobody races before the next step who does not race after it.
LEMMA ClosesGrow == ASSUME Inv, [Next]_vars, Unraced' PROVE Unraced
<1>1. closes \in Nat BY DEF Inv, TypeOK
<1> QED BY <1>1, CountsGrow DEF Unraced, OneThreadCloses

\* The invariant of the reads, with every open_async at rest.
LEMMA RestfulInvariance ==
  ASSUME Orderly PROVE RestfulSpec => [](Base /\ (Unraced => Framed))
<1> DEFINE Reads == Unowing /\ Placed /\ Once
<1>1. Init => Base /\ (Unraced => Framed) BY BaseInit, FramedInit
<1>2. Inv /\ Reads /\ Base /\ (Unraced => Framed) /\ [Next /\ AtRest]_vars
        => Base' /\ (Unraced => Framed)'
  <2> SUFFICES ASSUME Inv, Reads, Base, Unraced => Framed, [Next /\ AtRest]_vars
               PROVE  Base' /\ (Unraced' => Framed')
    OBVIOUS
  <2>1. [Next]_vars OBVIOUS
  <2>2. Base' BY <2>1, BaseStep
  <2>3. Unraced' => Framed' BY <2>1, ClosesGrow, FramedStep
  <2> QED BY <2>2, <2>3
<1>3. [Next /\ AtRest]_vars => [Next]_vars OBVIOUS
<1> HIDE DEF Reads
<1>4. Spec => []Reads BY PlacesInvariance DEF Reads
<1> QED BY <1>1, <1>2, <1>3, <1>4, Invariance, PTL DEF Spec, RestfulSpec

\* DeliveredWhole: as long as no other thread closes beside the io_context, a
\* handler that is given a PDU is given all of one PDU of the stream and nothing
\* else, across short reads, failures, and reconnections of a socket whose reads
\* were answered, although _reading is cleared before _read_buff is parsed
\* (socket.cpp:59-75).
THEOREM PdusAreDeliveredWhole ==
  ASSUME Orderly PROVE RestfulSpec => [](Unraced => DeliveredWhole)
<1>1. (Unraced => Framed) => (Unraced => DeliveredWhole) BY DEF Framed, Kept
<1> QED BY <1>1, RestfulInvariance, PTL

\* The same without any condition on when the socket is opened: until close() is
\* called, or until it is opened again.
THEOREM PdusOfFirstConnection ==
  ASSUME Orderly
  PROVE  Spec => [](closes = 0 \/ (OneThreadCloses /\ conn = 0) => DeliveredWhole)
<1> DEFINE Early == closes = 0 \/ (OneThreadCloses /\ conn = 0)
           Reads == Unowing /\ Placed /\ Once
<1>1. Init => Base /\ (Early => Framed) BY BaseInit, FramedInit
<1>2. Inv /\ Reads /\ Base /\ (Early => Framed) /\ [Next]_vars => Base' /\ (Early => Framed)'
  <2> SUFFICES ASSUME Inv, Reads, Base, Early => Framed, [Next]_vars
               PROVE  Base' /\ (Early' => Framed')
    OBVIOUS
  <2>1. Base' BY BaseStep
  <2> SUFFICES ASSUME Early' PROVE Framed' BY <2>1
  <2>2. closes \in Nat /\ conn \in Nat BY DEF Inv, TypeOK
  <2>3. (closes' = closes \/ closes' = closes + 1) /\ (conn' = conn \/ conn' = conn + 1)
    BY CountsGrow
  <2>4. Early BY <2>2, <2>3
  <2>5. AtRest BY <2>2, <2>3 DEF AtRest
  <2>6. Unraced BY <2>4 DEF Unraced
  <2> QED BY <2>4, <2>5, <2>6, FramedStep
<1>3. (Early => Framed) => (Early => DeliveredWhole) BY DEF Framed, Kept
<1> HIDE DEF Reads
<1>4. Spec => []Reads BY PlacesInvariance DEF Reads
<1> QED BY <1>1, <1>2, <1>3, <1>4, Invariance, PTL DEF Spec
================================================================================
