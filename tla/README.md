# A TLA+ development of smppha

smppha is a C++17 library for the SMPP 3.4 protocol: an asynchronous TCP socket
that sends and receives PDUs, the classes of the PDUs with their binary codec,
and a few helpers (segmented messages, delivery receipts, text encodings). The
program's own code is `src/smpp/` (2824 lines); `src/libs/` holds boost 1.71,
moodycamel::ConcurrentQueue, spdlog and system headers. There are no tests and
no documentation in the repository, so the code is the only reference, together
with the comments of the libraries it relies on.

All commands run in this directory: `tlc -workers 2 -config write_threads.cfg
MCWritePath`, `tlapm WritePath_proofs.tla`. `PROJECT.json` lists the runs, the
mutants, the source lines each definition stands for, hazards and theorems.

## 1. Inventory

| Component | State | Operations | What makes it correct |
|---|---|---|---|
| `socket`, writing (`socket.cpp:17-21, 83-121`) | `_write_cmds` (lock-free queue), `_writing`, `_write_buff`, `_sock` | `write_async`, `write_next_async`, completion lambda, `close`, `open_async` | one writer at a time; the buffer does not change under an unfinished write; PDUs whole and in order on each connection; each handler called once, with the truth; nothing left in the queue |
| `socket`, reading (`socket.cpp:23-77, 107-128`) | `_reading`, `_read_length_buff`, `_read_buff`, `_sock` | `read_async`, `_read_async` and its three lambdas, `close`, `open_async` | one read at a time; every handler called once; what is delivered is one PDU of the stream, in order; a read that can be answered is |
| `socket` as a whole (`socket.cpp:17-128`) | both, over one `_sock` | all of them; `close()` drains the one half and closes under both | neither half meets anything its own rules exclude; writes are answered beside a peek that is repeated for ever; `close()` settles both |
| binary codec (`util.h`, `util.cpp`, `types.h`, `optional_params.h`, `pdu.h:70-185`) | none (values) | `binary_reader`, `binary_writer`, `cmd_len`, `serialize`, `deserialize` | what is written is read back; `command_length` is the number of octets |
| PDU object (`pdu.h:46-309`) | `_cmd_status`, `_seq_number`, parameters, cached octets `_data` | setters, `set<>`, `serialize`, `deserialize`, `tryParse` | the cached octets are those of the object as it is now |
| `segmented_info` (`segmented_info.cpp`) | its members | the constructor's walk over the user data header | finds the segment that the sender described, stays inside the header |
| `opt_par_factory`, PDU classes, `create_default_pdu_by_command_id`, visitors | table of creators | `create`, `add`, dispatch | tables without behaviour of their own |
| `convert` (iconv) | none | conversion | the destination is large enough |
| `delivery_receipt_info`, `to_string` | none | formatting | not modelled, see section 9 |

**How they interact.** The application calls the socket's methods from any
thread. Every completion runs on a thread inside `io_context::run()`, as does
every function the socket posts; handlers of the application run there too and
may call the socket again. `write_async` hands a PDU object to the queue and
`write_next_async` later serializes it into `_write_buff`; `_read_async` parses
`_read_buff` with `pdu<>::tryParse`. `close()` takes commands out of the same queue
and closes `_sock` under `_sock_m`, which also guards the initiation of
operations, though not the continuations of composed operations nor
`open_async`.

**What is hard.** Two atomic flags and a lock-free queue in place of a lock; two
consumers of the queue; composed operations that live through several completions
while `close()` and `open_async` change the socket beneath them; a flag that
is cleared before the buffer it protects has been parsed; a peek that is repeated
until enough octets are there; a cache patched in place. The hazards are listed
line by line in `PROJECT.json`.

## 2. Plan

Done in this order, most important first:

1. `WritePath` (core), its abstract specification `Outbox`, `MCWritePath`, and
   `WritePath_proofs`;
2. `ReadPath`, its abstract specification `Inbox`, `MCReadPath`, `ReadPath_proofs`;
3. `Codec` (pure) and `PduObject` (the object and its cache), `MCPduObject`;
4. `SegmentedInfo`, `MCSegmentedInfo`;
5. `Session`: `WritePath` and `ReadPath` over one `_sock`, with one `close()` and one
   `open_async` for both; `MCSession` and `Session_proofs`;
6. in both halves, `_sock.close()` in two steps, since asio's continuations run
   between them;
7. `PduObject` with refused PDUs and `deserialize` into a used object;
8. `Encoding`: the sizing of the destination in `convert`;
9. the histories of both halves proved: who holds a command or a call, what is on the wire, what
   was delivered (`WritePath_proofs`, `ReadPath_proofs`);
10. the refinements proved (`WritePath_proofs`, `Inbox_proofs`), and what the whole socket promises
    (`Session_proofs`);
11. `SegmentedInfo_proofs`: the segment is found in headers of every size;
12. `Codec_proofs`, `PduObject_proofs`: the codec reads back what it writes, and the octets
    that an object keeps are its own, for every class of PDU and every value.

Next, extending the model:

13. `SharedPdu`: one PDU object in the queues of two sockets, or changed by its
    owner after `write_async`, with `serialize() const` filling the cache unlocked;
14. the registry of optional parameters with concurrent `add` and `create`.

## 3. The modules and the code

### WritePath
A thread is a program counter, `pc[t]`, and each step is one access to shared
state:

| Action | Code |
|---|---|
| `WriteAsync` | `_write_cmds.enqueue` in `write_async` |
| `Exchange` | `_writing.exchange(true)`: return, or become the writer |
| `SeeEmpty`, `Dequeue`, `Release` | `try_dequeue`, then `_writing = false` when it returned false |
| `Serialize`, `Start` | `_write_buff = ...`, then `asio::async_write` under `_sock_m` |
| `Continue` | the intermediate handler of the composed write |
| `Complete`, `CallHandler` | the completion lambda: `_writing = false`, `write_next_async`, and then the handler |
| `Close`, `Drain` | `close()`: the loop over the queue |
| `Shut`, `Shutdown` | `_sock.cancel` and `_sock.close` under `_sock_m`: up to the moment when the descriptor is deregistered, and the rest |
| `OpenAsync` | `open_async` on a closed socket |
| `RunPosted` | a handler that `close()` posted with `operation_canceled` |
| `Connected`, `Reset`, `NetSend`, `NetFail` | the kernel and the peer |

The queue is one FIFO per producer thread, as in moodycamel's implementation;
`enq` and `deq` count commands, so that a command is its thread and its number.
`try_dequeue` is not atomic: it returns false after it has seen each producer's
queue empty *at some moment* (`seen`), which is what its comment promises.
A PDU is cut into `Parts` pieces; `wire` records, for each piece the kernel took,
which command's octets were in `_write_buff` *then*. An operation that has completed
but whose handler has not run is in `ops` with `st = "done"`, which `close()` can
no longer abort; with `st = "more"` it is a composed write between two of its
short writes. While `sock = "closing"` a thread is inside `_sock.close()`: methods of
the socket wait for `_sock_m`, continuations do not, and asio completes what they start then
with no octets and no error (`epoll_reactor.ipp:245-249`), which ends a composed
operation (`write.hpp:333`).

### Outbox
The promise to callers of `write_async`: new, queued, writing (one at a time) or
canceled, settled, answered; the commands of one thread leave in order. `WritePath`'s
`ImplementsOutbox` maps its state to these stages.

### ReadPath
The same granularity. The peer sends `Stream`, a sequence of octets that know
their PDU, their place in it and the length it announces; it may pause
anywhere, finish anywhere (`Fin`) or reset (`Reset`). `StartPeek`, `PeekShort`,
`RunRepeek` are the loop over short peeks; `PeekFull` resizes `_read_buff` to what
`_read_length_buff` says, `StartBody` and `Continue` are the composed
`async_read`; `BodyDone` clears `_reading`, and `Parse`, a separate step, looks at
the buffer. When octets from the middle of a PDU are taken for a command length it
may announce anything up to the stream's length. A PDU is accepted when it has at
least `MinLen` octets; the other reasons to refuse one are in `Codec`. `Overlap` says
whether the application calls `read_async` while another call of it is unanswered.

### Inbox
The promise to callers of `read_async`: refused, or served one at a time, and
given the next PDU of the connection or an error; `Reopen` begins the numbering again.
`ImplementsInbox` maps to it: the stage of a call follows from where it is, and what it was given
is the connection and the number of the PDU in `_read_buff` once that is complete, in the
answer owed, and in the handler's call.

### Opening at rest
`RestfulSpec` is `Spec` without one thing that the application may do. In `ReadPath` it is opening the socket again
while a read of it is unanswered, in `WritePath` while a composed write is between two of its short
writes; `AtRest` says so, as a condition on the step that opens. In `Session` it is both. Properties of
one connection after another hold under `RestfulSpec`; `Spec` has no such condition, and `write_reopen` shows
what happens without it.

### Session
The whole socket: instances `W` of `WritePath` and `R` of `ReadPath` that share `sock` and
`conn`. A thread that enters a method or takes a task is in no other (`Idle`); what concerns
one half only is a step of that half. What concerns both is written out for the
variables of both, from the code and not from the halves' actions: `Shut` (the one `cancel` and `close` of `_sock`,
which abort the operations of both directions), `Shutdown`, `OpenAsync`, `Connected` and `Reset`. That each half
finds in them what it specifies itself is `ImplementsHalves`, which can fail: a `Shut` that
aborts the writes and leaves the reads waiting violates it. `close()` begins in the sending half, with the
drain, and the receiving half sees it begin when `Shut` aborts its operations.

### Codec and PduObject
`Codec` has the operators of writing and reading: sizes, what each kind of parameter
writes (cut, terminated or left out), `CmdLen`, `Encode`, the reader's conditions, the
coupling of `sm_length` to `short_message`, the loops over the parameters, `Accepts`, `Decode`,
and `Fill`, which is what `deserialize` leaves in an object also when it refuses the octets.
A loop is a recursive function of the number of its turns (`MandatoryOctets`, `Reading`), of the
tags it has passed (`OptionalOctets`: the program's map goes by its keys) or of the position it has reached
(`ReadOptional`), so that it can be proved about. A reader is the body behind the header, a position
in it, and whether it is still good. Integers take one octet; the parameter
list `Layout` and the registered tags `TagType` are constants. `LayoutAssumption` says that
`sm_length` stands before the octets it counts and that strings have room for their NUL,
`TagAssumption` that an optional parameter's length fits in its length field: both are true of every class in
`mandatory_params.h` and `optional_params.h`. `PduObject` is one
object: fields and `_data`, one action per setter, `serialize` and `deserialize`, and as
initial states a fresh object and every object that `tryParse` makes of the octets received,
accepted or refused. `stale` is a history variable: it is set when `deserialize` leaves an
object with octets that are not its own, in one of the three ways named at `CacheFaithful`: octets of another
class (`deserialize` skips the command_id), octets that lack an optional parameter the object has, and
octets that are refused. `ValuesAssumption` says that what the application sets is legal, and
`OctetsAssumption` that what is deserialized is as long as it announces, which is how
`read_async` reads it.

### SegmentedInfo
The constructor, one turn of its loop per step, on the octets of `short_message`. The
reference identifies the reference number by its octets instead of the 16-bit
integer made of them. A message has with it what it was made of, which the
program does not look at: its elements, where each begins and the text. `AsBuilt` says how these and the
octets belong together (a concatenation element is empty or has its length, everything fits
in what `sm_length` can say), `SegmentAsSent` what should be found. `MCSegmentedInfo` builds such
messages, and TLC checks `AsBuilt` of them (`InputsAssumption`). Headers whose element lengths do not add up
are left out by this, though a peer can send them: the loop then takes octets behind the header, and behind
`short_message` (`segmented_info.cpp:20`), and nothing here is claimed of it.

### Encoding
`convert`: iconv takes a character of the text and gives one of the other encoding, until the
text ends, a character cannot be converted or there is no room. What the characters are is
nondeterministic, so that a text is only a number of octets. The module has no TLC run of its
own: its one claim is proved for all texts.

## 4. The runs

| Run | Instance | Shows | Distinct states |
|---|---|---|---|
| `write_threads` | 1 application and 2 io threads, each writes once, 1 `close` | `ExclusiveWriter`, `WriteBufferStable`, `WholePdus`, `OneOwner`, `TypeOK` | 1 108 900 |
| `write_outbox` | 1 application and 1 io thread, each writes twice, `close` and reopening at rest by the io thread | refinement of `Outbox`; handlers in the order of the wire although the next write starts first; `WholePdus` over two connections; handlers told the truth, with failures, short writes, canceled commands and the reconnection | 837 653 |
| `write_live` | 1 application, 2 io threads, 2 writes from two threads, `close` and reopening by the application at any moment | what was dequeued, or queued behind a write, is answered; `close()` answers what was queued; refinement of `Outbox`; nothing of a PDU is sent after its handler ran | 74 561 |
| `write_stranded` | 1 application, 1 io thread | **violated**: a write may never be answered | |
| `write_torn` | 1 application, 2 io threads, `close` on another thread | **violated**: success is reported of a part of a PDU | |
| `write_reopen` | 1 application, 2 io threads, reopening | **violated**: a PDU may be continued on the next connection | |
| `read_overlap` | 1 application and 1 io thread overlapping, `close` and reopening at rest by the io thread, each twice, 2 PDUs | refinement of `Inbox` from connection to connection, whole PDUs | 206 026 |
| `read_handlers` | 2 io threads that read one PDU after the other, a short PDU among three | the same, plus `TypeOK` | 20 315 |
| `read_live` | 1 application, 2 io threads, overlapping, `close`, reopening, a PDU of length zero | `ExclusiveReader`, `OneHandler`; answerable reads are answered | 151 971 |
| `session` | 1 application thread that writes, 1 io thread that reads and closes, reopening | what concerns both halves is what each specifies; handlers told the truth, unless a PDU was torn over two connections, or, of reads, the socket opened again; writes are answered beside a repeated peek; `close()` settles both halves | 65 994 |
| `pdu_object` | a layout like submit_sm's, every body of up to 6 octets over two values, up to 2 optional parameters, 6 PDUs deserialized later, one of another class | cache, length and types | 65 059 |
| `segmented_info` | headers of several elements, texts, sar parameters | the segment is found; every element looked at lies in the header | 14 394 |

**What the three violations show.** `write_stranded`: a thread in `write_next_async` finds the
queue empty; before it executes `_writing = false` another enqueues, finds the flag set
and returns; the flag is cleared; nobody looks again. `write_live` shows how far this goes: only
a command that nothing stands before can be left behind, and `close()` recovers it.
`write_torn`: `close()` on one thread has deregistered the descriptor and not yet closed it;
an io thread continues the composed write, whose next `async_write_some` completes with no
octets and no error; the composed write takes this for its end, and the handler
is told success although only a part was written. `write_outbox` and `session` show that this needs
`close()` to run beside an io thread: with one thread for both, handlers are told the truth.
`write_reopen`: a short write has completed when `close()` runs, so there is nothing for it to
cancel; the composed write then asks `_sock` to send the rest, and if `open_async` has opened
it again, the new connection starts in the middle of a PDU, and the handler is told success of a PDU
that no connection had whole. `write_outbox` opens the socket at rest: then every connection begins with a PDU.

**What `close()` settles.** `CloseSettles` has a condition for reads: the application does not open
the socket again meanwhile. A read whose peek has just completed has no operation
that `close()` could abort; it starts its next one on the closed socket, and fails there, or on
the next connection, and waits.

**The limits of `DeliveredWhole`.** It has three conditions; TLC finds a PDU that is not whole when one of
them is left out:
- `Unraced`. A `close()` on another thread ends the read of a body as it ends a write, with no
  error, and what is parsed then is half a PDU.
- `AtRest`. A read between two of its receives survives `close()`, as a write does, and goes on on
  the next connection when the application opens that before the read was answered.
- `Orderly`. With two io threads *and* calls that overlap, `_reading` is already false while
  `_read_buff` is still being parsed (`socket.cpp:66-73`), and the next read resizes or fills the
  buffer.

The instances keep to them: `read_handlers` has no `close()` and calls that follow one another, in
`read_overlap` the io thread closes and opens at rest. Nothing in the repository promises more than
that, so these are recorded as hazards and not as findings.

**Deadlock.** The socket's runs and `segmented_info` set `CHECK_DEADLOCK FALSE`: the
application makes a bounded number of calls and a constructor ends.

## 5. Bounds

`MaxWrites`, `MaxReads`, `MaxCloses` and `MaxConns` bound what the application does; they are
in the guards of its calls and nowhere else. One `close()` and one reconnection
let each of the operations in flight meet them at each of its steps; in `session` one write, one
read and one PDU of two octets suffice for that, since the halves meet only in `_sock`, in the threads
and in the task queue, and each has its larger instances of its own; two pieces per PDU
are the least with a short write between them. Three threads are an application thread
and two that complete operations concurrently, which is as many as the two flags
and the one queue set against each other (two racing for the flag while a third
completes or closes). Streams of two or three PDUs have a boundary to lose; a command length
has two octets, the least with a short peek. `MaxBody` is 6, enough for all mandatory
parameters and an optional one; up to two optional parameters, repeated, unknown and
malformed ones among them, are enumerated beside that. In `segmented_info` `Octet` is above the size of the
longest message: as `sm_length` is an octet no message is longer than that, and the casts to
`uint8_t` in the constructor never wrap.

## 6. Fairness

`FairSpec` assumes that a thread inside a method goes on (`WF` of `ThreadStep`), and that the
reactor completes what is ready and connections that are opening succeed or fail
(`WF` of `NetStep`; in the write path this means that a connected peer keeps reading). It
assumes that threads in `io_context::run()` take ready tasks. In `WritePath` weak fairness of
taking some task is enough. In `ReadPath` it is not: a short peek is repeated
through the task queue, and other tasks must not be overtaken for ever; the
`io_context` keeps its tasks in a FIFO, which is what `SF` of the tasks of each call says. `Session` has
`SF` of the writing half's tasks for the same reason, and `WF` of sending and receiving separately,
because the reactor serves both directions.
Nothing makes the application call a method, nor the peer send, finish or reset.

## 7. What is proved

For every value of the constants that satisfies the named assumptions (`BoundsAssumption`,
`ThreadsAssumption`, `StreamAssumption`, `NoneAssumption`, `InputsAssumption`, `HalvesAssumption` for both
halves, `LayoutAssumption`, `TagAssumption`, `ValuesAssumption`, `OctetsAssumption`): any sets of threads, any
number of calls, closes and connections, any well-formed stream and header, any class of PDU, any legal values and
any octets received. Every safety property and both refinements that a run checks are theorems. `theorems` in `PROJECT.json` lists the results;
each action has a lemma of its own for each invariant (`ExchangeInv`, `ExchangePlaced`, ...), and the step
lemmas (`NextInv`, `PlacedStep`, ...) collect them.

### The roles

`WritePath_proofs`: `TypeCorrect`, `WriterIsExclusive`, `BufferIsStable`. The inductive
invariant `Inv` adds to these three properties
- `Carried`: a thread has a command in its local variable exactly between `try_dequeue`
  and `async_write`, so that `Serialize` and `Start` have one to use;
- `Owing`: a thread about to call a handler has an answer to give it;
- `BufferFilled`: between `Serialize` and `Start` the buffer holds the command of the
  thread, which is what makes `WriteBufferStable` true when the operation starts.

`ExclusiveWriter` has four parts for the same reason: mutual exclusion of threads alone
is not inductive; the invariant must say that the flag is set *exactly* while a thread or an
operation holds the role, so that a thread that finds it clear knows that nobody does.

`ReadPath_proofs`: `TypeCorrect` and `ReaderIsExclusive`, from the invariant that adds
- `Carried` and `Owing`, as above;
- `Peeked`: when a peek has completed successfully `_read_length_buff` has as many octets as
  it reported, so that the command length it spells is defined, and a peek is never between two
  operations, as only a composed read is.

`ExclusiveReader` is inductive with these: the owner of the flag may be a thread, an
operation or a posted repetition of the peek, and each handler passes the role on to one
successor or clears the flag.

### The histories

`OneOwner` and `OneHandler` count the places where a command or a call is. What is inductive is the form
without a count (`Placed`, and `Once` in the read path): it is in one *kind* of place and in no other, from the
moment when it left the queue or was made, and no kind of place has it twice. That the set of
owners then has one element (`PlacedOwner`, `OwnerFromPlaced`) is the last step. `Unowing` says who owes no
answer: without it an answer could be overwritten.

The second part of `WritePath_proofs` goes on from there, on the sequence `wire`, with one invariant, `History`:
- `WireEnd`: the wire ends with the pieces of the operation under way, and when that has sent nothing
  the connection is clean: the last PDU on it is whole. A step that sends then begins a PDU or sends
  the next piece of the last one (`PiecesFollow`), if not on the same connection;
- `SentByWriter`: nothing is sent of a command that no asynchronous write has had, which is what
  operation_canceled promises. That who sends is not yet answered is `Placed`'s, and gives
  `NothingSentAfterAnswer`;
- `Progress`: an operation has sent as many of its pieces as it counts, from the first on;
- `Success`: while nobody else closes, who succeeds, owes an answer of success or was told of it has sent all
  pieces, if not on the same connection;
- `Order`: with one io thread, what handlers were told, what a lambda is about to tell one, and what is under
  way stand on the wire in this order (`HandlersFollowTheWire`). With two, two answers can
  be owed at once; `OwedByIo` is there to exclude that.

`PiecesFollow` and `Success` hold under `Spec`, and what they lack is true when the socket is opened at rest. `Here` says
that what an unfinished operation has sent was sent on the connection that is open now; a step that
opens another keeps it if no write is between two short writes, for an operation that waits in the reactor
has been aborted when the socket is closed (`Unwaited`). So no PDU is on two
connections (`OnePduOneConnection`), and with that `PiecesFollow` gives `PdusAreWhole` and `Success` gives
`AnswersAreTruthful`, all under `RestfulSpec`. `TrueUnlessTorn` says the same under `Spec` as long as
no PDU is on two connections, and `FirstConnection` until the socket is opened again.

The second part of `ReadPath_proofs`, on the stream and the buffers, has two invariants. `Base` is about threads:
who closes, who parses, and that no body is asked for while a thread still parses (`ParseAlone`, from
`Orderly`). `Framed` says where in the stream the read is: a peek that completed was made at the
first octet of a PDU (`Announces`), `_read_buff` has the length of that PDU (`Sized`), the octets read
so far are those of the PDU from its first (`Fills`), and without a body under way the stream is at
the first octet of a PDU (`Aligned`). That `k` octets after the first of a PDU comes its
`k`-th (`PduOctets`) is proved by the least octet for which it is wrong, with the library's
`WFMin` on the order of the naturals: the library's induction theorems take an operator, which the
installed provers cannot instantiate, but a least counterexample needs none. `PdusAreDeliveredWhole` holds under `RestfulSpec` and `PdusOfFirstConnection` under
`Spec`, until the socket is opened again.

### The refinements

`WritePath_proofs`, at its end: `OutboxImplemented`, `Spec => ImplementsOutbox`. Where a command is (`Placed`) decides
its stage; a step moves the stage of at most one command, which is a step of `Outbox`, or
moves a command between places of the same stage. The abstract guards follow from the invariants: one
command at a time is written (`ExclusiveWriter`), and the commands of a thread leave in the order in which
they were enqueued.

`Inbox_proofs`: `InboxImplemented`, `RestfulSpec => ImplementsInbox`, when calls are `Orderly` and no thread
closes beside the io_context. A step touches what one call is in the hands of (`TouchesOnly`), and the
others keep stage and result (`OthersKeep`). Most steps give nothing (`Withheld`); the receive of the last
octet of a body gives the PDU that the body was begun for. That this one is the *next*
is the invariant `InOrder`:
- `Hungry`: a body that is not over wants more, so that a read is never over without saying so;
- `Ordered`: the PDUs given on this connection are those with numbers below that of the PDU at
  which the stream is, together with it once its last octet was read;
- `Past`: nothing was given on a connection that is still to come, so that `Reopen` starts with
  nothing given.

### The whole socket

`Session_proofs`: `SocketImplementsHalves`, `Spec => W!Spec /\ R!Spec`. Steps of one half leave the other's
variables and `_sock` alone; the steps that concern both are compared with what each half says of
them (`SharedWrites`, `SharedReads`), which is true of the states that can be reached only. Two invariants are needed:
- `Apart`: a thread is in a method of one half at a time, but for the end of `close()`, where it
  is in both, and only `Closers` are there. So a thread that closes is idle for the reads when `Shut` aborts
  them, and one that opens the socket is idle for both;
- `Counted`: the calls of `close()` that the receiving half has not seen are those of the threads that still drain
  the queue, so that it never sees more than `MaxCloses`.

`RestImplementsHalves` is the same of `RestfulSpec`. The proofs about the halves are then taken with the variables
of the socket (`WH`, `RH`), under `HalvesAssumption`: what both halves assume of the constants, which the run of
`Session` evaluates. `TypeCorrect` follows. `HandlersAreTruthful` (`TruthfulHandlers`, when calls are `Orderly`) joins
`TrueUnlessTorn` and `PdusOfFirstConnection`, and `HandlersAreTruthfulAtRest` joins `AnswersAreTruthful` and
`PdusAreDeliveredWhole` under `RestfulSpec`; `Counted` is needed there once more, as `close()` begins for the reads
after it began for the writes.

### The header and the conversion

`SegmentedInfo_proofs`: `SegmentIsFound`, `StaysInHeader`, `TypeCorrect`, all of headers that `AsBuilt` allows. The invariant `Walk`: in the loop, `rp` is
where an element begins or the header ends, and no element before it is a concatenation with
content. `ElementAt` reads kind and length there, and shows that length octet and content end before the
text (`StaysInHeader`), which `TypeCorrect` does not say; `HeaderSize` shows that the `uint8_t`
additions do not wrap for what `AsBuilt` allows. The elements are given by where they begin, so that the
description of a header needs no recursion, and none is needed to prove about it.

`Encoding`: `RoomEnough`, for texts of every length and each pair of encodings: no character
more than doubles (`AtMostDoubled`), so that the room left is always twice the text left (`Inv`).

### The codec and the object

`Codec_proofs`: `RoundTrip`. What `Encode` writes of a legal object whose `sm_length` tells the length of its
`short_message` is accepted, and decoded to the same object. Three kinds of step lead to it.
- *The loops compute what their equations say* (`MandatorySizeLoop` to `ReadOptionalLoop`). The
  functions exist because there is one for each smaller number of turns, which is induction in the form
  of a set of naturals that contains every next one (`Upwards`, `Downwards`, from a least counterexample again,
  `Least`).
- *One parameter*: `Written` and `WrittenSize` say that what is written has the size that `cmd_len` counted,
  `ReadsBack` that a reader at its first octet takes just these octets and makes the same value.
- *All of them*: `MandatoryReadBack` goes upwards over the parameters. Its hypothesis also
  says what has happened to the parameters still to come: a `short_message` behind an `sm_length`
  that was read has the announced size, as the reader will take as many octets as that.
  `OptionalReadBack` goes downwards over the tags, since the reader's loop gives what comes *from* a position
  on.

Beside this, whatever the octets: what is read is legal (`ReadLegal`, `ReadIntoLegal`, `ReadOptionalLegal`, `FillLegal`),
and what the object held before does not show in mandatory parameters that could all be read (`ReadSame`, `FillIs`).
`Patched` says that a patched octet of the header changes nothing else of what the octets say.

`PduObject_proofs`: `TypeCorrect`, `LengthIsTrue`, `CacheIsFaithful`, from `Inv`: the three properties and
`HasHeader`, the octets kept have a whole header. None is inductive alone. A setter of the header patches
octets or leaves them, depending on their number, and `CacheFaithful` needs them patched; `serialize()`
makes faithful octets only of legal fields (`TypeOK`), by `RoundTrip`; `deserialize()` makes them of what it
accepts, by `FillIs`, and fields that a refusal has left half read are legal still.

## 8. What is only model-checked

- Liveness (`WriterServesQueue`, `CloseAnswers`, `ReadAnswered`, `WritesServed`, `CloseSettles`), which is out of
  the prover's reach.
- That the assumptions on the constants have instances: TLC evaluates each of them in the runs.

## 9. What is not modelled, and why

- `src/libs/` is third-party code (442 000 of the 445 000 lines of the repository). Only the parts
  of boost.asio and the queue that the socket relies on are translated, where `map` says so. Of the
  program's own code the map covers about a third; most of the rest is `constants.h`, the
  declarations of the 25 PDU classes and of the optional parameters, and formatting.
- `delivery_receipt_info`: its constructor writes a text with `fmt` and `strftime` and keeps it. The
  text and layout of `to_string` and the tables of constants: no state, no property.
- iconv(3)'s tables: `Encoding` has what the three encodings need for a character.
- Assignment of PDU objects: it replaces all of the state by another object's. Copies share optional
  parameters through `shared_ptr`, but `set<>` and `deserialize` replace the pointer and nothing writes
  through it, so that copies are independent values, as the model has them.
- Destruction: every lambda holds the socket by `shared_ptr`, except those posted by `close()`
  and the one of `open_async`, which do not use it.
- Data races inside asio's socket object: `open_async`, `is_open`, `handle()` and continuations
  use `_sock` without `_sock_m`. That a continuation meets a socket in the middle of `close()` is
  modelled; what a torn read of the socket's members could do is not.
- The completion lambda of `open_async` (`socket.cpp:125-127`): it calls the open handler of the caller and changes no
  state of the socket. What the handler may do, any idle io thread may do in the model.
- Calling `open_async` on a socket that is open, and using the connection through
  `handle()` beside the socket's own methods.
- Values that `set<>` accepts and the codec then cuts (longer than `max_length_`, or fixed
  strings of another length): `cmd_len` counts them whole. Headers of segmented messages whose
  lengths do not add up: the constructor reads outside of `short_message` then. Nothing in the repository says
  what these should do.
- Memory: a command length of any size is honoured by `resize`.
