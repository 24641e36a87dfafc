# Mocca: a specification of its messaging core

Mocca is a C++ library for messaging between processes and threads. This
directory holds TLA+ models of the parts of it that are hard to test, the TLC
configurations that check them on small instances, and proofs, checked by
TLAPS, that hold for every instance. Paths below are relative to `src/mocca`.

## 1. Inventory

| Component | State | Operations | What is hard |
| --- | --- | --- | --- |
| `MessageQueue` (`include/mocca/base/MessageQueue.h`) | a deque, a mutex, a condition variable | `enqueue`, `dequeue`, `dequeueFiltered`, `dequeueNoWait` | filtered waiters on one condition variable, timeouts racing enqueues, an iterator kept across a wait |
| `Runnable`, `RunnableGroup` (`src/base/Thread.cpp`) | an interrupt flag, a thread, one exception slot; a static list of active runnables with a lock; a list of runnables | `start`, `join`, `interrupt`, `setException`, `rethrowException`, `isCurrentInterrupted` | threads joined and destroyed while others refer to them or search the list; one slot for many exceptions |
| `LoopbackConnection` (`src/net/message`) | two message queues, two signal queues, `connected_` | `send`, `receive`, `isConnected`, destructor | one Disconnect for two threads; messages under way when an end dies |
| Factories, spawners, acceptors (`Loopback*`, `Queue*`) | spawners by name, a queue of connections per spawner, a static counter | `bind`, `connect`, `accept` | two acceptors on one name, acceptors that come and go, a connection counter without a lock |
| `QueueConnection`, `TCPConnection`, `Sockets` (`src/net/stream`) | queues of bytes; sockets | `send`, `receive` with timeouts and partial results | partial reads and writes; a peer that closes gracefully, or not |
| Framing (`src/net/framing`, `FramingConnection`) | bytes of a frame read so far, two mutexes | `readMessageFromStream`, `writeMessageToStream`, handshake | a timeout or an interrupt in the middle of a frame; length encodings |
| `ConnectionAggregator` (`src/net/ConnectionAggregator.cpp`) | a list of connections, a list of runnables, two envelope queues, interrupt flag, exception slot | `run`, `receive`, `send`, `interrupt`, destructor; `SendThread::run`, `ReceiveThread::run` | connections removed while their threads run, errors of several threads at once, order of destruction |
| `Dispatcher` (`src/net/rpc`) | an aggregator and a table of methods | `run`, `registerMethod` | exceptions of one connection met while serving another |
| `RpcClient`, `AutoConnection` | one connection, or none | `send`, `receive`, `describe`; retries | reconnecting loses or repeats requests |
| `LogManager` and logs (`src/log`) | the singleton, its logs, a spin lock | `initialize`, `deinitialize`, `addLog`, `removeLog`, `logMessage` | list changed while logging, lock kept on an exception |
| `ObjectPool` | free objects, a mutex | `getObject`, deleter | objects given back while others are taken; size zero; objects that outlive the pool |
| Helpers (`BidirectionalMap`, `Nullable`, `StringTools`, `Endian`, `Path`, ...) | none, or one value | pure functions | boundaries |

How they interact: a `Dispatcher` polls a `ConnectionAggregator` for envelopes
and sends replies through it. The aggregator's thread asks acceptors for
connections and starts two `Runnable`s for each, which share the aggregator's
two `MessageQueue`s. A connection is a `LoopbackConnection`, made of
`MessageQueue`s, or a `FramingConnection` over a stream connection. Peers tell
each other of their end by a signal queue or by the closing of a socket.
Exceptions travel from a send or receive thread to its own slot, from there to
the aggregator's slot, and from there into the application's next call.

What makes the components correct: nothing sent over a queue or a connection is
duplicated, invented or reordered, and what is lost is lost only with a peer;
every wait ends; an end learns that its peer is gone; no thread uses an object
after it was destroyed; an error of one connection neither stops nor corrupts
another, and is reported; identifiers tell connections apart; logs agree on the
order of messages, and logging returns; an object of a pool has one owner.

## 2. Modules

| Module | Models | Abstraction of |
| --- | --- | --- |
| `AtomicQueue` | what `MessageQueue` promises: operations that take effect at one instant | |
| `MessageQueue` | the monitor, one action per step another thread can see | implements `AtomicQueue` |
| `SequenceLemmas` | lemmas: removing one element of a sequence, lists without duplicates, least elements, a sequence made of parts | |
| `MessageConnection` | what the ends of an `IMessageConnection` may rely on | |
| `LoopbackConnection` | two endpoints with two threads each; queues as in `AtomicQueue` | implements `MessageConnection` |
| `ConnectionSpawner` | factories, spawners and acceptors of loopback and queue connections | |
| `TCPConnection` | both ends of a TCP connection and the loops of their sockets, over two kernels | |
| `Runnable` | the life of runnables and the search of their list | |
| `ConnectionAggregator` | the aggregator, its threads, clients and the application; connections as in `MessageConnection`, queues as in `AtomicQueue` | |
| `FramingConnection` | one direction of a framing connection: frames of `SizePrefixedProtocol`, `sendAll`, `readExactly`, the two mutexes, over a stream of bytes | implements `MessageConnection` |
| `WebSocketHandshake` | `accept` with the handshake: `readUntil`, the headers, the answer | |
| `WebSocketFrames` | websocket frames read and written by the server | |
| `Dispatcher` | the dispatcher's thread, over an aggregator seen from outside | |
| `Rpc` | clients of a `Dispatcher` that use an `RpcClient` or an `AutoConnection` | |
| `LogManager` | the log manager, its logs, threads that log and the application that changes it | |
| `ObjectPool` | threads that take objects from a pool and give them back | |
| `*_proofs` | invariance and refinement proofs | |
| `MC*` | instances for TLC | |

`MessageQueue`. `sent` is the history of all items; an item in `queue` is its
position in `sent`. A program counter per thread and the `owner` of the mutex
give one action for taking the mutex, one for each critical section, one for
`notify_all` after the unlock. A waiting thread is woken by `Notify`, by
`SpuriousWake` or by `Timeout`; each time it takes the mutex back and evaluates
its predicate again, the last time after the timeout, as `wait_for` does.
`accept[c]` is the set of kinds the predicate of the pending call holds of;
`dequeue` is `dequeueFiltered` with a predicate that is always true.

`LoopbackConnection`. `isConnected` is two actions: taking a signal
(`PollSignal`), then writing and reading `connected_`. The plain `bool`
`connected_` is written by one thread and read by the other without a lock;
the read sees the old or the new value, which the order of the two actions
gives. It is separated from other reads by the mutex of the signal queue.

`ConnectionSpawner`. The classes `Loopback*` and `Queue*` are the same code
twice. A spawner is its factory and its place in `spawners_`; it is never
removed. `connectionCounter++` is a read and a write, and `step` says where a
client is between them. A connection is its number in `made`. `bind` is one step.

`TCPConnection`. Bytes are numbers in the order they are to be sent, so that a
byte lost, repeated or out of place shows. `sending` and `receiving` are what the
loops of `SendDataImplementation` and `ReceiveDataImplementation` have moved so
far; a timeout ends them anywhere. `news` is what the kernel knows of the peer.
`isConnected` is two actions, `select` and `ioctl`, between which the receiver
may come; `overtaken` remembers that it did, until `select` is asked again.
After a reset `recvfrom` fails, and so does `getpeername`, which the
handler in `TCPConnection::receive` calls: the status is "failed".

`Runnable`. `active` is the static list, `holder` who has its lock; a search
looks at one element per step. `start` is three steps, since the new thread may
run before `thread_` is assigned (`known`). Destroying is `BeginJoin` and
`EndJoin`, which the destructors of derived classes do, then `Erase`.

`ConnectionAggregator`. `at` is the place of every send and receive thread,
`aggregator`, `index` and `closing` that of the aggregator's thread: the
acceptor or runnable its loop is at, and the connection it removes. `report`
and `exception` are the exception slots, `stop` and `interrupted` the flags.
`app` is the application's place in its calls and in the destructor, whose
member destructors run in the reverse of the declaration order. The ids of the
two threads of a connection are stored in each other's place by the source
(`emplace_back` and the constructor of `ThreadedConnection` disagree), so the
send thread is joined first. `join` interrupts a thread before it waits for it;
joining and erasing are one step each, with the interrupt in the step before. An
acceptor that throws may have taken a stream whose handshake failed, which is
closed with that (`HandshakeThrows`). What clients do is left open.

`FramingConnection`. `owner` says whether an endpoint is the aggregator's,
served by one `Runnable` per direction that may be interrupted, or an
application's, used by any thread. A call of the stream is two actions,
`CallStream` or `ThrowClosed`, where it finds its peer alive or gone, and
`SendBytes` or `ReceiveBytes`, which move some of the bytes: a
`QueueConnection` takes all and gives what is there, a `TCPConnection` may take
some. `rest[w]` is what the loops of `writeMessageToStream` and `sendAll` have
still to send, `frame[r]` the field `readMessageFromStream` is at, with the
bytes `readExactly` has of it. A reader that finds its peer gone gets nothing
more: `QueueConnection` does not look into its queue any longer, and
`ReceiveData` throws away what it had read before the end. A byte has three
values and a size word two bytes, so that sizes carry.

`WebSocketHandshake`. A request is a sequence of pieces that arrive whole.
`byte` is the variable `readUntil` lets `receive` write to and appends without
asking whether it was written; before the first byte it is one of `Garbage`.
`Found` looks at as many bytes as `std::search` is given. The hash and the
encoding of the key are left out: `answer` is the key answered.

`WebSocketFrames`. Header bytes have their values and numbers their byte order,
as `swap_uint16` and `swap_uint64` give it; `Xor` unmasks bit by bit.
A payload is one element of the stream whatever its size, with its mask; a call
that ends inside one has lost the boundaries (`"astray"`). The build option
`MOCCA_RUNTIME_CHECKS` is on, as `CMakeLists.txt` has it: any flag byte but 0x81
and 0x88 is refused, also 0x82, which the writer gives to what it takes for a
JPEG. The client is external.

`Dispatcher`. The aggregator is the one of `ConnectionAggregator` with
`RemoveConnection`, as its user sees it: `Gather` and `Distribute` move messages
between the connections and its two queues, and `report` is its exception slot,
which the next `receive` or `send` empties with a throw. `served` says which
threads the aggregator has for a connection. A thread of a connection that broke
ends by a `ConnectionClosedError`, and the aggregator removes the connection
(`EndByClose`), or by another error, which it keeps (`EndByError`): a TCP send to a
peer that is gone throws a `NetworkError`, a receive after a reset a
`SocketException`. Which of them it is, is left open, and so are errors of
acceptors and of connections that did not break (`Fault`). A request is its
connection, its number on it and what becomes of it: its method works or throws
a `runtime_error`, it is refused before a method is called, or its method throws
something no handler catches (alien). `sendReply` is called inside the `try`
block and again inside the handler, so an exception of the aggregator turns a
success into an error reply the first time and leaves `run` the second.
`Terminate` is an exception that leaves `run`: the process ends.

`Rpc`. A client makes its calls one after the other, each a send and a receive,
and both connect when there is no connection. That a connection broke may be
noticed late: `UseConnection` may take one that is already broken. After a
failure, a `NetworkError` of any kind, `conn` is `None`, as in `RpcClient`; for an `AutoConnection` it stands
for a connection that `isConnected` reports as lost. The connection is a framing
connection, whose `receive` waits for a message or the end.

`LogManager`. `manager` numbers the managers, so that a thread that still uses an
old one is told from one that uses the new. A log is handed a message in one
step, or throws, or logs itself; both leave the spin lock set (`jammed`). A
thread that uses a manager that is gone or an iterator of a list that changed is
lost, for what follows is undefined. In half of the behaviours (`quiet`) the
application waits with `initialize`, `deinitialize`, `addLog` and `removeLog`
until nobody logs. A log that was removed may be added again; one that was in the
list when its manager went is `deleted` with it.

`ObjectPool`. Objects are numbers in the order they are made, `used` are those
somebody has left something in. The deleter is two actions, `clear` without the
lock and `push_back` with it.

## 3. Runs

| Run | Instance | Shows |
| --- | --- | --- |
| `message_queue` | 2 producers, 2 consumers, 2 kinds, 2 items | `MessageQueue` implements `AtomicQueue`; no lost wake-up, valid iterator, every item once, every call returns |
| `transports` | one loopback pair, 3 messages per direction; or 2 factories, 2 clients, 2 acceptors, 2 binds (of port 0 or counted up), 2 connections; or one TCP connection, 1 and 3 bytes, kernels that hold 2, receives of up to 2 | `LoopbackConnection` implements `MessageConnection` and its Disconnect reaches both threads; connections of a name are accepted, in the order in which they were made, by whichever acceptor has the name; TCP bytes come out intact, a connection is given up only for a reason, and the end is noticed |
| `identifiers` | the same | a violation: two clients that connect at once get equal identifiers (see below) |
| `hard_close` | the same | a violation: a reset does not come out as a `ConnectionClosedError` (see below) |
| `aggregator_safety` | 2 connections (symmetric), 1 message and 1 reply each, `RemoveConnection` | no use after free, removal finds what it removes, messages reach the application and replies their connection |
| `aggregator_traffic` | 1 connection, 2 messages, 1 reply, faults of acceptor and connection, `ThrowException` | replies are sent, and every exception is followed by a throw to an application that polls |
| `aggregator_remove` | 2 connections at 2 acceptors, faults of connections, `RemoveConnection` | every closed connection is removed, and the destructor returns |
| `framing` | 2 writers, 2 readers, one of each a `Runnable`; each end the aggregator's or an application's; a stream of 3 bytes; 2 messages: without parts, with an empty part, with a part whose size takes two bytes. Or 2 requests (no key; two keys after another header), followed by a frame that looks like the end of a request, 1 pause. Or 2 frames to the server and 1 from it, of 5 sizes on both sides of each encoding, 2 kinds, one mask of four different bytes | `FramingConnection` implements `MessageConnection` part by part and byte by byte; interrupts end calls; everything arrives unless an end is destroyed or interrupted. Without a pause a request is read exactly and its first key answered; `accept` returns on an interrupt. Reader and writer keep the frames' boundaries, sizes, masks and order |
| `read_until` | the same | a violation: after a pause the request read is not the one sent (see below) |
| `rpc` | 2 clients with `RpcClient`, 1 call each, which between them ask for methods that work, throw or end the process, over 2 connections; or 1 client with either class, 2 calls, 3 connections; or 1 client with 1 request that is refused; one disturbance (an error the aggregator keeps, of a connection that broke or any other, or an interrupt) | one reply to each request; an error is met by one reply or by the end of the process, and nothing else is; answers go to the call that asked, no request is executed twice; every request is answered and every call returns unless its connection breaks or the dispatcher does not go on |
| `base` | 2 logging threads, 1 message each, 1 start of the manager, 3 logs, one of which throws or logs, 3 additions, 2 levels; or 2 users with 2 objects each of a pool that begins with 2; or 2 runnables | all logs get messages in one order, and logging returns; objects of the pool have one owner, come out clean, and the pool grows only when it must; interrupts are heeded and destructors return |
| `log_thread_safe` | the same | a violation: the list of logs changes under an iterator (see below) |

`transports`, `framing` and `base` each put components that share no state into
one system: `part` says which one a behaviour is about, the others stay in their
initial states, and each keeps its own fairness. This checks exactly what
separate systems would; nothing is interleaved that could not be.

`read_until` is a finding. `readUntil` (`src/net/framing/FramingUtils.cpp:32`)
ignores how many bytes `receive` returned. A client that is silent for 100 ms
inside its request, or is accepted before it has sent anything, has a byte it
did not send put into it: the last one once more, or an uninitialised one. The
tests of `readUntil` (`tests/net/FramingUtilsTest.cpp`) expect the bytes of the
stream and fill it before they read.

`hard_close` is a finding. A peer that closes its socket with bytes it has not
read, or that is sent bytes after it closed, resets the connection. `recvfrom`
then fails; the handler in `TCPConnection::receive`
(`src/net/stream/TCPConnection.cpp:74`) asks the socket for the address of its
peer to put it into the text of the `ConnectionClosedError`; a socket that was
reset has no peer, so the question fails, and a `SocketException` leaves the
handler. The aggregator removes a connection for a `ConnectionClosedError` only,
so that this one stays. The test of the aggregator
(`tests/net/ConnectionAggregatorTest.cpp:156`) expects the `ConnectionClosedError`
of a client that has nothing left to read. `send` takes the address from
`connectionID_` and is not affected.

`log_thread_safe` is a finding. `LogManager.h` says that logging is performed
thread-safe, but `addLog` and `removeLog` do not take the lock.

`identifiers` is a finding. Every client thread increments the static
`connectionCounter` (`src/net/message/LoopbackConnectionSpawner.cpp:32`) twice,
without a lock: two that connect at the same time may number their endpoints
alike. `tests/net/MessageConnectionTest.cpp:63` says that identifiers are
distinct, and connects from one thread. The aggregator looks for a connection to
remove by its identifier.

What follows from `hard_close` for a dispatcher is part of `rpc`: the exception
the aggregator keeps leaves `Dispatcher::run` at its next `receive`, outside of
the `try` block (`src/net/rpc/Dispatcher.cpp:56`), and ends the process, or it is
met by `sendReply` and turns a success into an error reply. `ErrorsMetOnce` says
that this is all it costs, and that connections that are closed in order cost
nothing.

One thing the passing runs allow because the code does it: `isConnected` may give
up a connection whose bytes another thread receives between its `select` and its
`ioctl` (`LostForAReason` names the case).

Bounds. Two of each kind of thread are enough for every race between two
producers, two filters or two connections; a third would be a copy in the same
role, and the proofs of `MessageQueue` cover any number. Two items let one be
overtaken by another. One message and one reply per connection show the routing;
that several keep their order is proved. The connections are interchangeable where all are
opened at one acceptor and no liveness is checked, so that run uses symmetry.

The stream holds fewer bytes than a frame, so that every frame is cut, at every
byte; a second message shows what a cut leaves behind for the next. One pause is
enough to spoil a request, and two would only do so twice. A second frame shows
that nothing of the first is left in the reader; frames in the other direction
do not depend on them, so one shows the encoding.

Two clients show a request met by an exception about another connection. One
disturbance is enough for each handler of the dispatcher, since it is noticed at
one call only; that several are each met once is proved. Three connections are two breaks, in each call or between send
and receive. `maxRetries` is 2, not 10, so that the retries run out.

In `transports` the numbers are the smallest that let things meet: two factories
share the counters, a port counted up equals one bound by its number, an acceptor
is destroyed and another bound to the same spawner, and two clients number their
endpoints at once. Three bytes through kernels that hold two are sent and received
in parts. In `base` one message each lets two threads contend for the lock and a
manager end between a question and its use; three logs are what it takes for a
list to change before, at and after the log an iterator is at, and three
additions let a removed log come back. A pool of two with
four takers grows once. Two runnables search past each other.

Deadlock is checked for `message_queue`. The other systems end: all endpoints
destroyed, the aggregator destroyed, the handshake done, the bound on frames
reached.

Fairness. A thread that runs goes on. In `MessageQueue` a thread blocked on the
mutex gets it when it is free again and again (strong fairness of its step),
and the deadline of `wait_for` is absolute, so that a thread that keeps waiting
finds it passed however often it is woken (strong fairness of `Timeout`).
Elsewhere weak fairness of each thread's step is enough, since the waits of
`accept`, `receive` and `dequeueFiltered` end by timeouts. In `Rpc` a client
that is inside a call goes on with it, and finds in the end that its connection
broke. A logging thread that spins on the lock needs no more than weak
fairness, since a finite number of messages lets it come to its turn; a runnable
that waits for the lock of the list gets it in the end (strong fairness of `Ask`
and `Erase`), for others ask again and again. Nobody is obliged to call anything;
`Arrives`, `AllRead` and `EndNoticed` assume a receiver that receives again, as
`ReceiveThread::run` does, `Accepted` acceptors that are asked again, as
`ConnectionAggregator::run` does, and `ExceptionsReported`, in its premise
`Polling`, an application that calls `receive` again and again, as
`Dispatcher::run` does. That a peer's end arrives is assumed of the
kernel.

## 4. Proofs

`MessageQueue_proofs` proves, for any producers, consumers, kinds and bound,
that the type invariant, the three safety invariants of `message_queue` and
`KindOrder` (items a filter cannot tell apart never overtake each other) hold, and
that `MessageQueue` implements `AtomicQueue`. The assumptions are those of
the module: producers and consumers are disjoint, there is at least one kind,
the bound is a number. The inductive invariant `IInv` adds two facts to what is
to be shown: `MutexOK`, the thread inside a critical section is the owner of
the mutex, and `Sorted`, the queue holds positions in ascending order. The
first is why the iterator stays valid and why no one goes to wait after an item
arrived; the second is what makes "first in the queue" and "oldest" the same.
The refinement then needs one lemma per kind of step: a critical section that
appends, takes or gives up is the atomic operation, every other step changes
nothing the atomic queue can see.

`Loopback_proofs` proves, for any number of paired endpoints and any
number of messages, type correctness, `DisconnectKept`, and that
`LoopbackConnection` implements `MessageConnection`. It assumes of the constants
only that `Peer` pairs the endpoints off and that the bound is a number. Its
invariant adds to the two properties `CallsOK`, a thread inside a call has a
living endpoint and holds a signal only until it acts on it, and
`InboxInOrder`, an inbox holds exactly the messages sent and not yet received.
`DisconnectKept` is what justifies every `ConnectionClosedError`, `InboxInOrder`
is what makes the front of the inbox the next message.

`Loopback_proofs` also proves `AcceptedInOrder` of `ConnectionSpawner` for any
factories, clients, acceptors, ports and bounds. A name has one spawner in a
factory (`OneOfEachName`), what is bound or asked for is one that exists (`InUse`),
and what waits at a spawner are the connections made for it and not yet accepted
(`WaitingOK`), in the order of their numbers, none of which was accepted before
those it waits behind (`InTurn`). That a client gets an identifier of its own is no part of it: it may
not (`identifiers`).

`TCPConnection_proofs` proves `LostForAReason` and `StreamIntact` for streams,
kernels and receives of any size. The invariant of the first adds that a kernel
has news of an end only after the peer closed (`NewsTrue`), and what
`isConnected` knows between its two calls: what `select` saw is still there, or
a receive came between (`AskedForAReason`). That of the second, `StreamOK`,
follows the bytes: those returned, then those lost or in a receive's hands, then
those in the kernel's buffer are consecutive numbers, and together they are all
that was sent as long as the socket is not closed. This is why a closed
connection is reported only after the last byte: the buffer was empty.

`ConnectionAggregator_proofs` proves the type invariant and the four safety
properties of the aggregator, for any connections, acceptors, bounds and faults
and under both strategies. `NoUseAfterFree` and `RemovalFinds` rest on the places
a connection goes through: it is opened once, waits at its own acceptor
(`WaitingOK`), is in the list until it is erased (`ConnectionOK`), and its two
threads are in their list from then on until they are erased, which happens
before (`ThreadOK`, `RemovalOK`); members are destroyed only after the
aggregator's thread has ended (`DestructionOK`). `InboundIntact` and
`OutboundIntact` rest on one formula, `InOrder`: the messages of a connection
that are in a queue are those after the last taken out up to the last put in,
in this order and among those of other connections wherever they are. A
thread's hands are one more place in that line (`HandsOK`). One operation of
each end of a queue keeps `InOrder`; that `dequeueFiltered` takes the oldest
of its connection needs that a set of numbers has a least one (`LeastElement`).

`Rpc_proofs` proves, for any number of clients, any workloads, connections and
disturbances, type correctness, `OneReplyEach`, `RepliesTrue`, `OwnAnswer` and
`ErrorsMetOnce`. It assumes that a workload is one of `Workload` and that
the bounds are numbers. The requests of a connection go through the receive
queue, the dispatcher's hands and the send queue without overtaking each other
(`ReceiveOrder`, `EnvelopeOrder`, `SendOrder`), and while the connection is up
none is missing (`Present`): then the reply that reaches the client next is to
the oldest request without one, and `Numbered` follows. `Newest` says that a
method is called for a request newer than all before it, hence once; `ThreadOK`
what the dispatcher's thread knows at each place; `ClientsOK` that every client
has a connection of its own and has taken all replies but the one it waits for,
which makes the reply it gets the answer to its call. `ErrorsSpent` counts: every
error kept is still waiting, in the hands of the dispatcher's thread, or was spent
on one error reply or on the end of the process (`Spent`), and no step of the
dispatcher, no closed connection and no break adds to it.

`Base_proofs` proves `Pool` for any users and any initial size of at least one,
and `SameOrder` for any threads, logs, levels and managers. The invariant of the
pool adds the types and that the history `peak` is never below the number of
objects out; growth happens only when all are out, which bounds `size`. That of
the log manager says that one thread that uses the manager is inside the lock
(`LockOK`), that a log is in the list once (`LogsOK`),
that no log has a message its thread has not come to (`NumbersOK`), and that a
message being handed out came last in every log that has it and is not yet in
those still to come (`InHandOK`). `SameOrder` holds although `addLog` and
`removeLog` do not take the lock: a thread whose list changed hands out nothing
that the model follows.

`WebSocket_proofs` proves `PromptRequestRead` for any requests and
whatever a client sends after one. It assumes of a request that it is made of
pieces and that its only delimiter is at its end, which defines where a request
ends. Before the first pause, what is in the buffer, under way and still to be
sent is one sequence that begins with the request (`NothingBetween`), and the
buffer has a delimiter at its end or nowhere (`EndsOnce`): then a buffer that ends
with a delimiter and agrees with the request is the request. `KeysFound` is about
the request alone: when its lines are those HTTP has (`WellFormed`), the headers
`receiveHandshake` looks through are all of them, so that the first key of the
request is the first it finds. A request of another form is read as well, but
nothing is said of its answer.

It also proves `FramesRead` and `FramesWritten`, for any sizes below 2^32, any
texts and masks and any number of frames. The masks are of four bytes, the sizes
are written to and read from as many bytes as the code takes, and that these
agree is lemmas: a number comes back from its bytes (`NumbersSurvive`), a
mask exclusive-ored with itself is none (`XorSelf`). `FramesInv` says that as long as the reader
is not astray the stream is what is left of the frame it is in, at the place it
has come to (`At`), followed by the frames sent after it: then it never takes a
payload for a header and never goes astray. `WrittenInv` says that the stream to
the client is the frames of what was written, joined. `PartsJoined` expresses
both without a recursive definition: there is a function from positions to
sequences, each of which is the next part and the one after it. The parsing
client of `FramesWritten` is a recursive function, `Unread`; that it has read
the first i frames after i steps follows from the least i for which it has not.

`SequenceLemmas` states what the proofs keep needing about sequences: what
remains after one element is erased, that lists without duplicates stay so, and
that a set of numbers that is not empty has a least one, which replaces the
induction the provers cannot instantiate. `PartsJoined` and its lemmas are about
a sequence made of parts: adding a part, taking the first.

Only model-checked: the liveness properties, which are outside the prover's
reach (they need fairness and ENABLED); and the refinement of `FramingConnection`,
whose frames of any size need an induction over the bytes of a message. The
type invariants of the modules that have no proofs document what the variables
range over.

## 5. What is not modelled

- `ConnectionAggregator::isLocalMachine` and its set; `MessageQueue::isEmpty`
  and `size`, which only read.
- What follows a data race with no defined outcome: `interrupt` walks the list
  of runnables while the aggregator's thread may change it. The model takes the
  walk as one step.
- Message contents, except below the framing layer: a message is its number on
  its connection.
- Resolution of names, socket options and binding; UDP and multicast sockets,
  which nothing in the library uses; two calls of `bind`, or a `bind` during a
  `connect`, at the same time, which is a race on a vector.
- An `ObjectPool` of initial size zero, or one destroyed before its objects: both
  are undefined at the first use.
- Network errors other than the end of a connection below the framing layer; websocket
  payloads beyond 32 bits, and the text of the handshake's answer.
- Requests a client sends before it has the reply to the last one; an
  `RpcClient` over a loopback connection, whose `receive` gives an empty message
  after 200 ms; what methods do. `describe` is a call like any other.
- System calls, formatting of logs, command lines, compression, encryption, the
  file system, JSON conversions: they keep no state that others depend on.

## 6. Plan

The order so far: the queue first, since all threads meet in it, then a
connection made of queues, the aggregator over connections, the framing layer
below, the RPC layer above, then the factories, sockets, runnables, logs and the
pool. Next:

1. That framing keeps messages intact: the refinement of `FramingConnection`,
   from an invariant over stream, rest and frame like `StreamOK` of the sockets,
   as far as it goes without an induction over the bytes of a message.
2. That `TCPConnection` implements the stream `FramingConnection` assumes, and
   `ConnectionAggregator` the aggregator `Dispatcher` assumes.
3. Pure algorithms: `BidirectionalMap`, string splitting, endpoints, against
   reference definitions.
