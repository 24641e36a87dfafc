-------------------------- MODULE FramingConnection --------------------------
(***************************************************************************)
(* One direction of a FramingConnection (net/message) that uses            *)
(* SizePrefixedProtocol (net/framing) over a stream of bytes: threads at   *)
(* the source send messages, threads at the sink receive them.  A message  *)
(* is a sequence of parts, a part a sequence of bytes; a frame is the      *)
(* number of parts and then, for each part, its size and its bytes.        *)
(*                                                                         *)
(* The stream is what IStreamConnection offers: each call moves as many    *)
(* bytes as are there or fit, or throws ConnectionClosedError.  It covers  *)
(* QueueConnection, which takes all bytes and reports a peer that is gone  *)
(* at once, and TCPConnection, which may take some and lets what arrived   *)
(* be read first.                                                          *)
(***************************************************************************)
EXTENDS Naturals, Sequences, FiniteSets, SequencesExt

CONSTANTS
  Writer, Reader,   \* the threads at the source and at the sink
  Runnables,        \* those of them that serve a connection of the aggregator
  Message,          \* the messages sent
  Base,             \* how many values a byte has
  WordSize,         \* sizeof(uint32_t)
  Capacity,         \* bytes the stream holds before send moves no more
  MaxSent           \* bound on the messages sent

Thread == Writer \cup Reader

\* The connection aggregator has one thread for each direction.
ASSUME ThreadAssumption ==
  /\ Writer \cap Reader = {}
  /\ Runnables \subseteq Thread
  /\ Cardinality(Writer \cap Runnables) <= 1
  /\ Cardinality(Reader \cap Runnables) <= 1

\* An uint32_t as it is in memory, the lowest byte first.
Word(n) == [i \in 1..WordSize |-> (n \div Base^(i-1)) % Base]
Value(w) == FoldRight(LAMBDA byte, rest : byte + Base * rest, w, 0)
Frame(m) == Word(Len(m)) \o FlattenSeq([i \in 1..Len(m) |-> Word(Len(m[i])) \o m[i]])

ASSUME MessageAssumption ==
  \A m \in Message :
    /\ Len(m) < Base^WordSize
    /\ \A i \in 1..Len(m) : Len(m[i]) < Base^WordSize /\ m[i] \in Seq(0..Base-1)

None == "none"

VARIABLES
  owner,        \* whose the endpoints are, from the beginning
  stream,       \* bytes sent and not yet received
  alive,        \* which of the two endpoints exist
  interrupted,  \* threads whose interrupted_ is set
  pc,           \* where each thread is in its call
  holder,       \* who holds sendMutex_ and receiveMutex_
  rest,         \* what each writer still has to send of its frame
  frame,        \* what each reader has read of its frame
  sent,         \* history: messages sent
  rcvd,         \* history: messages received
  raised        \* history: endpoints where ConnectionClosedError was raised

vars == <<owner, stream, alive, interrupted, pc, holder, rest, frame, sent, rcvd, raised>>

\* The frame a reader has begun: the word or the bytes it is reading now, how
\* many parts are missing, and the parts it has.
NewFrame == [field |-> "count", want |-> WordSize, buffer |-> <<>>,
             missing |-> 0, parts |-> <<>>]

Init ==
  /\ owner \in [{"source", "sink"} -> {"aggregator", "application"}]
  /\ stream = <<>>
  /\ alive = {"source", "sink"}
  /\ interrupted = {}
  /\ pc = [t \in Thread |-> "idle"]
  /\ holder = [mutex \in {"sendMutex", "receiveMutex"} |-> None]
  /\ rest = [w \in Writer |-> <<>>]
  /\ frame = [r \in Reader |-> NewFrame]
  /\ sent = <<>>
  /\ rcvd = <<>>
  /\ raised = {}

EndOf(t) == IF t \in Writer THEN "source" ELSE "sink"
PeerOf(t) == IF t \in Writer THEN "sink" ELSE "source"
MutexOf(t) == IF t \in Writer THEN "sendMutex" ELSE "receiveMutex"

\* An endpoint of the aggregator is served by its Runnables only, and they may
\* be interrupted; one of an application's by any thread.
Interruptible == { t \in Runnables : owner[EndOf(t)] = "aggregator" }
Serving(t) == owner[EndOf(t)] = "aggregator" => t \in Runnables

Goto(t, l) == pc' = [pc EXCEPT ![t] = l]
Unlock(t) == holder' = [holder EXCEPT ![MutexOf(t)] = None]

-----------------------------------------------------------------------------
\* Mutant: the frame is written, or read, without the mutex.
NoLock(t) == UNCHANGED holder

Lock(t) ==
  /\ holder[MutexOf(t)] = None
  /\ holder' = [holder EXCEPT ![MutexOf(t)] = t]

\* send: writeMessageToStream locks sendMutex and has a frame to write.
StartSend(w, m) ==
  /\ pc[w] = "idle" /\ EndOf(w) \in alive /\ Serving(w)
  /\ Len(sent) < MaxSent
  /\ Lock(w)
  /\ rest' = [rest EXCEPT ![w] = Frame(m)]
  /\ sent' = Append(sent, m)
  /\ Goto(w, "looping")
  /\ UNCHANGED <<owner, stream, alive, interrupted, frame, rcvd, raised>>

\* receive: readMessageFromStream locks receiveMutex.
StartReceive(r) ==
  /\ pc[r] = "idle" /\ EndOf(r) \in alive /\ Serving(r)
  /\ Lock(r)
  /\ frame' = [frame EXCEPT ![r] = NewFrame]
  /\ Goto(r, "looping")
  /\ UNCHANGED <<owner, stream, alive, interrupted, rest, sent, rcvd, raised>>

\* Mutant: the loops do not look at the flag.
NeverInterrupted(t) == FALSE

\* isCurrentInterrupted.
IsInterrupted(t) == t \in interrupted

\* The top of the loops of sendAll and readExactly: ThreadInterrupt leaves the
\* frame where it is.  FramingConnection swallows it, and the Runnable ends.
ThrowInterrupt(t) ==
  /\ pc[t] = "looping" /\ IsInterrupted(t)
  /\ Unlock(t)
  /\ Goto(t, "ended")
  /\ UNCHANGED <<owner, stream, alive, interrupted, rest, frame, sent, rcvd, raised>>

\* The stream's send or receive finds the peer gone.  A reader gets nothing
\* more: a QueueConnection no longer looks into its queue, a socket reports
\* the end when it has been read empty, or was reset.
ThrowClosed(t) ==
  /\ pc[t] = "looping" /\ ~IsInterrupted(t)
  /\ PeerOf(t) \notin alive
  /\ raised' = raised \cup {EndOf(t)}
  /\ Unlock(t)
  /\ stream' = IF t \in Reader THEN <<>> ELSE stream
  /\ Goto(t, "closed")
  /\ UNCHANGED <<owner, alive, interrupted, rest, frame, sent, rcvd>>

\* The stream's send or receive goes on, also for a peer that is gone when
\* the stream has room, or bytes left.
CallStream(t) ==
  /\ pc[t] = "looping" /\ ~IsInterrupted(t)
  /\ \/ PeerOf(t) \in alive
     \/ t \in Writer /\ Len(stream) < Capacity
     \/ t \in Reader /\ stream # <<>>
  /\ Goto(t, "moving")
  /\ UNCHANGED <<owner, stream, alive, interrupted, holder, rest, frame, sent, rcvd, raised>>

-----------------------------------------------------------------------------
\* Mutant: sendAll is content with what the first send takes.
OnlyOnce(w, n) == <<>>

\* buffer + bytesTotal
Unsent(w, n) == SubSeq(rest[w], n + 1, Len(rest[w]))

\* The stream takes the next n bytes, or none when it is full.
SendBytes(w, n) ==
  /\ pc[w] = "moving"
  /\ n <= Len(rest[w]) /\ Len(stream) + n <= Capacity
  /\ n = 0 => Len(stream) >= Capacity
  /\ stream' = stream \o SubSeq(rest[w], 1, n)
  /\ rest' = [rest EXCEPT ![w] = Unsent(w, n)]
  /\ IF Unsent(w, n) = <<>>
     THEN Unlock(w) /\ Goto(w, "idle")
     ELSE UNCHANGED holder /\ Goto(w, "looping")
  /\ UNCHANGED <<owner, alive, interrupted, frame, sent, rcvd, raised>>

NextPart(f) ==
  IF f.missing = 0 THEN [f EXCEPT !.field = "done"]
  ELSE [f EXCEPT !.field = "size", !.want = WordSize, !.buffer = <<>>]

\* A part is complete.
AddPart(f) ==
  NextPart([f EXCEPT !.parts = Append(@, f.buffer), !.missing = @ - 1])

\* A part of size zero is complete before a byte of it is read.
EmptyPart(f) == AddPart([f EXCEPT !.buffer = <<>>])

\* What readMessageFromStream does after readExactly: the loop over the parts.
AfterField(f) ==
  CASE f.field = "count" -> NextPart([f EXCEPT !.missing = Value(f.buffer)])
    [] f.field = "size" /\ Value(f.buffer) = 0 -> EmptyPart(f)
    [] f.field = "size" /\ Value(f.buffer) > 0 ->
         [f EXCEPT !.field = "data", !.want = Value(f.buffer), !.buffer = <<>>]
    [] f.field = "data" -> AddPart(f)

\* readExactly goes on until it has all of the field.
AfterBytes(f) == IF Len(f.buffer) < f.want THEN f ELSE AfterField(f)

\* The stream gives the bytes that are there, up to those still missing.
ReceiveBytes(r) ==
  LET f == frame[r]
      n == IF Len(stream) < f.want - Len(f.buffer) THEN Len(stream)
           ELSE f.want - Len(f.buffer)
      g == AfterBytes([f EXCEPT !.buffer = @ \o SubSeq(stream, 1, n)])
  IN  /\ pc[r] = "moving"
      /\ stream' = SubSeq(stream, n + 1, Len(stream))
      /\ frame' = [frame EXCEPT ![r] = g]
      /\ IF g.field = "done"
         THEN rcvd' = Append(rcvd, g.parts) /\ Unlock(r) /\ Goto(r, "idle")
         ELSE UNCHANGED <<rcvd, holder>> /\ Goto(r, "looping")
      /\ UNCHANGED <<owner, alive, interrupted, rest, sent, raised>>

-----------------------------------------------------------------------------
\* Runnable::interrupt, by the aggregator.
Interrupt(t) ==
  /\ t \in Interruptible \ interrupted
  /\ interrupted' = interrupted \cup {t}
  /\ UNCHANGED <<owner, stream, alive, pc, holder, rest, frame, sent, rcvd, raised>>

\* A Runnable that is interrupted between two calls makes no other.
EndLoop(t) ==
  /\ pc[t] = "idle" /\ t \in interrupted
  /\ Goto(t, "ended")
  /\ UNCHANGED <<owner, stream, alive, interrupted, holder, rest, frame, sent, rcvd, raised>>

\* The owner destroys the connection when no thread is in a call on it.
Destroy(e) ==
  /\ e \in alive
  /\ \A t \in Thread : EndOf(t) = e => pc[t] \in {"idle", "ended", "closed"}
  /\ alive' = alive \ {e}
  /\ UNCHANGED <<owner, stream, interrupted, pc, holder, rest, frame, sent, rcvd, raised>>

Send(w) ==
  \/ \E m \in Message : StartSend(w, m)
  \/ \E n \in 0..Len(rest[w]) : SendBytes(w, n)

Receive(r) == StartReceive(r) \/ ReceiveBytes(r)

Step(t) == ThrowInterrupt(t) \/ ThrowClosed(t) \/ CallStream(t) \/ EndLoop(t)

Next ==
  \/ \E w \in Writer : Send(w) \/ Step(w)
  \/ \E r \in Reader : Receive(r) \/ Step(r)
  \/ \E t \in Thread : Interrupt(t)
  \/ \E e \in alive : Destroy(e)

Spec == Init /\ [][Next]_vars

\* A thread inside a call goes on, and while the mutex is free some receiver
\* calls again.
FairSpec ==
  /\ Spec
  /\ \A w \in Writer :
       WF_vars((\E n \in 0..Len(rest[w]) : SendBytes(w, n)) \/ Step(w))
  /\ \A r \in Reader : WF_vars(ReceiveBytes(r) \/ Step(r))
  /\ WF_vars(\E r \in Reader : StartReceive(r))

-----------------------------------------------------------------------------
(* Properties *)

Byte == 0..Base-1

TypeOK ==
  /\ owner \in [{"source", "sink"} -> {"aggregator", "application"}]
  /\ stream \in Seq(Byte)
  /\ alive \subseteq {"source", "sink"}
  /\ interrupted \subseteq Interruptible
  /\ pc \in [Thread -> {"idle", "looping", "moving", "ended", "closed"}]
  /\ holder["sendMutex"] \in Writer \cup {None}
  /\ holder["receiveMutex"] \in Reader \cup {None}
  /\ rest \in [Writer -> Seq(Byte)]
  /\ \A r \in Reader : frame[r].want \in Nat /\ frame[r].buffer \in Seq(Byte)
  /\ sent \in Seq(Message)
  /\ rcvd \in Seq(Seq(Seq(Byte)))
  /\ raised \subseteq {"source", "sink"}

\* Messages come out as they went in, part by part, although their frames are
\* cut at any byte, writers and readers compete, and a writer or a reader may
\* be interrupted inside a frame.
MessagesIntact == IsPrefix(rcvd, sent)

\* The connection is a MessageConnection that is used in one direction.  The
\* number received last is one that was never sent as soon as what comes out
\* differs from what went in.
Other == [e \in {"source", "sink"} |-> IF e = "source" THEN "sink" ELSE "source"]
Abstract == INSTANCE MessageConnection WITH
  Endpoint <- {"source", "sink"},
  Peer <- Other,
  sent <- [e \in {"source", "sink"} |-> IF e = "sink" THEN Len(sent) ELSE 0],
  rcvd <- [e \in {"source", "sink"} |-> IF e = "source" THEN 0
                                            ELSE IF MessagesIntact THEN Len(rcvd)
                                            ELSE MaxSent + 1]
Implements == Abstract!ConnSpec

\* An interrupted thread leaves its call, wherever it is in its frame: the
\* aggregator that joins it does not wait for ever.
InterruptEndsCall ==
  \A t \in Runnables : t \in interrupted ~> pc[t] \in {"ended", "closed"}

\* Every message sent arrives, as long as both ends exist and nobody is
\* interrupted.
Arrives ==
  \A n \in 1..MaxSent :
    Len(sent) >= n ~>
      Len(rcvd) >= n \/ interrupted # {} \/ alive # {"source", "sink"}
=============================================================================
