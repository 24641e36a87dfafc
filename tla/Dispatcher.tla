------------------------------ MODULE Dispatcher ------------------------------
(***************************************************************************)
(* The server's side of a remote procedure call (net/rpc/Dispatcher.cpp):  *)
(* its thread takes requests from a connection aggregator, calls methods   *)
(* and gives the replies back to it.                                       *)
(*                                                                         *)
(* The aggregator is the one of ConnectionAggregator with                  *)
(* RemoveConnection, seen from outside: it moves messages between          *)
(* connections and its two queues, removes a connection that was closed,   *)
(* and keeps one exception of another kind, also of a connection that      *)
(* broke, for the next call of receive or send.  A request is known by its *)
(* connection and its number on it, and by what becomes of it: its method  *)
(* "works" or "throws" a runtime_error, it is "refused" because it is      *)
(* malformed or names no method, or its method throws something "alien".   *)
(***************************************************************************)
EXTENDS Naturals, Sequences, FiniteSets, SequencesExt

CONSTANTS
  MaxConn,            \* bound on the connections opened
  MaxDisturbances     \* bound on the errors kept for the dispatcher and interrupts

ASSUME BoundAssumption == MaxConn \in Nat /\ MaxDisturbances \in Nat

Conn == 1..MaxConn
Outcome == {"works", "throws", "refused", "alien"}
None == 0           \* no connection
Nothing == <<>>     \* no request

VARIABLES
  requests,      \* what was sent over each connection
  replies,       \* what reached the client's end of each connection
  up,            \* connections that have not broken
  served,        \* threads the aggregator has for each connection
  gathered,      \* requests it has received from each connection
  receiveQueue,  \* its queue of requests <<connection, number>>
  sendQueue,     \* its queue of replies [conn, to, status]
  report,        \* an exception is waiting in the aggregator
  faults,        \* history: errors kept for the dispatcher so far
  pc,            \* where the dispatcher's thread is
  envelope,      \* the request in its hands
  interrupted,   \* its interrupted_
  executed       \* history: numbers of the requests whose methods were called

wireVars == <<requests, replies, up>>
aggregatorVars == <<served, gathered, receiveQueue, sendQueue, report, faults>>
threadVars == <<pc, envelope, interrupted, executed>>
serverVars == <<wireVars, aggregatorVars, threadVars>>

Disturbances == faults + IF interrupted THEN 1 ELSE 0

ServerInit ==
  /\ requests = [c \in Conn |-> <<>>]
  /\ replies = [c \in Conn |-> <<>>]
  /\ up = {}
  /\ served = [c \in Conn |-> {}]
  /\ gathered = [c \in Conn |-> 0]
  /\ receiveQueue = <<>> /\ sendQueue = <<>>
  /\ report = FALSE
  /\ faults = 0
  /\ pc = "looping"
  /\ envelope = Nothing
  /\ interrupted = FALSE
  /\ executed = [c \in Conn |-> <<>>]

-----------------------------------------------------------------------------
(* The aggregator *)

\* A connection is accepted and gets its two threads.
BothThreads == {"receive", "send"}
Accept(c) == served' = [served EXCEPT ![c] = BothThreads]

\* ReceiveThread of c.
Gather(c) ==
  /\ "receive" \in served[c] /\ pc # "gone"
  /\ gathered[c] < Len(requests[c])
  /\ gathered' = [gathered EXCEPT ![c] = @ + 1]
  /\ receiveQueue' = Append(receiveQueue, <<c, gathered[c] + 1>>)
  /\ UNCHANGED <<wireVars, served, sendQueue, report, faults, threadVars>>

\* Threads of c end by an error that is kept for the dispatcher: any but a
\* ConnectionClosedError.
EndByError(c, threads) ==
  /\ Disturbances < MaxDisturbances
  /\ served' = [served EXCEPT ![c] = @ \ threads]
  /\ report' = TRUE
  /\ faults' = faults + 1

\* Mutant: with ThrowException the next call of receive or send throws.
TellDispatcher == report' = TRUE

\* Closed connections are removed: the dispatcher is not told.
RemoveSilently == UNCHANGED report

\* A thread of c ends by a ConnectionClosedError, and c is removed.
EndByClose(c) ==
  /\ served' = [served EXCEPT ![c] = {}]
  /\ RemoveSilently /\ UNCHANGED faults

\* SendThread of c.  A reply for a broken connection is lost and the thread
\* ends: over TCP by a NetworkError, which is kept.
Distribute(c) ==
  /\ "send" \in served[c] /\ pc # "gone"
  /\ \E i \in 1..Len(sendQueue) :
       /\ sendQueue[i].conn = c
       /\ \A j \in 1..i-1 : sendQueue[j].conn # c
       /\ sendQueue' = RemoveAt(sendQueue, i)
       /\ IF c \in up
          THEN /\ replies' = [replies EXCEPT ![c] = Append(@, sendQueue[i])]
               /\ UNCHANGED <<served, report, faults>>
          ELSE /\ EndByError(c, {"send"}) \/ EndByClose(c)
               /\ UNCHANGED replies
  /\ UNCHANGED <<requests, up, gathered, receiveQueue, threadVars>>

\* A connection that broke: its receive thread ends by the error, which is a
\* SocketException when the peer was reset, or the aggregator removes it.
Drop(c) ==
  /\ c \notin up /\ pc # "gone"
  /\ \/ "receive" \in served[c] /\ EndByError(c, {"receive"})
     \/ served[c] # {} /\ EndByClose(c)
  /\ UNCHANGED <<wireVars, gathered, receiveQueue, sendQueue, threadVars>>

\* An error while c is up: of an acceptor, or one that ends a thread of c.
Fault(c, threads) ==
  /\ c \in up /\ pc # "gone"
  /\ EndByError(c, threads)
  /\ UNCHANGED <<wireVars, gathered, receiveQueue, sendQueue, threadVars>>

-----------------------------------------------------------------------------
(* The dispatcher's thread *)

\* An exception that leaves run ends the process, and with it every
\* connection.
Terminate == pc' = "gone" /\ up' = {}

\* receive asks for an exception first, outside of the try block.
CallReceive ==
  /\ pc = "looping" /\ ~interrupted
  /\ IF report
     THEN Terminate
     ELSE pc' = "receiving" /\ UNCHANGED up
  /\ report' = FALSE
  /\ UNCHANGED <<requests, replies, served, gathered, receiveQueue, sendQueue, faults,
                 envelope, interrupted, executed>>

ReceiveEnvelope ==
  /\ pc = "receiving" /\ receiveQueue # <<>>
  /\ envelope' = Head(receiveQueue)
  /\ receiveQueue' = Tail(receiveQueue)
  /\ pc' = "serving"
  /\ UNCHANGED <<wireVars, served, gathered, sendQueue, report, faults, interrupted, executed>>

\* The 100 ms have passed.
ReceiveNothing ==
  /\ pc = "receiving" /\ receiveQueue = <<>>
  /\ pc' = "looping"
  /\ UNCHANGED <<wireVars, aggregatorVars, envelope, interrupted, executed>>

OutcomeOf(e) == requests[e[1]][e[2]]
Called(o) == o # "refused"

\* Mutant: the handler only logs.
Swallow == "looping"

\* The handler will send a reply.
AfterCatch == "failing"

\* The request is parsed and its method called: what it returns is sent, what
\* it throws is caught, if it is a runtime_error.
Serve ==
  /\ pc = "serving"
  /\ executed' = IF Called(OutcomeOf(envelope))
                 THEN [executed EXCEPT ![envelope[1]] = Append(@, envelope[2])]
                 ELSE executed
  /\ CASE OutcomeOf(envelope) = "alien" -> Terminate
       [] OutcomeOf(envelope) = "works" -> pc' = "replying" /\ UNCHANGED up
       [] OTHER -> pc' = AfterCatch /\ UNCHANGED up
  /\ UNCHANGED <<requests, replies, aggregatorVars, envelope, interrupted>>

Reply(status) == [conn |-> envelope[1], to |-> envelope[2], status |-> status]

\* Mutant: the exception is thrown when the reply is already in the queue.
SendThenRethrow(reply) == sendQueue' = Append(sendQueue, reply)

\* ConnectionAggregator::send: rethrowException, then enqueue.
AggregatorSend(reply) ==
  sendQueue' = IF report THEN sendQueue ELSE Append(sendQueue, reply)

\* The reply of a method that returned.  An exception of the aggregator,
\* whatever connection it is about, is caught as if the method had thrown it.
SendReply ==
  /\ pc = "replying"
  /\ AggregatorSend(Reply("success"))
  /\ IF report
     THEN pc' = "failing" /\ UNCHANGED envelope
     ELSE pc' = "looping" /\ envelope' = Nothing
  /\ report' = FALSE
  /\ UNCHANGED <<wireVars, served, gathered, receiveQueue, faults, interrupted, executed>>

\* Mutant: the client is told that all went well.
Success == "success"
ErrorStatus == "error"

\* The reply in the handler: an exception now has no handler left.
SendError ==
  /\ pc = "failing"
  /\ AggregatorSend(Reply(ErrorStatus))
  /\ IF report THEN Terminate ELSE pc' = "looping" /\ UNCHANGED up
  /\ envelope' = Nothing
  /\ report' = FALSE
  /\ UNCHANGED <<requests, replies, served, gathered, receiveQueue, faults, interrupted,
                 executed>>

\* The loop ends.
EndRun ==
  /\ pc = "looping" /\ interrupted
  /\ pc' = "ended"
  /\ UNCHANGED <<wireVars, aggregatorVars, envelope, interrupted, executed>>

DispatcherStep ==
  \/ CallReceive \/ ReceiveEnvelope \/ ReceiveNothing \/ Serve
  \/ SendReply \/ SendError \/ EndRun

-----------------------------------------------------------------------------
\* Runnable::interrupt, or join in the destructor.
InterruptDispatcher ==
  /\ ~interrupted /\ pc # "gone"
  /\ Disturbances < MaxDisturbances
  /\ interrupted' = TRUE
  /\ UNCHANGED <<wireVars, aggregatorVars, pc, envelope, executed>>

\* The destructor has joined the thread and destroys the aggregator.
Destroy ==
  /\ pc = "ended"
  /\ Terminate
  /\ UNCHANGED <<requests, replies, aggregatorVars, envelope, interrupted, executed>>

\* A connection breaks: external.
Break(c) ==
  /\ c \in up
  /\ up' = up \ {c}
  /\ UNCHANGED <<requests, replies, aggregatorVars, threadVars>>

Environment ==
  \/ InterruptDispatcher \/ Destroy
  \/ \E c \in Conn : Break(c)
  \/ \E c \in Conn, threads \in {{}, {"receive"}, {"send"}} : Fault(c, threads)

AggregatorStep == \E c \in Conn : Gather(c) \/ Distribute(c) \/ Drop(c)
=============================================================================
