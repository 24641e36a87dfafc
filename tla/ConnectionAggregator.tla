------------------------- MODULE ConnectionAggregator -------------------------
(***************************************************************************)
(* ConnectionAggregator (net/ConnectionAggregator.cpp) with the parts of   *)
(* Runnable and RunnableGroup (base/Thread.cpp) it is made of.  Its thread *)
(* accepts connections, starts a SendThread and a ReceiveThread for each,  *)
(* collects the exceptions they stored, and removes connections that were  *)
(* closed.  The application exchanges envelopes with all the connections   *)
(* through one send queue and one receive queue, and finally destroys the  *)
(* aggregator.  Threads, the queues, the connections and two lists that    *)
(* must agree are freed while others still run.                            *)
(*                                                                         *)
(* The queues are MessageQueues as AtomicQueue specifies them; a           *)
(* connection does what MessageConnection allows.  A message is named by   *)
(* its connection and its number there.                                    *)
(***************************************************************************)
EXTENDS Naturals, Sequences, SequencesExt

CONSTANTS
  Conn,         \* connections clients may open
  Acceptors,    \* number of acceptors, tried in the order 1..Acceptors
  Port,         \* the acceptor each connection is opened at
  Strategy,     \* disconnectStrategy_
  None,         \* no connection
  MaxIn,        \* bound on the messages a client sends
  MaxOut,       \* bound on the replies to a client
  Faults        \* where errors other than ConnectionClosedError happen

ASSUME ConnAssumption == None \notin Conn
ASSUME AcceptorAssumption ==
  Acceptors \in Nat \ {0} /\ Port \in [Conn -> 1..Acceptors]
ASSUME StrategyAssumption ==
  Strategy \in {"RemoveConnection", "ThrowException"}
ASSUME BoundAssumption == MaxIn \in Nat /\ MaxOut \in Nat
ASSUME FaultAssumption == Faults \subseteq {"accept", "connection"}

Endpoint == Conn \X {"client", "server"}
Client(c) == <<c, "client">>
Server(c) == <<c, "server">>
Peer == [e \in Endpoint |-> IF e = Client(e[1]) THEN Server(e[1])
                                                ELSE Client(e[1])]

Thread == Conn \X {"send", "receive"}
SendThread(c) == <<c, "send">>
ReceiveThread(c) == <<c, "receive">>

VARIABLES
  opened,        \* connections clients opened so far
  sent, rcvd, alive, raised,  \* as in MessageConnection
  backlog,       \* connections waiting at each acceptor
  connections,   \* connections_
  runnables,     \* runnables_.threads_
  at,            \* where each send and receive thread is
  interrupted,   \* send and receive threads whose interrupted_ is set
  exception,     \* exception_ of each send and receive thread
  held,          \* number of the message each thread has in hand, else 0
  sendQueue, receiveQueue,    \* envelopes <<connection, number>>
  aggregator,    \* where the aggregator's thread is
  index,         \* the acceptor or runnable its for loop is at
  closing,       \* the connection it is removing, else None
  stop,          \* the aggregator's own interrupted_
  report,        \* the aggregator's own exception_
  app,           \* where the application is in its calls
  got,           \* history: the last message the application got from each
  replied,       \* history: how many replies it gave to send for each
  failed         \* history: the threads other errors ended

connVars == <<sent, rcvd, alive, raised>>
netVars == <<opened, connVars, backlog>>
threadVars == <<at, interrupted, exception, held>>
queues == <<sendQueue, receiveQueue>>
lists == <<connections, runnables>>
control == <<aggregator, index, closing>>
aggVars == <<lists, control, stop, report>>
appVars == <<app, got, replied>>
vars == <<netVars, threadVars, queues, aggVars, appVars, failed>>

Connection == INSTANCE MessageConnection

Init ==
  /\ opened = {} /\ alive = {} /\ raised = {}
  /\ sent = [e \in Endpoint |-> 0] /\ rcvd = [e \in Endpoint |-> 0]
  /\ backlog = [a \in 1..Acceptors |-> <<>>]
  /\ connections = <<>> /\ runnables = <<>>
  /\ at = [t \in Thread |-> "none"]
  /\ interrupted = {}
  /\ exception = [t \in Thread |-> "none"]
  /\ held = [t \in Thread |-> 0]
  /\ sendQueue = <<>> /\ receiveQueue = <<>>
  /\ aggregator = "loop" /\ index = 1 /\ closing = None
  /\ stop = FALSE /\ report = "none"
  /\ app = "idle"
  /\ got = [c \in Conn |-> 0] /\ replied = [c \in Conn |-> 0]
  /\ failed = {}

-----------------------------------------------------------------------------
(* Clients, as far as the aggregator can tell: whether they receive the    *)
(* replies sent to them it cannot.                                         *)

\* connect: both endpoints exist, the server's waits for accept.
Connect(c) ==
  /\ c \notin opened
  /\ opened' = opened \cup {c}
  /\ alive' = alive \cup {Client(c), Server(c)}
  /\ backlog' = [backlog EXCEPT ![Port[c]] = Append(@, c)]
  /\ UNCHANGED <<sent, rcvd, raised, threadVars, queues, aggVars, appVars,
                 failed>>

ClientStep(c) ==
  /\ \/ sent[Server(c)] < MaxIn /\ Connection!Send(Client(c))
     \/ Connection!Destroy(Client(c))
  /\ UNCHANGED <<opened, backlog, threadVars, queues, aggVars, appVars,
                 failed>>

-----------------------------------------------------------------------------
(* SendThread::run and ReceiveThread::run *)

Goto(t, l) == at' = [at EXCEPT ![t] = l]

LoopBody(t) == IF t[2] = "send" THEN "dequeue" ELSE "receive"

\* while (!isInterrupted())
CheckInterrupted(t) ==
  /\ at[t] = "check"
  /\ Goto(t, IF t \in interrupted THEN "ended" ELSE LoopBody(t))
  /\ UNCHANGED <<connVars, interrupted, exception, held, queues, failed>>

\* connection_.receive() returns a message.
ReceiveMessage(c) ==
  LET t == ReceiveThread(c)
  IN  /\ at[t] = "receive"
      /\ Connection!Receive(Server(c))
      /\ held' = [held EXCEPT ![t] = rcvd[Server(c)] + 1]
      /\ Goto(t, "deliver")
      /\ UNCHANGED <<interrupted, exception, queues, failed>>

\* It returns an empty message after its timeout.
ReceiveNothing(c) ==
  LET t == ReceiveThread(c)
  IN  /\ at[t] = "receive"
      /\ Client(c) \in alive /\ rcvd[Server(c)] = sent[Server(c)]
      /\ Goto(t, "check")
      /\ UNCHANGED <<connVars, interrupted, exception, held, queues, failed>>

\* Mutant: a message received by a thread since interrupted is dropped.
EnqueueUnlessInterrupted(c, n) ==
  receiveQueue' = IF ReceiveThread(c) \in interrupted THEN receiveQueue
                  ELSE Append(receiveQueue, <<c, n>>)

EnqueueReceived(c, n) == receiveQueue' = Append(receiveQueue, <<c, n>>)

Deliver(c) ==
  LET t == ReceiveThread(c)
  IN  /\ at[t] = "deliver"
      /\ EnqueueReceived(c, held[t])
      /\ held' = [held EXCEPT ![t] = 0]
      /\ Goto(t, "check")
      /\ UNCHANGED <<connVars, interrupted, exception, sendQueue, failed>>

\* Places of the send queue whose envelopes the filter of c's thread accepts.
Matching(c) == {i \in 1..Len(sendQueue) : sendQueue[i][1] = c}

\* Mutant: any envelope is taken, whatever its connectionID.
AnyMatch(c) == {i \in 1..Len(sendQueue) : i = 1}

FirstMatch(c) == {i \in Matching(c) : \A j \in Matching(c) : i <= j}

Dequeue(c) ==
  LET t == SendThread(c)
  IN  /\ at[t] = "dequeue"
      /\ \E i \in FirstMatch(c) :
           /\ held' = [held EXCEPT ![t] = sendQueue[i][2]]
           /\ sendQueue' = RemoveAt(sendQueue, i)
      /\ Goto(t, "transmit")
      /\ UNCHANGED <<connVars, interrupted, exception, receiveQueue, failed>>

\* Mutant: a timeout ends the loop.
EndOnTimeout(c) == "ended"

AfterTimeout(c) == "check"

DequeueNothing(c) ==
  LET t == SendThread(c)
  IN  /\ at[t] = "dequeue"
      /\ FirstMatch(c) = {}
      /\ Goto(t, AfterTimeout(c))
      /\ UNCHANGED <<connVars, interrupted, exception, held, queues, failed>>

Transmit(c) ==
  LET t == SendThread(c)
  IN  /\ at[t] = "transmit"
      /\ Connection!Send(Server(c))
      /\ held' = [held EXCEPT ![t] = 0]
      /\ Goto(t, "check")
      /\ UNCHANGED <<interrupted, exception, queues, failed>>

\* Mutant: the thread ends without setException.
Swallow(t, e) == UNCHANGED exception

SetException(t, e) == exception' = [exception EXCEPT ![t] = e]

\* The exception is stored and the thread ends.
End(t, e) ==
  /\ at[t] \in {"receive", "transmit"}
  /\ SetException(t, e)
  /\ Goto(t, "ended")
  /\ UNCHANGED <<interrupted, held, queues>>

\* ConnectionClosedError.
EndClosed(t) ==
  /\ End(t, "closed")
  /\ Connection!RaiseClosed(Server(t[1]))
  /\ UNCHANGED failed

\* One step of a thread that needs no fault to happen.
ThreadStep(t) ==
  /\ \/ CheckInterrupted(t)
     \/ EndClosed(t)
     \/ /\ t[2] = "send"
        /\ Dequeue(t[1]) \/ DequeueNothing(t[1]) \/ Transmit(t[1])
     \/ /\ t[2] = "receive"
        /\ ReceiveMessage(t[1]) \/ ReceiveNothing(t[1]) \/ Deliver(t[1])
  /\ UNCHANGED <<opened, backlog, aggVars, appVars>>

\* Any other exception of the connection.
ThreadFault(t) ==
  /\ "connection" \in Faults
  /\ End(t, "error")
  /\ failed' = failed \cup {t}
  /\ UNCHANGED <<netVars, aggVars, appVars>>

-----------------------------------------------------------------------------
(* ConnectionAggregator::run *)

\* while (!isInterrupted())
LoopTop ==
  /\ aggregator = "loop"
  /\ aggregator' = IF stop THEN "ended" ELSE "accept"
  /\ UNCHANGED <<backlog, connVars, threadVars, lists, index, closing, stop,
                 report>>

\* On to the next acceptor, after the last to the runnables' exceptions.
NextAcceptor ==
  IF index < Acceptors
  THEN index' = index + 1 /\ UNCHANGED aggregator
  ELSE index' = 1 /\ aggregator' = "scan"

\* accept returns null after its timeout.
AcceptNothing ==
  /\ aggregator = "accept"
  /\ backlog[index] = <<>>
  /\ NextAcceptor
  /\ UNCHANGED <<backlog, connVars, threadVars, lists, closing, stop, report>>

\* Both threads are started by their constructors.
AcceptConnection ==
  /\ aggregator = "accept"
  /\ backlog[index] # <<>>
  /\ LET c == Head(backlog[index])
         new == {SendThread(c), ReceiveThread(c)}
     IN  /\ connections' = Append(connections, c)
         /\ runnables' = runnables \o <<SendThread(c), ReceiveThread(c)>>
         /\ at' = [t \in Thread |-> IF t \in new THEN "check" ELSE at[t]]
  /\ backlog' = [backlog EXCEPT ![index] = Tail(@)]
  /\ NextAcceptor
  /\ UNCHANGED <<connVars, interrupted, exception, held, closing, stop,
                 report>>

HandledHere(e) == e = "closed" /\ Strategy = "RemoveConnection"

\* runnables_.rethrowException, one runnable after the other.
ScanNothing ==
  /\ aggregator = "scan"
  /\ IF index <= Len(runnables)
     THEN /\ exception[runnables[index]] = "none"
          /\ index' = index + 1
          /\ UNCHANGED aggregator
     ELSE /\ index' = 1
          /\ aggregator' = "loop"
  /\ UNCHANGED <<backlog, connVars, threadVars, lists, closing, stop, report>>

\* Mutant: the last catch (...) stores nothing.
DropReport(e) == UNCHANGED report

StoreReport(e) == report' = e

\* The exception is taken out of its runnable.  A closed connection is
\* removed, beginning with removeRunnable's join of its send thread (the
\* ids of the two threads are stored in each other's place); any other
\* exception, and with ThrowException every one, is stored for the user.
ScanException ==
  /\ aggregator = "scan"
  /\ index <= Len(runnables)
  /\ LET t == runnables[index]
     IN  /\ exception[t] # "none"
         /\ exception' = [exception EXCEPT ![t] = "none"]
         /\ IF HandledHere(exception[t])
            THEN /\ closing' = t[1]
                 /\ interrupted' = interrupted \cup {SendThread(t[1])}
                 /\ aggregator' = "joinSend"
                 /\ UNCHANGED report
            ELSE /\ StoreReport(exception[t])
                 /\ aggregator' = "loop"
                 /\ UNCHANGED <<interrupted, closing>>
  /\ index' = 1
  /\ UNCHANGED <<backlog, connVars, at, held, lists, stop>>

Joined(t) == at[t] = "ended"

\* removeRunnable: the thread has ended, its object is erased.
EraseRunnable(t) ==
  /\ Joined(t)
  /\ runnables' = RemoveFirst(runnables, t)
  /\ exception' = [exception EXCEPT ![t] = "none"]

\* removeRunnable of the send thread; that of the receive thread begins.
RemoveSendThread ==
  /\ aggregator = "joinSend"
  /\ EraseRunnable(SendThread(closing))
  /\ interrupted' = interrupted \cup {ReceiveThread(closing)}
  /\ aggregator' = "joinReceive"
  /\ UNCHANGED <<backlog, connVars, at, held, connections, index, closing,
                 stop, report>>

\* Mutant: the second removeRunnable is forgotten.
KeepReceiveThread ==
  /\ aggregator = "joinReceive"
  /\ aggregator' = "erase"
  /\ UNCHANGED <<backlog, connVars, threadVars, lists, index, closing, stop,
                 report>>

RemoveReceiveThread ==
  /\ aggregator = "joinReceive"
  /\ EraseRunnable(ReceiveThread(closing))
  /\ aggregator' = "erase"
  /\ UNCHANGED <<backlog, connVars, at, interrupted, held, connections, index,
                 closing, stop, report>>

\* connections_.erase destroys the endpoint.
EraseConnection ==
  /\ aggregator = "erase"
  /\ connections' = RemoveFirst(connections, closing)
  /\ Connection!Destroy(Server(closing))
  /\ closing' = None
  /\ aggregator' = "loop"
  /\ UNCHANGED <<backlog, threadVars, runnables, index, stop, report>>

AggregatorStep ==
  /\ \/ LoopTop
     \/ AcceptNothing \/ AcceptConnection
     \/ ScanNothing \/ ScanException
     \/ RemoveSendThread \/ RemoveReceiveThread \/ EraseConnection
  /\ UNCHANGED <<opened, queues, appVars, failed>>

\* The stream is accepted and its handshake throws: it is closed with that.
HandshakeThrows ==
  /\ backlog[index] # <<>>
  /\ Connection!Destroy(Server(Head(backlog[index])))
  /\ backlog' = [backlog EXCEPT ![index] = Tail(@)]

\* accept throws, with or without a connection: the other acceptors and the
\* runnables are left for the next round.
AcceptFault ==
  /\ aggregator = "accept"
  /\ "accept" \in Faults
  /\ HandshakeThrows \/ UNCHANGED <<connVars, backlog>>
  /\ report' = "error"
  /\ aggregator' = "loop"
  /\ index' = 1
  /\ UNCHANGED <<opened, threadVars, queues, lists, closing, stop, appVars,
                 failed>>

-----------------------------------------------------------------------------
(* The application: receive, send, interrupt and the destructor *)

\* rethrowException, which send and receive begin with, finds an exception.
Throw ==
  /\ app = "idle"
  /\ report # "none"
  /\ report' = "none"
  /\ app' = "threw"
  /\ UNCHANGED <<connVars, threadVars, queues, lists, control, stop, got,
                 replied>>

Catch ==
  /\ app = "threw"
  /\ app' = "idle"
  /\ UNCHANGED <<connVars, threadVars, queues, aggVars, got, replied>>

CallReceive ==
  /\ app = "idle"
  /\ report = "none"
  /\ app' = "receive"
  /\ UNCHANGED <<connVars, threadVars, queues, aggVars, got, replied>>

\* receiveQueue_.dequeue returns an envelope, or null after the timeout.
ReturnEnvelope ==
  /\ app = "receive"
  /\ IF receiveQueue # <<>>
     THEN LET e == Head(receiveQueue)
          IN  /\ got' = [got EXCEPT ![e[1]] = e[2]]
              /\ receiveQueue' = Tail(receiveQueue)
     ELSE UNCHANGED <<receiveQueue, got>>
  /\ app' = "idle"
  /\ UNCHANGED <<connVars, threadVars, sendQueue, aggVars, replied>>

\* An envelope with the connectionID of one received before.  What happens
\* between rethrowException and enqueue changes neither's outcome.
Send(c) ==
  /\ app = "idle"
  /\ report = "none"
  /\ got[c] > 0
  /\ replied[c] < MaxOut
  /\ sendQueue' = Append(sendQueue, <<c, replied[c] + 1>>)
  /\ replied' = [replied EXCEPT ![c] = @ + 1]
  /\ UNCHANGED <<connVars, threadVars, receiveQueue, aggVars, app, got>>

\* interrupt: first the aggregator's own flag.
Interrupt ==
  /\ app = "idle"
  /\ ~stop
  /\ stop' = TRUE
  /\ app' = "interrupt"
  /\ UNCHANGED <<connVars, threadVars, queues, lists, control, report, got,
                 replied>>

InterruptRunnables == interrupted' = interrupted \cup ToSet(runnables)

\* runnables_.interruptAll, for the runnables there are at this instant.
InterruptAll ==
  /\ app = "interrupt"
  /\ InterruptRunnables
  /\ app' = "idle"
  /\ UNCHANGED <<connVars, at, exception, held, queues, aggVars, got,
                 replied>>

\* Mutant: join only waits.
WaitOnly == UNCHANGED stop

StopItself == stop' = TRUE

\* The destructor: join interrupts the aggregator's thread and waits for it.
Destruct ==
  /\ app = "idle"
  /\ StopItself
  /\ app' = "join"
  /\ UNCHANGED <<connVars, threadVars, queues, lists, control, report, got,
                 replied>>

\* Then the members go, runnables_ first: joinAll interrupts all threads.
JoinAggregator ==
  /\ app = "join"
  /\ aggregator = "ended"
  /\ InterruptRunnables
  /\ app' = "clear"
  /\ UNCHANGED <<connVars, at, exception, held, queues, aggVars, got,
                 replied>>

\* The first runnable's thread was waited for; the join of the next one
\* begins, which interrupts its thread whether or not joinAll has.
DestroyRunnable ==
  /\ app = "clear"
  /\ runnables # <<>>
  /\ Joined(Head(runnables))
  /\ exception' = [exception EXCEPT ![Head(runnables)] = "none"]
  /\ runnables' = Tail(runnables)
  /\ interrupted' =
       interrupted \cup {Tail(runnables)[i] : i \in 1..Len(Tail(runnables)) \cap {1}}
  /\ UNCHANGED <<connVars, at, held, queues, connections, control, stop,
                 report, appVars>>

\* Mutant: connections_ declared after runnables_, so destroyed before it.
ConnectionsFirst == TRUE

RunnablesFirst == runnables = <<>>

\* Then connections_, then the queues.
DestroyConnection ==
  /\ app = "clear"
  /\ RunnablesFirst
  /\ connections # <<>>
  /\ Connection!Destroy(Server(Head(connections)))
  /\ connections' = Tail(connections)
  /\ UNCHANGED <<threadVars, queues, runnables, control, stop, report,
                 appVars>>

Destroyed ==
  /\ app = "clear"
  /\ runnables = <<>> /\ connections = <<>>
  /\ app' = "done"
  /\ UNCHANGED <<connVars, threadVars, queues, aggVars, got, replied>>

DestructorStep ==
  JoinAggregator \/ DestroyRunnable \/ DestroyConnection \/ Destroyed

\* What it calls, and what goes on by itself once called.
Poll == (CallReceive \/ Throw) /\ UNCHANGED <<opened, backlog, failed>>

Call ==
  /\ (\E c \in Conn : Send(c)) \/ Interrupt \/ Destruct
  /\ UNCHANGED <<opened, backlog, failed>>

AppStep ==
  /\ Catch \/ ReturnEnvelope \/ InterruptAll \/ DestructorStep
  /\ UNCHANGED <<opened, backlog, failed>>

-----------------------------------------------------------------------------
Next ==
  \/ \E c \in Conn : Connect(c) \/ ClientStep(c)
  \/ \E t \in Thread : ThreadStep(t) \/ ThreadFault(t)
  \/ AggregatorStep \/ AcceptFault
  \/ Poll \/ Call \/ AppStep

Spec == Init /\ [][Next]_vars

\* The aggregator's thread and the threads it started run on; the waits of
\* accept, receive and dequeueFiltered are bounded by timeouts, so each of
\* their steps is always possible until they end.  A call the application
\* made goes on.  The application is not obliged to call anything, and no
\* client, and no failure, has to do anything.
Fairness ==
  /\ \A t \in Thread : WF_vars(ThreadStep(t))
  /\ WF_vars(AggregatorStep)
  /\ WF_vars(AppStep)

FairSpec == Spec /\ Fairness

\* An application that keeps calling receive, as Dispatcher::run does.
Polling == WF_vars(Poll)

-----------------------------------------------------------------------------
(* Properties *)

Error == {"closed", "error"}
Running == {"check", "receive", "deliver", "dequeue", "transmit"}

\* Types, among them which thread can be where.
TypeOK ==
  /\ opened \subseteq Conn
  /\ sent \in [Endpoint -> Nat] /\ rcvd \in [Endpoint -> Nat]
  /\ alive \subseteq Endpoint /\ raised \subseteq Endpoint
  /\ backlog \in [1..Acceptors -> Seq(Conn)]
  /\ connections \in Seq(Conn)
  /\ runnables \in Seq(Thread)
  /\ at \in [Thread -> Running \cup {"none", "ended"}]
  /\ \A c \in Conn : /\ at[SendThread(c)] \notin {"receive", "deliver"}
                     /\ at[ReceiveThread(c)] \notin {"dequeue", "transmit"}
  /\ interrupted \subseteq Thread
  /\ exception \in [Thread -> Error \cup {"none"}]
  /\ held \in [Thread -> Nat]
  /\ sendQueue \in Seq(Conn \X Nat) /\ receiveQueue \in Seq(Conn \X Nat)
  /\ aggregator \in {"loop", "accept", "scan", "joinSend", "joinReceive",
                     "erase", "ended"}
  /\ index \in IF aggregator = "accept" THEN 1..Acceptors
               ELSE IF aggregator = "scan" THEN Nat \ {0} ELSE {1}
  /\ closing \in IF aggregator \in {"joinSend", "joinReceive", "erase"} THEN Conn ELSE {None}
  /\ stop \in BOOLEAN
  /\ report \in Error \cup {"none"}
  /\ app \in {"idle", "threw", "receive", "interrupt", "join", "clear", "done"}
  /\ got \in [Conn -> Nat] /\ replied \in [Conn -> Nat]
  /\ failed \subseteq Thread

\* A thread that still runs never finds what it refers to gone: its own
\* object, its connection's endpoint, or the aggregator with the queues,
\* whether the connection is being removed or the aggregator destroyed.
NoUseAfterFree ==
  \A t \in Thread :
    at[t] \in Running =>
      /\ t \in ToSet(runnables)
      /\ t[1] \in ToSet(connections) /\ Server(t[1]) \in alive
      /\ app # "done"

\* removeRunnable and connections_.erase use what find_if returned without
\* comparing it with end: the connection and the threads are in their lists.
RemovalFinds ==
  /\ aggregator = "scan" =>
       \A i \in 1..Len(runnables) : runnables[i][1] \in ToSet(connections)
  /\ aggregator \in {"joinSend", "joinReceive", "erase"} =>
       closing \in ToSet(connections)
  /\ aggregator = "joinSend" => SendThread(closing) \in ToSet(runnables)
  /\ aggregator \in {"joinSend", "joinReceive"} =>
       ReceiveThread(closing) \in ToSet(runnables)

InHand(t) == IF held[t] = 0 THEN 0 ELSE 1

\* The envelopes of c in queue q are those after number m up to n, in order.
InOrder(c, q, m, n) ==
  /\ m <= n
  /\ \A i \in 1..Len(q) : q[i][1] = c => q[i][2] \in m+1..n
  /\ \A k \in m+1..n : \E i \in 1..Len(q) : q[i] = <<c, k>>
  /\ \A i, j \in 1..Len(q) : q[i][1] = c /\ q[j][1] = c /\ i < j => q[i][2] < q[j][2]
\* What a connection delivered is on its way to the application in the order
\* it came, nothing missing and nothing twice, also when the thread that
\* holds it was interrupted or its connection is being removed.
InboundIntact ==
  \A c \in Conn :
    LET t == ReceiveThread(c)
    IN  /\ held[t] \in {0, rcvd[Server(c)]}
        /\ InOrder(c, receiveQueue, got[c], rcvd[Server(c)] - InHand(t))

\* Replies reach the connection they are addressed to, in order; the last
\* one its thread took may be lost with the connection, none is overtaken.
OutboundIntact ==
  \A c \in Conn :
    LET t == SendThread(c)
    IN  /\ held[t] \in {0, sent[Client(c)] + 1}
        /\ InOrder(c, sendQueue, sent[Client(c)] + InHand(t), replied[c])

\* With RemoveConnection a connection whose client is gone is removed, with
\* its threads, however other connections, acceptors and the application
\* behave, unless its receive thread had failed before with another error.
ClosedIsRemoved ==
  Strategy = "RemoveConnection" =>
    \A c \in Conn :
      c \in opened /\ Client(c) \notin alive
        ~> \/ Server(c) \notin alive
           \/ ReceiveThread(c) \in failed
           \/ stop

\* If the application keeps calling, an exception that ended a thread makes
\* receive or send throw, or its connection is removed, or the aggregator is
\* interrupted or destroyed.
ExceptionsReported ==
  Polling =>
    \A c \in Conn :
      exception[SendThread(c)] # "none" \/ exception[ReceiveThread(c)] # "none"
        ~> app = "threw" \/ Server(c) \notin alive \/ stop

\* A reply to a connection is sent unless the client is gone, its thread
\* failed or the aggregator is interrupted or destroyed.
RepliesSent ==
  \A c \in Conn : \A n \in 1..MaxOut :
    replied[c] = n
      ~> \/ sent[Client(c)] >= n
         \/ Client(c) \notin alive
         \/ SendThread(c) \in failed
         \/ stop

\* The destructor returns: none of the threads it joins waits for ever.
DestructorReturns == app = "join" ~> app = "done"
=============================================================================
