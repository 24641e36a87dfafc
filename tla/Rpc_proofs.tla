---------------------------- MODULE Rpc_proofs ----------------------------
(***************************************************************************)
(* Proofs about the clients of a dispatcher, for any number of clients and *)
(* any workload: replies reach the client that asked, once and in order,   *)
(* and say what happened; an error that the aggregator keeps costs no more *)
(* than one success, or the process.                                       *)
(***************************************************************************)
EXTENDS Rpc, SequenceLemmas, FiniteSetTheorems

\* A request is on its way through the dispatcher: it waits in the receive
\* queue, is in the thread's hands, or its reply waits in the send queue.
Received(c, n) == \E i \in 1..Len(receiveQueue) : receiveQueue[i] = <<c, n>>
Replied(c, n) == \E i \in 1..Len(sendQueue) : sendQueue[i].conn = c /\ sendQueue[i].to = n
OnItsWay(c, n) == Received(c, n) \/ envelope = <<c, n>> \/ Replied(c, n)

\* No request is lost on the way, as long as its connection lasts.
Present ==
  \A c \in up : \A n \in Len(replies[c])+1..gathered[c] : OnItsWay(c, n)

\* The requests of one connection are on their way in the order of their
\* numbers: those whose replies wait are the oldest, then comes the one in the
\* thread's hands, then those in the receive queue.
SendOrder ==
  /\ \A i, j \in 1..Len(sendQueue) :
       i < j /\ sendQueue[i].conn = sendQueue[j].conn => sendQueue[i].to < sendQueue[j].to
  /\ \A i \in 1..Len(sendQueue) :
       LET r == sendQueue[i]
       IN  /\ Len(replies[r.conn]) < r.to
           /\ envelope # Nothing /\ envelope[1] = r.conn => r.to < envelope[2]
           /\ \A j \in 1..Len(receiveQueue) :
                receiveQueue[j][1] = r.conn => r.to < receiveQueue[j][2]

ReceiveOrder ==
  /\ \A i, j \in 1..Len(receiveQueue) :
       i < j /\ receiveQueue[i][1] = receiveQueue[j][1]
         => receiveQueue[i][2] < receiveQueue[j][2]
  /\ \A i \in 1..Len(receiveQueue) :
       LET e == receiveQueue[i]
       IN  /\ Len(replies[e[1]]) < e[2] /\ e[2] <= gathered[e[1]]
           /\ envelope # Nothing /\ envelope[1] = e[1] => envelope[2] < e[2]

EnvelopeOrder ==
  /\ envelope # Nothing =>
       Len(replies[envelope[1]]) < envelope[2] /\ envelope[2] <= gathered[envelope[1]]
  /\ \A c \in Conn : Len(replies[c]) <= gathered[c]
  /\ \A i \in 1..Len(sendQueue) : sendQueue[i].to <= gathered[sendQueue[i].conn]

Numbered == \A c \in Conn : \A i \in 1..Len(replies[c]) : replies[c][i].to = i

\* Only connections that were opened carry anything, and what the dispatcher
\* left behind belongs to connections that broke with it.
Fresh ==
  /\ \A c \in up : c <= opened
  /\ \A c \in Conn : c > opened => requests[c] = <<>>
  /\ pc = "gone" => \A c \in up : gathered[c] = 0
  /\ \A k \in Client : conn[k] <= opened

\* What the dispatcher's thread knows where it is.
ThreadOK ==
  /\ envelope # Nothing => pc \in {"serving", "replying", "failing", "gone"}
  /\ pc = "ended" => interrupted
  /\ pc = "replying" =>
       OutcomeOf(envelope) = "works" /\ envelope[2] \in Range(executed[envelope[1]])

\* What the errors of the aggregator were spent on: error replies to methods
\* that returned, sent or about to be, the process, or nothing yet.
One(b) == IF b THEN 1 ELSE 0
Pending == pc = "failing" /\ OutcomeOf(envelope) = "works"
Spent == One(Pending) + One(report) + One(EndedByError)
ErrorsSpent == IsFiniteSet(Hindered) /\ Cardinality(Hindered) + Spent <= faults

\* A method is called for the newest of its connection's requests so far.
Newest ==
  \A c \in Conn : \A i \in 1..Len(executed[c]) :
    /\ \A j \in 1..Len(receiveQueue) :
         receiveQueue[j][1] = c => executed[c][i] < receiveQueue[j][2]
    /\ pc = "serving" /\ envelope[1] = c => executed[c][i] < envelope[2]
    /\ executed[c][i] <= gathered[c]

\* Every client has a connection of its own.  It has taken the replies to all
\* of its requests but the one it is waiting for; if it connected anew since
\* then, it has sent nothing yet.
Waiting(k) ==
  LET c == conn[k]
  IN  IF at[k] \in {"receive", "receiving"}
      THEN \/ asked[k] = <<c, Len(requests[c])>> /\ taken[c] + 1 = Len(requests[c])
           \/ requests[c] = <<>>
      ELSE taken[c] = Len(requests[c])

ClientsOK ==
  /\ \A k, l \in Client : conn[k] # None /\ conn[k] = conn[l] => k = l
  /\ \A k \in Client : conn[k] # None => Waiting(k)

IInv ==
  /\ TypeOK
  /\ SendOrder /\ ReceiveOrder /\ EnvelopeOrder /\ Numbered /\ Present
  /\ Fresh /\ ThreadOK /\ Newest /\ ClientsOK
  /\ RepliesTrue /\ OwnAnswer /\ ErrorsSpent

-----------------------------------------------------------------------------
\* The workload bounds what the clients ask for and connect.
LEMMA LoadOK ==
  ASSUME TypeOK
  PROVE  /\ \A k \in Client : load.request[k] \subseteq Outcome
         /\ load.conns \in 0..MaxConn
         /\ opened < load.conns => opened + 1 \in Conn
<1>1. load \in Workload /\ MaxConn \in Nat
  BY WorkloadAssumption, BoundAssumption DEF TypeOK
<1>2. load.conns \in 0..MaxConn /\ load.request \in [Client -> SUBSET Outcome]
  BY <1>1 DEF Workload
<1>3. opened \in 0..load.conns  BY DEF TypeOK
<1>4. opened < load.conns => opened + 1 \in Conn  BY <1>1, <1>2, <1>3 DEF Conn
<1> QED  BY <1>2, <1>4

\* A request is not the absence of one.
LEMMA SomeRequest == \A e \in Position : e # Nothing /\ e[1] \in Conn /\ e[2] \in Nat \ {0}
<1> SUFFICES ASSUME NEW a \in Conn, NEW b \in Nat \ {0} PROVE <<a, b>> # Nothing
  BY DEF Position
<1>1. Len(<<a, b>>) = 2 /\ Len(<<>>) = 0  OBVIOUS
<1> QED  BY <1>1 DEF Nothing

\* What the end of a thread does to the aggregator's state.
LEMMA EndTyped ==
  ASSUME TypeOK, NEW c \in Conn, NEW threads, EndByError(c, threads) \/ EndByClose(c)
  PROVE  /\ served' \in [Conn -> SUBSET BothThreads]
         /\ report' \in BOOLEAN /\ faults' \in 0..MaxDisturbances
<1> USE DEF TypeOK
<1>1. CASE EndByError(c, threads)
  <2>1. faults + 1 \in 0..MaxDisturbances
    BY <1>1, BoundAssumption DEF EndByError, Disturbances
  <2> QED  BY <1>1, <2>1 DEF EndByError
<1>2. CASE EndByClose(c)
  BY <1>2 DEF EndByClose, RemoveSilently
<1> QED  BY <1>1, <1>2

\* The types are kept.
LEMMA TypeKept == TypeOK /\ [Next]_vars => TypeOK'
<1> SUFFICES ASSUME TypeOK, [Next]_vars PROVE TypeOK'  OBVIOUS
<1> USE DEF TypeOK
<1>1. ASSUME NEW c \in Conn, Gather(c), UNCHANGED clientVars PROVE TypeOK'
  <2>1. gathered[c] \in Nat /\ Len(requests[c]) \in Nat  BY LenProperties
  <2>2. receiveQueue' \in Seq(Position)
    <3>1. <<c, gathered[c] + 1>> \in Position  BY <2>1 DEF Position
    <3> QED  BY <1>1, <3>1, AppendProperties DEF Gather
  <2>3. /\ gathered' \in [Conn -> Nat]
        /\ \A d \in Conn : gathered'[d] \in 0..Len(requests[d])
    BY <1>1, <2>1 DEF Gather
  <2>4. UNCHANGED <<requests, replies, up, served, sendQueue, report, faults, pc, envelope,
                    interrupted, executed, load, at, conn, opened, retries, calls, taken,
                    asked, strayed>>
    BY <1>1 DEF Gather, wireVars, threadVars, clientVars
  <2> QED  BY <2>2, <2>3, <2>4
<1>2. ASSUME NEW c \in Conn, Distribute(c), UNCHANGED clientVars PROVE TypeOK'
  <2>1. PICK i \in 1..Len(sendQueue) :
          /\ sendQueue' = RemoveAt(sendQueue, i)
          /\ replies' = [replies EXCEPT ![c] = Append(@, sendQueue[i])] \/ UNCHANGED replies
    BY <1>2 DEF Distribute
  <2>2. sendQueue' \in Seq(Answer) /\ sendQueue[i] \in Answer
    BY <2>1, RemoveAtProperties, ElementOfSeq
  <2>3. /\ replies' \in [Conn -> Seq(Answer)]
        /\ \A d \in Conn : taken[d] \in 0..Len(replies'[d])
    <3>1. ASSUME NEW q \in Seq(Answer)
          PROVE  /\ Append(q, sendQueue[i]) \in Seq(Answer)
                 /\ Len(Append(q, sendQueue[i])) = Len(q) + 1 /\ Len(q) \in Nat
      BY <2>2, AppendProperties, LenProperties
    <3> HIDE DEF TypeOK
    <3>2. /\ replies \in [Conn -> Seq(Answer)]
          /\ \A d \in Conn : taken[d] \in 0..Len(replies[d])
      BY DEF TypeOK
    <3>3. replies' \in [Conn -> Seq(Answer)]  BY <2>1, <3>1, <3>2
    <3>4. \A d \in Conn : Len(replies[d]) \in Nat /\ Len(replies'[d]) \in Nat
      <4>1. \A q \in Seq(Answer) : Len(q) \in Nat  BY LenProperties
      <4> QED  BY <3>2, <3>3, <4>1
    <3>5. \A d \in Conn : replies'[d] = replies[d] \/ Len(replies'[d]) = Len(replies[d]) + 1
      BY <2>1, <3>1, <3>2
    <3>6. ASSUME NEW d \in Conn PROVE taken[d] \in 0..Len(replies'[d])
      <4>1. CASE replies'[d] = replies[d]  BY <4>1, <3>2
      <4>2. CASE Len(replies'[d]) = Len(replies[d]) + 1  BY <4>2, <3>2, <3>4
      <4> QED  BY <4>1, <4>2, <3>5
    <3> QED  BY <3>3, <3>6
  <2>4. /\ served' \in [Conn -> SUBSET BothThreads]
        /\ report' \in BOOLEAN /\ faults' \in 0..MaxDisturbances
    <3>1. CASE c \in up  BY <1>2, <3>1 DEF Distribute
    <3>2. CASE c \notin up
      <4>1. EndByError(c, {"send"}) \/ EndByClose(c)  BY <1>2, <3>2 DEF Distribute
      <4> HIDE DEF TypeOK
      <4> QED  BY <4>1, EndTyped
    <3> QED  BY <3>1, <3>2
  <2> QED  BY <1>2, <2>2, <2>3, <2>4 DEF Distribute, threadVars, clientVars
<1>3. ASSUME NEW c \in Conn, Drop(c) \/ \E threads \in SUBSET BothThreads : Fault(c, threads),
             UNCHANGED clientVars
      PROVE  TypeOK'
  <2>1. PICK threads \in SUBSET BothThreads : EndByError(c, threads) \/ EndByClose(c)
    BY <1>3 DEF Drop, Fault, BothThreads
  <2>2. /\ served' \in [Conn -> SUBSET BothThreads]
        /\ report' \in BOOLEAN /\ faults' \in 0..MaxDisturbances
    <3> HIDE DEF TypeOK
    <3> QED  BY <2>1, EndTyped
  <2> QED  BY <1>3, <2>2 DEF Drop, Fault, wireVars, threadVars, clientVars
<1>4. ASSUME CallReceive, UNCHANGED clientVars PROVE TypeOK'
  BY <1>4 DEF CallReceive, Terminate, clientVars
<1>5. ASSUME ReceiveEnvelope, UNCHANGED clientVars PROVE TypeOK'
  <2>1. /\ Head(receiveQueue) \in Position /\ Head(receiveQueue) # Nothing
        /\ Tail(receiveQueue) \in Seq(Position)
    <3>1. Head(receiveQueue) \in Position /\ Tail(receiveQueue) \in Seq(Position)
      BY <1>5, HeadTailProperties DEF ReceiveEnvelope
    <3> QED  BY <3>1, SomeRequest
  <2> QED  BY <1>5, <2>1 DEF ReceiveEnvelope, wireVars, clientVars
<1>6. ASSUME ReceiveNothing \/ EndRun \/ InterruptDispatcher \/ Destroy, UNCHANGED clientVars
      PROVE  TypeOK'
  BY <1>6 DEF ReceiveNothing, EndRun, InterruptDispatcher, Destroy, Terminate,
              wireVars, aggregatorVars, clientVars
<1>7. ASSUME Serve, UNCHANGED clientVars PROVE TypeOK'
  <2>1. /\ envelope # Nothing /\ envelope[1] \in Conn /\ envelope[2] \in Nat \ {0}
        /\ executed[envelope[1]] \in Seq(Nat \ {0})
    BY <1>7 DEF Serve, Position
  <2>2. Append(executed[envelope[1]], envelope[2]) \in Seq(Nat \ {0})
    BY <2>1, AppendProperties
  <2>3. executed' \in [Conn -> Seq(Nat \ {0})]
    BY <1>7, <2>1, <2>2 DEF Serve
  <2> QED  BY <1>7, <2>1, <2>3 DEF Serve, AfterCatch, Terminate, aggregatorVars, clientVars
<1>8. ASSUME SendReply \/ SendError, UNCHANGED clientVars PROVE TypeOK'
  <2>1. /\ envelope # Nothing /\ envelope[1] \in Conn /\ envelope[2] \in Nat \ {0}
    BY <1>8 DEF SendReply, SendError, Position
  <2>2. ASSUME NEW status \in {"success", "error"}
        PROVE  Append(sendQueue, Reply(status)) \in Seq(Answer)
    <3>1. Reply(status) \in Answer  BY <2>1 DEF Reply, Answer
    <3> QED  BY <3>1, AppendProperties
  <2>3. sendQueue' \in Seq(Answer)
    BY <1>8, <2>2 DEF SendReply, SendError, AggregatorSend, ErrorStatus
  <2> QED  BY <1>8, <2>1, <2>3 DEF SendReply, SendError, Terminate, wireVars, clientVars
<1>9. ASSUME NEW c \in Conn, Break(c), UNCHANGED clientVars PROVE TypeOK'
  BY <1>9 DEF Break, aggregatorVars, threadVars, clientVars
<1>10. ASSUME NEW k \in Client, StartCall(k) \/ UseConnection(k) PROVE TypeOK'
  <2>1. CASE StartCall(k)
    BY <2>1 DEF StartCall, Goto, serverVars, wireVars, aggregatorVars, threadVars
  <2>2. CASE UseConnection(k)
    <3>1. /\ at[k] \in {"send", "receive"} /\ conn[k] # None
          /\ at' = [at EXCEPT ![k] = Then[at[k]]] /\ Then[at[k]] \in {"sending", "receiving"}
      BY <2>2 DEF UseConnection, Then, Goto
    <3>2. /\ at' \in [Client -> {"idle", "send", "sending", "receive", "receiving"}]
          /\ \A l \in Client : at'[l] \in {"sending", "receiving"} => conn[l] # None
      BY <3>1
    <3>3. UNCHANGED <<requests, replies, up, served, gathered, receiveQueue, sendQueue, report,
                      faults, pc, envelope, interrupted, executed, load, conn, opened, retries,
                      calls, taken, asked, strayed>>
      BY <2>2 DEF UseConnection, serverVars, wireVars, aggregatorVars, threadVars
    <3> QED  BY <3>2, <3>3
  <2> QED  BY <1>10, <2>1, <2>2
<1>11. ASSUME NEW k \in Client, Connect(k) PROVE TypeOK'
  <2>1. opened + 1 \in Conn /\ opened + 1 \in 0..load.conns /\ opened + 1 # None
    <3>1. opened < load.conns /\ opened \in 0..load.conns  BY <1>11 DEF Connect
    <3>2. opened + 1 \in Conn /\ load.conns \in Nat
      <4> HIDE DEF TypeOK
      <4> QED  BY <3>1, LoadOK
    <3> HIDE DEF TypeOK
    <3> QED  BY <3>1, <3>2 DEF None
  <2>2. /\ at[k] \in {"send", "receive"}
        /\ at' = [at EXCEPT ![k] = Then[at[k]]] /\ Then[at[k]] \in {"sending", "receiving"}
        /\ conn' = [conn EXCEPT ![k] = opened + 1]
    BY <1>11 DEF Connect, Then, Goto
  <2>3. /\ at' \in [Client -> {"idle", "send", "sending", "receive", "receiving"}]
        /\ conn' \in [Client -> Conn \cup {None}]
        /\ \A l \in Client : at'[l] \in {"sending", "receiving"} => conn'[l] # None
    BY <2>1, <2>2
  <2>4. opened' \in 0..load.conns /\ up' \subseteq Conn
    BY <1>11, <2>1 DEF Connect
  <2>5. /\ served' \in [Conn -> SUBSET BothThreads]
        /\ UNCHANGED <<requests, replies, gathered, receiveQueue, sendQueue, report, faults,
                       pc, envelope, interrupted, executed, load, retries, calls, taken, asked,
                       strayed>>
    BY <1>11 DEF Connect, Accept, threadVars
  <2> QED  BY <2>3, <2>4, <2>5
<1>12. ASSUME NEW k \in Client, NEW call \in {"send", "receive"}, Fail(k, call)
       PROVE  TypeOK'
  <2>1. retries' \in [Client -> 0..MaxRetries-1]
    <3>1. RetriesLeft(k) => retries[k] + 1 \in 0..MaxRetries-1
      BY RetriesAssumption DEF RetriesLeft
    <3>2. 0 \in 0..MaxRetries-1  BY RetriesAssumption
    <3> QED  BY <1>12, <3>1, <3>2 DEF Fail
  <2>2. /\ conn' \in [Client -> Conn \cup {None}]
        /\ asked' \in [Client -> Position \cup {Nothing}]
        /\ at' \in [Client -> {"idle", "send", "sending", "receive", "receiving"}]
        /\ \A l \in Client : at'[l] \in {"sending", "receiving"} => conn'[l] # None
    <3>1. conn' = [conn EXCEPT ![k] = None] /\ conn' \in [Client -> Conn \cup {None}]
      BY <1>12 DEF Fail, ResetConnection
    <3>2. PICK to \in {call, "idle"} : at' = [at EXCEPT ![k] = to]
      BY <1>12 DEF Fail, Goto
    <3>3. asked' \in [Client -> Position \cup {Nothing}]
      BY <1>12 DEF Fail
    <3>4. at' \in [Client -> {"idle", "send", "sending", "receive", "receiving"}]
      BY <3>2
    <3>5. \A l \in Client : at'[l] \in {"sending", "receiving"} => conn'[l] # None
      BY <3>1, <3>2
    <3> QED  BY <3>1, <3>3, <3>4, <3>5
  <2> QED  BY <1>12, <2>1, <2>2 DEF Fail, serverVars, wireVars, aggregatorVars, threadVars
<1>13. ASSUME NEW k \in Client, NEW o \in load.request[k], Send(k, o) PROVE TypeOK'
  <2> DEFINE c == conn[k]
  <2>1. c \in Conn /\ o \in Outcome  BY <1>13, LoadOK DEF Send
  <2>2. /\ Append(requests[c], o) \in Seq(Outcome)
        /\ Len(Append(requests[c], o)) = Len(requests[c]) + 1 /\ Len(requests[c]) \in Nat
    BY <2>1, AppendProperties, LenProperties
  <2>3. <<c, Len(requests[c]) + 1>> \in Position  BY <2>1, <2>2 DEF Position
  <2>4. /\ requests' \in [Conn -> Seq(Outcome)]
        /\ \A d \in Conn : gathered[d] \in 0..Len(requests'[d])
    BY <1>13, <2>1, <2>2 DEF Send
  <2>5. retries' \in [Client -> 0..MaxRetries-1]
    <3>1. 0 \in 0..MaxRetries-1  BY RetriesAssumption
    <3> QED  BY <1>13, <3>1 DEF Send
  <2>6. asked' \in [Client -> Position \cup {Nothing}]  BY <1>13, <2>3 DEF Send
  <2> QED  BY <1>13, <2>4, <2>5, <2>6 DEF Send, Goto, aggregatorVars, threadVars
<1>14. ASSUME NEW k \in Client, Receive(k) PROVE TypeOK'
  <2>1. conn[k] \in Conn  BY <1>14 DEF Receive
  <2>2. /\ taken' \in [Conn -> Nat]
        /\ \A c \in Conn : taken'[c] \in 0..Len(replies[c])
    BY <1>14, <2>1, LenProperties DEF Receive
  <2>3. retries' \in [Client -> 0..MaxRetries-1]  BY <1>14, RetriesAssumption DEF Receive
  <2> QED  BY <1>14, <2>2, <2>3
           DEF Receive, Goto, serverVars, wireVars, aggregatorVars, threadVars
<1>15. CASE UNCHANGED vars
  BY <1>15 DEF vars, serverVars, clientVars, wireVars, aggregatorVars, threadVars
<1>16. {{}, {"receive"}, {"send"}} \subseteq SUBSET BothThreads  BY DEF BothThreads
<1> HIDE DEF TypeOK
<1> QED  BY <1>1, <1>2, <1>3, <1>4, <1>5, <1>6, <1>7, <1>8, <1>9, <1>10, <1>11, <1>12,
            <1>13, <1>14, <1>15, <1>16
         DEF Next, Server, AggregatorStep, DispatcherStep, Environment, CallStep, ConnectFails,
             SendFails, ReceiveFails, Then

\* What the types say of the requests and replies on their way.
Ranges ==
  /\ Len(sendQueue) \in Nat /\ Len(receiveQueue) \in Nat
  /\ \A i \in 1..Len(sendQueue) : sendQueue[i].conn \in Conn /\ sendQueue[i].to \in Nat \ {0}
  /\ \A i \in 1..Len(receiveQueue) :
       receiveQueue[i] \in Position /\ receiveQueue[i][1] \in Conn /\ receiveQueue[i][2] \in Nat \ {0}
  /\ envelope # Nothing => envelope[1] \in Conn /\ envelope[2] \in Nat \ {0}
  /\ \A c \in Conn :
       /\ gathered[c] \in Nat /\ Len(replies[c]) \in Nat /\ Len(executed[c]) \in Nat
       /\ \A i \in 1..Len(executed[c]) : executed[c][i] \in Nat \ {0}

LEMMA TypeRanges == TypeOK => Ranges
<1> SUFFICES ASSUME TypeOK PROVE Ranges  OBVIOUS
<1>1. /\ sendQueue \in Seq(Answer) /\ receiveQueue \in Seq(Position)
      /\ envelope # Nothing => envelope \in Position
      /\ \A c \in Conn : /\ gathered[c] \in Nat /\ replies[c] \in Seq(Answer)
                         /\ executed[c] \in Seq(Nat \ {0})
  BY DEF TypeOK
<1>2. ASSUME NEW S, NEW q \in Seq(S) PROVE Len(q) \in Nat /\ \A i \in 1..Len(q) : q[i] \in S
  BY LenProperties, ElementOfSeq
<1>3. \A r \in Answer : r.conn \in Conn /\ r.to \in Nat \ {0}  BY DEF Answer
<1>4. Len(sendQueue) \in Nat /\ \A i \in 1..Len(sendQueue) : sendQueue[i] \in Answer
  BY <1>1, <1>2
<1>5. Len(receiveQueue) \in Nat /\ \A i \in 1..Len(receiveQueue) : receiveQueue[i] \in Position
  BY <1>1, <1>2
<1>6. \A c \in Conn : /\ Len(replies[c]) \in Nat /\ Len(executed[c]) \in Nat
                      /\ \A i \in 1..Len(executed[c]) : executed[c][i] \in Nat \ {0}
  BY <1>1, <1>2
<1> QED  BY <1>1, <1>3, <1>4, <1>5, <1>6, SomeRequest DEF Ranges

\* The requests on their way, as named parts of the invariant.
InOrder == SendOrder /\ ReceiveOrder /\ EnvelopeOrder /\ Numbered

-----------------------------------------------------------------------------
\* Which steps change what: methods are called by Serve, requests are made by
\* clients, and replies are moved by the aggregator and made by the thread.
LEMMA Changes ==
  ASSUME [Next]_vars
  PROVE  /\ executed' = executed \/ Serve
         /\ requests' = requests \/ \E k \in Client : \E o \in load.request[k] : Send(k, o)
         /\ \/ UNCHANGED <<replies, sendQueue>>
            \/ \E c \in Conn : Distribute(c)
            \/ SendReply \/ SendError
<1>1. CASE \E c \in Conn : Gather(c) /\ UNCHANGED clientVars
  BY <1>1 DEF Gather, wireVars, threadVars
<1>2. CASE \E c \in Conn : (Distribute(c) \/ Drop(c)) /\ UNCHANGED clientVars
  BY <1>2 DEF Distribute, Drop, wireVars, threadVars
<1>3. CASE DispatcherStep /\ UNCHANGED clientVars
  BY <1>3 DEF DispatcherStep, CallReceive, ReceiveEnvelope, ReceiveNothing, Serve, SendReply,
              SendError, EndRun, wireVars, aggregatorVars
<1>4. CASE Environment /\ UNCHANGED clientVars
  BY <1>4 DEF Environment, InterruptDispatcher, Destroy, Break, Fault, wireVars,
              aggregatorVars, threadVars
<1>5. CASE \E k \in Client : StartCall(k) \/ CallStep(k)
  BY <1>5 DEF StartCall, CallStep, UseConnection, Connect, ConnectFails, SendFails, Send,
              Receive, ReceiveFails, Fail, serverVars, wireVars, aggregatorVars, threadVars
<1>6. CASE UNCHANGED vars
  BY <1>6 DEF vars, serverVars, wireVars, aggregatorVars, threadVars
<1> QED  BY <1>1, <1>2, <1>3, <1>4, <1>5, <1>6 DEF Next, Server, AggregatorStep

\* What was requested stays requested, and what was called stays called.
LEMMA Grows ==
  ASSUME TypeOK, [Next]_vars, NEW d \in Conn
  PROVE  /\ Range(executed[d]) \subseteq Range(executed'[d])
         /\ \A n \in 1..Len(requests[d]) :
              n \in 1..Len(requests'[d]) /\ requests'[d][n] = requests[d][n]
<1>1. CASE Serve
  <2>1. executed[d] \in Seq(Nat \ {0})  BY DEF TypeOK
  <2>2. executed'[d] = executed[d] \/ \E n \in Nat \ {0} : executed'[d] = Append(executed[d], n)
    <3>1. envelope # Nothing /\ envelope[1] \in Conn /\ envelope[2] \in Nat \ {0}
      BY <1>1, SomeRequest DEF TypeOK, Serve
    <3>2. executed' = executed
            \/ executed' = [executed EXCEPT ![envelope[1]] = Append(@, envelope[2])]
      BY <1>1 DEF Serve
    <3>3. executed \in [Conn -> Seq(Nat \ {0})]  BY DEF TypeOK
    <3> QED  BY <3>1, <3>2, <3>3
  <2>3. ASSUME NEW n \in Nat \ {0}
        PROVE  Range(executed[d]) \subseteq Range(Append(executed[d], n))
    <3>1. /\ DOMAIN Append(executed[d], n) = 1..Len(executed[d])+1
          /\ DOMAIN executed[d] = 1..Len(executed[d]) /\ Len(executed[d]) \in Nat
          /\ \A i \in 1..Len(executed[d]) : Append(executed[d], n)[i] = executed[d][i]
      BY <2>1, AppendProperties, LenProperties
    <3> QED  BY <3>1 DEF Range
  <2>4. UNCHANGED requests  BY <1>1 DEF Serve
  <2> QED  BY <2>2, <2>3, <2>4
<1>2. ASSUME NEW k \in Client, NEW o \in load.request[k], Send(k, o)
      PROVE  \A n \in 1..Len(requests[d]) :
               n \in 1..Len(requests'[d]) /\ requests'[d][n] = requests[d][n]
  <2>1. conn[k] \in Conn /\ o \in Outcome /\ requests \in [Conn -> Seq(Outcome)]
    BY <1>2, LoadOK DEF Send, TypeOK
  <2>2. requests' = [requests EXCEPT ![conn[k]] = Append(@, o)]  BY <1>2 DEF Send
  <2>3. /\ Len(Append(requests[d], o)) = Len(requests[d]) + 1 /\ Len(requests[d]) \in Nat
        /\ \A i \in 1..Len(requests[d]) : Append(requests[d], o)[i] = requests[d][i]
    BY <2>1, AppendProperties, LenProperties
  <2>4. requests'[d] = requests[d] \/ requests'[d] = Append(requests[d], o)
    BY <2>1, <2>2
  <2> QED  BY <2>3, <2>4
<1>3. CASE executed' = executed /\ requests' = requests
  BY <1>3
<1> QED  BY <1>1, <1>2, <1>3, Changes
\* A reply on its way to the client of c was there before, or is the one the
\* thread just gave to the aggregator.
LEMMA NewReplies ==
  ASSUME TypeOK, TypeOK', [Next]_vars, NEW c \in Conn, NEW r \in RepliesTo(c)'
  PROVE  \/ r \in RepliesTo(c)
         \/ /\ envelope # Nothing /\ c = envelope[1]
            /\ \/ pc = "replying" /\ r = Reply("success")
               \/ SendError /\ ~report /\ r = Reply("error")
<1>1. ASSUME NEW d \in Conn, Distribute(d) PROVE r \in RepliesTo(c)
  <2>1. PICK f \in 1..Len(sendQueue) :
          /\ sendQueue[f].conn = d
          /\ sendQueue' = RemoveAt(sendQueue, f)
          /\ replies' = replies \/ replies' = [replies EXCEPT ![d] = Append(@, sendQueue[f])]
    BY <1>1 DEF Distribute
  <2>2. sendQueue \in Seq(Answer) /\ replies \in [Conn -> Seq(Answer)] /\ sendQueue[f] \in Answer
    BY ElementOfSeq DEF TypeOK
  <2>3. CASE r \in Range(replies'[c])
    <3>1. CASE replies'[c] = replies[c]  BY <3>1, <2>3 DEF RepliesTo
    <3>2. CASE c = d /\ replies'[c] = Append(replies[c], sendQueue[f])
      <4>1. /\ Len(replies[c]) \in Nat
            /\ DOMAIN replies[c] = 1..Len(replies[c])
            /\ DOMAIN replies'[c] = 1..Len(replies[c])+1
            /\ replies'[c][Len(replies[c])+1] = sendQueue[f]
            /\ \A i \in 1..Len(replies[c]) : replies'[c][i] = replies[c][i]
        BY <3>2, <2>2, AppendProperties, LenProperties
      <4>2. PICK i \in 1..Len(replies[c])+1 : r = replies'[c][i]
        BY <2>3, <4>1 DEF Range
      <4>3. CASE i \in 1..Len(replies[c])  BY <4>1, <4>2, <4>3 DEF Range, RepliesTo
      <4>4. CASE i = Len(replies[c]) + 1
        BY <3>2, <2>1, <4>1, <4>2, <4>4 DEF RepliesTo, Queued
      <4> QED  BY <4>1, <4>3, <4>4
    <3> QED  BY <3>1, <3>2, <2>1, <2>2
  <2>4. CASE r \in {sendQueue'[i] : i \in Queued(c)'}
    <3>1. PICK i \in 1..Len(sendQueue') : sendQueue'[i].conn = c /\ r = sendQueue'[i]
      BY <2>4 DEF Queued
    <3>2. \A q \in 1..Len(sendQueue') : \E j \in 1..Len(sendQueue) : sendQueue'[q] = sendQueue[j]
      <4>1. /\ Len(sendQueue') = Len(sendQueue) - 1 /\ Len(sendQueue) \in Nat
            /\ \A j \in 1..Len(sendQueue)-1 :
                 sendQueue'[j] = IF j < f THEN sendQueue[j] ELSE sendQueue[j+1]
        <5>1. /\ Len(RemoveAt(sendQueue, f)) = Len(sendQueue) - 1
              /\ \A j \in 1..Len(sendQueue)-1 :
                   RemoveAt(sendQueue, f)[j] = IF j < f THEN sendQueue[j] ELSE sendQueue[j+1]
          BY <2>2, RemoveAtProperties
        <5> QED  BY <5>1, <2>1, <2>2, LenProperties
      <4>2. ASSUME NEW q \in 1..Len(sendQueue)-1
            PROVE  \E j \in 1..Len(sendQueue) : sendQueue'[q] = sendQueue[j]
        <5>1. q \in 1..Len(sendQueue) /\ q+1 \in 1..Len(sendQueue)  BY <4>1
        <5>2. sendQueue'[q] = sendQueue[q] \/ sendQueue'[q] = sendQueue[q+1]  BY <4>1
        <5> QED  BY <5>1, <5>2
      <4> QED  BY <4>1, <4>2
    <3>3. \E j \in 1..Len(sendQueue) : sendQueue[j].conn = c /\ r = sendQueue[j]
      BY <3>1, <3>2
    <3> QED  BY <3>3 DEF RepliesTo, Queued
  <2> QED  BY <2>3, <2>4 DEF RepliesTo
<1>2. CASE SendReply \/ SendError
  <2>1. UNCHANGED replies /\ envelope # Nothing /\ envelope[1] \in Conn /\ envelope[2] \in Nat \ {0}
    BY <1>2, SomeRequest DEF TypeOK, SendReply, SendError, wireVars
  <2>2. CASE UNCHANGED sendQueue
    BY <2>1, <2>2 DEF RepliesTo, Queued
  <2>3. CASE sendQueue' # sendQueue
    <3>1. PICK status \in {"success", "error"} :
            /\ sendQueue' = Append(sendQueue, Reply(status))
            /\ status = "success" => pc = "replying"
            /\ status = "error" => SendError /\ ~report
      BY <1>2, <2>3 DEF SendReply, SendError, AggregatorSend, ErrorStatus
    <3>2. sendQueue \in Seq(Answer) /\ Reply(status) \in Answer
      BY <2>1 DEF TypeOK, Reply, Answer
    <3>3. /\ Len(sendQueue) \in Nat /\ Len(sendQueue') = Len(sendQueue) + 1
          /\ sendQueue'[Len(sendQueue)+1] = Reply(status)
          /\ \A i \in 1..Len(sendQueue) : sendQueue'[i] = sendQueue[i]
      BY <3>1, <3>2, AppendProperties, LenProperties
    <3>4. CASE r \in Range(replies[c])  BY <3>4 DEF RepliesTo
    <3>5. CASE \E i \in 1..Len(sendQueue) : sendQueue[i].conn = c /\ r = sendQueue[i]
      BY <3>5 DEF RepliesTo, Queued
    <3>6. CASE r = Reply(status) /\ r.conn = c
      <4>1. c = envelope[1]  BY <3>6 DEF Reply
      <4> QED  BY <2>1, <3>1, <3>6, <4>1
    <3>7. r \in Range(replies[c]) \/ \E i \in 1..Len(sendQueue)+1 :
                                       sendQueue'[i].conn = c /\ r = sendQueue'[i]
      BY <2>1, <3>3 DEF RepliesTo, Queued
    <3> QED  BY <3>3, <3>4, <3>5, <3>6, <3>7
  <2> QED  BY <2>2, <2>3
<1>3. CASE UNCHANGED <<replies, sendQueue>>
  BY <1>3 DEF RepliesTo, Queued
<1> QED  BY <1>1, <1>2, <1>3, Changes

\* Methods are called once, and successes are reported for those that returned.
LEMMA TruthKept == IInv /\ [Next]_vars => RepliesTrue'
<1> SUFFICES ASSUME IInv, [Next]_vars PROVE RepliesTrue'  OBVIOUS
<1>1. TypeOK /\ TypeOK' /\ Ranges  BY TypeKept, TypeRanges DEF IInv
<1>2. ASSUME NEW c \in Conn, NEW i \in 1..Len(executed'[c]), NEW j \in 1..Len(executed'[c]), i < j
      PROVE  executed'[c][i] < executed'[c][j]
  <2>1. CASE executed'[c] = executed[c]
    BY <1>2, <2>1 DEF IInv, RepliesTrue
  <2>2. CASE executed'[c] # executed[c]
    <3> DEFINE n == envelope[2]
               m == Len(executed[c])
    <3>1. Serve /\ envelope # Nothing /\ envelope[1] \in Conn /\ n \in Nat \ {0}
      BY <1>1, <2>2, Changes, SomeRequest DEF TypeOK, Serve
    <3>2. envelope[1] = c /\ executed'[c] = Append(executed[c], n) /\ executed[c] \in Seq(Nat \ {0})
      BY <1>1, <2>2, <3>1 DEF TypeOK, Serve
    <3>3. /\ m \in Nat /\ Len(executed'[c]) = m + 1 /\ executed'[c][m+1] = n
          /\ \A l \in 1..m : executed'[c][l] = executed[c][l]
      BY <3>1, <3>2, AppendProperties, LenProperties
    <3>4. i \in 1..m  BY <1>2, <3>3
    <3>5. CASE j \in 1..m
      BY <1>2, <3>3, <3>4, <3>5 DEF IInv, RepliesTrue
    <3>6. CASE j = m+1
      <4>1. pc = "serving"  BY <3>1 DEF Serve
      <4> QED  BY <3>2, <3>3, <3>4, <3>6, <4>1 DEF IInv, Newest
    <3> QED  BY <3>3, <3>5, <3>6
  <2> QED  BY <2>1, <2>2
<1>3. ASSUME NEW c \in Conn, NEW r \in RepliesTo(c)', r.status = "success"
      PROVE  requests'[c][r.to] = "works" /\ r.to \in Range(executed'[c])
  <2>1. SUFFICES requests[c][r.to] = "works" /\ r.to \in Range(executed[c])
    <3>1. Len(requests[c]) \in Nat /\ gathered[c] \in 0..Len(requests[c])
      BY <1>1, LenProperties DEF TypeOK
    <3>2. \A i \in 1..Len(executed[c]) : executed[c][i] \in 1..Len(requests[c])
      BY <1>1, <3>1 DEF Ranges, IInv, Newest
    <3>3. DOMAIN executed[c] = 1..Len(executed[c])
      BY <1>1, LenProperties DEF TypeOK
    <3>4. r.to \in 1..Len(requests[c])
      BY <2>1, <3>2, <3>3 DEF Range
    <3> QED  BY <2>1, <3>4, <1>1, Grows
  <2>2. CASE r \in RepliesTo(c)
    BY <2>2, <1>3 DEF IInv, RepliesTrue
  <2>3. CASE r = Reply("success") /\ pc = "replying" /\ c = envelope[1]
    BY <2>3 DEF Reply, IInv, ThreadOK, OutcomeOf
  <2> QED  BY <2>2, <2>3, <1>1, <1>3, NewReplies DEF Reply
<1> QED  BY <1>2, <1>3 DEF RepliesTrue

\* Every other step leaves what is on its way alone; connections may break, and
\* one that is opened has carried nothing.
LEMMA WayKept == IInv /\ [Next]_vars => InOrder' /\ Present' /\ Newest'
<1> SUFFICES ASSUME IInv, [Next]_vars PROVE InOrder' /\ Present' /\ Newest'  OBVIOUS
<1>1. TypeOK /\ InOrder /\ Present /\ Newest  BY DEF IInv, InOrder
\* A request that the aggregator receives is the newest of its connection.
<1>2. ASSUME NEW c \in Conn, Gather(c) PROVE InOrder' /\ Present' /\ Newest'
  <2> USE <1>1, <1>2
  <2> DEFINE n == gathered[c] + 1
             m == Len(receiveQueue)
  <2>1. Ranges  BY TypeRanges
  <2>2. /\ m \in Nat /\ Len(receiveQueue') = m + 1 /\ receiveQueue'[m+1] = <<c, n>>
        /\ \A i \in 1..m : receiveQueue'[i] = receiveQueue[i]
    <3>1. receiveQueue \in Seq(Conn \X Nat) /\ <<c, n>> \in Conn \X Nat
      <4>1. receiveQueue \in Seq(Position) /\ Position \subseteq Conn \X Nat /\ gathered[c] \in Nat
        BY DEF TypeOK, Position
      <4> QED  BY <4>1, SeqMonotonic
    <3> QED  BY <3>1, AppendProperties, LenProperties DEF Gather
  <2>3. /\ UNCHANGED <<sendQueue, replies, up, envelope, executed, pc>>
        /\ gathered'[c] = n /\ \A d \in Conn : d # c => gathered'[d] = gathered[d]
    BY DEF Gather, TypeOK, wireVars, threadVars
  <2>4. \A d \in Conn : gathered[d] \in Nat /\ gathered'[d] \in Nat /\ gathered[d] <= gathered'[d]
    <3> SUFFICES ASSUME NEW d \in Conn
                 PROVE  gathered[d] \in Nat /\ gathered'[d] \in Nat /\ gathered[d] <= gathered'[d]
      OBVIOUS
    <3>1. gathered[d] \in Nat  BY <2>1 DEF Ranges
    <3>2. CASE d = c  BY <2>3, <3>1, <3>2
    <3>3. CASE d # c  BY <2>3, <3>1, <3>3
    <3> QED  BY <3>2, <3>3
  <2>5. \A i \in 1..m+1 : i \in 1..m \/ (i = m+1 /\ receiveQueue'[i][1] = c /\ receiveQueue'[i][2] = n)
    BY <2>2
  <2>6. SendOrder'
    <3>1. \A i \in 1..Len(sendQueue) : sendQueue[i].conn = c => sendQueue[i].to < n
      BY <2>1 DEF Ranges, InOrder, EnvelopeOrder
    <3>2. ASSUME NEW i \in 1..Len(sendQueue), NEW j \in 1..m+1,
                 receiveQueue'[j][1] = sendQueue[i].conn
          PROVE  sendQueue[i].to < receiveQueue'[j][2]
      <4>1. CASE j \in 1..m  BY <3>2, <4>1, <2>2 DEF InOrder, SendOrder
      <4>2. CASE j = m+1  BY <3>1, <3>2, <4>2, <2>5, <2>2
      <4> QED  BY <4>1, <4>2, <2>2
    <3>3. /\ \A i, j \in 1..Len(sendQueue) :
               i < j /\ sendQueue[i].conn = sendQueue[j].conn => sendQueue[i].to < sendQueue[j].to
          /\ \A i \in 1..Len(sendQueue) :
               LET r == sendQueue[i]
               IN  /\ Len(replies[r.conn]) < r.to
                   /\ envelope # Nothing /\ envelope[1] = r.conn => r.to < envelope[2]
      BY DEF InOrder, SendOrder
    <3> QED  BY <2>2, <2>3, <3>2, <3>3 DEF SendOrder
  <2>7. EnvelopeOrder'
    <3>1. \A d \in Conn : Len(replies[d]) <= gathered'[d]
      BY <2>1, <2>4 DEF Ranges, InOrder, EnvelopeOrder
    <3>2. \A i \in 1..Len(sendQueue) : sendQueue[i].to <= gathered'[sendQueue[i].conn]
      BY <2>1, <2>4 DEF Ranges, InOrder, EnvelopeOrder
    <3>3. envelope # Nothing =>
            Len(replies[envelope[1]]) < envelope[2] /\ envelope[2] <= gathered'[envelope[1]]
      BY <2>1, <2>4 DEF Ranges, InOrder, EnvelopeOrder
    <3> QED  BY <2>3, <3>1, <3>2, <3>3 DEF EnvelopeOrder
  <2>8. ReceiveOrder'
    <3>1. ASSUME NEW i \in 1..m+1, NEW j \in 1..m+1, i < j, receiveQueue'[i][1] = receiveQueue'[j][1]
          PROVE  receiveQueue'[i][2] < receiveQueue'[j][2]
      <4>1. i \in 1..m  BY <3>1, <2>2
      <4>2. CASE j \in 1..m  BY <3>1, <4>1, <4>2, <2>2 DEF InOrder, ReceiveOrder
      <4>3. CASE j = m+1
        <5>1. receiveQueue[i][1] = c /\ receiveQueue[i][2] <= gathered[c]
          BY <3>1, <4>1, <4>3, <2>2, <2>5 DEF InOrder, ReceiveOrder
        <5> QED  BY <5>1, <4>1, <4>3, <2>1, <2>2, <2>5 DEF Ranges
      <4> QED  BY <4>2, <4>3, <2>2
    <3>2. ASSUME NEW i \in 1..m+1
          PROVE  LET e == receiveQueue'[i]
                 IN  /\ Len(replies[e[1]]) < e[2] /\ e[2] <= gathered'[e[1]]
                     /\ envelope # Nothing /\ envelope[1] = e[1] => envelope[2] < e[2]
      <4>1. CASE i \in 1..m
        <5>1. /\ receiveQueue'[i] = receiveQueue[i] /\ receiveQueue[i][1] \in Conn
              /\ Len(replies[receiveQueue[i][1]]) < receiveQueue[i][2]
              /\ receiveQueue[i][2] <= gathered[receiveQueue[i][1]]
              /\ envelope # Nothing /\ envelope[1] = receiveQueue[i][1] =>
                   envelope[2] < receiveQueue[i][2]
          BY <4>1, <2>1, <2>2 DEF Ranges, InOrder, ReceiveOrder
        <5>2. gathered[receiveQueue[i][1]] <= gathered'[receiveQueue[i][1]]
          BY <5>1, <2>1, <2>4 DEF Ranges
        <5>3. /\ receiveQueue[i][2] \in Nat /\ gathered[receiveQueue[i][1]] \in Nat
              /\ gathered'[receiveQueue[i][1]] \in Nat
          BY <4>1, <5>1, <2>1, <2>4 DEF Ranges
        <5> QED  BY <5>1, <5>2, <5>3
      <4>2. CASE i = m+1
        <5>1. Len(replies[c]) < n /\ (envelope # Nothing /\ envelope[1] = c => envelope[2] < n)
          BY <2>1 DEF Ranges, InOrder, EnvelopeOrder
        <5> QED  BY <4>2, <5>1, <2>3, <2>5, <2>4
      <4> QED  BY <4>1, <4>2, <2>2
    <3> QED  BY <3>1, <3>2, <2>2, <2>3 DEF ReceiveOrder
  <2>9. Present'
    <3> SUFFICES ASSUME NEW d \in up, NEW l \in Len(replies[d])+1..gathered'[d]
                 PROVE  OnItsWay(d, l)'
      BY <2>3 DEF Present
    <3>1. d \in Conn  BY DEF TypeOK
    <3>2. CASE d = c /\ l = n
      BY <3>2, <2>2 DEF OnItsWay, Received
    <3>3. CASE ~(d = c /\ l = n)
      <4>1. l \in Len(replies[d])+1..gathered[d]
        BY <3>1, <3>3, <2>1, <2>3, <2>4 DEF Ranges
      <4>2. OnItsWay(d, l)  BY <4>1 DEF Present
      <4> QED  BY <4>2, <2>2, <2>3 DEF OnItsWay, Received, Replied
    <3> QED  BY <3>2, <3>3
  <2>10. Newest'
    <3> SUFFICES ASSUME NEW d \in Conn, NEW i \in 1..Len(executed[d])
                 PROVE  /\ \A j \in 1..m+1 :
                             receiveQueue'[j][1] = d => executed[d][i] < receiveQueue'[j][2]
                        /\ pc = "serving" /\ envelope[1] = d => executed[d][i] < envelope[2]
                        /\ executed[d][i] <= gathered'[d]
      BY <2>2, <2>3 DEF Newest
    <3>1. executed[d][i] \in Nat /\ executed[d][i] <= gathered[d]
      BY <2>1 DEF Ranges, Newest
    <3>2. ASSUME NEW j \in 1..m+1, receiveQueue'[j][1] = d
          PROVE  executed[d][i] < receiveQueue'[j][2]
      <4>1. CASE j \in 1..m  BY <3>2, <4>1, <2>2 DEF Newest
      <4>2. CASE j = m+1  BY <3>1, <3>2, <4>2, <2>1, <2>5, <2>2 DEF Ranges
      <4> QED  BY <4>1, <4>2, <2>2
    <3> QED  BY <3>1, <3>2, <2>4 DEF Newest
  <2> QED  BY <2>3, <2>6, <2>7, <2>8, <2>9, <2>10 DEF InOrder, Numbered
\* The oldest reply for a connection leaves the queue: for the client, or for
\* nobody when the connection broke.
<1>3. ASSUME NEW c \in Conn, Distribute(c) PROVE InOrder' /\ Present' /\ Newest'
  <2> USE <1>1, <1>3
  <2> DEFINE m == Len(sendQueue)
  <2>1. Ranges  BY TypeRanges
  <2>2. PICK f \in 1..m :
          /\ sendQueue[f].conn = c /\ \A j \in 1..f-1 : sendQueue[j].conn # c
          /\ sendQueue' = RemoveAt(sendQueue, f)
          /\ IF c \in up THEN replies' = [replies EXCEPT ![c] = Append(@, sendQueue[f])]
                         ELSE UNCHANGED replies
    BY DEF Distribute
  <2> DEFINE old(j) == IF j < f THEN j ELSE j + 1
  <2>3. UNCHANGED <<receiveQueue, gathered, up, envelope, executed, pc>>
    BY DEF Distribute, threadVars
  <2>4. /\ m \in Nat /\ Len(sendQueue') = m - 1
        /\ \A j \in 1..m-1 : sendQueue'[j] = IF j < f THEN sendQueue[j] ELSE sendQueue[j+1]
    <3>1. sendQueue \in Seq(Answer)  BY DEF TypeOK
    <3>2. /\ Len(RemoveAt(sendQueue, f)) = m - 1
          /\ \A j \in 1..m-1 :
               RemoveAt(sendQueue, f)[j] = IF j < f THEN sendQueue[j] ELSE sendQueue[j+1]
      BY <3>1, RemoveAtProperties
    <3> QED  BY <3>2, <2>1, <2>2 DEF Ranges
  <2>5. /\ \A j \in 1..m-1 : old(j) \in 1..m /\ old(j) # f /\ sendQueue'[j] = sendQueue[old(j)]
        /\ \A i, j \in 1..m-1 : i < j => old(i) < old(j)
        /\ \A i \in 1..m : i # f => \E j \in 1..m-1 : old(j) = i
    <3>1. f \in Nat /\ 1 <= f /\ f <= m  BY <2>1 DEF Ranges
    <3>2. ASSUME NEW j \in 1..m-1
          PROVE  old(j) \in 1..m /\ old(j) # f /\ sendQueue'[j] = sendQueue[old(j)]
      <4>1. CASE j < f  BY <4>1, <3>1, <2>4
      <4>2. CASE ~(j < f)  BY <4>2, <3>1, <2>4
      <4> QED  BY <4>1, <4>2
    <3>3. ASSUME NEW i \in 1..m, i # f PROVE \E j \in 1..m-1 : old(j) = i
      <4>1. CASE i < f
        <5>1. i \in 1..m-1 /\ old(i) = i  BY <4>1, <3>1, <2>4
        <5> QED  BY <5>1
      <4>2. CASE ~(i < f)
        <5>1. i-1 \in 1..m-1 /\ old(i-1) = i  BY <4>2, <3>3, <3>1, <2>4
        <5> QED  BY <5>1
      <4> QED  BY <4>1, <4>2
    <3>4. ASSUME NEW i \in 1..m-1, NEW j \in 1..m-1, i < j PROVE old(i) < old(j)
      BY <3>1, <3>4
    <3> HIDE DEF old
    <3> QED  BY <3>2, <3>3, <3>4
  <2> HIDE DEF old
  \* The reply that leaves is to the first request without a reply.
  <2>6. \A j \in 1..m : sendQueue[j].conn = c /\ j # f => sendQueue[f].to < sendQueue[j].to
    BY <2>1, <2>2, <2>4 DEF InOrder, SendOrder, Ranges
  <2>7. c \in up => sendQueue[f].to = Len(replies[c]) + 1
    <3> SUFFICES ASSUME c \in up, sendQueue[f].to # Len(replies[c]) + 1 PROVE FALSE  OBVIOUS
    <3> DEFINE n == Len(replies[c]) + 1
    <3>1. /\ n \in Nat /\ n < sendQueue[f].to /\ sendQueue[f].to \in Nat
          /\ sendQueue[f].to <= gathered[c] /\ gathered[c] \in Nat
      <4>1. sendQueue[f].conn = c /\ f \in 1..Len(sendQueue)  BY <2>1, <2>2
      <4>2. sendQueue[f].to \in Nat  BY <4>1, <2>1 DEF Ranges
      <4>3. Len(replies[c]) < sendQueue[f].to  BY <4>1 DEF InOrder, SendOrder
      <4>4. sendQueue[f].to <= gathered[c]  BY <4>1 DEF InOrder, EnvelopeOrder
      <4>5. gathered[c] \in Nat /\ Len(replies[c]) \in Nat  BY <2>1 DEF Ranges
      <4> QED  BY <4>2, <4>3, <4>4, <4>5
    <3>2. OnItsWay(c, n)  BY <3>1 DEF Present
    <3>3. ~Replied(c, n)
      BY <3>1, <2>2, <2>6, <2>1 DEF Replied, Ranges
    <3>4. ~Received(c, n)
      <4> SUFFICES ASSUME NEW i \in 1..Len(receiveQueue), receiveQueue[i] = <<c, n>> PROVE FALSE
        BY DEF Received
      <4>1. receiveQueue[i][1] = c /\ receiveQueue[i][2] = n  OBVIOUS
      <4>2. receiveQueue[i][1] = c => sendQueue[f].to < receiveQueue[i][2]
        BY <2>2 DEF InOrder, SendOrder
      <4> QED  BY <4>1, <4>2, <3>1
    <3>5. envelope # <<c, n>>
      <4> SUFFICES ASSUME envelope = <<c, n>> PROVE FALSE  OBVIOUS
      <4>1. envelope[1] = c /\ envelope[2] = n /\ <<c, n>> \in Position
        BY <3>1, <2>1 DEF Position, Ranges
      <4>2. envelope # Nothing  BY <4>1, SomeRequest
      <4> QED  BY <4>1, <4>2, <3>1, <2>2 DEF InOrder, SendOrder
    <3> QED  BY <3>2, <3>3, <3>4, <3>5 DEF OnItsWay
  <2>8. /\ \A d \in Conn : Len(replies[d]) \in Nat
        /\ \A d \in Conn : d # c \/ c \notin up => replies'[d] = replies[d]
        /\ c \in up => /\ Len(replies'[c]) = Len(replies[c]) + 1
                       /\ replies'[c][Len(replies[c]) + 1] = sendQueue[f]
                       /\ \A i \in 1..Len(replies[c]) : replies'[c][i] = replies[c][i]
    <3>1. replies \in [Conn -> Seq(Answer)] /\ sendQueue[f] \in Answer
      BY ElementOfSeq DEF TypeOK
    <3>2. \A d \in Conn : Len(replies[d]) \in Nat  BY <2>1 DEF Ranges
    <3>3. CASE c \in up
      <4>1. replies'[c] = Append(replies[c], sendQueue[f]) /\ replies[c] \in Seq(Answer)
        BY <3>1, <3>3, <2>2
      <4>2. /\ Len(replies'[c]) = Len(replies[c]) + 1
            /\ replies'[c][Len(replies[c]) + 1] = sendQueue[f]
            /\ \A i \in 1..Len(replies[c]) : replies'[c][i] = replies[c][i]
        BY <4>1, <3>1, AppendProperties
      <4> QED  BY <4>2, <3>1, <3>2, <3>3, <2>2
    <3> QED  BY <3>2, <3>3, <2>2
  <2>9. ASSUME NEW d \in Conn, NEW n \in Nat, Len(replies[d]) < n,
               d = c => sendQueue[f].to < n
        PROVE  Len(replies'[d]) < n
    <3>1. CASE d # c \/ c \notin up  BY <3>1, <2>8, <2>9
    <3>2. CASE d = c /\ c \in up  BY <3>2, <2>7, <2>8, <2>9
    <3> QED  BY <3>1, <3>2
  <2>10. SendOrder'
    <3>1. ASSUME NEW i \in 1..m-1, NEW j \in 1..m-1, i < j, sendQueue'[i].conn = sendQueue'[j].conn
          PROVE  sendQueue'[i].to < sendQueue'[j].to
      <4>1. /\ old(i) \in 1..m /\ old(j) \in 1..m /\ old(i) < old(j)
            /\ sendQueue'[i] = sendQueue[old(i)] /\ sendQueue'[j] = sendQueue[old(j)]
        BY <3>1, <2>5
      <4> QED  BY <3>1, <4>1 DEF InOrder, SendOrder
    <3>2. ASSUME NEW i \in 1..m-1
          PROVE  LET r == sendQueue'[i]
                 IN  /\ Len(replies'[r.conn]) < r.to
                     /\ envelope # Nothing /\ envelope[1] = r.conn => r.to < envelope[2]
                     /\ \A j \in 1..Len(receiveQueue) :
                          receiveQueue[j][1] = r.conn => r.to < receiveQueue[j][2]
      <4> DEFINE r == sendQueue[old(i)]
      <4>1. sendQueue'[i] = r /\ old(i) \in 1..m /\ old(i) # f  BY <2>5
      <4>2. r.conn \in Conn /\ r.to \in Nat  BY <4>1, <2>1 DEF Ranges
      <4>3. Len(replies[r.conn]) < r.to  BY <4>1 DEF InOrder, SendOrder
      <4>4. r.conn = c => sendQueue[f].to < r.to  BY <4>1, <2>6
      <4>5. Len(replies'[r.conn]) < r.to  BY <4>2, <4>3, <4>4, <2>9
      <4> QED  BY <4>1, <4>5 DEF InOrder, SendOrder
    <3> QED  BY <3>1, <3>2, <2>3, <2>4 DEF SendOrder
  <2>11. ReceiveOrder'
    <3>1. ASSUME NEW i \in 1..Len(receiveQueue)
          PROVE  Len(replies'[receiveQueue[i][1]]) < receiveQueue[i][2]
      <4>1. receiveQueue[i][1] \in Conn /\ receiveQueue[i][2] \in Nat  BY <2>1 DEF Ranges
      <4>2. Len(replies[receiveQueue[i][1]]) < receiveQueue[i][2]  BY DEF InOrder, ReceiveOrder
      <4>3. receiveQueue[i][1] = c => sendQueue[f].to < receiveQueue[i][2]
        BY <2>2 DEF InOrder, SendOrder
      <4> QED  BY <4>1, <4>2, <4>3, <2>9
    <3> QED  BY <3>1, <2>3 DEF InOrder, ReceiveOrder
  <2>12. EnvelopeOrder'
    <3>1. envelope # Nothing => Len(replies'[envelope[1]]) < envelope[2]
      <4> SUFFICES ASSUME envelope # Nothing PROVE Len(replies'[envelope[1]]) < envelope[2]
        OBVIOUS
      <4>1. envelope[1] \in Conn /\ envelope[2] \in Nat  BY <2>1 DEF Ranges
      <4>2. Len(replies[envelope[1]]) < envelope[2]  BY DEF InOrder, EnvelopeOrder
      <4>3. envelope[1] = c => sendQueue[f].to < envelope[2]  BY <2>2 DEF InOrder, SendOrder
      <4> QED  BY <4>1, <4>2, <4>3, <2>9
    <3>2. ASSUME NEW d \in Conn PROVE Len(replies'[d]) <= gathered[d]
      <4>1. Len(replies[d]) <= gathered[d] /\ sendQueue[f].to <= gathered[c]
        BY <2>2 DEF InOrder, EnvelopeOrder
      <4>2. CASE d # c \/ c \notin up  BY <4>1, <4>2, <2>8
      <4>3. CASE d = c /\ c \in up  BY <4>1, <4>3, <2>7, <2>8
      <4> QED  BY <4>2, <4>3
    <3>3. \A i \in 1..m-1 : sendQueue'[i].to <= gathered[sendQueue'[i].conn]
      BY <2>5 DEF InOrder, EnvelopeOrder
    <3> QED  BY <3>1, <3>2, <3>3, <2>3, <2>4 DEF InOrder, EnvelopeOrder
  <2>13. Numbered'
    <3> SUFFICES ASSUME NEW d \in Conn, NEW i \in 1..Len(replies'[d])
                 PROVE  replies'[d][i].to = i
      BY DEF Numbered
    <3>1. CASE d # c \/ c \notin up  BY <3>1, <2>8 DEF InOrder, Numbered
    <3>2. CASE d = c /\ c \in up
      <4>1. i \in 1..Len(replies[c]) \/ i = Len(replies[c]) + 1  BY <3>2, <2>8
      <4> QED  BY <3>2, <4>1, <2>7, <2>8 DEF InOrder, Numbered
    <3> QED  BY <3>1, <3>2
  <2>14. Present'
    <3> SUFFICES ASSUME NEW d \in up, NEW n \in Len(replies'[d])+1..gathered[d]
                 PROVE  OnItsWay(d, n)'
      BY <2>3 DEF Present
    <3>0. d \in Conn  BY DEF TypeOK
    <3>1. /\ n \in Len(replies[d])+1..gathered[d]
          /\ d = c => n # sendQueue[f].to
      <4>1. CASE d # c  BY <4>1, <3>0, <2>8
      <4>2. CASE d = c
        <5>1. Len(replies'[c]) = Len(replies[c]) + 1 /\ Len(replies[c]) \in Nat
          BY <4>2, <2>8
        <5> QED  BY <4>2, <5>1, <2>7
      <4> QED  BY <4>1, <4>2
    <3>2. OnItsWay(d, n)  BY <3>1 DEF Present
    <3>3. CASE Replied(d, n)
      <4>1. PICK i \in 1..m : sendQueue[i].conn = d /\ sendQueue[i].to = n
        BY <3>3 DEF Replied
      <4>2. i # f  BY <4>1, <3>1, <2>2
      <4>3. PICK j \in 1..m-1 : old(j) = i  BY <4>2, <2>5
      <4>4. j \in 1..Len(sendQueue') /\ sendQueue'[j].conn = d /\ sendQueue'[j].to = n
        BY <4>1, <4>3, <2>4, <2>5
      <4> QED  BY <4>4 DEF OnItsWay, Replied
    <3> QED  BY <3>2, <3>3, <2>3 DEF OnItsWay, Received
  <2>15. Newest'
    BY <2>3 DEF Newest
  <2> QED  BY <2>10, <2>11, <2>12, <2>13, <2>14, <2>15 DEF InOrder
\* The oldest request goes from the queue to the thread, which has none.
<1>4. ASSUME ReceiveEnvelope PROVE InOrder' /\ Present' /\ Newest'
  <2> USE <1>1, <1>4
  <2>0. envelope = Nothing  BY DEF IInv, ThreadOK, ReceiveEnvelope
  <2> USE <2>0
  <2> DEFINE m == Len(receiveQueue)
  <2>1. Ranges  BY TypeRanges
  <2>2. /\ m \in Nat /\ m >= 1 /\ envelope' = receiveQueue[1] /\ Len(receiveQueue') = m - 1
        /\ \A i \in 1..m-1 : receiveQueue'[i] = receiveQueue[i+1]
        /\ envelope' # Nothing /\ pc' = "serving"
    <3>1. receiveQueue \in Seq(Position) /\ receiveQueue # <<>>  BY DEF TypeOK, ReceiveEnvelope
    <3>2. /\ Head(receiveQueue) = receiveQueue[1] /\ Len(Tail(receiveQueue)) = m - 1
          /\ \A i \in 1..m-1 : Tail(receiveQueue)[i] = receiveQueue[i+1]
          /\ m \in Nat /\ m >= 1 /\ receiveQueue[1] \in Position
      BY <3>1, HeadTailProperties, EmptySeq, LenProperties, ElementOfSeq
    <3> QED  BY <3>2, SomeRequest DEF ReceiveEnvelope
  <2>3. UNCHANGED <<sendQueue, replies, up, gathered, executed>>
    BY DEF ReceiveEnvelope, wireVars
  <2>4. /\ 1 \in 1..m
        /\ \A i \in 1..m-1 : i+1 \in 1..m /\ 1 < i+1
        /\ \A i, j \in 1..m-1 : i < j => i+1 < j+1
    BY <2>2
  <2>5. SendOrder'
    <3>1. \A i \in 1..Len(sendQueue) :
            LET r == sendQueue[i]
            IN  /\ Len(replies[r.conn]) < r.to
                /\ envelope'[1] = r.conn => r.to < envelope'[2]
      BY <2>2, <2>4 DEF InOrder, SendOrder
    <3>2. \A i \in 1..Len(sendQueue) : \A j \in 1..m-1 :
            receiveQueue'[j][1] = sendQueue[i].conn => sendQueue[i].to < receiveQueue'[j][2]
      BY <2>2, <2>4 DEF InOrder, SendOrder
    <3>3. \A i, j \in 1..Len(sendQueue) :
            i < j /\ sendQueue[i].conn = sendQueue[j].conn => sendQueue[i].to < sendQueue[j].to
      BY DEF InOrder, SendOrder
    <3> QED  BY <3>1, <3>2, <3>3, <2>2, <2>3 DEF SendOrder
  <2>6. ReceiveOrder'
    <3>1. ASSUME NEW i \in 1..m-1, NEW j \in 1..m-1, i < j, receiveQueue'[i][1] = receiveQueue'[j][1]
          PROVE  receiveQueue'[i][2] < receiveQueue'[j][2]
      <4>1. receiveQueue[i+1][1] = receiveQueue[j+1][1]  BY <3>1, <2>2
      <4>2. receiveQueue[i+1][2] < receiveQueue[j+1][2]
        BY <3>1, <4>1, <2>4 DEF InOrder, ReceiveOrder
      <4> QED  BY <4>2, <2>2
    <3>2. ASSUME NEW i \in 1..m-1
          PROVE  LET e == receiveQueue'[i]
                 IN  /\ Len(replies[e[1]]) < e[2] /\ e[2] <= gathered[e[1]]
                     /\ envelope'[1] = e[1] => envelope'[2] < e[2]
      BY <2>2, <2>4 DEF InOrder, ReceiveOrder
    <3> QED  BY <3>1, <3>2, <2>2, <2>3 DEF ReceiveOrder
  <2>7. EnvelopeOrder'
    BY <2>2, <2>3, <2>4 DEF InOrder, ReceiveOrder, EnvelopeOrder
  <2>8. Present'
    <3> SUFFICES ASSUME NEW d \in up, NEW n \in Len(replies[d])+1..gathered[d]
                 PROVE  OnItsWay(d, n)'
      BY <2>3 DEF Present
    <3>1. OnItsWay(d, n)  BY DEF Present
    <3>2. envelope # <<d, n>>
      <4>1. d \in Conn /\ n \in Nat \ {0}  BY <2>1 DEF TypeOK, Ranges
      <4>2. <<d, n>> \in Position  BY <4>1 DEF Position
      <4> QED  BY <4>2, SomeRequest
    <3>3. CASE Received(d, n)
      <4>1. PICK i \in 1..m : receiveQueue[i] = <<d, n>>  BY <3>3 DEF Received
      <4>2. CASE i = 1  BY <4>1, <4>2, <2>2 DEF OnItsWay
      <4>3. CASE i # 1
        <5>1. i-1 \in 1..m-1 /\ receiveQueue'[i-1] = <<d, n>>
          <6>1. i-1 \in 1..m-1 /\ (i-1)+1 = i  BY <4>3, <2>2
          <6> QED  BY <6>1, <4>1, <2>2
        <5> QED  BY <5>1, <2>2 DEF OnItsWay, Received
      <4> QED  BY <4>2, <4>3
    <3>4. CASE Replied(d, n)  BY <3>4, <2>3 DEF OnItsWay, Replied
    <3> QED  BY <3>1, <3>2, <3>3, <3>4 DEF OnItsWay
  <2>9. Newest'
    <3> SUFFICES ASSUME NEW d \in Conn, NEW i \in 1..Len(executed[d])
                 PROVE  /\ \A j \in 1..m-1 :
                             receiveQueue'[j][1] = d => executed[d][i] < receiveQueue'[j][2]
                        /\ envelope'[1] = d => executed[d][i] < envelope'[2]
                        /\ executed[d][i] <= gathered[d]
      BY <2>2, <2>3 DEF Newest
    <3> QED  BY <2>2, <2>4 DEF Newest
  <2> QED  BY <2>3, <2>5, <2>6, <2>7, <2>8, <2>9 DEF InOrder, Numbered
\* The method of the request is called: no request after it was before.
<1>5. ASSUME Serve PROVE InOrder' /\ Present' /\ Newest'
  <2> USE <1>1, <1>5
  <2> DEFINE c == envelope[1]
             n == envelope[2]
             m == Len(executed[c])
  <2>1. Ranges /\ envelope # Nothing /\ c \in Conn /\ n \in Nat \ {0} /\ pc = "serving"
    BY TypeRanges DEF TypeOK, Serve, Ranges
  <2>2. /\ UNCHANGED <<sendQueue, receiveQueue, envelope, gathered, replies>>
        /\ up' \subseteq up /\ pc' # "serving"
    BY DEF Serve, Terminate, AfterCatch, aggregatorVars
  <2>3. /\ m \in Nat
        /\ \A d \in Conn : d # c => executed'[d] = executed[d]
        /\ \/ executed'[c] = executed[c]
           \/ /\ Len(executed'[c]) = m + 1 /\ executed'[c][m + 1] = n
              /\ \A i \in 1..m : executed'[c][i] = executed[c][i]
    <3>1. executed \in [Conn -> Seq(Nat \ {0})]  BY DEF TypeOK
    <3>2. executed[c] \in Seq(Nat \ {0})  BY <2>1, <3>1
    <3>3. /\ Len(Append(executed[c], n)) = m + 1 /\ Append(executed[c], n)[m + 1] = n
          /\ \A i \in 1..m : Append(executed[c], n)[i] = executed[c][i]
      BY <2>1, <3>2, AppendProperties
    <3>4. executed' = executed \/ executed' = [executed EXCEPT ![c] = Append(@, n)]
      BY DEF Serve
    <3>5. m \in Nat  BY <2>1 DEF Ranges
    <3> QED  BY <2>1, <3>1, <3>3, <3>4, <3>5
  <2>4. InOrder'
    BY <2>2 DEF InOrder, SendOrder, ReceiveOrder, EnvelopeOrder, Numbered
  <2>5. Present'
    <3> SUFFICES ASSUME NEW d \in up, NEW l \in Len(replies[d])+1..gathered[d]
                 PROVE  OnItsWay(d, l)'
      BY <2>2 DEF Present
    <3>1. OnItsWay(d, l)  BY DEF Present
    <3> QED  BY <3>1, <2>2 DEF OnItsWay, Received, Replied
  <2>6. Newest'
    <3> SUFFICES ASSUME NEW d \in Conn, NEW i \in 1..Len(executed'[d])
                 PROVE  /\ \A j \in 1..Len(receiveQueue) :
                             receiveQueue[j][1] = d => executed'[d][i] < receiveQueue[j][2]
                        /\ executed'[d][i] <= gathered[d]
      BY <2>2 DEF Newest
    <3>1. CASE executed'[d] = executed[d]  BY <3>1 DEF Newest
    <3>2. CASE executed'[d] # executed[d]
      <4>1. d = c /\ (i \in 1..m \/ (i = m+1 /\ executed'[c][i] = n))  BY <3>2, <2>3
      <4>2. CASE i \in 1..m  BY <3>2, <4>1, <4>2, <2>3 DEF Newest
      <4>3. CASE executed'[c][i] = n
        BY <4>1, <4>3, <2>1 DEF InOrder, ReceiveOrder, EnvelopeOrder
      <4> QED  BY <4>1, <4>2, <4>3
    <3> QED  BY <3>1, <3>2
  <2> QED  BY <2>4, <2>5, <2>6
\* The reply to the request in the thread's hands goes behind those that wait,
\* or an exception comes instead: then the thread keeps the request, or ends
\* and takes all connections with it.
<1>6. ASSUME SendReply \/ SendError PROVE InOrder' /\ Present' /\ Newest'
  <2> USE <1>1, <1>6
  <2> DEFINE m == Len(sendQueue)
             c == envelope[1]
             n == envelope[2]
  <2>1. /\ Ranges /\ envelope # Nothing /\ c \in Conn /\ n \in Nat \ {0}
        /\ envelope = <<c, n>>
    <3>1. Ranges /\ envelope # Nothing /\ envelope \in Position
      BY TypeRanges DEF TypeOK, SendReply, SendError
    <3> QED  BY <3>1 DEF Ranges, Position
  <2>2. UNCHANGED <<receiveQueue, gathered, replies, executed>> /\ pc' # "serving"
    BY DEF SendReply, SendError, Terminate, wireVars
  <2>3. CASE UNCHANGED sendQueue
    <3>1. (UNCHANGED <<envelope, up>>) \/ (envelope' = Nothing /\ up' = {})
      <4>1. CASE report
        BY <4>1 DEF SendReply, SendError, Terminate, wireVars
      <4>2. CASE ~report
        <5>1. PICK r \in Answer : sendQueue' = Append(sendQueue, r)
          <6>1. Reply("success") \in Answer /\ Reply("error") \in Answer
            BY <2>1 DEF Reply, Answer
          <6> QED  BY <6>1, <4>2 DEF SendReply, SendError, AggregatorSend, ErrorStatus
        <5>2. sendQueue \in Seq(Answer)  BY DEF TypeOK
        <5>3. Len(sendQueue') = m + 1 /\ m \in Nat
          BY <5>1, <5>2, AppendProperties, LenProperties
        <5> QED  BY <2>3, <5>3
      <4> QED  BY <4>1, <4>2
    <3>2. InOrder'
      BY <2>2, <2>3, <3>1 DEF InOrder, SendOrder, ReceiveOrder, EnvelopeOrder, Numbered
    <3>3. Present'
      <4> SUFFICES ASSUME NEW d \in up', NEW l \in Len(replies[d])+1..gathered[d]
                   PROVE  OnItsWay(d, l)'
        BY <2>2 DEF Present
      <4>1. UNCHANGED <<envelope, up>>  BY <3>1
      <4>2. OnItsWay(d, l)  BY <4>1 DEF Present
      <4> QED  BY <4>1, <4>2, <2>2, <2>3 DEF OnItsWay, Received, Replied
    <3>4. Newest'
      BY <2>2 DEF Newest
    <3> QED  BY <3>2, <3>3, <3>4
  <2>4. CASE sendQueue' # sendQueue
    <3>1. PICK status \in {"success", "error"} : sendQueue' = Append(sendQueue, Reply(status))
      BY <2>4 DEF SendReply, SendError, AggregatorSend, ErrorStatus
    <3>2. envelope' = Nothing /\ up' = up
      BY <2>4 DEF SendReply, SendError, AggregatorSend, Terminate, wireVars
    <3>3. /\ m \in Nat /\ Len(sendQueue') = m + 1
          /\ sendQueue'[m+1].conn = c /\ sendQueue'[m+1].to = n
          /\ \A i \in 1..m : sendQueue'[i] = sendQueue[i]
      <4>1. sendQueue \in Seq(Answer) /\ Reply(status) \in Answer
        BY <2>1 DEF TypeOK, Reply, Answer
      <4>2. /\ m \in Nat /\ Len(sendQueue') = m + 1 /\ sendQueue'[m+1] = Reply(status)
            /\ \A i \in 1..m : sendQueue'[i] = sendQueue[i]
        BY <3>1, <4>1, AppendProperties, LenProperties
      <4> QED  BY <4>2 DEF Reply
    <3>4. SendOrder'
      <4>1. ASSUME NEW i \in 1..m+1, NEW j \in 1..m+1, i < j,
                   sendQueue'[i].conn = sendQueue'[j].conn
            PROVE  sendQueue'[i].to < sendQueue'[j].to
        <5>1. i \in 1..m  BY <4>1, <3>3
        <5>2. CASE j \in 1..m  BY <4>1, <5>1, <5>2, <3>3 DEF InOrder, SendOrder
        <5>3. CASE j = m+1
          <6>1. sendQueue[i].conn = c  BY <4>1, <5>1, <5>3, <3>3
          <6> QED  BY <5>1, <5>3, <6>1, <2>1, <3>3 DEF InOrder, SendOrder
        <5> QED  BY <5>2, <5>3, <3>3
      <4>2. ASSUME NEW i \in 1..m+1
            PROVE  LET r == sendQueue'[i]
                   IN  /\ Len(replies[r.conn]) < r.to
                       /\ \A j \in 1..Len(receiveQueue) :
                            receiveQueue[j][1] = r.conn => r.to < receiveQueue[j][2]
        <5>1. CASE i \in 1..m  BY <5>1, <3>3 DEF InOrder, SendOrder
        <5>2. CASE i = m+1  BY <5>2, <2>1, <3>3 DEF InOrder, ReceiveOrder, EnvelopeOrder
        <5> QED  BY <5>1, <5>2, <3>3
      <4> QED  BY <4>1, <4>2, <2>2, <3>2, <3>3 DEF SendOrder
    <3>5. ReceiveOrder'
      BY <2>2, <3>2 DEF InOrder, ReceiveOrder
    <3>6. EnvelopeOrder'
      <4>1. ASSUME NEW i \in 1..m+1 PROVE sendQueue'[i].to <= gathered[sendQueue'[i].conn]
        <5>1. CASE i \in 1..m  BY <5>1, <3>3 DEF InOrder, EnvelopeOrder
        <5>2. CASE i = m+1  BY <5>2, <2>1, <3>3 DEF InOrder, EnvelopeOrder
        <5> QED  BY <5>1, <5>2, <3>3
      <4> QED  BY <4>1, <2>2, <3>2, <3>3 DEF InOrder, EnvelopeOrder
    <3>7. Present'
      <4> SUFFICES ASSUME NEW d \in up, NEW l \in Len(replies[d])+1..gathered[d]
                   PROVE  OnItsWay(d, l)'
        BY <2>2, <3>2 DEF Present
      <4>1. OnItsWay(d, l)  BY DEF Present
      <4>2. CASE Received(d, l)  BY <4>2, <2>2 DEF OnItsWay, Received
      <4>3. CASE envelope = <<d, l>>
        <5>1. d = c /\ l = n  BY <4>3
        <5>2. m+1 \in 1..Len(sendQueue')  BY <3>3
        <5> QED  BY <5>1, <5>2, <3>3 DEF OnItsWay, Replied
      <4>4. CASE Replied(d, l)
        <5>1. PICK i \in 1..m : sendQueue[i].conn = d /\ sendQueue[i].to = l
          BY <4>4 DEF Replied
        <5>2. i \in 1..Len(sendQueue') /\ sendQueue'[i] = sendQueue[i]  BY <5>1, <3>3
        <5> QED  BY <5>1, <5>2 DEF OnItsWay, Replied
      <4> QED  BY <4>1, <4>2, <4>3, <4>4 DEF OnItsWay
    <3>8. Newest'
      BY <2>2 DEF Newest
    <3> QED  BY <2>2, <3>4, <3>5, <3>6, <3>7, <3>8 DEF InOrder, Numbered
  <2> QED  BY <2>3, <2>4
<1>7. ASSUME UNCHANGED <<sendQueue, receiveQueue, envelope, gathered, replies, executed>>,
             up' \subseteq up \cup {opened + 1}, pc' = "serving" => pc = "serving"
      PROVE  InOrder' /\ Present' /\ Newest'
  <2>1. InOrder'
    BY <1>1, <1>7 DEF InOrder, SendOrder, ReceiveOrder, EnvelopeOrder, Numbered
  <2>2. Newest'
    BY <1>1, <1>7 DEF Newest
  <2>3. Present'
    <3> SUFFICES ASSUME NEW d \in up', NEW n \in Len(replies[d])+1..gathered[d]
                 PROVE  OnItsWay(d, n)'
      BY <1>7 DEF Present
    <3>1. d \in Conn /\ Len(replies[d]) \in Nat /\ gathered[d] \in 0..Len(requests[d])
      BY <1>1, TypeKept, TypeRanges DEF TypeOK, Ranges
    <3>2. d # opened + 1
      <4> SUFFICES ASSUME d = opened + 1 PROVE FALSE  OBVIOUS
      <4>1. opened \in Nat
        <5>1. opened \in 0..load.conns /\ load.conns \in 0..MaxConn /\ MaxConn \in Nat
          BY <1>1, LoadOK, BoundAssumption DEF TypeOK
        <5> QED  BY <5>1
      <4>2. requests[d] = <<>>  BY <3>1, <4>1 DEF IInv, Fresh
      <4>3. Len(requests[d]) = 0  BY <4>2
      <4> QED  BY <3>1, <4>3
    <3>3. OnItsWay(d, n)  BY <1>1, <1>7, <3>2 DEF Present
    <3> QED  BY <1>7, <3>3 DEF OnItsWay, Received, Replied
  <2> QED  BY <2>1, <2>2, <2>3
<1>8. CASE CallReceive \/ ReceiveNothing \/ EndRun
  BY <1>7, <1>8 DEF CallReceive, ReceiveNothing, EndRun, Terminate, wireVars, aggregatorVars
<1>9. CASE Environment \/ \E c \in Conn : Drop(c)
  BY <1>7, <1>9 DEF Environment, InterruptDispatcher, Destroy, Terminate, Break, Fault, Drop,
                    wireVars, aggregatorVars, threadVars
<1>10. CASE \E k \in Client : StartCall(k) \/ CallStep(k)
  <2>1. PICK k \in Client : StartCall(k) \/ CallStep(k)  BY <1>10
  <2>2. /\ UNCHANGED <<sendQueue, receiveQueue, envelope, gathered, replies, executed, pc>>
        /\ up' \subseteq up \cup {opened + 1}
    BY <2>1 DEF StartCall, CallStep, UseConnection, Connect, ConnectFails, SendFails, Send,
                Receive, ReceiveFails, Fail, serverVars, wireVars, aggregatorVars, threadVars
  <2> QED  BY <1>7, <2>2
<1>11. CASE UNCHANGED vars
  BY <1>7, <1>11 DEF vars, serverVars, wireVars, aggregatorVars, threadVars
<1> QED  BY <1>2, <1>3, <1>4, <1>5, <1>6, <1>8, <1>9, <1>10, <1>11
         DEF Next, Server, AggregatorStep, DispatcherStep

\* What ended the process once stays requested, and so does what is in the
\* thread's hands.
Alien == \E c \in Conn : "alien" \in Range(requests[c])

LEMMA AlienStays == TypeOK /\ [Next]_vars /\ Alien => Alien'
<1> SUFFICES ASSUME TypeOK, [Next]_vars, NEW c \in Conn, "alien" \in Range(requests[c])
             PROVE  Alien'
  BY DEF Alien
<1>1. requests[c] \in Seq(Outcome) /\ requests'[c] \in Seq(Outcome)
  BY TypeKept DEF TypeOK
<1>2. DOMAIN requests[c] = 1..Len(requests[c]) /\ DOMAIN requests'[c] = 1..Len(requests'[c])
  BY <1>1, LenProperties
<1> QED  BY <1>2, Grows DEF Range, Alien

LEMMA OutcomeStays ==
  ASSUME IInv, [Next]_vars, envelope # Nothing
  PROVE  /\ envelope[1] \in Conn /\ envelope[2] \in 1..Len(requests[envelope[1]])
         /\ requests'[envelope[1]][envelope[2]] = OutcomeOf(envelope)
<1>1. TypeOK  BY DEF IInv
<1>2. envelope[1] \in Conn /\ envelope[2] \in Nat \ {0} /\ envelope[2] <= gathered[envelope[1]]
  BY <1>1, SomeRequest DEF TypeOK, IInv, EnvelopeOrder
<1>3. envelope[2] \in 1..Len(requests[envelope[1]])
  BY <1>1, <1>2, LenProperties DEF TypeOK
<1> QED  BY <1>1, <1>2, <1>3, Grows DEF OutcomeOf

\* Where the thread is, it knows what it did.
LEMMA ThreadKept == IInv /\ [Next]_vars => ThreadOK'
<1> SUFFICES ASSUME IInv, [Next]_vars PROVE ThreadOK'  OBVIOUS
<1>1. TypeOK  BY DEF IInv
<1>2. CASE Serve
  <2>1. /\ envelope # Nothing /\ UNCHANGED <<envelope, interrupted, requests>>
        /\ envelope[1] \in Conn /\ envelope[2] \in Nat \ {0} /\ pc = "serving"
    BY <1>1, <1>2, SomeRequest DEF TypeOK, Serve, aggregatorVars
  <2>2. pc' = "replying" => OutcomeOf(envelope) = "works" /\ envelope[2] \in Range(executed'[envelope[1]])
    <3> SUFFICES ASSUME pc' = "replying"
                 PROVE  OutcomeOf(envelope) = "works" /\ envelope[2] \in Range(executed'[envelope[1]])
      OBVIOUS
    <3>1. OutcomeOf(envelope) = "works"
      BY <1>2 DEF Serve, Terminate, AfterCatch
    <3>2. executed' = [executed EXCEPT ![envelope[1]] = Append(@, envelope[2])]
      BY <1>2, <3>1 DEF Serve, Called
    <3> DEFINE q == executed[envelope[1]]
    <3>3. q \in Seq(Nat \ {0}) /\ executed'[envelope[1]] = Append(q, envelope[2])
      BY <1>1, <2>1, <3>2 DEF TypeOK
    <3>4. /\ DOMAIN Append(q, envelope[2]) = 1..Len(q)+1
          /\ Append(q, envelope[2])[Len(q)+1] = envelope[2] /\ Len(q) \in Nat
      BY <2>1, <3>3, AppendProperties, LenProperties
    <3>5. Len(q)+1 \in 1..Len(q)+1  BY <3>4
    <3> HIDE DEF q
    <3> QED  BY <3>1, <3>3, <3>4, <3>5 DEF Range
  <2>3. pc' \in {"replying", "failing", "gone"}
    BY <1>2 DEF Serve, Terminate, AfterCatch
  <2> QED  BY <2>1, <2>2, <2>3 DEF IInv, ThreadOK, OutcomeOf
<1>3. CASE ~Serve
  <2>1. /\ envelope' # Nothing => pc' \in {"serving", "replying", "failing", "gone"}
        /\ pc' = "ended" => interrupted'
        /\ pc' = "replying" => pc = "replying" /\ UNCHANGED <<envelope, executed>>
    <3>0. /\ envelope # Nothing => pc \in {"serving", "replying", "failing", "gone"}
          /\ pc = "ended" => interrupted
      BY <1>1 DEF IInv, ThreadOK, TypeOK
    <3>1. CASE AggregatorStep /\ UNCHANGED clientVars
      BY <3>0, <3>1 DEF AggregatorStep, Gather, Distribute, Drop, wireVars, threadVars
    <3>2. CASE DispatcherStep /\ UNCHANGED clientVars
      BY <1>3, <3>0, <3>2
         DEF DispatcherStep, CallReceive, ReceiveEnvelope, ReceiveNothing, SendReply, SendError,
             EndRun, Terminate, wireVars, aggregatorVars
    <3>3. CASE Environment /\ UNCHANGED clientVars
      BY <3>0, <3>3 DEF Environment, InterruptDispatcher, Destroy, Terminate, Break, Fault,
                        wireVars, aggregatorVars, threadVars
    <3>4. CASE \E k \in Client : StartCall(k) \/ CallStep(k)
      BY <3>0, <3>4
         DEF StartCall, CallStep, UseConnection, Connect, ConnectFails, SendFails, Send,
             Receive, ReceiveFails, Fail, serverVars, wireVars, aggregatorVars, threadVars
    <3>5. CASE UNCHANGED vars
      BY <3>0, <3>5 DEF vars, serverVars, wireVars, aggregatorVars, threadVars
    <3> QED  BY <3>1, <3>2, <3>3, <3>4, <3>5 DEF Next, Server
  <2>2. pc' = "replying" =>
          OutcomeOf(envelope)' = "works" /\ envelope'[2] \in Range(executed'[envelope'[1]])
    <3> SUFFICES ASSUME pc' = "replying"
                 PROVE  OutcomeOf(envelope)' = "works" /\ envelope'[2] \in Range(executed'[envelope'[1]])
      OBVIOUS
    <3>1. pc = "replying" /\ envelope # Nothing /\ UNCHANGED <<envelope, executed>>
      BY <1>1, <2>1 DEF TypeOK
    <3> QED  BY <3>1, OutcomeStays DEF IInv, ThreadOK, OutcomeOf
  <2> QED  BY <2>1, <2>2 DEF ThreadOK
<1> QED  BY <1>2, <1>3

\* Who is in the set of replies that were hindered.
LEMMA HinderedIs ==
  ASSUME NEW e
  PROVE  e \in Hindered <=>
           \E c \in Conn : \E r \in RepliesTo(c) :
             r.status = "error" /\ requests[c][r.to] = "works" /\ e = <<c, r.to>>
BY DEF Hindered

\* A reply answers a request.
LEMMA RepliesToRequests ==
  ASSUME IInv, NEW c \in Conn, NEW r \in RepliesTo(c)
  PROVE  r.to \in 1..Len(requests[c])
<1>1. /\ TypeOK /\ Ranges /\ gathered[c] \in 0..Len(requests[c])
      /\ Len(requests[c]) \in Nat /\ Len(replies[c]) \in Nat /\ Len(replies[c]) <= gathered[c]
      /\ DOMAIN replies[c] = 1..Len(replies[c])
  BY TypeRanges, LenProperties DEF IInv, TypeOK, EnvelopeOrder
<1>2. CASE r \in Range(replies[c])
  <2>1. PICK i \in 1..Len(replies[c]) : r = replies[c][i]  BY <1>1, <1>2 DEF Range
  <2> QED  BY <1>1, <2>1 DEF IInv, Numbered
<1>3. CASE \E i \in 1..Len(sendQueue) : sendQueue[i].conn = c /\ r = sendQueue[i]
  <2>1. PICK i \in 1..Len(sendQueue) : sendQueue[i].conn = c /\ r = sendQueue[i]  BY <1>3
  <2>2. r.to \in Nat \ {0} /\ r.to <= gathered[c]
    BY <1>1, <2>1 DEF Ranges, IInv, EnvelopeOrder
  <2> QED  BY <1>1, <2>2
<1> QED  BY <1>2, <1>3 DEF RepliesTo, Queued

\* A step adds at most one success that an error hindered: the one in the
\* thread's hands, whose error reply the aggregator takes.
LEMMA HinderedKept ==
  ASSUME IInv, [Next]_vars
  PROVE  \/ Hindered' \subseteq Hindered
         \/ SendError /\ ~report /\ Pending /\ Hindered' \subseteq Hindered \cup {envelope}
<1>1. TypeOK /\ TypeOK'  BY TypeKept DEF IInv
<1>2. ASSUME NEW e \in Hindered'
      PROVE  e \in Hindered \/ (SendError /\ ~report /\ Pending /\ e = envelope)
  <2>0. PICK c \in Conn : \E r \in RepliesTo(c)' :
          r.status = "error" /\ requests'[c][r.to] = "works" /\ e = <<c, r.to>>
    BY <1>2 DEF Hindered
  <2>1. PICK r \in RepliesTo(c)' :
          r.status = "error" /\ requests'[c][r.to] = "works" /\ e = <<c, r.to>>
    BY <2>0
  <2>2. CASE r \in RepliesTo(c)
    <3>1. requests[c][r.to] = "works"  BY <1>1, <2>1, <2>2, RepliesToRequests, Grows
    <3> QED  BY <2>1, <2>2, <3>1, HinderedIs
  <2>3. CASE /\ envelope # Nothing /\ c = envelope[1]
             /\ SendError /\ ~report /\ r = Reply("error")
    <3>1. r.to = envelope[2]  BY <2>3 DEF Reply
    <3>2. OutcomeOf(envelope) = "works"  BY <2>1, <2>3, <3>1, OutcomeStays
    <3>3. envelope = <<envelope[1], envelope[2]>>  BY <1>1, <2>3 DEF TypeOK, Position
    <3> QED  BY <2>1, <2>3, <3>1, <3>2, <3>3 DEF Pending, SendError
  <2>4. r # Reply("success")  BY <2>1 DEF Reply
  <2> QED  BY <1>1, <2>2, <2>3, <2>4, NewReplies
<1> QED  BY <1>2

\* What the errors were spent on: an error is added when a thread ends by it, is
\* on its way until the dispatcher meets it, then in its hands, and in the end
\* has cost a success or the process.
Accounted ==
  /\ Spent' \in Nat /\ Spent \in Nat
  /\ Spent' + faults <= Spent + faults'
  /\ SendError /\ ~report /\ Pending => Spent' + 1 + faults <= Spent + faults'

LEMMA SpentKept == IInv /\ [Next]_vars => Accounted
<1> SUFFICES ASSUME IInv, [Next]_vars PROVE Accounted  OBVIOUS
<1>0. TypeOK /\ TypeOK'  BY TypeKept DEF IInv
<1>1. TypeOK /\ TypeOK' /\ faults \in Nat
  <2>1. faults \in 0..MaxDisturbances  BY <1>0 DEF TypeOK
  <2> QED  BY <1>0, <2>1, BoundAssumption
<1>2. \A b : One(b) \in {0, 1} /\ (b <=> One(b) = 1)
  BY DEF One
<1>3. EndedByError <=> pc = "gone" /\ ~interrupted /\ ~Alien
  BY DEF EndedByError, Alien
<1>4. EndedByError' <=> pc' = "gone" /\ ~interrupted' /\ ~Alien'
  BY DEF EndedByError, Alien
<1>5. Alien => Alien'  BY <1>1, AlienStays
\* The thread, its owner and what it holds are left alone.
<1>6. ASSUME pc' = pc \/ pc' \notin {"failing", "gone"}, pc' = "failing" => UNCHANGED envelope,
             interrupted => interrupted'
      PROVE  (Pending' => Pending) /\ (EndedByError' => EndedByError)
  <2>1. Pending' => Pending
    <3> SUFFICES ASSUME Pending' PROVE Pending  OBVIOUS
    <3>1. pc = "failing" /\ UNCHANGED envelope /\ envelope # Nothing
      BY <1>1, <1>6 DEF Pending, TypeOK
    <3> QED  BY <1>6, <3>1, OutcomeStays DEF Pending, OutcomeOf
  <2> QED  BY <2>1, <1>3, <1>4, <1>5, <1>6
<1>7. ASSUME Pending' => Pending, EndedByError' => EndedByError, ~SendError,
             UNCHANGED <<report, faults>> \/ faults' = faults + 1
      PROVE  Accounted
  BY <1>1, <1>2, <1>7 DEF Accounted, Spent, One
<1>8. ASSUME ~Pending', ~report', EndedByError' => report, UNCHANGED faults
      PROVE  Accounted
  BY <1>1, <1>2, <1>8 DEF Accounted, Spent, One
<1>9. ASSUME ~Pending', ~EndedByError', ~SendError, UNCHANGED <<report, faults>>
      PROVE  Accounted
  BY <1>1, <1>2, <1>9 DEF Accounted, Spent, One
<1>10. ASSUME ~report', ~EndedByError', Pending' => report, ~SendError, UNCHANGED faults
       PROVE  Accounted
  BY <1>1, <1>2, <1>10 DEF Accounted, Spent, One
<1>11. CASE CallReceive
  BY <1>8, <1>11, <1>4 DEF CallReceive, Terminate, Pending
<1>12. CASE Serve
  <2>1. /\ envelope # Nothing /\ UNCHANGED <<envelope, report, faults, requests>>
        /\ envelope[1] \in Conn /\ pc = "serving"
    BY <1>1, <1>12, SomeRequest DEF TypeOK, Serve, aggregatorVars
  <2>2. ~Pending'
    BY <1>12, <2>1 DEF Pending, Serve, OutcomeOf, AfterCatch, Terminate
  <2>3. pc' = "gone" => Alien'
    <3> SUFFICES ASSUME pc' = "gone" PROVE Alien'  OBVIOUS
    <3>1. OutcomeOf(envelope) = "alien"
      BY <1>12 DEF Serve, AfterCatch
    <3>2. requests[envelope[1]] \in Seq(Outcome)  BY <1>1, <2>1 DEF TypeOK
    <3>3. DOMAIN requests[envelope[1]] = 1..Len(requests[envelope[1]])
      BY <3>2, LenProperties
    <3>4. "alien" \in Range(requests[envelope[1]])
      BY <2>1, <3>1, <3>3, OutcomeStays DEF Range, OutcomeOf
    <3> QED  BY <2>1, <3>4 DEF Alien
  <2>4. ~SendError  BY <2>1 DEF SendError
  <2> QED  BY <2>1, <2>2, <2>3, <2>4, <1>4, <1>9
<1>13. CASE SendReply
  <2>1. ~report' /\ UNCHANGED faults /\ pc' # "gone" /\ (pc' = "failing" => report) /\ ~SendError
    BY <1>13 DEF SendReply, SendError
  <2> QED  BY <2>1, <1>4, <1>10 DEF Pending
<1>14. CASE SendError
  <2>1. ~report' /\ UNCHANGED faults /\ pc' # "failing" /\ (pc' = "gone" => report) /\ pc = "failing"
    BY <1>14 DEF SendError, Terminate
  <2> QED  BY <2>1, <1>4, <1>8 DEF Pending
<1>15. CASE Destroy
  <2>1. interrupted'  BY <1>15 DEF Destroy, IInv, ThreadOK
  <2>2. ~Pending' /\ ~EndedByError' /\ UNCHANGED <<report, faults>> /\ ~SendError
    BY <2>1, <1>4, <1>15 DEF Pending, Destroy, Terminate, SendError, aggregatorVars
  <2> QED  BY <2>2, <1>9
<1>16. ASSUME ~CallReceive, ~Serve, ~SendReply, ~SendError, ~Destroy
       PROVE  /\ pc' = pc \/ pc' \notin {"failing", "gone"}
              /\ pc' = "failing" => UNCHANGED envelope
              /\ interrupted => interrupted'
              /\ UNCHANGED <<report, faults>> \/ faults' = faults + 1
  <2>1. CASE AggregatorStep /\ UNCHANGED clientVars
    <3>1. PICK c \in Conn : Gather(c) \/ Distribute(c) \/ Drop(c)  BY <2>1 DEF AggregatorStep
    <3> QED  BY <3>1 DEF Gather, Distribute, Drop, EndByError, EndByClose, RemoveSilently, threadVars
  <2>2. CASE DispatcherStep /\ UNCHANGED clientVars
    BY <1>16, <2>2 DEF DispatcherStep, ReceiveEnvelope, ReceiveNothing, EndRun, aggregatorVars
  <2>3. CASE Environment /\ UNCHANGED clientVars
    BY <1>16, <2>3 DEF Environment, InterruptDispatcher, Break, Fault, EndByError, aggregatorVars,
                       threadVars
  <2>4. CASE \E k \in Client : StartCall(k) \/ CallStep(k)
    BY <2>4 DEF StartCall, CallStep, UseConnection, Connect, ConnectFails, SendFails, Send,
                Receive, ReceiveFails, Fail, serverVars, wireVars, aggregatorVars, threadVars
  <2>5. CASE UNCHANGED vars
    BY <2>5 DEF vars, serverVars, wireVars, aggregatorVars, threadVars
  <2> QED  BY <2>1, <2>2, <2>3, <2>4, <2>5 DEF Next, Server
<1> QED  BY <1>6, <1>7, <1>11, <1>12, <1>13, <1>14, <1>15, <1>16

LEMMA ErrorsKept == IInv /\ [Next]_vars => ErrorsSpent'
<1> SUFFICES ASSUME IInv, [Next]_vars PROVE ErrorsSpent'  OBVIOUS
<1>1. /\ IsFiniteSet(Hindered) /\ Cardinality(Hindered) + Spent <= faults
      /\ faults \in Nat /\ faults' \in Nat
  <2>1. TypeOK /\ TypeOK' /\ ErrorsSpent  BY TypeKept DEF IInv
  <2> QED  BY <2>1, BoundAssumption DEF ErrorsSpent, TypeOK
<1>2. /\ Spent' \in Nat /\ Spent \in Nat
      /\ Spent' + faults <= Spent + faults'
      /\ SendError /\ ~report /\ Pending => Spent' + 1 + faults <= Spent + faults'
  BY SpentKept DEF Accounted
<1>3. Cardinality(Hindered) \in Nat  BY <1>1, FS_CardinalityType
<1>4. CASE Hindered' \subseteq Hindered
  <2>1. /\ IsFiniteSet(Hindered') /\ Cardinality(Hindered') <= Cardinality(Hindered)
        /\ Cardinality(Hindered') \in Nat
    BY <1>1, <1>4, FS_Subset, FS_CardinalityType
  <2>2. Cardinality(Hindered') + Spent' <= faults'
    <3>1. ASSUME NEW h \in Nat, NEW h2 \in Nat, NEW p \in Nat, NEW p2 \in Nat,
                 NEW f \in Nat, NEW f2 \in Nat, h + p <= f, p2 + f <= p + f2, h2 <= h
          PROVE  h2 + p2 <= f2
      BY <3>1
    <3> QED  BY <1>1, <1>2, <1>3, <2>1, <3>1
  <2> QED  BY <2>1, <2>2 DEF ErrorsSpent
<1>5. CASE SendError /\ ~report /\ Pending /\ Hindered' \subseteq Hindered \cup {envelope}
  <2>1. /\ IsFiniteSet(Hindered \cup {envelope})
        /\ Cardinality(Hindered \cup {envelope}) <= Cardinality(Hindered) + 1
        /\ Cardinality(Hindered \cup {envelope}) \in Nat
    <3>1. /\ IsFiniteSet(Hindered \cup {envelope})
          /\ \/ Cardinality(Hindered \cup {envelope}) = Cardinality(Hindered)
             \/ Cardinality(Hindered \cup {envelope}) = Cardinality(Hindered) + 1
      BY <1>1, FS_AddElement, Zenon
    <3> QED  BY <1>3, <3>1
  <2>2. /\ IsFiniteSet(Hindered') /\ Cardinality(Hindered') \in Nat
        /\ Cardinality(Hindered') <= Cardinality(Hindered \cup {envelope})
    BY <1>5, <2>1, FS_Subset, FS_CardinalityType
  <2>3. Spent' + 1 + faults <= Spent + faults'  BY <1>2, <1>5
  <2>4. Cardinality(Hindered') + Spent' <= faults'
    <3>1. ASSUME NEW h \in Nat, NEW h2 \in Nat, NEW p \in Nat, NEW p2 \in Nat,
                 NEW f \in Nat, NEW f2 \in Nat, h + p <= f, p2 + 1 + f <= p + f2, h2 <= h + 1
          PROVE  h2 + p2 <= f2
      BY <3>1
    <3>2. Cardinality(Hindered') <= Cardinality(Hindered) + 1  BY <1>3, <2>1, <2>2
    <3> QED  BY <1>1, <1>2, <1>3, <2>2, <2>3, <3>1, <3>2
  <2> QED  BY <2>2, <2>4 DEF ErrorsSpent
<1> QED  BY <1>4, <1>5, HinderedKept

\* A connection is opened before it carries anything.
LEMMA FreshKept == IInv /\ [Next]_vars => Fresh'
<1> SUFFICES ASSUME IInv, [Next]_vars PROVE Fresh'  OBVIOUS
<1>1. TypeOK /\ Fresh  BY DEF IInv
<1>2. opened \in Nat /\ Conn \subseteq Nat /\ \A k \in Client : conn[k] \in Nat
  <2>1. load.conns \in Nat /\ Conn \subseteq Nat  BY <1>1, LoadOK, BoundAssumption DEF Conn
  <2>2. opened \in Nat  BY <1>1, <2>1 DEF TypeOK
  <2>3. ASSUME NEW k \in Client PROVE conn[k] \in Nat
    <3>1. conn[k] \in Conn \cup {0}  BY <1>1 DEF TypeOK, None
    <3>2. CASE conn[k] = 0  BY <3>2
    <3>3. CASE conn[k] \in Conn  BY <3>3, <2>1
    <3> QED  BY <3>1, <3>2, <3>3, Zenon
  <2> QED  BY <2>1, <2>2, <2>3
<1>3. ASSUME NEW c \in Conn, requests[c] = <<>> PROVE gathered[c] = 0
  <2>1. Len(requests[c]) = 0  BY <1>3
  <2> QED  BY <1>1, <2>1 DEF TypeOK
<1>4. CASE /\ UNCHANGED <<requests, opened, conn>>
           /\ up' \subseteq up /\ (pc' = "gone" => up' = {})
  BY <1>1, <1>4 DEF Fresh
<1>5. CASE AggregatorStep /\ UNCHANGED clientVars
  BY <1>1, <1>5 DEF Fresh, AggregatorStep, Gather, Distribute, Drop, wireVars, threadVars, clientVars
<1>6. CASE DispatcherStep /\ UNCHANGED clientVars
  <2>1. /\ UNCHANGED <<requests, opened, conn>>
        /\ up' \subseteq up /\ (pc' = "gone" => up' = {})
    BY <1>6 DEF DispatcherStep, CallReceive, ReceiveEnvelope, ReceiveNothing, Serve, AfterCatch,
                SendReply, SendError, EndRun, Terminate, wireVars, aggregatorVars, clientVars
  <2> QED  BY <1>4, <2>1
<1>7. CASE Environment /\ UNCHANGED clientVars
  BY <1>1, <1>7 DEF Fresh, Environment, InterruptDispatcher, Destroy, Terminate, Break, Fault,
                    wireVars, aggregatorVars, threadVars, clientVars
<1>8. ASSUME NEW k \in Client, Connect(k) PROVE Fresh'
  <2>1. /\ opened + 1 \in Conn /\ opened' = opened + 1 /\ up' = up \cup {opened + 1}
        /\ UNCHANGED <<requests, gathered, pc>>
        /\ \A l \in Client : conn'[l] = conn[l] \/ conn'[l] = opened + 1
    BY <1>1, <1>8, LoadOK DEF TypeOK, Connect, aggregatorVars, threadVars
  <2>2. gathered[opened + 1] = 0
    <3>1. requests[opened + 1] = <<>>  BY <1>1, <1>2, <2>1 DEF Fresh
    <3> QED  BY <2>1, <3>1, <1>3
  <2>3. \A c \in up' : c <= opened'
    BY <1>1, <1>2, <2>1 DEF Fresh, TypeOK
  <2>4. ASSUME NEW c \in Conn, c > opened' PROVE requests'[c] = <<>>
    <3>1. c > opened  BY <1>2, <2>1, <2>4
    <3> QED  BY <1>1, <2>1, <3>1 DEF Fresh
  <2>5. pc' = "gone" => \A c \in up' : gathered'[c] = 0
    BY <1>1, <2>1, <2>2 DEF Fresh
  <2>6. \A l \in Client : conn'[l] <= opened'
    BY <1>1, <1>2, <2>1 DEF Fresh
  <2> QED  BY <2>3, <2>4, <2>5, <2>6 DEF Fresh
<1>9. ASSUME NEW k \in Client, NEW o \in load.request[k], Send(k, o) PROVE Fresh'
  <2>1. /\ UNCHANGED <<up, gathered, pc, opened, conn>>
        /\ requests' = [requests EXCEPT ![conn[k]] = Append(@, o)]
    BY <1>9 DEF Send, aggregatorVars, threadVars
  <2>2. \A c \in Conn : c # conn[k] => requests'[c] = requests[c]
    BY <1>1, <2>1 DEF TypeOK
  <2>3. conn[k] <= opened  BY <1>1 DEF Fresh
  <2>4. ASSUME NEW c \in Conn, c > opened PROVE requests'[c] = <<>>
    <3>1. c # conn[k]  BY <1>2, <2>3, <2>4
    <3> QED  BY <1>1, <2>2, <2>4, <3>1 DEF Fresh
  <2> QED  BY <1>1, <2>1, <2>4 DEF Fresh
<1>10. CASE \E k \in Client : StartCall(k) \/ CallStep(k)
  <2>1. ASSUME NEW k \in Client, NEW call \in {"send", "receive"}, Fail(k, call) PROVE Fresh'
    <3>1. /\ UNCHANGED <<requests, opened, up, gathered, pc>>
          /\ \A l \in Client : conn'[l] = conn[l] \/ conn'[l] = 0
      BY <1>1, <2>1 DEF TypeOK, Fail, ResetConnection, None, serverVars, wireVars,
                        aggregatorVars, threadVars
    <3> QED  BY <1>1, <1>2, <3>1 DEF Fresh
  <2>2. ASSUME NEW k \in Client, StartCall(k) \/ UseConnection(k) \/ Receive(k) PROVE Fresh'
    <3>1. UNCHANGED <<requests, opened, conn, up, gathered, pc>>
      BY <2>2 DEF StartCall, UseConnection, Receive, serverVars, wireVars, aggregatorVars, threadVars
    <3> QED  BY <1>1, <3>1 DEF Fresh
  <2> QED  BY <1>8, <1>9, <1>10, <2>1, <2>2
           DEF CallStep, ConnectFails, SendFails, ReceiveFails, Then
<1>11. CASE UNCHANGED vars
  BY <1>1, <1>11 DEF Fresh, vars, serverVars, clientVars, wireVars, aggregatorVars, threadVars
<1> QED  BY <1>5, <1>6, <1>7, <1>10, <1>11 DEF Next, Server

\* What a client waits for is the answer to what it asked.
LEMMA ClientsKept == IInv /\ [Next]_vars => ClientsOK' /\ OwnAnswer'
<1> SUFFICES ASSUME IInv, [Next]_vars PROVE ClientsOK' /\ OwnAnswer'  OBVIOUS
<1>1. TypeOK /\ TypeOK' /\ Fresh /\ ClientsOK /\ strayed = {}
  BY TypeKept DEF IInv, OwnAnswer
<1>2. ASSUME NEW c \in Conn
      PROVE  Len(requests[c]) \in Nat /\ taken[c] \in Nat /\ Len(replies[c]) \in Nat
             /\ taken[c] <= Len(replies[c]) /\ Len(replies[c]) <= Len(requests[c])
  <2>1. gathered[c] \in 0..Len(requests[c]) /\ taken[c] \in 0..Len(replies[c])
    BY <1>1 DEF TypeOK
  <2>2. Len(requests[c]) \in Nat /\ Len(replies[c]) \in Nat
    BY <1>1, LenProperties DEF TypeOK
  <2>3. Len(replies[c]) <= gathered[c]  BY DEF IInv, EnvelopeOrder
  <2> QED  BY <2>1, <2>2, <2>3
\* Steps that leave a client's part alone leave what it waits for alone.
<1>3. ASSUME UNCHANGED <<requests, conn, asked, taken, at, strayed>>
      PROVE  ClientsOK' /\ OwnAnswer'
  BY <1>1, <1>3 DEF ClientsOK, Waiting, OwnAnswer
<1>4. CASE Server
  <2>1. UNCHANGED <<requests, conn, asked, taken, at, strayed>>
    BY <1>4 DEF Server, AggregatorStep, DispatcherStep, Environment, Gather, Distribute, Drop,
                CallReceive, ReceiveEnvelope, ReceiveNothing, Serve, SendReply, SendError, EndRun,
                InterruptDispatcher, Destroy, Break, Fault, wireVars, aggregatorVars,
                threadVars, clientVars
  <2> QED  BY <1>3, <2>1
<1>5. CASE UNCHANGED vars
  <2>1. UNCHANGED <<requests, conn, asked, taken, at, strayed>>
    BY <1>5 DEF vars, serverVars, clientVars, wireVars
  <2> QED  BY <1>3, <2>1
<1>6. ASSUME NEW k \in Client, StartCall(k) PROVE ClientsOK' /\ OwnAnswer'
  <2>1. /\ UNCHANGED <<requests, taken, strayed, conn, asked>>
        /\ at[k] = "idle" /\ at'[k] = "send"
        /\ \A l \in Client : l # k => at'[l] = at[l]
    BY <1>1, <1>6 DEF TypeOK, StartCall, Goto, serverVars, wireVars
  <2> QED  BY <1>1, <2>1 DEF ClientsOK, Waiting, OwnAnswer
<1>7. ASSUME NEW k \in Client, UseConnection(k) PROVE ClientsOK' /\ OwnAnswer'
  <2>1. /\ UNCHANGED <<requests, taken, strayed, conn, asked>>
        /\ \/ at[k] = "send" /\ at'[k] = "sending"
           \/ at[k] = "receive" /\ at'[k] = "receiving"
        /\ \A l \in Client : l # k => at'[l] = at[l]
    BY <1>1, <1>7 DEF TypeOK, UseConnection, Then, Goto, serverVars, wireVars
  <2>2. ASSUME NEW l \in Client, conn'[l] # None PROVE Waiting(l)'
    BY <1>1, <2>1, <2>2 DEF ClientsOK, Waiting
  <2> QED  BY <1>1, <2>1, <2>2 DEF ClientsOK, OwnAnswer
<1>8. ASSUME NEW k \in Client, NEW call \in {"send", "receive"}, Fail(k, call)
      PROVE  ClientsOK' /\ OwnAnswer'
  <2>1. /\ UNCHANGED <<requests, taken, strayed>> /\ conn'[k] = None
        /\ \A l \in Client : l # k => conn'[l] = conn[l] /\ asked'[l] = asked[l] /\ at'[l] = at[l]
    BY <1>1, <1>8 DEF TypeOK, Fail, ResetConnection, Goto, serverVars, wireVars
  <2> QED  BY <1>1, <2>1 DEF ClientsOK, Waiting, OwnAnswer
<1>9. ASSUME NEW k \in Client, Connect(k) PROVE ClientsOK' /\ OwnAnswer'
  <2> DEFINE c == opened + 1
  <2>1. /\ c \in Conn /\ opened \in Nat
        /\ UNCHANGED <<requests, taken, strayed, asked>> /\ conn'[k] = c
        /\ \A l \in Client : l # k => conn'[l] = conn[l] /\ at'[l] = at[l]
    <3>1. opened \in Nat  BY <1>1, LoadOK DEF TypeOK
    <3> QED  BY <1>1, <1>9, <3>1, LoadOK DEF TypeOK, Connect, Goto
  <2>2. requests[c] = <<>> /\ taken[c] = 0
    <3>1. requests[c] = <<>>  BY <1>1, <2>1 DEF Fresh
    <3>2. Len(requests[c]) = 0  BY <3>1
    <3> QED  BY <2>1, <3>1, <3>2, <1>2
  <2>3. \A l \in Client : conn[l] # c
    <3> SUFFICES ASSUME NEW l \in Client, conn[l] = c PROVE FALSE  OBVIOUS
    <3>1. conn[l] <= opened  BY <1>1 DEF Fresh
    <3> QED  BY <2>1, <3>1
  <2>4. ASSUME NEW l \in Client, NEW l2 \in Client, conn'[l] # None, conn'[l] = conn'[l2]
        PROVE  l = l2
    BY <1>1, <2>1, <2>3, <2>4 DEF ClientsOK
  <2>5. ASSUME NEW l \in Client, conn'[l] # None PROVE Waiting(l)'
    <3>1. CASE l = k
      <4>1. Len(requests[c]) = 0  BY <2>2
      <4> QED  BY <3>1, <4>1, <2>1, <2>2 DEF Waiting
    <3>2. CASE l # k  BY <3>2, <1>1, <2>1, <2>5 DEF ClientsOK, Waiting
    <3> QED  BY <3>1, <3>2
  <2> QED  BY <1>1, <2>1, <2>4, <2>5 DEF ClientsOK, OwnAnswer
<1>10. ASSUME NEW k \in Client, NEW o \in load.request[k], Send(k, o)
       PROVE  ClientsOK' /\ OwnAnswer'
  <2> DEFINE c == conn[k]
  <2>1. /\ c \in Conn /\ c # None /\ o \in Outcome /\ at[k] = "sending" /\ at'[k] = "receive"
        /\ UNCHANGED <<conn, taken, strayed>>
        /\ requests'[c] = Append(requests[c], o) /\ asked'[k] = <<c, Len(requests[c]) + 1>>
        /\ \A l \in Client : l # k => at'[l] = at[l] /\ asked'[l] = asked[l]
        /\ \A d \in Conn : d # c => requests'[d] = requests[d]
    BY <1>1, <1>10, LoadOK DEF TypeOK, Send, Goto
  <2>2. Len(requests'[c]) = Len(requests[c]) + 1
    BY <1>1, <2>1, AppendProperties DEF TypeOK
  <2>3. taken[c] = Len(requests[c])  BY <1>1, <2>1 DEF ClientsOK, Waiting
  <2>4. ASSUME NEW l \in Client, conn'[l] # None PROVE Waiting(l)'
    <3>1. CASE l = k  BY <3>1, <2>1, <2>2, <2>3 DEF Waiting
    <3>2. CASE l # k
      <4>1. conn[l] \in Conn /\ conn[l] # c  BY <3>2, <2>1, <2>4, <1>1 DEF TypeOK, ClientsOK
      <4> QED  BY <3>2, <4>1, <1>1, <2>1, <2>4 DEF ClientsOK, Waiting
    <3> QED  BY <3>1, <3>2
  <2> QED  BY <1>1, <2>1, <2>4 DEF ClientsOK, OwnAnswer
<1>11. ASSUME NEW k \in Client, Receive(k) PROVE ClientsOK' /\ OwnAnswer'
  <2> DEFINE c == conn[k]
             n == taken[c] + 1
  <2>1. /\ c \in Conn /\ c # None /\ at[k] = "receiving" /\ at'[k] = "idle"
        /\ taken[c] < Len(replies[c]) /\ taken'[c] = n
        /\ UNCHANGED <<conn, requests>>
        /\ \A l \in Client : l # k => at'[l] = at[l] /\ asked'[l] = asked[l]
        /\ \A d \in Conn : d # c => taken'[d] = taken[d]
    BY <1>1, <1>11 DEF TypeOK, Receive, Goto, serverVars, wireVars
  <2>2. n \in 1..Len(replies[c]) /\ n <= Len(requests[c]) /\ requests[c] # <<>>
    <3>1. n \in 1..Len(replies[c]) /\ n <= Len(requests[c])  BY <2>1, <1>2
    <3>2. Len(requests[c]) # 0  BY <3>1, <2>1, <1>2
    <3>3. requests[c] # <<>>  BY <3>2
    <3> QED  BY <3>1, <3>3
  <2>3. asked[k] = <<c, n>> /\ Len(requests[c]) = n
    <3>1. asked[k] = <<c, Len(requests[c])>> /\ taken[c] + 1 = Len(requests[c])
      BY <1>1, <2>1, <2>2 DEF ClientsOK, Waiting
    <3> QED  BY <3>1
  <2>4. replies[c][n].to = n  BY <2>1, <2>2 DEF IInv, Numbered
  <2>5. strayed' = {}  BY <1>1, <1>11, <2>3, <2>4 DEF Receive
  <2>6. ASSUME NEW l \in Client, conn'[l] # None PROVE Waiting(l)'
    <3>1. CASE l = k  BY <3>1, <2>1, <2>3 DEF Waiting
    <3>2. CASE l # k
      <4>1. conn[l] \in Conn /\ conn[l] # c  BY <3>2, <2>1, <2>6, <1>1 DEF TypeOK, ClientsOK
      <4> QED  BY <3>2, <4>1, <1>1, <2>1, <2>6 DEF ClientsOK, Waiting
    <3> QED  BY <3>1, <3>2
  <2> QED  BY <1>1, <2>1, <2>5, <2>6 DEF ClientsOK, OwnAnswer
<1> QED  BY <1>4, <1>5, <1>6, <1>7, <1>8, <1>9, <1>10, <1>11
         DEF Next, CallStep, ConnectFails, SendFails, ReceiveFails, Then

-----------------------------------------------------------------------------
\* The invariant holds, whatever the workload.
LEMMA Invariance == Spec => []IInv
<1>1. Init => IInv
  <2> SUFFICES ASSUME Init PROVE IInv  OBVIOUS
  <2> USE DEF Init, ServerInit
  <2>1. TypeOK
    <3>1. load \in Workload  BY WorkloadAssumption
    <3>2. load.conns \in Nat  BY <3>1, BoundAssumption DEF Workload
    <3>3. 0 \in 0..load.conns /\ 0 \in 0..MaxDisturbances /\ 0 \in 0..MaxRetries-1
      BY <3>2, BoundAssumption, RetriesAssumption
    <3>4. \A S : <<>> \in Seq(S) /\ Len(<<>>) = 0  OBVIOUS
    <3>5. \A c \in Conn : gathered[c] \in 0..Len(requests[c]) /\ taken[c] \in 0..Len(replies[c])
      BY <3>4
    <3> QED  BY <3>3, <3>4, <3>5 DEF TypeOK
  <2>2. InOrder /\ Present /\ Newest
    BY DEF InOrder, SendOrder, ReceiveOrder, EnvelopeOrder, Numbered, Present, Newest
  <2>3. Fresh /\ ThreadOK /\ ClientsOK
    BY DEF Fresh, ThreadOK, ClientsOK, None
  <2>4. RepliesTrue /\ OwnAnswer
    BY DEF RepliesTrue, RepliesTo, Queued, Range, OwnAnswer
  <2>5. ErrorsSpent
    <3>1. Hindered = {}
      <4> SUFFICES ASSUME NEW c \in Conn, NEW r \in RepliesTo(c) PROVE FALSE
        BY DEF Hindered
      <4> QED  BY DEF RepliesTo, Queued, Range
    <3>2. Spent = 0
      BY DEF Spent, One, Pending, EndedByError
    <3> QED  BY <3>1, <3>2, FS_EmptySet DEF ErrorsSpent
  <2> QED  BY <2>1, <2>2, <2>3, <2>4, <2>5 DEF IInv, InOrder
<1>2. IInv /\ [Next]_vars => IInv'
  BY TypeKept, WayKept, FreshKept, ThreadKept, ClientsKept, TruthKept, ErrorsKept DEF IInv, InOrder
<1> QED  BY <1>1, <1>2, PTL DEF Spec

\* The types of the clients', the aggregator's and the dispatcher's state.
THEOREM TypeCorrect == Spec => []TypeOK
<1>1. IInv => TypeOK  BY DEF IInv
<1> QED  BY <1>1, Invariance, PTL

\* A client gets one reply to each request, in the order of its requests.
THEOREM OneReplyToEachRequest == Spec => []OneReplyEach
<1>1. ASSUME IInv, NEW c \in up, NEW i \in Queued(c)
      PROVE  LET before == {j \in Queued(c) : j < i}
             IN  \/ before = {} /\ sendQueue[i].to = Len(replies[c]) + 1
                 \/ \E j \in before : /\ \A l \in before : l <= j
                                      /\ sendQueue[i].to = sendQueue[j].to + 1
  <2> DEFINE n == sendQueue[i].to
  <2>1. /\ Ranges /\ c \in Conn /\ i \in 1..Len(sendQueue) /\ sendQueue[i].conn = c
        /\ n \in Nat /\ Len(replies[c]) \in Nat /\ gathered[c] \in Nat
        /\ Len(replies[c]) < n /\ n <= gathered[c]
    BY <1>1, TypeRanges DEF IInv, TypeOK, Queued, Ranges, SendOrder, EnvelopeOrder
  <2>2. CASE n = Len(replies[c]) + 1
    <3>1. ASSUME NEW j \in Queued(c), j < i PROVE FALSE
      <4>1. sendQueue[j].to < n /\ Len(replies[c]) < sendQueue[j].to /\ sendQueue[j].to \in Nat
        BY <1>1, <2>1, <3>1 DEF IInv, SendOrder, Queued, Ranges
      <4> QED  BY <2>1, <2>2, <4>1
    <3> QED  BY <2>2, <3>1
  <2>3. CASE n # Len(replies[c]) + 1
    <3>1. n-1 \in Len(replies[c])+1..gathered[c] /\ n-1 < n  BY <2>1, <2>3
    <3>2. OnItsWay(c, n-1)  BY <1>1, <3>1 DEF IInv, Present
    <3>3. ~Received(c, n-1)
      <4> SUFFICES ASSUME NEW j \in 1..Len(receiveQueue), receiveQueue[j] = <<c, n-1>> PROVE FALSE
        BY DEF Received
      <4>1. receiveQueue[j][1] = c /\ receiveQueue[j][2] = n-1  OBVIOUS
      <4>2. n < n-1  BY <1>1, <2>1, <4>1 DEF IInv, SendOrder
      <4> QED  BY <2>1, <4>2
    <3>4. envelope # <<c, n-1>>
      <4> SUFFICES ASSUME envelope = <<c, n-1>> PROVE FALSE  OBVIOUS
      <4>1. envelope[1] = c /\ envelope[2] = n-1  OBVIOUS
      <4>2. <<c, n-1>> \in Position  BY <2>1, <3>1 DEF Position
      <4>3. envelope # Nothing  BY <4>2, SomeRequest
      <4>4. n < n-1  BY <1>1, <2>1, <4>1, <4>3 DEF IInv, SendOrder
      <4> QED  BY <2>1, <4>4
    <3>5. PICK j \in 1..Len(sendQueue) : sendQueue[j].conn = c /\ sendQueue[j].to = n-1
      BY <3>2, <3>3, <3>4 DEF OnItsWay, Replied
    <3>6. j < i
      <4>1. ~(i < j)
        <5> SUFFICES ASSUME i < j PROVE FALSE  OBVIOUS
        <5>1. n < n-1  BY <1>1, <2>1, <3>5 DEF IInv, SendOrder
        <5> QED  BY <2>1, <5>1
      <4>2. i # j  BY <2>1, <3>5
      <4> QED  BY <2>1, <4>1, <4>2 DEF Ranges
    <3>7. ASSUME NEW l \in Queued(c), l < i PROVE l <= j
      <4>1. sendQueue[l].to < n /\ sendQueue[l].to \in Nat /\ l \in 1..Len(sendQueue)
        BY <1>1, <2>1, <3>7 DEF IInv, SendOrder, Queued, Ranges
      <4>2. ~(j < l)
        <5> SUFFICES ASSUME j < l PROVE FALSE  OBVIOUS
        <5>1. n-1 < sendQueue[l].to
          BY <1>1, <3>5, <3>7, <4>1 DEF IInv, SendOrder, Queued
        <5> QED  BY <2>1, <4>1, <5>1
      <4> QED  BY <2>1, <4>1, <4>2 DEF Ranges
    <3>8. n = sendQueue[j].to + 1  BY <2>1, <3>5
    <3> QED  BY <3>5, <3>6, <3>7, <3>8 DEF Queued
  <2> QED  BY <2>2, <2>3
<1>2. IInv => OneReplyEach
  BY <1>1 DEF IInv, TypeOK, Numbered, OneReplyEach
<1> QED  BY <1>2, Invariance, PTL

\* No method is called twice for a request, and a success is true.
THEOREM RepliesAreTrue == Spec => []RepliesTrue
<1>1. IInv => RepliesTrue  BY DEF IInv
<1> QED  BY <1>1, Invariance, PTL

\* A call never returns the answer to another one.
THEOREM AnswersReachTheirCall == Spec => []OwnAnswer
<1>1. IInv => OwnAnswer  BY DEF IInv
<1> QED  BY <1>1, Invariance, PTL

\* What the errors of all connections cost together.
THEOREM ErrorsAreMetOnce == Spec => []ErrorsMetOnce
<1>1. ASSUME IInv PROVE ErrorsMetOnce
  <2>1. /\ Cardinality(Hindered) + Spent <= faults /\ Cardinality(Hindered) \in Nat /\ faults \in Nat
    BY <1>1, FS_CardinalityType DEF IInv, ErrorsSpent, TypeOK
  <2> HIDE DEF Hindered
  <2> QED  BY <2>1 DEF ErrorsMetOnce, Spent, One
<1> QED  BY <1>1, Invariance, PTL
=============================================================================
