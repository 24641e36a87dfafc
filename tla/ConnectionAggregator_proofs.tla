---------------------- MODULE ConnectionAggregator_proofs ----------------------
(***************************************************************************)
(* That nothing is used after it was freed, that removals find what they   *)
(* look for, and that messages and replies keep their order, for any       *)
(* number of connections, acceptors and messages.                          *)
(***************************************************************************)
EXTENDS ConnectionAggregator, SequenceLemmas

ConnTyped ==
  /\ sent \in [Endpoint -> Nat] /\ rcvd \in [Endpoint -> Nat]
  /\ alive \subseteq Endpoint /\ raised \subseteq Endpoint
OpenTyped == opened \subseteq Conn /\ backlog \in [1..Acceptors -> Seq(Conn)]
AtTyped ==
  /\ at \in [Thread -> Running \cup {"none", "ended"}]
  /\ \A c \in Conn : /\ at[SendThread(c)] \notin {"receive", "deliver"}
                     /\ at[ReceiveThread(c)] \notin {"dequeue", "transmit"}
ThreadsTyped ==
  /\ interrupted \subseteq Thread
  /\ exception \in [Thread -> Error \cup {"none"}] /\ held \in [Thread -> Nat]
QueuesTyped == sendQueue \in Seq(Conn \X Nat) /\ receiveQueue \in Seq(Conn \X Nat)
ListsTyped == connections \in Seq(Conn) /\ runnables \in Seq(Thread)
ControlTyped ==
  /\ aggregator \in {"loop", "accept", "scan", "joinSend", "joinReceive", "erase", "ended"}
  /\ index \in IF aggregator = "accept" THEN 1..Acceptors
               ELSE IF aggregator = "scan" THEN Nat \ {0} ELSE {1}
  /\ closing \in IF aggregator \in {"joinSend", "joinReceive", "erase"} THEN Conn ELSE {None}
  /\ stop \in BOOLEAN /\ report \in Error \cup {"none"}
AppTyped ==
  /\ app \in {"idle", "threw", "receive", "interrupt", "join", "clear", "done"}
  /\ got \in [Conn -> Nat] /\ replied \in [Conn -> Nat] /\ failed \subseteq Thread

\* Every variable keeps its type, and every thread its own loop.
THEOREM TypeCorrect == Spec => []TypeOK
<1> DEFINE Typed == /\ ConnTyped /\ OpenTyped /\ AtTyped /\ ThreadsTyped /\ QueuesTyped
                    /\ ListsTyped /\ ControlTyped /\ AppTyped
<1>0. (TypeOK <=> Typed) /\ (TypeOK' <=> Typed')
  BY Zenon DEF TypeOK, ConnTyped, OpenTyped, AtTyped, ThreadsTyped, QueuesTyped, ListsTyped,
         ControlTyped, AppTyped
<1>1. /\ \A c \in Conn : /\ Server(c) \in Endpoint /\ Client(c) \in Endpoint
                         /\ SendThread(c) \in Thread /\ ReceiveThread(c) \in Thread
                         /\ SendThread(c)[1] = c /\ ReceiveThread(c)[1] = c
                         /\ SendThread(c)[2] = "send" /\ ReceiveThread(c)[2] = "receive"
      /\ \A t \in Thread : t[1] \in Conn /\ t \in {SendThread(t[1]), ReceiveThread(t[1])}
      /\ \A e \in Endpoint : e[1] \in Conn
  BY DEF Endpoint, Server, Client, Thread, SendThread, ReceiveThread
<1>2. \A e \in Endpoint : Peer[e] \in Endpoint
  BY <1>1 DEF Peer
<1>3. Init => TypeOK
  <2> SUFFICES ASSUME Init PROVE TypeOK
    OBVIOUS
  <2>1. ConnTyped /\ OpenTyped
    BY EmptySeq, SMTT(30) DEF Init, ConnTyped, OpenTyped
  <2>2. AtTyped /\ ThreadsTyped
    BY <1>1 DEF Init, AtTyped, ThreadsTyped
  <2>3. QueuesTyped /\ ListsTyped
    BY EmptySeq DEF Init, QueuesTyped, ListsTyped
  <2>4. ControlTyped /\ AppTyped
    BY DEF Init, ControlTyped, AppTyped, Error
  <2> QED
    BY <1>0, <2>1, <2>2, <2>3, <2>4
<1>4. TypeOK /\ [Next]_vars => TypeOK'
  <2> SUFFICES ASSUME TypeOK, [Next]_vars PROVE TypeOK'
    OBVIOUS
  <2>1. /\ ConnTyped /\ OpenTyped /\ AtTyped /\ ThreadsTyped /\ QueuesTyped
        /\ ListsTyped /\ ControlTyped /\ AppTyped
    BY <1>0
  <2>2. /\ UNCHANGED connVars => ConnTyped'
        /\ UNCHANGED <<opened, backlog>> => OpenTyped'
        /\ UNCHANGED at => AtTyped'
        /\ UNCHANGED <<interrupted, exception, held>> => ThreadsTyped'
        /\ UNCHANGED queues => QueuesTyped'
        /\ UNCHANGED lists => ListsTyped'
        /\ UNCHANGED <<control, stop, report>> => ControlTyped'
        /\ UNCHANGED <<appVars, failed>> => AppTyped'
    BY <2>1 DEF ConnTyped, OpenTyped, AtTyped, ThreadsTyped, QueuesTyped, ListsTyped, ControlTyped,
                AppTyped, connVars, queues, lists, control, appVars
  <2>3. ASSUME NEW e \in Endpoint, Connection!Send(e) \/ Connection!Receive(e)
                                   \/ Connection!RaiseClosed(e) \/ Connection!Destroy(e)
        PROVE  ConnTyped'
    <3>1. sent' = sent \/ sent' = [sent EXCEPT ![Peer[e]] = @ + 1]
      BY <2>3 DEF Connection!Send, Connection!Receive, Connection!RaiseClosed, Connection!Destroy
    <3>2. rcvd' = rcvd \/ rcvd' = [rcvd EXCEPT ![e] = @ + 1]
      BY <2>3 DEF Connection!Send, Connection!Receive, Connection!RaiseClosed, Connection!Destroy
    <3>3. alive' \in {alive, alive \ {e}} /\ raised' \in {raised, raised \cup {e}}
      BY <2>3 DEF Connection!Send, Connection!Receive, Connection!RaiseClosed, Connection!Destroy
    <3>4. sent' \in [Endpoint -> Nat] /\ rcvd' \in [Endpoint -> Nat]
      BY <1>2, <2>1, <3>1, <3>2 DEF ConnTyped
    <3> QED
      BY <2>1, <3>3, <3>4 DEF ConnTyped
  <2>4. ASSUME NEW t \in Thread, NEW l \in Running \cup {"ended"}, Goto(t, l),
               t[2] = "send" => l \notin {"receive", "deliver"},
               t[2] = "receive" => l \notin {"dequeue", "transmit"}
        PROVE  AtTyped'
    <3>1. \A u \in Thread : at'[u] = IF u = t THEN l ELSE at[u]
      BY <2>1, <2>4 DEF Goto, AtTyped
    <3>2. at' \in [Thread -> Running \cup {"none", "ended"}]
      BY <2>1, <2>4 DEF Goto, AtTyped
    <3> QED
      BY <1>1, <2>1, <2>4, <3>1, <3>2 DEF AtTyped
  <2>5. ASSUME NEW c \in Conn, Connect(c) PROVE TypeOK'
    <3>1. Append(backlog[Port[c]], c) \in Seq(Conn)
      BY AcceptorAssumption, AppendProperties, <2>1 DEF OpenTyped
    <3>2. OpenTyped'
      BY <2>1, <2>5, <3>1 DEF Connect, OpenTyped
    <3>3. ConnTyped'
      BY <1>1, <2>1, <2>5 DEF Connect, ConnTyped
    <3>4. UNCHANGED <<threadVars, queues, aggVars, appVars, failed>>
      BY <2>5 DEF Connect
    <3> QED
      BY <1>0, <2>2, <3>2, <3>3, <3>4 DEF threadVars, aggVars
  <2>6. ASSUME NEW c \in Conn, ClientStep(c) PROVE TypeOK'
    <3>1. ConnTyped'
      BY <1>1, <2>3, <2>6 DEF ClientStep
    <3>2. UNCHANGED <<opened, backlog, threadVars, queues, aggVars, appVars, failed>>
      BY <2>6 DEF ClientStep
    <3> QED
      BY <1>0, <2>2, <3>1, <3>2 DEF threadVars, aggVars
  <2>7. ASSUME NEW t \in Thread, ThreadStep(t) \/ ThreadFault(t) PROVE TypeOK'
    <3>0. UNCHANGED <<opened, backlog, aggVars, appVars>>
      BY <2>7 DEF ThreadStep, ThreadFault, netVars
    <3> DEFINE c == t[1]
    <3>1. /\ c \in Conn /\ Server(c) \in Endpoint
          /\ t[2] = "send" => t = SendThread(c)
          /\ t[2] = "receive" => t = ReceiveThread(c)
      BY <1>1
    <3>2. ASSUME CheckInterrupted(t) PROVE TypeOK'
      <4>1. Goto(t, IF t \in interrupted THEN "ended" ELSE LoopBody(t))
        BY <3>2 DEF CheckInterrupted
      <4>2. AtTyped'
        BY <2>4, <4>1 DEF LoopBody, Running
      <4>3. UNCHANGED <<connVars, interrupted, exception, held, queues, failed>>
        BY <3>2 DEF CheckInterrupted
      <4> QED
        BY <1>0, <2>2, <3>0, <4>2, <4>3 DEF aggVars
    <3>3. ASSUME NEW x \in Error, End(t, x) PROVE AtTyped' /\ ThreadsTyped'
      <4>1. AtTyped'
        BY <2>4, <3>3 DEF End, Running
      <4>2. ThreadsTyped'
        BY <2>1, <3>3 DEF End, SetException, ThreadsTyped
      <4> QED
        BY <4>1, <4>2
    <3>4. ASSUME EndClosed(t) PROVE TypeOK'
      <4>1. ConnTyped'
        BY <2>3, <3>1, <3>4 DEF EndClosed
      <4>2. AtTyped' /\ ThreadsTyped' /\ UNCHANGED <<queues, failed>>
        BY <3>3, <3>4 DEF EndClosed, End, Error
      <4> QED
        BY <1>0, <2>2, <3>0, <4>1, <4>2 DEF aggVars
    <3>5. ASSUME ThreadFault(t) PROVE TypeOK'
      <4>1. AtTyped' /\ ThreadsTyped' /\ UNCHANGED <<queues, connVars>>
        BY <3>3, <3>5 DEF ThreadFault, End, Error, netVars
      <4>2. AppTyped'
        BY <2>1, <3>5 DEF ThreadFault, AppTyped, appVars
      <4> QED
        BY <1>0, <2>2, <3>0, <4>1, <4>2 DEF aggVars
    <3>6. ASSUME t[2] = "send", Dequeue(c) PROVE TypeOK'
      <4>1. PICK i \in 1..Len(sendQueue) : /\ held' = [held EXCEPT ![t] = sendQueue[i][2]]
                                           /\ sendQueue' = RemoveAt(sendQueue, i)
        BY <3>1, <3>6 DEF Dequeue, FirstMatch, Matching
      <4>2. Goto(t, "transmit") /\ UNCHANGED <<connVars, interrupted, exception, receiveQueue, failed>>
        BY <3>1, <3>6 DEF Dequeue
      <4>3. sendQueue[i] \in Conn \X Nat
        BY <2>1, ElementOfSeq DEF QueuesTyped
      <4>4. QueuesTyped'
        BY <2>1, <4>1, <4>2, RemoveAtProperties DEF QueuesTyped
      <4>5. ThreadsTyped'
        BY <2>1, <4>1, <4>2, <4>3 DEF ThreadsTyped
      <4>6. AtTyped'
        BY <2>4, <3>6, <4>2 DEF Running
      <4> QED
        BY <1>0, <2>2, <3>0, <4>2, <4>4, <4>5, <4>6 DEF aggVars
    <3>7. ASSUME t[2] = "send", DequeueNothing(c) PROVE TypeOK'
      <4>1. Goto(t, "check") /\ UNCHANGED <<connVars, interrupted, exception, held, queues, failed>>
        BY <3>1, <3>7 DEF DequeueNothing, AfterTimeout
      <4>2. AtTyped'
        BY <2>4, <4>1 DEF Running
      <4> QED
        BY <1>0, <2>2, <3>0, <4>1, <4>2 DEF aggVars
    <3>8. ASSUME t[2] = "send", Transmit(c) PROVE TypeOK'
      <4>1. /\ Goto(t, "check") /\ Connection!Send(Server(c)) /\ held' = [held EXCEPT ![t] = 0]
            /\ UNCHANGED <<interrupted, exception, queues, failed>>
        BY <3>1, <3>8 DEF Transmit
      <4>2. AtTyped' /\ ConnTyped'
        BY <2>3, <2>4, <3>1, <4>1 DEF Running
      <4>3. ThreadsTyped'
        BY <2>1, <4>1 DEF ThreadsTyped
      <4> QED
        BY <1>0, <2>2, <3>0, <4>1, <4>2, <4>3 DEF aggVars
    <3>9. ASSUME t[2] = "receive", ReceiveMessage(c) PROVE TypeOK'
      <4>1. /\ Goto(t, "deliver") /\ Connection!Receive(Server(c))
            /\ held' = [held EXCEPT ![t] = rcvd[Server(c)] + 1]
            /\ UNCHANGED <<interrupted, exception, queues, failed>>
        BY <3>1, <3>9 DEF ReceiveMessage
      <4>2. AtTyped' /\ ConnTyped'
        BY <2>3, <2>4, <3>1, <3>9, <4>1 DEF Running
      <4>3. ThreadsTyped'
        BY <2>1, <3>1, <4>1 DEF ThreadsTyped, ConnTyped
      <4> QED
        BY <1>0, <2>2, <3>0, <4>1, <4>2, <4>3 DEF aggVars
    <3>10. ASSUME t[2] = "receive", ReceiveNothing(c) PROVE TypeOK'
      <4>1. Goto(t, "check") /\ UNCHANGED <<connVars, interrupted, exception, held, queues, failed>>
        BY <3>1, <3>10 DEF ReceiveNothing
      <4>2. AtTyped'
        BY <2>4, <4>1 DEF Running
      <4> QED
        BY <1>0, <2>2, <3>0, <4>1, <4>2 DEF aggVars
    <3>11. ASSUME t[2] = "receive", Deliver(c) PROVE TypeOK'
      <4>1. /\ Goto(t, "check") /\ receiveQueue' = Append(receiveQueue, <<c, held[t]>>)
            /\ held' = [held EXCEPT ![t] = 0]
            /\ UNCHANGED <<connVars, interrupted, exception, sendQueue, failed>>
        BY <3>1, <3>11 DEF Deliver, EnqueueReceived
      <4>2. AtTyped'
        BY <2>4, <4>1 DEF Running
      <4>3. ThreadsTyped'
        BY <2>1, <4>1 DEF ThreadsTyped
      <4>4. <<c, held[t]>> \in Conn \X Nat
        BY <2>1, <3>1 DEF ThreadsTyped
      <4>5. QueuesTyped'
        BY <2>1, <4>1, <4>4, AppendProperties DEF QueuesTyped
      <4> QED
        BY <1>0, <2>2, <3>0, <4>1, <4>2, <4>3, <4>5 DEF aggVars
    <3> QED
      BY <2>7, <3>2, <3>4, <3>5, <3>6, <3>7, <3>8, <3>9, <3>10, <3>11 DEF ThreadStep
  \* The aggregator's thread.
  <2>8. CASE AggregatorStep
    <3>0. UNCHANGED <<opened, queues, appVars, failed>>
      BY <2>8 DEF AggregatorStep
    <3>1. CASE LoopTop \/ AcceptNothing \/ ScanNothing
      <4>1. UNCHANGED <<backlog, connVars, threadVars, lists>>
        BY <3>1 DEF LoopTop, AcceptNothing, ScanNothing
      <4>2. ControlTyped'
        BY <2>1, <3>1, AcceptorAssumption
        DEF LoopTop, AcceptNothing, ScanNothing, NextAcceptor, ControlTyped
      <4> QED
        BY <1>0, <2>2, <3>0, <4>1, <4>2 DEF threadVars
    <3>2. CASE AcceptConnection
      <4> DEFINE c == Head(backlog[index])
                 new == {SendThread(c), ReceiveThread(c)}
      <4>1. /\ connections' = Append(connections, c)
            /\ runnables' = runnables \o <<SendThread(c), ReceiveThread(c)>>
            /\ at' = [t \in Thread |-> IF t \in new THEN "check" ELSE at[t]]
            /\ backlog[index] # <<>> /\ backlog' = [backlog EXCEPT ![index] = Tail(@)]
            /\ UNCHANGED <<connVars, interrupted, exception, held, closing, stop, report>>
        BY <3>2 DEF AcceptConnection
      <4>2. ControlTyped'
        BY <2>1, <3>2, AcceptorAssumption DEF AcceptConnection, NextAcceptor, ControlTyped
      <4>3. index \in 1..Acceptors /\ backlog[index] \in Seq(Conn)
        BY <2>1, <3>2 DEF AcceptConnection, ControlTyped, OpenTyped
      <4>4. c \in Conn /\ Tail(backlog[index]) \in Seq(Conn)
        BY <4>1, <4>3, HeadTailProperties
      <4>5. OpenTyped'
        BY <2>1, <3>0, <4>1, <4>4 DEF OpenTyped
      <4> HIDE DEF c
      <4>6. connections' \in Seq(Conn)
        BY <2>1, <4>1, <4>4, AppendProperties DEF ListsTyped
      <4>7. runnables' \in Seq(Thread)
        <5>1. <<SendThread(c), ReceiveThread(c)>> \in Seq(Thread)
          BY <1>1, <4>4
        <5> QED
          BY <2>1, <4>1, <5>1, ConcatProperties DEF ListsTyped
      <4>8. AtTyped'
        BY <1>1, <2>1, <4>1 DEF AtTyped, Running
      <4> QED
        BY <1>0, <2>2, <3>0, <4>1, <4>2, <4>5, <4>6, <4>7, <4>8 DEF ListsTyped
    <3>3. CASE ScanException
      <4> DEFINE t == runnables[index]
      <4>1. /\ t \in Thread /\ t[1] \in Conn /\ exception[t] \in Error
            /\ exception' = [exception EXCEPT ![t] = "none"]
        <5>1. index \in 1..Len(runnables)
          BY <2>1, <3>3 DEF ScanException, ControlTyped, ListsTyped
        <5>2. t \in Thread
          BY <2>1, <5>1, ElementOfSeq DEF ListsTyped
        <5> QED
          BY <1>1, <2>1, <3>3, <5>2 DEF ScanException, ThreadsTyped
      <4>2. interrupted' \in {interrupted, interrupted \cup {SendThread(t[1])}}
        BY <3>3 DEF ScanException
      <4>3. UNCHANGED <<backlog, connVars, at, held, lists>>
        BY <3>3 DEF ScanException
      <4>4. ThreadsTyped'
        BY <1>1, <2>1, <4>1, <4>2, <4>3 DEF ThreadsTyped
      <4>5. ControlTyped'
        BY <2>1, <3>3, <4>1 DEF ScanException, StoreReport, ControlTyped
      <4> QED
        BY <1>0, <2>2, <3>0, <4>3, <4>4, <4>5
    <3>4. ASSUME NEW t \in Thread, EraseRunnable(t), connections' = connections
          PROVE  ListsTyped' /\ exception' \in [Thread -> Error \cup {"none"}]
      <4>1. runnables' = RemoveFirst(runnables, t) /\ exception' = [exception EXCEPT ![t] = "none"]
        BY <3>4 DEF EraseRunnable
      <4>2. runnables' \in Seq(Thread)
        BY <2>1, <4>1, ListProperties DEF ListsTyped
      <4> QED
        BY <2>1, <3>4, <4>1, <4>2 DEF ListsTyped, ThreadsTyped
    <3>5. CASE RemoveSendThread \/ RemoveReceiveThread
      <4>1. aggregator \in {"joinSend", "joinReceive"} /\ aggregator' \in {"joinReceive", "erase"}
        BY <3>5 DEF RemoveSendThread, RemoveReceiveThread
      <4>2. UNCHANGED <<backlog, connVars, at, held, connections, index, closing, stop, report>>
        BY <3>5 DEF RemoveSendThread, RemoveReceiveThread
      <4>3. closing \in Conn
        BY <2>1, <4>1 DEF ControlTyped
      <4>4. PICK t \in Thread : EraseRunnable(t)
        BY <1>1, <3>5, <4>3 DEF RemoveSendThread, RemoveReceiveThread
      <4>5. interrupted' \in {interrupted, interrupted \cup {ReceiveThread(closing)}}
        BY <3>5 DEF RemoveSendThread, RemoveReceiveThread
      <4>6. ListsTyped' /\ ThreadsTyped'
        BY <1>1, <2>1, <3>4, <4>2, <4>3, <4>4, <4>5 DEF ThreadsTyped
      <4>7. ControlTyped'
        BY <2>1, <4>1, <4>2 DEF ControlTyped
      <4> QED
        BY <1>0, <2>2, <3>0, <4>2, <4>6, <4>7
    <3>6. CASE EraseConnection
      <4>1. /\ aggregator = "erase" /\ aggregator' = "loop" /\ closing' = None
            /\ connections' = RemoveFirst(connections, closing)
            /\ Connection!Destroy(Server(closing))
            /\ UNCHANGED <<backlog, threadVars, runnables, index, stop, report>>
        BY <3>6 DEF EraseConnection
      <4>2. closing \in Conn
        BY <2>1, <4>1 DEF ControlTyped
      <4>3. ListsTyped'
        BY <2>1, <4>1, <4>2, ListProperties DEF ListsTyped
      <4>4. ControlTyped'
        BY <2>1, <4>1 DEF ControlTyped
      <4>5. ConnTyped'
        BY <1>1, <2>3, <4>1, <4>2
      <4> QED
        BY <1>0, <2>2, <3>0, <4>1, <4>3, <4>4, <4>5 DEF threadVars
    <3> QED
      BY <2>8, <3>1, <3>2, <3>3, <3>5, <3>6 DEF AggregatorStep
  <2>9. CASE AcceptFault
    <3>1. UNCHANGED <<opened, threadVars, queues, lists, stop, appVars, failed>>
      BY <2>9 DEF AcceptFault
    <3>2. ControlTyped'
      BY <2>1, <2>9 DEF AcceptFault, ControlTyped, Error
    <3>3. CASE UNCHANGED <<connVars, backlog>>
      BY <1>0, <2>2, <3>1, <3>2, <3>3 DEF threadVars
    <3>4. CASE HandshakeThrows
      <4>1. /\ backlog[index] # <<>> /\ backlog' = [backlog EXCEPT ![index] = Tail(@)]
            /\ Connection!Destroy(Server(Head(backlog[index])))
        BY <3>4 DEF HandshakeThrows
      <4>2. index \in 1..Acceptors /\ backlog[index] \in Seq(Conn)
        BY <2>1, <2>9 DEF AcceptFault, ControlTyped, OpenTyped
      <4>3. Head(backlog[index]) \in Conn /\ Tail(backlog[index]) \in Seq(Conn)
        BY <4>1, <4>2, HeadTailProperties
      <4>4. OpenTyped'
        BY <2>1, <3>1, <4>1, <4>2, <4>3 DEF OpenTyped
      <4>5. ConnTyped'
        BY <1>1, <2>3, <4>1, <4>3
      <4> QED
        BY <1>0, <2>2, <3>1, <3>2, <4>4, <4>5 DEF threadVars
    <3> QED
      BY <2>9, <3>3, <3>4 DEF AcceptFault
  \* The application.
  <2>10. CASE Poll \/ Call \/ AppStep
    <3>0. UNCHANGED <<opened, backlog, failed>>
      BY <2>10 DEF Poll, Call, AppStep
    <3>1. CASE Throw \/ Catch \/ CallReceive \/ Interrupt \/ Destruct \/ Destroyed
      <4>1. UNCHANGED <<connVars, threadVars, queues, lists, control, got, replied>>
        BY <3>1 DEF Throw, Catch, CallReceive, Interrupt, Destruct, Destroyed, aggVars
      <4>2. stop' \in BOOLEAN /\ report' \in Error \cup {"none"}
            /\ app' \in {"idle", "threw", "receive", "interrupt", "join", "clear", "done"}
        BY <2>1, <3>1
        DEF Throw, Catch, CallReceive, Interrupt, Destruct, StopItself, Destroyed, aggVars, ControlTyped, AppTyped
      <4>3. ControlTyped' /\ AppTyped'
        BY <2>1, <3>0, <4>1, <4>2 DEF ControlTyped, AppTyped, control
      <4> QED
        BY <1>0, <2>2, <3>0, <4>1, <4>3 DEF threadVars
    <3>2. CASE ReturnEnvelope
      <4>1. UNCHANGED <<connVars, threadVars, sendQueue, aggVars, replied>> /\ app' = "idle"
        BY <3>2 DEF ReturnEnvelope
      <4>2. CASE receiveQueue = <<>>
        <5>1. UNCHANGED <<receiveQueue, got>>
          BY <3>2, <4>2 DEF ReturnEnvelope
        <5>2. QueuesTyped' /\ AppTyped'
          BY <2>1, <3>0, <4>1, <5>1 DEF QueuesTyped, AppTyped
        <5> QED
          BY <1>0, <2>2, <3>0, <4>1, <5>2 DEF threadVars, aggVars
      <4>3. CASE receiveQueue # <<>>
        <5> DEFINE e == Head(receiveQueue)
        <5>1. got' = [got EXCEPT ![e[1]] = e[2]] /\ receiveQueue' = Tail(receiveQueue)
          BY <3>2, <4>3 DEF ReturnEnvelope
        <5>2. e \in Conn \X Nat /\ Tail(receiveQueue) \in Seq(Conn \X Nat)
          BY <2>1, <4>3, HeadTailProperties DEF QueuesTyped
        <5> HIDE DEF e
        <5>3. QueuesTyped'
          BY <2>1, <4>1, <5>1, <5>2 DEF QueuesTyped
        <5>4. AppTyped'
          BY <2>1, <3>0, <4>1, <5>1, <5>2 DEF AppTyped
        <5> QED
          BY <1>0, <2>2, <3>0, <4>1, <5>3, <5>4 DEF threadVars, aggVars
      <4> QED
        BY <4>2, <4>3
    <3>3. ASSUME NEW c \in Conn, Send(c) PROVE TypeOK'
      <4>1. /\ sendQueue' = Append(sendQueue, <<c, replied[c] + 1>>)
            /\ replied' = [replied EXCEPT ![c] = @ + 1]
            /\ UNCHANGED <<connVars, threadVars, receiveQueue, aggVars, app, got>>
        BY <3>3 DEF Send
      <4>2. <<c, replied[c] + 1>> \in Conn \X Nat
        BY <2>1 DEF AppTyped
      <4>3. QueuesTyped'
        BY <2>1, <4>1, <4>2, AppendProperties DEF QueuesTyped
      <4>4. AppTyped'
        BY <2>1, <3>0, <4>1 DEF AppTyped
      <4> QED
        BY <1>0, <2>2, <3>0, <4>1, <4>3, <4>4 DEF threadVars, aggVars
    <3>4. CASE InterruptAll \/ JoinAggregator
      <4>1. UNCHANGED <<connVars, at, exception, held, queues, aggVars, got, replied>>
        BY <3>4 DEF InterruptAll, JoinAggregator
      <4>2. interrupted' = interrupted \cup ToSet(runnables) /\ app' \in {"idle", "clear"}
        BY <3>4 DEF InterruptAll, JoinAggregator, InterruptRunnables
      <4>3. ToSet(runnables) \subseteq Thread
        <5>1. \A i \in 1..Len(runnables) : runnables[i] \in Thread
          BY <2>1, ElementOfSeq DEF ListsTyped
        <5> QED
          BY <2>1, <5>1, LenProperties DEF ToSet, ListsTyped
      <4>4. ThreadsTyped' /\ AppTyped'
        BY <2>1, <3>0, <4>1, <4>2, <4>3 DEF ThreadsTyped, AppTyped
      <4> QED
        BY <1>0, <2>2, <3>0, <4>1, <4>4 DEF aggVars
    <3>5. CASE DestroyRunnable
      <4>1. /\ runnables # <<>> /\ runnables' = Tail(runnables)
            /\ exception' = [exception EXCEPT ![Head(runnables)] = "none"]
            /\ interrupted' =
                 interrupted \cup {Tail(runnables)[i] : i \in 1..Len(Tail(runnables)) \cap {1}}
            /\ UNCHANGED <<connVars, at, held, queues, connections, control, stop, report, appVars>>
        BY <3>5 DEF DestroyRunnable
      <4>2. Tail(runnables) \in Seq(Thread)
        BY <2>1, <4>1, HeadTailProperties DEF ListsTyped
      <4>3. ListsTyped'
        BY <2>1, <4>1, <4>2 DEF ListsTyped
      <4>4. ThreadsTyped'
        <5> DEFINE s == Tail(runnables)
        <5>1. \A i \in 1..Len(s) : s[i] \in Thread
          BY <4>2, ElementOfSeq
        <5> HIDE DEF s
        <5>2. {s[i] : i \in 1..Len(s) \cap {1}} \subseteq Thread
          BY <5>1
        <5> QED
          BY <2>1, <4>1, <5>2 DEF ThreadsTyped, s
      <4> QED
        BY <1>0, <2>2, <3>0, <4>1, <4>3, <4>4
    <3>6. CASE DestroyConnection
      <4>1. /\ connections # <<>> /\ connections' = Tail(connections)
            /\ Connection!Destroy(Server(Head(connections)))
            /\ UNCHANGED <<threadVars, queues, runnables, control, stop, report, appVars>>
        BY <3>6 DEF DestroyConnection
      <4>2. ListsTyped' /\ Head(connections) \in Conn
        BY <2>1, <4>1, HeadTailProperties DEF ListsTyped
      <4>3. ConnTyped'
        BY <1>1, <2>3, <4>1, <4>2
      <4> QED
        BY <1>0, <2>2, <3>0, <4>1, <4>2, <4>3 DEF threadVars
    <3> QED
      BY <2>10, <3>1, <3>2, <3>3, <3>4, <3>5, <3>6 DEF Poll, Call, AppStep, DestructorStep
  <2>11. CASE UNCHANGED vars
    BY <1>0, <2>2, <2>11 DEF vars, netVars, threadVars, aggVars
  <2> QED
    BY <2>5, <2>6, <2>7, <2>8, <2>9, <2>10, <2>11 DEF Next
<1> QED
  BY <1>3, <1>4, PTL DEF Spec

-----------------------------------------------------------------------------
(* NoUseAfterFree and RemovalFinds.  A connection is opened once, waits at *)
(* its acceptor, and is then in the list until it is erased; the threads   *)
(* are in their list from then on until they are erased, both before it.   *)

Listed == ToSet(connections)
Live == ToSet(runnables)
Down == app \in {"clear", "done"}

WaitingOK ==
  \A a \in 1..Acceptors :
    /\ IsInjective(backlog[a])
    /\ \A c \in ToSet(backlog[a]) :
         /\ Port[c] = a /\ c \in opened /\ Server(c) \in alive /\ c \notin Listed
         /\ at[SendThread(c)] = "none" /\ at[ReceiveThread(c)] = "none"

\* Both threads of a connection are there, but for those just erased.
ConnectionOK(c) ==
  c \in Listed =>
    /\ c \in opened /\ Server(c) \in alive
    /\ Down \/ SendThread(c) \in Live \/ (aggregator \in {"joinReceive", "erase"} /\ closing = c)
    /\ Down \/ ReceiveThread(c) \in Live \/ (aggregator = "erase" /\ closing = c)

ThreadOK(t) ==
  /\ at[t] # "none" => t[1] \in opened
  /\ at[t] \in Running => t \in Live
  /\ t \in Live => t[1] \in Listed

RemovalOK ==
  /\ aggregator \in {"joinSend", "joinReceive", "erase"} => closing \in Listed
  /\ aggregator \in {"joinReceive", "erase"} => SendThread(closing) \notin Live
  /\ aggregator = "erase" => ReceiveThread(closing) \notin Live

\* When the members are destroyed the aggregator's thread has ended.
DestructionOK == (Down => aggregator = "ended") /\ (app = "done" => runnables = <<>>)

IInv ==
  /\ IsInjective(connections) /\ IsInjective(runnables)
  /\ WaitingOK /\ RemovalOK /\ DestructionOK
  /\ \A c \in Conn : ConnectionOK(c)
  /\ \A t \in Thread : ThreadOK(t)

LEMMA Invariance == Spec => []IInv
<1>1. /\ \A c \in Conn : /\ SendThread(c) \in Thread /\ ReceiveThread(c) \in Thread
                         /\ SendThread(c)[1] = c /\ ReceiveThread(c)[1] = c
                         /\ Server(c) # Client(c)
      /\ \A t \in Thread : t[1] \in Conn /\ t \in {SendThread(t[1]), ReceiveThread(t[1])}
      /\ \A c, d \in Conn : /\ SendThread(c) # ReceiveThread(d)
                            /\ SendThread(c) = SendThread(d) => c = d
                            /\ ReceiveThread(c) = ReceiveThread(d) => c = d
                            /\ Server(c) = Server(d) => c = d
                            /\ Server(c) # Client(d)
  BY DEF Server, Client, Thread, SendThread, ReceiveThread
<1>2. Init => IInv
  <2> SUFFICES ASSUME Init PROVE IInv
    OBVIOUS
  <2>1. /\ connections = <<>> /\ runnables = <<>> /\ app = "idle" /\ aggregator = "loop"
        /\ \A t \in Thread : at[t] = "none"
        /\ \A a \in 1..Acceptors : backlog[a] = <<>>
    BY DEF Init
  <2>2. ToSet(<<>>) = {} /\ IsInjective(<<>>)
    BY DEF ToSet, IsInjective
  <2> QED
    BY <2>1, <2>2 DEF IInv, WaitingOK, ConnectionOK, ThreadOK, RemovalOK, DestructionOK, Listed, Live,
                      Down, Running
<1>3. TypeOK /\ TypeOK' /\ IInv /\ [Next]_vars => IInv'
  <2> SUFFICES ASSUME TypeOK, TypeOK', IInv, [Next]_vars PROVE IInv'
    OBVIOUS
  <2>1. /\ connections \in Seq(Conn) /\ runnables \in Seq(Thread)
        /\ backlog \in [1..Acceptors -> Seq(Conn)] /\ Port \in [Conn -> 1..Acceptors]
        /\ at \in [Thread -> Running \cup {"none", "ended"}]
    BY AcceptorAssumption DEF TypeOK
  <2>0. /\ Listed \subseteq Conn /\ Live \subseteq Thread
        /\ \A a \in 1..Acceptors : ToSet(backlog[a]) \subseteq Conn
    <3>1. ASSUME NEW S, NEW s \in Seq(S) PROVE ToSet(s) \subseteq S
      BY LenProperties, ElementOfSeq DEF ToSet
    <3>2. \A a \in 1..Acceptors : backlog[a] \in Seq(Conn)
      BY <2>1
    <3> QED
      BY <2>1, <3>1, <3>2 DEF Listed, Live
  <2>2. /\ IsInjective(connections) /\ IsInjective(runnables)
        /\ WaitingOK /\ RemovalOK /\ DestructionOK
        /\ \A c \in Conn : ConnectionOK(c)
        /\ \A t \in Thread : ThreadOK(t)
    BY DEF IInv
  \* Steps that take nothing into the lists nor out of them.
  <2>3. ASSUME UNCHANGED <<opened, backlog, connections, runnables>>,
               \A c \in Conn : Server(c) \in alive => Server(c) \in alive',
               \A t \in Thread : at'[t] = at[t] \/ (at[t] \in Running /\ at'[t] # "none"),
               \/ UNCHANGED <<aggregator, closing>>
               \/ {aggregator, aggregator'} \cap {"joinSend", "joinReceive", "erase"} = {},
               Down => Down', Down' => aggregator' = "ended", app' = "done" => runnables = <<>>
        PROVE  IInv'
    <3>1. Listed' = Listed /\ Live' = Live
      BY <2>3 DEF Listed, Live
    <3>2. (IsInjective(connections) /\ IsInjective(runnables))'
      BY <2>2, <2>3
    <3>3. WaitingOK'
      <4>1. ASSUME NEW a \in 1..Acceptors, NEW c \in ToSet(backlog[a])
            PROVE  /\ Port[c] = a /\ c \in opened /\ Server(c) \in alive' /\ c \notin Listed
                   /\ at'[SendThread(c)] = "none" /\ at'[ReceiveThread(c)] = "none"
        <5>1. /\ Port[c] = a /\ c \in opened /\ Server(c) \in alive /\ c \notin Listed
              /\ at[SendThread(c)] = "none" /\ at[ReceiveThread(c)] = "none"
          BY <2>2, <4>1 DEF WaitingOK
        <5>2. c \in Conn
          BY <2>0
        <5> QED
          BY <1>1, <2>3, <5>1, <5>2 DEF Running
      <4> QED
        BY <2>2, <2>3, <3>1, <4>1 DEF WaitingOK
    <3>4. ASSUME NEW c \in Conn PROVE ConnectionOK(c)'
      BY <2>2, <2>3, <3>1 DEF ConnectionOK
    <3>5. ASSUME NEW t \in Thread PROVE ThreadOK(t)'
      BY <2>2, <2>3, <3>1 DEF ThreadOK, Running
    <3>6. RemovalOK' /\ DestructionOK'
      BY <2>2, <2>3, <3>1 DEF RemovalOK, DestructionOK
    <3> QED
      BY <3>2, <3>3, <3>4, <3>5, <3>6 DEF IInv
  <2>4. ASSUME NEW c \in Conn, Connect(c) PROVE IInv'
    <3> DEFINE p == Port[c]
    <3>1. /\ c \notin opened /\ opened' = opened \cup {c}
          /\ alive' = alive \cup {Client(c), Server(c)}
          /\ backlog' = [backlog EXCEPT ![p] = Append(@, c)]
          /\ UNCHANGED <<connections, runnables, at, aggregator, closing, app>>
      BY <2>4 DEF Connect, threadVars, aggVars, lists, control, appVars
    <3>2. Listed' = Listed /\ Live' = Live /\ Down' = Down
      BY <3>1 DEF Listed, Live, Down
    <3>3. p \in 1..Acceptors /\ backlog'[p] = Append(backlog[p], c)
          /\ \A a \in 1..Acceptors : a # p => backlog'[a] = backlog[a]
      BY <2>1, <3>1
    <3>4. c \notin ToSet(backlog[p]) /\ c \notin Listed
          /\ at[SendThread(c)] = "none" /\ at[ReceiveThread(c)] = "none"
      BY <1>1, <2>2, <3>1, <3>3 DEF WaitingOK, ConnectionOK, ThreadOK
    <3>5. ToSet(backlog'[p]) = ToSet(backlog[p]) \cup {c} /\ IsInjective(backlog'[p])
      BY <2>1, <2>2, <3>3, <3>4, ListProperties DEF WaitingOK
    <3> HIDE DEF p
    <3>6. ASSUME NEW a \in 1..Acceptors
          PROVE  /\ IsInjective(backlog'[a])
                 /\ \A d \in ToSet(backlog'[a]) :
                      /\ Port[d] = a /\ d \in opened' /\ Server(d) \in alive' /\ d \notin Listed
                      /\ at[SendThread(d)] = "none" /\ at[ReceiveThread(d)] = "none"
      <4>1. CASE a = p
        BY <2>2, <3>1, <3>4, <3>5, <4>1 DEF WaitingOK, p
      <4>2. CASE a # p
        BY <2>2, <3>1, <3>3, <4>2 DEF WaitingOK
      <4> QED
        BY <4>1, <4>2
    <3>7. WaitingOK'
      BY <3>1, <3>2, <3>6 DEF WaitingOK
    <3>8. ASSUME NEW d \in Conn PROVE ConnectionOK(d)'
      BY <2>2, <3>1, <3>2 DEF ConnectionOK
    <3>9. ASSUME NEW t \in Thread PROVE ThreadOK(t)'
      BY <2>2, <3>1, <3>2 DEF ThreadOK
    <3>10. RemovalOK' /\ DestructionOK'
      BY <2>2, <3>1, <3>2 DEF RemovalOK, DestructionOK
    <3> QED
      BY <2>2, <3>1, <3>7, <3>8, <3>9, <3>10 DEF IInv
  <2>5. CASE AcceptConnection /\ UNCHANGED <<opened, app>>
    <3> DEFINE c == Head(backlog[index])
               s == SendThread(c)
               r == ReceiveThread(c)
    <3>1. /\ aggregator = "accept" /\ aggregator' \in {"accept", "scan"}
          /\ connections' = Append(connections, c) /\ runnables' = runnables \o <<s, r>>
          /\ at' = [t \in Thread |-> IF t \in {s, r} THEN "check" ELSE at[t]]
          /\ backlog[index] # <<>> /\ backlog' = [backlog EXCEPT ![index] = Tail(@)]
          /\ UNCHANGED <<alive, closing, opened, app>>
      BY <2>5 DEF AcceptConnection, NextAcceptor, connVars
    <3>2. index \in 1..Acceptors /\ backlog[index] \in Seq(Conn)
      BY <2>1, <3>1 DEF TypeOK
    <3>3. c \in Conn /\ c \in ToSet(backlog[index])
      <4>1. c \in Conn  BY <3>1, <3>2, HeadTailProperties
      <4> QED
        BY <3>1, <3>2, <4>1, ListProperties
    <3>4. /\ Port[c] = index /\ c \in opened /\ Server(c) \in alive /\ c \notin Listed
          /\ at[s] = "none" /\ at[r] = "none"
      BY <2>2, <3>2, <3>3 DEF WaitingOK
    <3>5. /\ IsInjective(Tail(backlog[index]))
          /\ ToSet(Tail(backlog[index])) = ToSet(backlog[index]) \ {c}
      BY <2>2, <3>1, <3>2, <3>3, ListProperties DEF WaitingOK
    <3> HIDE DEF c
    <3>6. s \in Thread /\ r \in Thread /\ s # r /\ s \notin Live /\ r \notin Live
      BY <1>1, <2>2, <3>3, <3>4 DEF ThreadOK
    <3>7. Listed' = Listed \cup {c} /\ IsInjective(connections')
      <4>1. /\ ToSet(Append(connections, c)) = ToSet(connections) \cup {c}
            /\ c \notin ToSet(connections) => IsInjective(Append(connections, c))
        BY <2>1, <2>2, <3>3, ListProperties
      <4> QED
        BY <3>1, <3>4, <4>1 DEF Listed
    <3>8. Live' = Live \cup {s, r} /\ IsInjective(runnables')
      <4> HIDE DEF s, r
      <4> DEFINE u == Append(runnables, s)
      <4>1. runnables \o <<s, r>> = Append(u, r)
        BY <2>1, <3>6
      <4>2. u \in Seq(Thread) /\ IsInjective(u) /\ ToSet(u) = Live \cup {s}
        <5>1. s \in Thread /\ s \notin ToSet(runnables)
          BY <3>6 DEF Live
        <5> QED
          BY <2>1, <2>2, <5>1, ListProperties DEF Live
      <4> HIDE DEF u
      <4>3. IsInjective(Append(u, r)) /\ ToSet(Append(u, r)) = ToSet(u) \cup {r}
        BY <3>6, <4>2, ListProperties
      <4> QED
        BY <3>1, <4>1, <4>2, <4>3 DEF Live
    <3>9. ~Down /\ ~Down'
      BY <2>2, <3>1 DEF DestructionOK, Down
    <3>10. \A t \in Thread : at'[t] = IF t \in {s, r} THEN "check" ELSE at[t]
      BY <3>1
    <3>11. ASSUME NEW a \in 1..Acceptors
           PROVE  /\ IsInjective(backlog'[a])
                  /\ \A d \in ToSet(backlog'[a]) :
                       /\ d \in Conn /\ d # c
                       /\ Port[d] = a /\ d \in opened /\ Server(d) \in alive /\ d \notin Listed
                       /\ at[SendThread(d)] = "none" /\ at[ReceiveThread(d)] = "none"
      <4>1. /\ backlog'[a] = IF a = index THEN Tail(backlog[a]) ELSE backlog[a]
            /\ backlog[a] \in Seq(Conn)
        BY <2>1, <3>1, <3>2
      <4>2. \A d \in ToSet(backlog[a]) : d \in Conn /\ Port[d] = a
        BY <2>2, <3>3, <4>1, ListProperties DEF WaitingOK
      <4>3. IsInjective(backlog'[a]) /\ ToSet(backlog'[a]) = ToSet(backlog[a]) \ {c}
        <5>1. CASE a = index
          BY <3>5, <4>1, <5>1
        <5>2. CASE a # index
          BY <2>2, <3>4, <4>1, <4>2, <5>2 DEF WaitingOK
        <5> QED
          BY <5>1, <5>2
      <4> QED
        BY <2>2, <4>2, <4>3 DEF WaitingOK
    <3>12. WaitingOK'
      <4>1. ASSUME NEW d \in Conn, d # c
            PROVE  /\ SendThread(d) \in Thread /\ SendThread(d) \notin {s, r}
                   /\ ReceiveThread(d) \in Thread /\ ReceiveThread(d) \notin {s, r}
        BY <1>1, <3>3, <4>1
      <4> HIDE DEF s, r
      <4>2. ASSUME NEW a \in 1..Acceptors, NEW d \in ToSet(backlog'[a])
            PROVE  /\ Port[d] = a /\ d \in opened /\ Server(d) \in alive /\ d \notin Listed'
                   /\ at'[SendThread(d)] = "none" /\ at'[ReceiveThread(d)] = "none"
        <5>1. /\ d \in Conn /\ d # c
              /\ Port[d] = a /\ d \in opened /\ Server(d) \in alive /\ d \notin Listed
              /\ at[SendThread(d)] = "none" /\ at[ReceiveThread(d)] = "none"
          BY <3>11
        <5> QED
          BY <3>7, <3>10, <4>1, <5>1
      <4> QED
        BY <3>1, <3>11, <4>2 DEF WaitingOK
    <3>13. ASSUME NEW d \in Conn PROVE ConnectionOK(d)'
      BY <2>2, <3>1, <3>4, <3>7, <3>8, <3>9 DEF ConnectionOK
    <3>14. ASSUME NEW t \in Thread PROVE ThreadOK(t)'
      <4>1. CASE t \in {s, r}
        BY <1>1, <3>1, <3>3, <3>4, <3>7, <3>8, <4>1 DEF ThreadOK
      <4>2. CASE t \notin {s, r}
        BY <2>2, <3>1, <3>7, <3>8, <3>10, <4>2 DEF ThreadOK
      <4> QED
        BY <4>1, <4>2
    <3>15. RemovalOK' /\ DestructionOK'
      BY <3>1, <3>9 DEF RemovalOK, DestructionOK, Down
    <3> QED
      BY <3>7, <3>8, <3>12, <3>13, <3>14, <3>15 DEF IInv
  <2>6. /\ UNCHANGED <<app, aggregator>> =>
             (Down => Down') /\ (Down' => aggregator' = "ended") /\ (app' = "done" => runnables = <<>>)
        /\ aggregator # "ended" /\ UNCHANGED app => ~Down /\ ~Down' /\ app' # "done"
    BY <2>2 DEF DestructionOK, Down
  <2>7. ASSUME NEW c \in Conn, ClientStep(c) PROVE IInv'
    <3>1. /\ UNCHANGED <<opened, backlog, connections, runnables, at, aggregator, closing, app>>
          /\ alive' = alive \/ alive' = alive \ {Client(c)}
      BY <2>7 DEF ClientStep, Connection!Send, Connection!Destroy, threadVars, aggVars, lists,
                  control, appVars
    <3>2. \A d \in Conn : Server(d) \in alive => Server(d) \in alive'
      BY <1>1, <3>1
    <3>3. (Down => Down') /\ (Down' => aggregator' = "ended") /\ (app' = "done" => runnables = <<>>)
      BY <2>6, <3>1
    <3> QED
      BY <2>3, <3>1, <3>2, <3>3
  <2>8. ASSUME NEW t \in Thread, ThreadStep(t) \/ ThreadFault(t) PROVE IInv'
    <3>1. UNCHANGED <<opened, backlog, connections, runnables, aggregator, closing, app>>
      BY <2>8 DEF ThreadStep, ThreadFault, netVars, aggVars, lists, control, appVars
    <3>2. /\ UNCHANGED alive
          /\ at[t] \in Running
          /\ \E l \in {"check", "ended", "dequeue", "receive", "deliver", "transmit"} : Goto(t, l)
      <4>1. CASE CheckInterrupted(t)
        BY <4>1 DEF CheckInterrupted, LoopBody, connVars, Running
      <4>2. CASE End(t, "closed") /\ Connection!RaiseClosed(Server(t[1]))
        BY <4>2 DEF End, Connection!RaiseClosed, Running
      <4>3. CASE ThreadFault(t)
        BY <4>3 DEF ThreadFault, End, netVars, connVars, Running
      <4>4. CASE t = SendThread(t[1]) /\ (Dequeue(t[1]) \/ DequeueNothing(t[1]) \/ Transmit(t[1]))
        BY <4>4 DEF Dequeue, DequeueNothing, AfterTimeout, Transmit, Connection!Send, connVars, Running
      <4>5. CASE t = ReceiveThread(t[1]) /\ (ReceiveMessage(t[1]) \/ ReceiveNothing(t[1]) \/ Deliver(t[1]))
        BY <4>5 DEF ReceiveMessage, ReceiveNothing, Deliver, Connection!Receive, connVars, Running
      <4>6. (t[2] = "send" => t = SendThread(t[1])) /\ (t[2] = "receive" => t = ReceiveThread(t[1]))
        BY DEF Thread, SendThread, ReceiveThread
      <4> QED
        BY <2>8, <4>1, <4>2, <4>3, <4>4, <4>5, <4>6 DEF ThreadStep, EndClosed
    <3>3. \A u \in Thread : at'[u] = at[u] \/ (at[u] \in Running /\ at'[u] # "none")
      BY <2>1, <3>2 DEF Goto
    <3> QED
      BY <2>3, <2>6, <3>1, <3>2, <3>3
  <2>9. CASE (LoopTop \/ AcceptNothing \/ ScanNothing) /\ UNCHANGED <<opened, app>>
    BY <2>3, <2>6, <2>9 DEF LoopTop, AcceptNothing, NextAcceptor, ScanNothing, connVars, threadVars, lists
  <2>10. CASE AcceptFault
    <3>1. /\ aggregator = "accept" /\ aggregator' = "loop"
          /\ UNCHANGED <<opened, at, connections, runnables, closing, app>>
      BY <2>10 DEF AcceptFault, threadVars, lists, appVars
    <3>2. CASE UNCHANGED <<connVars, backlog>>
      BY <2>3, <2>6, <3>1, <3>2 DEF connVars
    \* The connection dropped was in no other list than the backlog.
    <3>3. CASE HandshakeThrows
      <4> DEFINE c == Head(backlog[index])
      <4>1. /\ backlog[index] # <<>> /\ backlog' = [backlog EXCEPT ![index] = Tail(@)]
            /\ alive' = alive \ {Server(c)}
        BY <3>3 DEF HandshakeThrows, Connection!Destroy
      <4>2. index \in 1..Acceptors /\ backlog[index] \in Seq(Conn)
        BY <2>1, <3>1 DEF TypeOK
      <4>3. c \in Conn /\ c \in ToSet(backlog[index])
        <5>1. c \in Conn  BY <4>1, <4>2, HeadTailProperties
        <5> QED
          BY <4>1, <4>2, <5>1, ListProperties
      <4>4. c \notin Listed
        BY <2>2, <4>2, <4>3 DEF WaitingOK
      <4>5. /\ IsInjective(Tail(backlog[index]))
            /\ ToSet(Tail(backlog[index])) = ToSet(backlog[index]) \ {c}
        BY <2>2, <4>1, <4>2, <4>3, ListProperties DEF WaitingOK
      <4> HIDE DEF c
      <4>6. Listed' = Listed /\ Live' = Live
        BY <3>1 DEF Listed, Live
      <4>7. ASSUME NEW a \in 1..Acceptors
            PROVE  /\ IsInjective(backlog'[a])
                   /\ \A d \in ToSet(backlog'[a]) : d \in ToSet(backlog[a]) /\ d \in Conn /\ d # c
        <5>1. backlog'[a] = IF a = index THEN Tail(backlog[a]) ELSE backlog[a]
          BY <2>1, <4>1, <4>2
        <5>2. CASE a = index
          BY <2>0, <4>5, <5>1, <5>2
        <5>3. CASE a # index
          <6>1. Port[c] = index /\ \A d \in ToSet(backlog[a]) : Port[d] = a
            BY <2>2, <4>2, <4>3, <4>7 DEF WaitingOK
          <6> QED
            BY <2>0, <2>2, <5>1, <5>3, <6>1 DEF WaitingOK
        <5> QED
          BY <5>2, <5>3
      <4>8. WaitingOK'
        <5>1. ASSUME NEW a \in 1..Acceptors, NEW d \in ToSet(backlog'[a])
              PROVE  /\ Port[d] = a /\ d \in opened /\ Server(d) \in alive' /\ d \notin Listed
                     /\ at[SendThread(d)] = "none" /\ at[ReceiveThread(d)] = "none"
          <6>1. d \in ToSet(backlog[a]) /\ d \in Conn /\ d # c
            BY <4>7
          <6>2. Server(d) # Server(c)
            BY <1>1, <4>3, <6>1
          <6>3. /\ Port[d] = a /\ d \in opened /\ Server(d) \in alive /\ d \notin Listed
                /\ at[SendThread(d)] = "none" /\ at[ReceiveThread(d)] = "none"
            BY <2>2, <6>1 DEF WaitingOK
          <6> QED
            BY <4>1, <6>2, <6>3
        <5> QED
          BY <3>1, <4>6, <4>7, <5>1 DEF WaitingOK
      <4>9. ASSUME NEW d \in Conn PROVE ConnectionOK(d)'
        <5>1. d \in Listed => Server(d) # Server(c)
          BY <1>1, <4>3, <4>4
        <5> QED
          BY <2>2, <2>6, <3>1, <4>1, <4>6, <5>1 DEF ConnectionOK
      <4>10. ASSUME NEW t \in Thread PROVE ThreadOK(t)'
        BY <2>2, <3>1, <4>6 DEF ThreadOK
      <4>11. RemovalOK' /\ DestructionOK'
        BY <2>2, <2>6, <3>1 DEF RemovalOK, DestructionOK
      <4>12. IsInjective(connections)' /\ IsInjective(runnables)'
        BY <2>2, <3>1
      <4> QED
        BY <4>8, <4>9, <4>10, <4>11, <4>12 DEF IInv
    <3> QED
      BY <2>10, <3>2, <3>3 DEF AcceptFault
  <2>11. CASE ScanException /\ UNCHANGED <<opened, app>>
    <3> DEFINE t == runnables[index]
    <3>1. /\ aggregator = "scan" /\ index \in 1..Len(runnables)
          /\ UNCHANGED <<opened, backlog, alive, at, connections, runnables, app>>
          /\ \/ aggregator' = "joinSend" /\ closing' = t[1]
             \/ aggregator' = "loop" /\ closing' = closing
      <4>1. aggregator = "scan" /\ index <= Len(runnables)
        BY <2>11 DEF ScanException
      <4>2. index \in Nat \ {0} /\ Len(runnables) \in Nat
        BY <2>1, <4>1 DEF TypeOK
      <4> QED
        BY <2>11, <4>1, <4>2 DEF ScanException, connVars, lists
    <3>2. CASE aggregator' = "loop" /\ closing' = closing
      BY <2>3, <2>6, <3>1, <3>2
    <3>3. CASE aggregator' = "joinSend" /\ closing' = t[1]
      <4>1. t \in Thread /\ t \in Live
        BY <2>1, <3>1, ElementOfSeq DEF Live, ToSet
      <4>2. closing' \in Listed
        BY <2>2, <3>3, <4>1 DEF ThreadOK
      <4>3. Listed' = Listed /\ Live' = Live /\ ~Down /\ ~Down'
        BY <2>6, <3>1 DEF Listed, Live
      <4>4. (IsInjective(connections) /\ IsInjective(runnables))' /\ WaitingOK'
        BY <2>2, <3>1, <4>3 DEF WaitingOK
      <4>5. ASSUME NEW c \in Conn PROVE ConnectionOK(c)'
        BY <2>2, <3>1, <4>3 DEF ConnectionOK
      <4>6. ASSUME NEW u \in Thread PROVE ThreadOK(u)'
        BY <2>2, <3>1, <4>3 DEF ThreadOK
      <4>7. RemovalOK' /\ DestructionOK'
        BY <3>3, <4>2, <4>3 DEF RemovalOK, DestructionOK, Down
      <4> QED
        BY <4>4, <4>5, <4>6, <4>7 DEF IInv
    <3> QED
      BY <3>1, <3>2, <3>3
  \* A thread that has ended is taken out of the list.
  <2>12. ASSUME NEW t \in Live, at[t] = "ended", IsInjective(runnables'), Live' = Live \ {t},
                UNCHANGED <<opened, backlog, alive, at, connections, app>>
         PROVE  /\ (IsInjective(connections) /\ IsInjective(runnables) /\ WaitingOK)'
                /\ \A u \in Thread : ThreadOK(u)'
                /\ Listed' = Listed /\ Down' = Down
    <3>1. Listed' = Listed /\ Down' = Down
      BY <2>12 DEF Listed, Down
    <3>2. \A u \in Thread : ThreadOK(u)'
      BY <2>2, <2>12, <3>1 DEF ThreadOK, Running
    <3>3. WaitingOK'
      BY <2>2, <2>12, <3>1 DEF WaitingOK
    <3> QED
      BY <2>2, <2>12, <3>1, <3>2, <3>3
  <2>13. CASE (RemoveSendThread \/ RemoveReceiveThread) /\ UNCHANGED <<opened, app>>
    <3> DEFINE t == IF aggregator = "joinSend" THEN SendThread(closing) ELSE ReceiveThread(closing)
    <3>1. /\ \/ aggregator = "joinSend" /\ aggregator' = "joinReceive"
             \/ aggregator = "joinReceive" /\ aggregator' = "erase"
          /\ Joined(t) /\ runnables' = RemoveFirst(runnables, t)
          /\ UNCHANGED <<opened, backlog, alive, at, connections, closing, app>>
      BY <2>13 DEF RemoveSendThread, RemoveReceiveThread, EraseRunnable, connVars
    <3>2. closing \in Conn /\ closing \in Listed /\ t \in Thread
      BY <1>1, <2>0, <2>2, <3>1 DEF RemovalOK
    <3>3. ~Down /\ ~Down'
      BY <2>6, <3>1
    <3>4. t \in Live
      BY <2>2, <3>1, <3>2, <3>3 DEF ConnectionOK
    <3>5. IsInjective(runnables') /\ Live' = Live \ {t}
      <4> HIDE DEF t
      <4> QED
        BY <2>1, <2>2, <3>1, <3>2, ListProperties DEF Live
    <3>6. /\ (IsInjective(connections) /\ IsInjective(runnables) /\ WaitingOK)'
          /\ \A u \in Thread : ThreadOK(u)'
          /\ Listed' = Listed
      <4> HIDE DEF t
      <4> QED
        BY <2>12, <3>1, <3>4, <3>5 DEF Joined
    <3>7. ASSUME NEW c \in Conn PROVE ConnectionOK(c)'
      BY <1>1, <2>2, <3>1, <3>2, <3>3, <3>5, <3>6 DEF ConnectionOK
    <3>8. RemovalOK' /\ DestructionOK'
      BY <1>1, <2>2, <3>1, <3>2, <3>3, <3>5, <3>6 DEF RemovalOK, DestructionOK, Down
    <3> QED
      BY <3>6, <3>7, <3>8 DEF IInv
  \* A connection without threads is taken out of the list and destroyed.
  <2>14. ASSUME NEW c \in Listed, SendThread(c) \notin Live, ReceiveThread(c) \notin Live,
                IsInjective(connections'), Listed' = Listed \ {c}, alive' = alive \ {Server(c)},
                UNCHANGED <<opened, backlog, at, runnables, app>>
         PROVE  /\ (IsInjective(connections) /\ IsInjective(runnables) /\ WaitingOK)'
                /\ \A u \in Thread : ThreadOK(u)'
                /\ Live' = Live /\ Down' = Down
    <3>1. Live' = Live /\ Down' = Down /\ c \in Conn
      BY <2>0, <2>14 DEF Live, Down
    <3>2. \A u \in Thread : ThreadOK(u)'
      BY <1>1, <2>2, <2>14, <3>1 DEF ThreadOK
    <3>3. ASSUME NEW a \in 1..Acceptors, NEW d \in ToSet(backlog[a])
          PROVE  /\ Port[d] = a /\ d \in opened /\ Server(d) \in alive' /\ d \notin Listed'
                 /\ at[SendThread(d)] = "none" /\ at[ReceiveThread(d)] = "none"
      <4>1. /\ Port[d] = a /\ d \in opened /\ Server(d) \in alive /\ d \notin Listed
            /\ at[SendThread(d)] = "none" /\ at[ReceiveThread(d)] = "none"
        BY <2>2, <3>3 DEF WaitingOK
      <4>2. d \in Conn /\ d # c
        BY <2>0, <2>14, <4>1
      <4> QED
        BY <1>1, <2>14, <3>1, <4>1, <4>2
    <3>4. WaitingOK'
      BY <2>2, <2>14, <3>3 DEF WaitingOK
    <3> QED
      BY <2>2, <2>14, <3>1, <3>2, <3>4
  <2>15. CASE EraseConnection /\ UNCHANGED <<opened, app>>
    <3>1. /\ aggregator = "erase" /\ aggregator' = "loop"
          /\ connections' = RemoveFirst(connections, closing)
          /\ alive' = alive \ {Server(closing)}
          /\ UNCHANGED <<opened, backlog, at, runnables, app>>
      BY <2>15 DEF EraseConnection, Connection!Destroy, threadVars
    <3>2. /\ closing \in Conn /\ closing \in Listed
          /\ SendThread(closing) \notin Live /\ ReceiveThread(closing) \notin Live
      BY <2>0, <2>2, <3>1 DEF RemovalOK
    <3>3. IsInjective(connections') /\ Listed' = Listed \ {closing}
      BY <2>1, <2>2, <3>1, <3>2, ListProperties DEF Listed
    <3>4. /\ (IsInjective(connections) /\ IsInjective(runnables) /\ WaitingOK)'
          /\ \A u \in Thread : ThreadOK(u)'
          /\ Live' = Live
      BY <2>14, <3>1, <3>2, <3>3
    <3>5. ~Down /\ ~Down'
      BY <2>6, <3>1
    <3>6. ASSUME NEW c \in Conn PROVE ConnectionOK(c)'
      BY <1>1, <2>2, <3>1, <3>2, <3>3, <3>4, <3>5 DEF ConnectionOK
    <3>7. RemovalOK' /\ DestructionOK'
      BY <3>1, <3>5 DEF RemovalOK, DestructionOK, Down
    <3> QED
      BY <3>4, <3>6, <3>7 DEF IInv
  <2>16. CASE DestroyRunnable /\ UNCHANGED <<opened, backlog>>
    <3> DEFINE t == Head(runnables)
    <3>1. /\ app = "clear" /\ runnables # <<>> /\ at[t] = "ended" /\ runnables' = Tail(runnables)
          /\ UNCHANGED <<opened, backlog, alive, at, connections, aggregator, closing, app>>
      BY <2>16 DEF DestroyRunnable, Joined, connVars, control, appVars
    <3>2. t \in Thread
      BY <2>1, <3>1, HeadTailProperties
    <3>3. t \in Live /\ IsInjective(runnables') /\ Live' = Live \ {t}
      <4>1. Head(runnables) \in Thread  BY <3>2
      <4> QED
        BY <2>1, <2>2, <3>1, <4>1, ListProperties DEF Live
    <3> HIDE DEF t
    <3>4. /\ (IsInjective(connections) /\ IsInjective(runnables) /\ WaitingOK)'
          /\ \A u \in Thread : ThreadOK(u)'
          /\ Listed' = Listed
      BY <2>12, <3>1, <3>3
    <3>5. aggregator' = "ended" /\ Down'
      BY <2>2, <3>1 DEF DestructionOK, Down
    <3>6. ASSUME NEW c \in Conn PROVE ConnectionOK(c)'
      BY <2>2, <3>1, <3>4, <3>5 DEF ConnectionOK
    <3>7. RemovalOK' /\ DestructionOK'
      BY <3>1, <3>5 DEF RemovalOK, DestructionOK
    <3> QED
      BY <3>4, <3>6, <3>7 DEF IInv
  <2>17. CASE DestroyConnection /\ UNCHANGED <<opened, backlog>>
    <3> DEFINE c == Head(connections)
    <3>1. /\ app = "clear" /\ runnables = <<>> /\ connections # <<>>
          /\ connections' = Tail(connections) /\ alive' = alive \ {Server(c)}
          /\ UNCHANGED <<opened, backlog, at, runnables, aggregator, closing, app>>
      BY <2>17 DEF DestroyConnection, RunnablesFirst, Connection!Destroy, threadVars, control, appVars
    <3>2. c \in Conn
      BY <2>1, <3>1, HeadTailProperties
    <3>3. c \in Listed /\ IsInjective(connections') /\ Listed' = Listed \ {c}
      <4>1. Head(connections) \in Conn  BY <3>2
      <4> QED
        BY <2>1, <2>2, <3>1, <4>1, ListProperties DEF Listed
    <3>4. Live = {}
      BY <3>1 DEF Live, ToSet
    <3> HIDE DEF c
    <3>5. /\ (IsInjective(connections) /\ IsInjective(runnables) /\ WaitingOK)'
          /\ \A u \in Thread : ThreadOK(u)'
          /\ Live' = Live
      BY <2>14, <3>1, <3>3, <3>4
    <3>6. aggregator' = "ended" /\ Down'
      BY <2>2, <3>1 DEF DestructionOK, Down
    <3>7. ASSUME NEW d \in Conn PROVE ConnectionOK(d)'
      BY <1>1, <2>2, <3>1, <3>2, <3>3, <3>6 DEF ConnectionOK
    <3>8. RemovalOK' /\ DestructionOK'
      BY <3>1, <3>6 DEF RemovalOK, DestructionOK
    <3> QED
      BY <3>5, <3>7, <3>8 DEF IInv
  <2>18. CASE Poll \/ Call
    <3>1. /\ UNCHANGED <<opened, backlog, alive, at, connections, runnables, aggregator, closing>>
          /\ ~Down /\ ~Down' /\ app' # "done"
      BY <2>18 DEF Poll, CallReceive, Throw, Call, Send, Interrupt, Destruct, connVars, threadVars, lists,
                   control, aggVars, Down
    <3> QED
      BY <2>3, <3>1
  <2>19. CASE (Catch \/ ReturnEnvelope \/ InterruptAll) /\ UNCHANGED <<opened, backlog>>
    <3>1. /\ UNCHANGED <<alive, at, connections, runnables, aggregator, closing>>
          /\ ~Down /\ ~Down' /\ app' # "done"
      BY <2>19 DEF Catch, ReturnEnvelope, InterruptAll, connVars, threadVars, lists, control, aggVars, Down
    <3> QED
      BY <2>3, <2>19, <3>1
  <2>20. CASE (JoinAggregator \/ Destroyed) /\ UNCHANGED <<opened, backlog>>
    <3>1. /\ UNCHANGED <<alive, at, connections, runnables, aggregator, closing>>
          /\ aggregator = "ended" /\ Down' /\ (app' = "done" => runnables = <<>>)
      BY <2>2, <2>20 DEF JoinAggregator, Destroyed, DestructionOK, connVars, threadVars, lists, control,
                         aggVars, Down
    <3> QED
      BY <2>3, <2>20, <3>1
  <2>21. CASE UNCHANGED vars
    BY <2>3, <2>6, <2>21 DEF vars, netVars, connVars, threadVars, aggVars, lists, control, appVars
  <2>22. AggregatorStep => IInv'
    BY <2>5, <2>9, <2>11, <2>13, <2>15 DEF AggregatorStep, appVars
  <2>23. AppStep => IInv'
    BY <2>16, <2>17, <2>19, <2>20 DEF AppStep, DestructorStep
  <2> QED
    BY <2>4, <2>7, <2>8, <2>10, <2>18, <2>21, <2>22, <2>23 DEF Next
<1> QED
  BY <1>2, <1>3, TypeCorrect, PTL DEF Spec

\* A thread that still runs never finds its own object, its connection's
\* endpoint or the queues gone.
THEOREM NothingUsedAfterFree == Spec => []NoUseAfterFree
<1>1. TypeOK /\ IInv => NoUseAfterFree
  <2> SUFFICES ASSUME TypeOK, IInv, NEW t \in Thread, at[t] \in Running
               PROVE  /\ t \in Live /\ t[1] \in Listed /\ Server(t[1]) \in alive /\ app # "done"
    BY DEF NoUseAfterFree, Listed, Live
  <2>1. t \in Live /\ t[1] \in Listed
    BY DEF IInv, ThreadOK
  <2>2. t[1] \in Conn
    BY DEF Thread
  <2>3. Server(t[1]) \in alive
    BY <2>1, <2>2 DEF IInv, ConnectionOK
  <2>4. app # "done"
    BY <2>1 DEF IInv, DestructionOK, Live, ToSet
  <2> QED
    BY <2>1, <2>3, <2>4
<1> QED
  BY <1>1, TypeCorrect, Invariance, PTL

\* What removeRunnable and connections_.erase look for is in its list.
THEOREM RemovalNeverFails == Spec => []RemovalFinds
<1>1. TypeOK /\ IInv => RemovalFinds
  <2> SUFFICES ASSUME TypeOK, IInv PROVE RemovalFinds
    OBVIOUS
  <2>1. ASSUME NEW i \in 1..Len(runnables) PROVE runnables[i][1] \in Listed
    <3>1. runnables \in Seq(Thread)
      BY DEF TypeOK
    <3>2. runnables[i] \in Thread /\ runnables[i] \in Live
      BY <2>1, <3>1, ElementOfSeq DEF Live, ToSet
    <3> QED
      BY <3>2 DEF IInv, ThreadOK
  <2>2. aggregator \in {"joinSend", "joinReceive", "erase"} => closing \in Listed /\ closing \in Conn /\ ~Down
    BY DEF IInv, RemovalOK, DestructionOK, TypeOK
  <2>3. /\ aggregator = "joinSend" => SendThread(closing) \in Live
        /\ aggregator \in {"joinSend", "joinReceive"} => ReceiveThread(closing) \in Live
    BY <2>2 DEF IInv, ConnectionOK
  <2> QED
    BY <2>1, <2>2, <2>3 DEF RemovalFinds, Listed, Live
<1> QED
  BY <1>1, TypeCorrect, Invariance, PTL

-----------------------------------------------------------------------------
(* InboundIntact and OutboundIntact.  Where a thread is tells whether it    *)
(* has a message in hand.                                                  *)

HandsOK(c) ==
  /\ held[ReceiveThread(c)] # 0 <=> at[ReceiveThread(c)] = "deliver"
  /\ at[SendThread(c)] = "transmit" => held[SendThread(c)] # 0
  /\ held[SendThread(c)] # 0 => at[SendThread(c)] \in {"transmit", "ended"}

InboundOK(c) ==
  /\ held[ReceiveThread(c)] \in {0, rcvd[Server(c)]}
  /\ InOrder(c, receiveQueue, got[c], rcvd[Server(c)] - InHand(ReceiveThread(c)))
OutboundOK(c) ==
  /\ held[SendThread(c)] \in {0, sent[Client(c)] + 1}
  /\ InOrder(c, sendQueue, sent[Client(c)] + InHand(SendThread(c)), replied[c])

LEMMA Traffic == Spec => [](InboundIntact /\ OutboundIntact)
<1> DEFINE TrafficOK == \A c \in Conn : HandsOK(c) /\ InboundOK(c) /\ OutboundOK(c)
\* The next number is added at the end.
<1>1. ASSUME NEW q \in Seq(Conn \X Nat), NEW c \in Conn, NEW m \in Nat, NEW n \in Nat,
             InOrder(c, q, m, n)
      PROVE  InOrder(c, Append(q, <<c, n + 1>>), m, n + 1)
  <2> DEFINE z == Append(q, <<c, n + 1>>)
  <2>1. /\ Len(q) \in Nat /\ Len(z) = Len(q) + 1 /\ z[Len(q) + 1] = <<c, n + 1>>
        /\ \A i \in 1..Len(q) : z[i] = q[i] /\ q[i] \in Conn \X Nat
    <3>1. <<c, n + 1>> \in Conn \X Nat
      OBVIOUS
    <3> QED
      BY <3>1, AppendProperties, LenProperties, ElementOfSeq
  <2> HIDE DEF z
  <2>2. \A i \in 1..Len(z) : i \in 1..Len(q) \/ i = Len(q) + 1
    BY <2>1
  <2>3. ASSUME NEW i \in 1..Len(z), z[i][1] = c PROVE z[i][2] \in m+1..n+1
    <3>0. m <= n /\ \A j \in 1..Len(q) : q[j][1] = c => q[j][2] \in m+1..n
      BY <1>1 DEF InOrder
    <3>1. CASE i \in 1..Len(q)
      BY <2>1, <2>3, <3>0, <3>1
    <3>2. CASE i = Len(q) + 1
      BY <2>1, <3>0, <3>2
    <3> QED
      BY <2>2, <3>1, <3>2
  <2>4. ASSUME NEW k \in m+1..n+1 PROVE \E i \in 1..Len(z) : z[i] = <<c, k>>
    <3>1. CASE k = n + 1
      BY <2>1, <3>1
    <3>2. CASE k \in m+1..n
      <4>1. PICK i \in 1..Len(q) : q[i] = <<c, k>>
        BY <1>1, <3>2 DEF InOrder
      <4>2. i \in 1..Len(z) /\ z[i] = <<c, k>>
        BY <2>1, <4>1
      <4> QED
        BY <4>2
    <3> QED
      BY <3>1, <3>2
  <2>5. ASSUME NEW i \in 1..Len(z), NEW j \in 1..Len(z), z[i][1] = c, z[j][1] = c, i < j
        PROVE  z[i][2] < z[j][2]
    <3>0. /\ \A k \in 1..Len(q) : q[k][1] = c => q[k][2] \in m+1..n
          /\ \A k, l \in 1..Len(q) : q[k][1] = c /\ q[l][1] = c /\ k < l => q[k][2] < q[l][2]
      BY <1>1 DEF InOrder
    <3>1. i \in 1..Len(q) /\ z[i] = q[i]
      BY <2>1, <2>5
    <3>2. CASE j \in 1..Len(q)
      BY <2>1, <2>5, <3>0, <3>1, <3>2
    <3>3. CASE j = Len(q) + 1
      BY <2>1, <2>5, <3>0, <3>1, <3>3
    <3> QED
      BY <2>2, <3>2, <3>3
  <2>6. m <= n + 1
    BY <1>1 DEF InOrder
  <2> QED
    BY <2>3, <2>4, <2>5, <2>6 DEF InOrder, z
<1>2. ASSUME NEW q \in Seq(Conn \X Nat), NEW c \in Conn, NEW e \in Conn \X Nat, e[1] # c,
             NEW m \in Nat, NEW n \in Nat, InOrder(c, q, m, n)
      PROVE  InOrder(c, Append(q, e), m, n)
  <2> DEFINE z == Append(q, e)
  <2>1. /\ Len(q) \in Nat /\ Len(z) = Len(q) + 1 /\ z[Len(q) + 1] = e
        /\ \A i \in 1..Len(q) : z[i] = q[i]
    BY AppendProperties, LenProperties
  <2> HIDE DEF z
  <2>2. \A i \in 1..Len(z) : i \in 1..Len(q) \/ (i = Len(q) + 1 /\ z[i][1] # c)
    BY <1>2, <2>1
  <2>3. \A k \in m+1..n : \E i \in 1..Len(z) : z[i] = <<c, k>>
    <3>1. \A i \in 1..Len(q) : i \in 1..Len(z)
      BY <2>1
    <3> QED
      BY <1>2, <2>1, <3>1 DEF InOrder
  <2>4. \A i \in 1..Len(z) : z[i][1] = c => i \in 1..Len(q) /\ z[i] = q[i]
    BY <2>1, <2>2
  <2>5. /\ m <= n
        /\ \A i \in 1..Len(q) : q[i][1] = c => q[i][2] \in m+1..n
        /\ \A i, j \in 1..Len(q) : q[i][1] = c /\ q[j][1] = c /\ i < j => q[i][2] < q[j][2]
    BY <1>2 DEF InOrder
  <2>6. \A i \in 1..Len(z) : z[i][1] = c => z[i][2] \in m+1..n
    BY <2>4, <2>5
  <2>7. \A i, j \in 1..Len(z) : z[i][1] = c /\ z[j][1] = c /\ i < j => z[i][2] < z[j][2]
    BY <2>4, <2>5
  <2> QED
    BY <2>3, <2>5, <2>6, <2>7 DEF InOrder, z
\* An envelope is taken out at place p; z is what is left.
<1>3. ASSUME NEW q \in Seq(Conn \X Nat), NEW z \in Seq(Conn \X Nat), NEW p \in 1..Len(q),
             Len(z) = Len(q) - 1,
             \A i \in 1..Len(z) : z[i] = IF i < p THEN q[i] ELSE q[i+1],
             NEW c \in Conn, NEW m \in Nat, NEW n \in Nat, InOrder(c, q, m, n)
      PROVE  /\ q[p][1] # c => InOrder(c, z, m, n)
             /\ q[p][1] = c /\ (\A j \in 1..Len(q) : q[j][1] = c => p <= j) =>
                  q[p] = <<c, m + 1>> /\ InOrder(c, z, m + 1, n)
  <2> DEFINE Old(i) == IF i < p THEN i ELSE i + 1
  <2>1. Len(q) \in Nat /\ \A i \in 1..Len(q) : q[i] = <<q[i][1], q[i][2]>> /\ q[i][2] \in Nat
    BY LenProperties, ElementOfSeq
  <2>2. ASSUME NEW i \in 1..Len(z)
        PROVE  Old(i) \in 1..Len(q) /\ Old(i) # p /\ z[i] = q[Old(i)]
    <3>1. /\ i < p => z[i] = q[i]
          /\ ~(i < p) => z[i] = q[i+1]
      BY <1>3
    <3>2. Len(z) = Len(q) - 1
      BY <1>3
    <3>3. i \in Int /\ p \in Int /\ 1 <= i /\ i <= Len(q) - 1
      BY <2>1, <3>2
    <3>4. CASE i < p
      BY <2>1, <3>1, <3>3, <3>4
    <3>5. CASE ~(i < p)
      BY <2>1, <3>1, <3>3, <3>5
    <3> QED
      BY <3>4, <3>5
  <2>3. \A i, j \in 1..Len(z) : i < j => Old(i) < Old(j)
    BY <2>1
  <2>4. ASSUME NEW j \in 1..Len(q), j # p PROVE \E i \in 1..Len(z) : z[i] = q[j]
    <3>1. CASE j < p
      <4>1. j \in 1..Len(z)
        BY <1>3, <2>1, <3>1
      <4> QED
        BY <1>3, <3>1, <4>1
    <3>2. CASE j > p
      <4>1. j - 1 \in 1..Len(z) /\ ~ (j - 1 < p) /\ (j - 1) + 1 = j
        BY <1>3, <2>1, <3>2
      <4> QED
        BY <1>3, <4>1
    <3> QED
      BY <2>1, <2>4, <3>1, <3>2
  <2> HIDE DEF Old
  <2>5. /\ m <= n
        /\ \A i \in 1..Len(q) : q[i][1] = c => q[i][2] \in m+1..n
        /\ \A k \in m+1..n : \E i \in 1..Len(q) : q[i] = <<c, k>>
        /\ \A i, j \in 1..Len(q) : q[i][1] = c /\ q[j][1] = c /\ i < j => q[i][2] < q[j][2]
    BY <1>3 DEF InOrder
  <2>6. \A i, j \in 1..Len(z) : z[i][1] = c /\ z[j][1] = c /\ i < j => z[i][2] < z[j][2]
    <3>1. SUFFICES ASSUME NEW i \in 1..Len(z), NEW j \in 1..Len(z), z[i][1] = c, z[j][1] = c, i < j
                   PROVE  z[i][2] < z[j][2]
      OBVIOUS
    <3>2. /\ Old(i) \in 1..Len(q) /\ z[i] = q[Old(i)] /\ Old(j) \in 1..Len(q) /\ z[j] = q[Old(j)]
          /\ Old(i) < Old(j)
      BY <2>2, <2>3, <3>1
    <3> QED
      BY <2>5, <3>1, <3>2
  <2>7. ASSUME q[p][1] # c PROVE InOrder(c, z, m, n)
    <3>1. \A i \in 1..Len(z) : z[i][1] = c => z[i][2] \in m+1..n
      BY <2>2, <2>5
    <3>2. ASSUME NEW k \in m+1..n PROVE \E i \in 1..Len(z) : z[i] = <<c, k>>
      <4>1. PICK j \in 1..Len(q) : q[j] = <<c, k>>
        BY <2>5
      <4>2. j # p
        BY <2>7, <4>1
      <4> QED
        BY <2>4, <4>1, <4>2
    <3> QED
      BY <2>5, <2>6, <3>1, <3>2 DEF InOrder
  <2>8. ASSUME q[p][1] = c, \A j \in 1..Len(q) : q[j][1] = c => p <= j
        PROVE  q[p] = <<c, m + 1>> /\ InOrder(c, z, m + 1, n)
    <3>1. q[p][2] \in m+1..n /\ m + 1 \in m+1..n
      <4>1. q[p][2] \in m+1..n
        BY <2>5, <2>8
      <4> QED
        BY <4>1
    <3>2. PICK j \in 1..Len(q) : q[j] = <<c, m + 1>>
      BY <2>5, <3>1
    <3>3. p <= j /\ (p < j => q[p][2] < m + 1)
      <4>1. q[j][1] = c /\ q[j][2] = m + 1
        BY <3>2
      <4>2. p <= j
        BY <2>8, <4>1
      <4>3. p < j => q[p][2] < q[j][2]
        BY <2>5, <2>8, <4>1
      <4> QED
        BY <4>1, <4>2, <4>3
    <3>4. q[p] = <<c, m + 1>>
      <4>1. p = j
        BY <3>1, <3>3
      <4> QED
        BY <3>2, <4>1
    <3>5. ASSUME NEW i \in 1..Len(z), z[i][1] = c PROVE z[i][2] \in (m+1)+1..n
      <4>1. Old(i) \in 1..Len(q) /\ z[i] = q[Old(i)] /\ p < Old(i)
        <5>1. Old(i) \in 1..Len(q) /\ z[i] = q[Old(i)] /\ Old(i) # p
          BY <2>2
        <5>2. p <= Old(i)
          BY <2>8, <3>5, <5>1
        <5> QED
          BY <2>1, <5>1, <5>2
      <4>2. q[p][1] = c /\ q[p][2] = m + 1 /\ q[Old(i)][1] = c /\ q[Old(i)][2] = z[i][2]
        BY <3>4, <3>5, <4>1
      <4>3. q[p][2] < q[Old(i)][2] /\ q[Old(i)][2] \in m+1..n
        BY <2>5, <4>1, <4>2
      <4> QED
        BY <4>2, <4>3
    <3>6. ASSUME NEW k \in (m+1)+1..n PROVE \E i \in 1..Len(z) : z[i] = <<c, k>>
      <4>1. k \in m+1..n /\ k # m + 1
        OBVIOUS
      <4>2. PICK i \in 1..Len(q) : q[i] = <<c, k>>
        BY <2>5, <4>1
      <4>3. i # p
        BY <3>4, <4>1, <4>2
      <4> QED
        BY <2>4, <4>2, <4>3
    <3>7. m + 1 <= n
      BY <3>1
    <3> QED
      BY <2>6, <3>4, <3>5, <3>6, <3>7 DEF InOrder
  <2> QED
    BY <2>7, <2>8
<1>4. /\ \A c \in Conn : /\ Server(c) \in Endpoint /\ Client(c) \in Endpoint
                         /\ Peer[Server(c)] = Client(c) /\ Peer[Client(c)] = Server(c)
                         /\ SendThread(c) \in Thread /\ ReceiveThread(c) \in Thread
      /\ \A t \in Thread : t[1] \in Conn /\ t \in {SendThread(t[1]), ReceiveThread(t[1])}
      /\ \A c, d \in Conn : /\ SendThread(c) # ReceiveThread(d) /\ Server(c) # Client(d)
                            /\ SendThread(c) = SendThread(d) => c = d
                            /\ ReceiveThread(c) = ReceiveThread(d) => c = d
                            /\ Server(c) = Server(d) => c = d
                            /\ Client(c) = Client(d) => c = d
  BY DEF Endpoint, Peer, Server, Client, Thread, SendThread, ReceiveThread
<1>5. Init => TrafficOK
  <2> SUFFICES ASSUME Init, NEW c \in Conn PROVE HandsOK(c) /\ InboundOK(c) /\ OutboundOK(c)
    OBVIOUS
  <2>1. /\ held[ReceiveThread(c)] = 0 /\ held[SendThread(c)] = 0
        /\ at[ReceiveThread(c)] = "none" /\ at[SendThread(c)] = "none"
        /\ rcvd[Server(c)] = 0 /\ sent[Client(c)] = 0 /\ got[c] = 0 /\ replied[c] = 0
        /\ sendQueue = <<>> /\ receiveQueue = <<>>
    BY <1>4 DEF Init
  <2>2. InOrder(c, <<>>, 0, 0)
    BY DEF InOrder
  <2> QED
    BY <2>1, <2>2 DEF HandsOK, InboundOK, OutboundOK, InHand
<1>6. TypeOK /\ IInv /\ TrafficOK /\ [Next]_vars => TrafficOK'
  <2> SUFFICES ASSUME TypeOK, IInv, TrafficOK, [Next]_vars PROVE TrafficOK'
    OBVIOUS
  <2>1. /\ sent \in [Endpoint -> Nat] /\ rcvd \in [Endpoint -> Nat]
        /\ held \in [Thread -> Nat] /\ at \in [Thread -> Running \cup {"none", "ended"}]
        /\ \A c \in Conn : /\ at[SendThread(c)] \notin {"receive", "deliver"}
                           /\ at[ReceiveThread(c)] \notin {"dequeue", "transmit"}
        /\ sendQueue \in Seq(Conn \X Nat) /\ receiveQueue \in Seq(Conn \X Nat)
        /\ got \in [Conn -> Nat] /\ replied \in [Conn -> Nat]
    BY DEF TypeOK
  <2>2. \A c \in Conn : HandsOK(c) /\ InboundOK(c) /\ OutboundOK(c)
    OBVIOUS
  <2> HIDE DEF TrafficOK
  <2>3. ASSUME NEW c \in Conn, UNCHANGED <<receiveQueue, got[c], rcvd[Server(c)], held[ReceiveThread(c)]>>
        PROVE  InboundOK(c)'
    BY <2>2, <2>3 DEF InboundOK, InHand
  <2>4. ASSUME NEW c \in Conn, UNCHANGED <<sendQueue, replied[c], sent[Client(c)], held[SendThread(c)]>>
        PROVE  OutboundOK(c)'
    BY <2>2, <2>4 DEF OutboundOK, InHand
  <2>5. ASSUME NEW c \in Conn, UNCHANGED <<at[ReceiveThread(c)], at[SendThread(c)],
                                           held[ReceiveThread(c)], held[SendThread(c)]>>
        PROVE  HandsOK(c)'
    BY <2>2, <2>5 DEF HandsOK
  <2>6. ASSUME UNCHANGED <<at, held, sent, rcvd, queues, got, replied>> PROVE TrafficOK'
    BY <2>3, <2>4, <2>5, <2>6 DEF TrafficOK, queues
  <2>7. ASSUME NEW c \in Conn, Connect(c) PROVE TrafficOK'
    BY <2>6, <2>7 DEF Connect, threadVars, appVars
  <2>8. ASSUME NEW c \in Conn, ClientStep(c) PROVE TrafficOK'
    <3>1. /\ UNCHANGED <<at, held, rcvd, queues, got, replied>>
          /\ sent' = sent \/ sent' = [sent EXCEPT ![Server(c)] = @ + 1]
      BY <1>4, <2>8 DEF ClientStep, Connection!Send, Connection!Destroy, threadVars, appVars
    <3>2. \A d \in Conn : sent'[Client(d)] = sent[Client(d)]
      BY <1>4, <2>1, <3>1
    <3> QED
      BY <2>3, <2>4, <2>5, <3>1, <3>2 DEF TrafficOK, queues
  <2>9. ASSUME NEW t \in Thread, ThreadStep(t) \/ ThreadFault(t) PROVE TrafficOK'
    <3> DEFINE c == t[1]
               s == SendThread(c)
               r == ReceiveThread(c)
    <3>1. /\ c \in Conn /\ t \in {s, r} /\ s \in Thread /\ r \in Thread /\ s # r
          /\ \A d \in Conn : /\ SendThread(d) \in Thread /\ ReceiveThread(d) \in Thread
                             /\ d # c => SendThread(d) # t /\ ReceiveThread(d) # t
                             /\ SendThread(d) # r /\ ReceiveThread(d) # s
      BY <1>4
    <3>2. UNCHANGED <<got, replied>>
      BY <2>9 DEF ThreadStep, ThreadFault, appVars
    \* Other connections, whose places and messages are not touched.
    <3>3. ASSUME NEW d \in Conn, d # c, NEW l, NEW h, Goto(t, l),
                 UNCHANGED held \/ held' = [held EXCEPT ![t] = h]
          PROVE  /\ HandsOK(d)'
                 /\ UNCHANGED <<held[SendThread(d)], held[ReceiveThread(d)]>>
      <4>1. UNCHANGED <<at[ReceiveThread(d)], at[SendThread(d)],
                        held[ReceiveThread(d)], held[SendThread(d)]>>
        <5>1. SendThread(d) \in Thread \ {t} /\ ReceiveThread(d) \in Thread \ {t}
          BY <3>1, <3>3
        <5>2. \A u \in Thread \ {t} : at'[u] = at[u]
          BY <2>1, <3>3 DEF Goto
        <5>3. \A u \in Thread \ {t} : held'[u] = held[u]
          BY <2>1, <3>3
        <5> HIDE DEF c
        <5> QED
          BY <5>1, <5>2, <5>3
      <4> QED
        BY <2>5, <4>1
    \* Steps with no message.
    <3>4. ASSUME NEW l \in Running \cup {"ended"}, Goto(t, l), l \notin {"deliver", "transmit"},
                 at[t] \in {"check", "receive", "dequeue"} \/ (at[t] = "transmit" /\ l = "ended"),
                 UNCHANGED <<held, sent, rcvd, queues>>
          PROVE  TrafficOK'
      <4>1. at' = [at EXCEPT ![t] = l] /\ at'[t] = l
        BY <2>1, <3>4 DEF Goto
      <4>2. HandsOK(c)'
        <5>1. CASE t = s
          <6>1. at'[r] = at[r] /\ at'[s] = l
            BY <2>1, <3>1, <4>1, <5>1
          <6> QED
            BY <2>2, <3>1, <3>4, <5>1, <6>1 DEF HandsOK
        <5>2. CASE t = r
          <6>1. at'[s] = at[s] /\ at'[r] = l
            BY <2>1, <3>1, <4>1, <5>2
          <6> QED
            BY <2>2, <3>1, <3>4, <5>2, <6>1 DEF HandsOK
        <5> QED
          BY <3>1, <5>1, <5>2
      <4>3. \A d \in Conn : HandsOK(d)'
        BY <3>3, <3>4, <4>2
      <4> QED
        BY <2>3, <2>4, <3>2, <3>4, <4>3 DEF TrafficOK, queues
    <3>5. CASE CheckInterrupted(t)
      <4>1. PICK l \in {"ended", "dequeue", "receive"} : Goto(t, l)
        BY <3>5 DEF CheckInterrupted, LoopBody
      <4>2. at[t] = "check" /\ UNCHANGED <<held, sent, rcvd, queues>>
        BY <3>5 DEF CheckInterrupted, connVars
      <4> QED
        BY <3>4, <4>1, <4>2 DEF Running
    <3>6. CASE EndClosed(t) \/ ThreadFault(t)
      <4>1. /\ at[t] \in {"receive", "transmit"} /\ Goto(t, "ended")
            /\ UNCHANGED <<held, sent, rcvd, queues>>
        BY <3>6 DEF EndClosed, ThreadFault, End, Connection!RaiseClosed, netVars, connVars
      <4> QED
        BY <3>4, <4>1 DEF Running
    <3>7. CASE DequeueNothing(c) /\ t = s
      <4>1. at[t] = "dequeue" /\ Goto(t, "check") /\ UNCHANGED <<held, sent, rcvd, queues>>
        BY <3>7 DEF DequeueNothing, AfterTimeout, connVars
      <4> QED
        BY <3>4, <4>1 DEF Running
    <3>8. CASE ReceiveNothing(c) /\ t = r
      <4>1. at[t] = "receive" /\ Goto(t, "check") /\ UNCHANGED <<held, sent, rcvd, queues>>
        BY <3>8 DEF ReceiveNothing, connVars
      <4> QED
        BY <3>4, <4>1 DEF Running
    <3>9. CASE Dequeue(c) /\ t = s
      <4>1. PICK i \in FirstMatch(c) : /\ held' = [held EXCEPT ![t] = sendQueue[i][2]]
                                       /\ sendQueue' = RemoveAt(sendQueue, i)
        BY <3>9 DEF Dequeue
      <4>2. at[t] = "dequeue" /\ Goto(t, "transmit") /\ UNCHANGED <<sent, rcvd, receiveQueue>>
        BY <3>9 DEF Dequeue, connVars
      <4>3. /\ i \in 1..Len(sendQueue) /\ sendQueue[i][1] = c
            /\ \A j \in 1..Len(sendQueue) : sendQueue[j][1] = c => i <= j
        BY DEF FirstMatch, Matching
      <4> DEFINE z == sendQueue'
      <4>4. /\ z \in Seq(Conn \X Nat) /\ Len(z) = Len(sendQueue) - 1
            /\ \A j \in 1..Len(z) : z[j] = IF j < i THEN sendQueue[j] ELSE sendQueue[j+1]
        <5>1. /\ RemoveAt(sendQueue, i) \in Seq(Conn \X Nat)
              /\ Len(RemoveAt(sendQueue, i)) = Len(sendQueue) - 1
              /\ \A j \in 1..Len(sendQueue)-1 :
                   RemoveAt(sendQueue, i)[j] = IF j < i THEN sendQueue[j] ELSE sendQueue[j+1]
          BY <2>1, <4>3, RemoveAtProperties
        <5> QED
          BY <4>1, <5>1
      <4>5. held[s] = 0
        BY <2>2, <3>1, <3>9, <4>2 DEF HandsOK
      <4>6. ASSUME NEW d \in Conn
            PROVE  /\ sent[Client(d)] + InHand(SendThread(d)) \in Nat /\ replied[d] \in Nat
                   /\ InOrder(d, sendQueue, sent[Client(d)] + InHand(SendThread(d)), replied[d])
        <5>1. OutboundOK(d) /\ sent[Client(d)] \in Nat /\ replied[d] \in Nat
          BY <1>4, <2>1, <2>2
        <5>2. InHand(SendThread(d)) \in Nat
          BY DEF InHand
        <5> QED
          BY <5>1, <5>2 DEF OutboundOK
      <4> HIDE DEF z
      <4>7. ASSUME NEW d \in Conn
            PROVE  /\ d # c => InOrder(d, z, sent[Client(d)] + InHand(SendThread(d)), replied[d])
                   /\ d = c => /\ sendQueue[i] = <<d, sent[Client(d)] + InHand(SendThread(d)) + 1>>
                               /\ InOrder(d, z, sent[Client(d)] + InHand(SendThread(d)) + 1, replied[d])
        <5> DEFINE m == sent[Client(d)] + InHand(SendThread(d))
                   n == replied[d]
        <5>1. m \in Nat /\ n \in Nat /\ InOrder(d, sendQueue, m, n)
          BY <4>6
        <5> HIDE DEF m, n, c
        <5>2. /\ sendQueue[i][1] # d => InOrder(d, z, m, n)
              /\ sendQueue[i][1] = d /\ (\A j \in 1..Len(sendQueue) : sendQueue[j][1] = d => i <= j) =>
                   sendQueue[i] = <<d, m + 1>> /\ InOrder(d, z, m + 1, n)
          BY <1>3, <2>1, <4>3, <4>4, <5>1
        <5>3. d # c => InOrder(d, z, m, n)
          BY <4>3, <5>2
        <5>4. d = c => sendQueue[i] = <<d, m + 1>> /\ InOrder(d, z, m + 1, n)
          BY <4>3, <5>2
        <5> QED
          BY <5>3, <5>4 DEF m, n
      <4>8. InHand(s) = 0 /\ sent[Client(c)] \in Nat
        BY <1>4, <2>1, <3>1, <4>5 DEF InHand
      <4>9. sendQueue[i] = <<c, sent[Client(c)] + 1>> /\ InOrder(c, z, sent[Client(c)] + 1, replied[c])
        <5>1. sent[Client(c)] + InHand(s) + 1 = sent[Client(c)] + 1
          BY <4>8
        <5>2. /\ sendQueue[i] = <<c, sent[Client(c)] + InHand(s) + 1>>
              /\ InOrder(c, z, sent[Client(c)] + InHand(s) + 1, replied[c])
          BY <3>1, <4>7
        <5> QED
          BY <5>1, <5>2
      <4>10. held'[s] = sent[Client(c)] + 1 /\ held'[s] # 0 /\ held'[r] = held[r]
        <5>1. sendQueue[i][2] = sent[Client(c)] + 1
          BY <4>9
        <5>2. held'[s] = sendQueue[i][2] /\ held'[r] = held[r]
          BY <2>1, <3>1, <3>9, <4>1
        <5> QED
          BY <4>8, <5>1, <5>2
      <4>11. OutboundOK(c)'
        BY <3>2, <4>2, <4>8, <4>9, <4>10 DEF OutboundOK, InHand, z
      <4>12. HandsOK(c)'
        <5>1. at'[s] = "transmit" /\ at'[r] = at[r]
          BY <2>1, <3>1, <3>9, <4>2 DEF Goto
        <5> QED
          BY <2>2, <3>1, <4>10, <5>1 DEF HandsOK
      <4>13. ASSUME NEW d \in Conn PROVE InboundOK(d)'
        BY <2>3, <3>1, <3>2, <3>3, <4>1, <4>2, <4>10
      <4>14. ASSUME NEW d \in Conn, d # c PROVE HandsOK(d)' /\ OutboundOK(d)'
        <5>1. HandsOK(d)' /\ UNCHANGED held[SendThread(d)]
          BY <3>3, <4>1, <4>2, <4>14
        <5> QED
          BY <2>2, <3>2, <4>2, <4>7, <4>14, <5>1 DEF OutboundOK, InHand, z
      <4> QED
        BY <4>11, <4>12, <4>13, <4>14 DEF TrafficOK
    <3>10. CASE Transmit(c) /\ t = s
      <4>1. /\ at[t] = "transmit" /\ Goto(t, "check") /\ held' = [held EXCEPT ![t] = 0]
            /\ sent' = [sent EXCEPT ![Client(c)] = @ + 1]
            /\ UNCHANGED <<rcvd, sendQueue, receiveQueue>>
        BY <1>4, <3>1, <3>10 DEF Transmit, Connection!Send, queues
      <4>2. held[s] = sent[Client(c)] + 1 /\ sent[Client(c)] \in Nat /\ held[s] # 0
        BY <1>4, <2>1, <2>2, <3>1, <3>10, <4>1 DEF HandsOK, OutboundOK
      <4>3. /\ held'[s] = 0 /\ held'[r] = held[r] /\ at'[s] = "check" /\ at'[r] = at[r]
            /\ sent'[Client(c)] = sent[Client(c)] + 1
            /\ \A d \in Conn : d # c => sent'[Client(d)] = sent[Client(d)]
        BY <1>4, <2>1, <3>1, <3>10, <4>1 DEF Goto
      <4>4. HandsOK(c)'
        BY <2>2, <3>1, <4>3 DEF HandsOK
      <4>5. OutboundOK(c)'
        <5>1. InOrder(c, sendQueue, sent[Client(c)] + 1, replied[c])
          BY <2>2, <3>1, <4>2 DEF OutboundOK, InHand
        <5>2. sent'[Client(c)] + InHand(s)' = sent[Client(c)] + 1
          BY <4>2, <4>3 DEF InHand
        <5> QED
          BY <3>2, <4>1, <4>3, <5>1, <5>2 DEF OutboundOK
      <4>6. ASSUME NEW d \in Conn PROVE InboundOK(d)'
        BY <2>3, <3>1, <3>2, <3>3, <4>1, <4>3
      <4>7. ASSUME NEW d \in Conn, d # c PROVE HandsOK(d)' /\ OutboundOK(d)'
        BY <2>4, <3>2, <3>3, <4>1, <4>3, <4>7
      <4> QED
        BY <4>4, <4>5, <4>6, <4>7 DEF TrafficOK
    <3>11. CASE ReceiveMessage(c) /\ t = r
      <4>1. /\ at[t] = "receive" /\ Goto(t, "deliver")
            /\ held' = [held EXCEPT ![t] = rcvd[Server(c)] + 1]
            /\ rcvd' = [rcvd EXCEPT ![Server(c)] = @ + 1]
            /\ UNCHANGED <<sent, sendQueue, receiveQueue>>
        BY <3>11 DEF ReceiveMessage, Connection!Receive, queues
      <4>2. held[r] = 0 /\ rcvd[Server(c)] \in Nat
        BY <1>4, <2>1, <2>2, <3>1, <3>11, <4>1 DEF HandsOK
      <4>3. /\ held'[r] = rcvd[Server(c)] + 1 /\ held'[s] = held[s]
            /\ at'[r] = "deliver" /\ at'[s] = at[s]
            /\ rcvd'[Server(c)] = rcvd[Server(c)] + 1
            /\ \A d \in Conn : d # c => rcvd'[Server(d)] = rcvd[Server(d)]
        BY <1>4, <2>1, <3>1, <3>11, <4>1 DEF Goto
      <4>4. HandsOK(c)'
        BY <2>2, <3>1, <4>2, <4>3 DEF HandsOK
      <4>5. InboundOK(c)'
        <5>1. InOrder(c, receiveQueue, got[c], rcvd[Server(c)])
          BY <2>2, <3>1, <4>2 DEF InboundOK, InHand
        <5>2. rcvd'[Server(c)] - InHand(r)' = rcvd[Server(c)]
          BY <4>2, <4>3 DEF InHand
        <5> QED
          BY <3>2, <4>1, <4>3, <5>1, <5>2 DEF InboundOK
      <4>6. ASSUME NEW d \in Conn PROVE OutboundOK(d)'
        BY <2>4, <3>1, <3>2, <3>3, <4>1, <4>3
      <4>7. ASSUME NEW d \in Conn, d # c PROVE HandsOK(d)' /\ InboundOK(d)'
        BY <2>3, <3>2, <3>3, <4>1, <4>3, <4>7
      <4> QED
        BY <4>4, <4>5, <4>6, <4>7 DEF TrafficOK
    <3>12. CASE Deliver(c) /\ t = r
      <4> DEFINE n == rcvd[Server(c)]
                 e == <<c, held[r]>>
      <4>1. /\ at[t] = "deliver" /\ Goto(t, "check") /\ held' = [held EXCEPT ![t] = 0]
            /\ receiveQueue' = Append(receiveQueue, e)
            /\ UNCHANGED <<sent, rcvd, sendQueue>>
        BY <3>12 DEF Deliver, EnqueueReceived, connVars
      <4>2. held[r] = n /\ n \in Nat /\ n # 0
        BY <1>4, <2>1, <2>2, <3>1, <3>12, <4>1 DEF HandsOK, InboundOK
      <4>3. /\ held'[r] = 0 /\ held'[s] = held[s] /\ at'[r] = "check" /\ at'[s] = at[s]
        BY <1>4, <2>1, <3>1, <3>12, <4>1 DEF Goto
      <4>4. HandsOK(c)'
        BY <2>2, <3>1, <4>3 DEF HandsOK
      <4>5. InOrder(c, receiveQueue', got[c], n)
        <5>1. n - 1 \in Nat /\ (n - 1) + 1 = n /\ got[c] \in Nat
          BY <2>1, <3>1, <4>2
        <5>2. InOrder(c, receiveQueue, got[c], n - 1)
          BY <2>2, <3>1, <4>2 DEF InboundOK, InHand
        <5>3. InOrder(c, Append(receiveQueue, <<c, (n - 1) + 1>>), got[c], (n - 1) + 1)
          BY <1>1, <2>1, <3>1, <5>1, <5>2
        <5> QED
          BY <4>1, <4>2, <5>1, <5>3
      <4>6. InboundOK(c)'
        BY <3>2, <4>1, <4>2, <4>3, <4>5 DEF InboundOK, InHand
      <4>7. ASSUME NEW d \in Conn PROVE OutboundOK(d)'
        BY <2>4, <3>1, <3>2, <3>3, <4>1, <4>3
      <4>8. ASSUME NEW d \in Conn, d # c PROVE HandsOK(d)' /\ InboundOK(d)'
        <5>1. HandsOK(d)' /\ UNCHANGED held[ReceiveThread(d)]
          BY <3>3, <4>1, <4>8
        <5>2. e \in Conn \X Nat /\ e[1] # d
          BY <2>1, <3>1, <4>8
        <5>3. /\ got[d] \in Nat /\ rcvd[Server(d)] - InHand(ReceiveThread(d)) \in Nat
              /\ InOrder(d, receiveQueue, got[d], rcvd[Server(d)] - InHand(ReceiveThread(d)))
          BY <1>4, <2>1, <2>2 DEF InboundOK, InHand
        <5>4. InOrder(d, receiveQueue', got[d], rcvd[Server(d)] - InHand(ReceiveThread(d)))
          <6> HIDE DEF e
          <6> QED
            BY <1>2, <2>1, <4>1, <5>2, <5>3
        <5> QED
          BY <2>2, <3>2, <4>1, <5>1, <5>4 DEF InboundOK, InHand
      <4> QED
        BY <4>4, <4>6, <4>7, <4>8 DEF TrafficOK
    <3>13. (t[2] = "send" => t = s) /\ (t[2] = "receive" => t = r)
      BY DEF Thread, SendThread, ReceiveThread
    <3> QED
      BY <2>9, <3>5, <3>6, <3>7, <3>8, <3>9, <3>10, <3>11, <3>12, <3>13 DEF ThreadStep
  <2>10. CASE AcceptConnection /\ UNCHANGED <<queues, appVars>>
    <3> DEFINE c == Head(backlog[index])
               s == SendThread(c)
               r == ReceiveThread(c)
    <3>1. /\ UNCHANGED <<held, sent, rcvd, queues, got, replied>>
          /\ at' = [t \in Thread |-> IF t \in {s, r} THEN "check" ELSE at[t]]
          /\ aggregator = "accept" /\ backlog[index] # <<>>
      BY <2>10 DEF AcceptConnection, connVars, appVars
    <3>2. c \in Conn /\ at[s] = "none" /\ at[r] = "none"
      <4>1. index \in 1..Acceptors /\ backlog[index] \in Seq(Conn)
        BY <3>1 DEF TypeOK
      <4>2. c \in Conn
        BY <3>1, <4>1, HeadTailProperties
      <4>3. c \in ToSet(backlog[index])
        BY <3>1, <4>1, <4>2, ListProperties
      <4> QED
        BY <4>1, <4>2, <4>3 DEF IInv, WaitingOK
    <3> HIDE DEF c
    <3>3. ASSUME NEW d \in Conn PROVE HandsOK(d)'
      <4>1. CASE d = c
        <5>1. at'[s] = "check" /\ at'[r] = "check"
          BY <1>4, <3>1, <3>2
        <5> QED
          BY <2>2, <3>1, <3>2, <4>1, <5>1 DEF HandsOK
      <4>2. CASE d # c
        <5>1. at'[SendThread(d)] = at[SendThread(d)] /\ at'[ReceiveThread(d)] = at[ReceiveThread(d)]
          BY <1>4, <3>1, <3>2, <4>2
        <5> QED
          BY <2>5, <3>1, <5>1
      <4> QED
        BY <4>1, <4>2
    <3> QED
      BY <2>3, <2>4, <3>1, <3>3 DEF TrafficOK, queues
  <2>11. CASE AggregatorStep
    <3>1. AcceptConnection \/ UNCHANGED <<at, held, sent, rcvd>>
      BY <2>11 DEF AggregatorStep, LoopTop, AcceptNothing, ScanNothing, ScanException, RemoveSendThread,
                   RemoveReceiveThread, EraseConnection, Connection!Destroy, connVars, threadVars
    <3> QED
      BY <2>6, <2>10, <2>11, <3>1 DEF AggregatorStep, appVars
  <2>12. CASE AcceptFault
    <3>1. UNCHANGED <<at, held, sent, rcvd, queues, got, replied>>
      BY <2>12 DEF AcceptFault, HandshakeThrows, Connection!Destroy, connVars, threadVars, appVars
    <3> QED
      BY <2>6, <3>1
  <2>13. CASE ReturnEnvelope
    <3>1. UNCHANGED <<at, held, sent, rcvd, sendQueue, replied>>
      BY <2>13 DEF ReturnEnvelope, connVars, threadVars
    <3>2. CASE receiveQueue = <<>>
      BY <2>6, <2>13, <3>1, <3>2 DEF ReturnEnvelope, queues
    <3>3. CASE receiveQueue # <<>>
      <4> DEFINE e == receiveQueue[1]
                 z == Tail(receiveQueue)
      <4>1. got' = [got EXCEPT ![e[1]] = e[2]] /\ receiveQueue' = z
        BY <2>1, <2>13, <3>3 DEF ReturnEnvelope
      <4>2. /\ z \in Seq(Conn \X Nat) /\ Len(z) = Len(receiveQueue) - 1 /\ 1 \in 1..Len(receiveQueue)
            /\ \A i \in 1..Len(z) : z[i] = IF i < 1 THEN receiveQueue[i] ELSE receiveQueue[i+1]
        <5>1. Len(receiveQueue) \in Nat \ {0}
          BY <2>1, <3>3, LenProperties, EmptySeq
        <5>2. z \in Seq(Conn \X Nat) /\ Len(z) = Len(receiveQueue) - 1
              /\ \A i \in 1..Len(z) : z[i] = receiveQueue[i+1]
          BY <2>1, <3>3, HeadTailProperties
        <5> QED
          BY <5>1, <5>2
      <4>3. e \in Conn \X Nat /\ e[1] \in Conn
        BY <2>1, <4>2, ElementOfSeq
      <4> HIDE DEF z, e
      <4>4. ASSUME NEW d \in Conn PROVE InboundOK(d)'
        <5> DEFINE m == got[d]
                   n == rcvd[Server(d)] - InHand(ReceiveThread(d))
        <5>1. m \in Nat /\ n \in Nat /\ InOrder(d, receiveQueue, m, n)
          <6>1. InboundOK(d) /\ got[d] \in Nat /\ rcvd[Server(d)] \in Nat
            BY <1>4, <2>1, <2>2
          <6> QED
            BY <6>1 DEF InboundOK, InHand
        <5>2. /\ held'[ReceiveThread(d)] \in {0, rcvd'[Server(d)]}
              /\ rcvd'[Server(d)] - InHand(ReceiveThread(d))' = n
          BY <2>2, <3>1 DEF InboundOK, InHand
        <5> HIDE DEF m, n
        <5>3. /\ e[1] # d => InOrder(d, z, m, n)
              /\ e[1] = d => e = <<d, m + 1>> /\ InOrder(d, z, m + 1, n)
          <6>1. \A j \in 1..Len(receiveQueue) : 1 <= j
            OBVIOUS
          <6>2. /\ receiveQueue[1][1] # d => InOrder(d, z, m, n)
                /\ receiveQueue[1][1] = d /\ (\A j \in 1..Len(receiveQueue) : receiveQueue[j][1] = d => 1 <= j) =>
                     receiveQueue[1] = <<d, m + 1>> /\ InOrder(d, z, m + 1, n)
            BY <1>3, <2>1, <4>2, <5>1
          <6> QED
            BY <6>1, <6>2 DEF e
        <5>4. CASE e[1] = d
          <6>1. got'[d] = m + 1
            BY <2>1, <4>1, <5>3, <5>4
          <6> QED
            BY <4>1, <5>2, <5>3, <5>4, <6>1 DEF InboundOK
        <5>5. CASE e[1] # d
          <6>1. got'[d] = m
            BY <2>1, <4>1, <5>5 DEF m
          <6> QED
            BY <4>1, <5>2, <5>3, <5>5, <6>1 DEF InboundOK
        <5> QED
          BY <5>4, <5>5
      <4> QED
        BY <2>4, <2>5, <3>1, <4>4 DEF TrafficOK
    <3> QED
      BY <3>2, <3>3
  <2>14. ASSUME NEW c \in Conn, Send(c) PROVE TrafficOK'
    <3> DEFINE e == <<c, replied[c] + 1>>
    <3>1. /\ UNCHANGED <<at, held, sent, rcvd, receiveQueue, got>>
          /\ sendQueue' = Append(sendQueue, e)
          /\ replied' = [replied EXCEPT ![c] = replied[c] + 1]
      BY <2>14 DEF Send, connVars, threadVars
    <3>2. e \in Conn \X Nat /\ e[1] = c
      BY <2>1
    <3>3. ASSUME NEW d \in Conn PROVE OutboundOK(d)'
      <4> DEFINE m == sent[Client(d)] + InHand(SendThread(d))
                 n == replied[d]
      <4>1. m \in Nat /\ n \in Nat /\ InOrder(d, sendQueue, m, n)
        <5>1. OutboundOK(d) /\ sent[Client(d)] \in Nat /\ replied[d] \in Nat
          BY <1>4, <2>1, <2>2
        <5> QED
          BY <5>1 DEF OutboundOK, InHand
      <4>2. /\ held'[SendThread(d)] \in {0, sent'[Client(d)] + 1}
            /\ sent'[Client(d)] + InHand(SendThread(d))' = m
        BY <2>2, <3>1 DEF OutboundOK, InHand
      <4>3. CASE c = d
        <5>1. replied'[d] = n + 1 /\ e = <<d, n + 1>>
          BY <2>1, <3>1, <4>3
        <5> HIDE DEF m, n, e
        <5>2. InOrder(d, Append(sendQueue, e), m, n + 1)
          BY <1>1, <2>1, <4>1, <5>1
        <5> QED
          BY <3>1, <4>2, <5>1, <5>2 DEF OutboundOK
      <4>4. CASE c # d
        <5>1. replied'[d] = n
          BY <2>1, <3>1, <4>4
        <5> HIDE DEF m, n, e
        <5>2. InOrder(d, Append(sendQueue, e), m, n)
          BY <1>2, <2>1, <3>2, <4>1, <4>4
        <5> QED
          BY <3>1, <4>2, <5>1, <5>2 DEF OutboundOK
      <4> QED
        BY <4>3, <4>4
    <3> QED
      BY <2>3, <2>5, <3>1, <3>3 DEF TrafficOK
  <2>15. CASE Poll \/ Interrupt \/ Destruct
    BY <2>6, <2>15 DEF Poll, CallReceive, Throw, Interrupt, Destruct, connVars, threadVars, queues
  <2>16. CASE AppStep
    <3>1. ReturnEnvelope \/ UNCHANGED <<at, held, sent, rcvd, queues, got, replied>>
      BY <2>16 DEF AppStep, Catch, InterruptAll, DestructorStep, JoinAggregator, DestroyRunnable,
                   DestroyConnection, Connection!Destroy, Destroyed, connVars, threadVars, appVars
    <3> QED
      BY <2>6, <2>13, <3>1
  <2>17. CASE UNCHANGED vars
    BY <2>6, <2>17 DEF vars, netVars, connVars, threadVars, appVars
  <2> QED
    BY <2>7, <2>8, <2>9, <2>11, <2>12, <2>14, <2>15, <2>16, <2>17 DEF Next, Call
<1>7. TrafficOK => InboundIntact /\ OutboundIntact
  BY DEF InboundIntact, OutboundIntact, InboundOK, OutboundOK
<1> HIDE DEF TrafficOK
<1> QED
  BY <1>5, <1>6, <1>7, TypeCorrect, Invariance, PTL DEF Spec

\* What a connection delivered reaches the application in order, nothing
\* missing and nothing twice.
THEOREM ReceivedInOrder == Spec => []InboundIntact
BY Traffic, PTL

\* Replies reach the connection they are addressed to, in order.
THEOREM RepliedInOrder == Spec => []OutboundIntact
BY Traffic, PTL
=============================================================================
