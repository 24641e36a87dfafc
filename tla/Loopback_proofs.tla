-------------------------- MODULE Loopback_proofs --------------------------
(***************************************************************************)
(* Proofs about the loopback transport.  For any pairing of endpoints and  *)
(* any number of messages, the Disconnect of an endpoint is never lost,    *)
(* and LoopbackConnection implements MessageConnection.  For any numbers   *)
(* of factories, clients, acceptors and connections, AcceptedInOrder of    *)
(* ConnectionSpawner holds.                                                *)
(***************************************************************************)
EXTENDS LoopbackConnection, ConnectionSpawner, SequenceLemmas

-----------------------------------------------------------------------------
(* LoopbackConnection *)

\* A thread inside a call keeps its endpoint from being destroyed, and holds
\* a signal only between taking it and acting on it.
CallsOK ==
  \A t \in Thread :
    /\ pc[t] \in {"polled", "connected"} => At(t) \in alive
    /\ t \in saw => pc[t] = "polled"

\* What is in an inbox are the messages after the last one received.
InboxInOrder ==
  \A e \in Endpoint :
    /\ sent[e] = rcvd[e] + Len(inbox[e])
    /\ \A i \in 1..Len(inbox[e]) : inbox[e][i] = rcvd[e] + i

IInv == TypeOK /\ CallsOK /\ InboxInOrder /\ DisconnectKept

\* Each endpoint is the peer of its peer, and of no other.
LEMMA Peers ==
  /\ \A e \in Endpoint : Peer[e] \in Endpoint /\ Peer[e] # e /\ Peer[Peer[e]] = e
  /\ \A t \in Thread : At(t) \in Endpoint
BY PairAssumption DEF Thread, At

\* The message received is the next one.
LEMMA NextMessage ==
  ASSUME IInv, NEW e \in Endpoint, inbox[e] # <<>>
  PROVE  Head(inbox[e]) = rcvd[e] + 1 /\ rcvd[e] < sent[e]
<1>1. inbox[e] \in Seq(Nat) /\ rcvd[e] \in Nat
  BY DEF IInv, TypeOK
<1>2. Len(inbox[e]) \in Nat /\ Len(inbox[e]) > 0  BY <1>1
<1>3. Head(inbox[e]) = inbox[e][1]  BY <1>1, <1>2
<1> QED  BY <1>1, <1>2, <1>3 DEF IInv, InboxInOrder

\* Every step keeps the invariant.
LEMMA NextIInv == IInv /\ [Next]_vars => IInv'
<1> SUFFICES ASSUME IInv, [Next]_vars PROVE IInv'
  OBVIOUS
<1>1. CASE UNCHANGED vars
  BY <1>1 DEF vars, connVars, IInv, TypeOK, CallsOK, InboxInOrder,
              DisconnectKept
\* Taking a signal moves the Disconnect from the queue to the thread.
<1>2. ASSUME NEW t \in Thread, PollSignal(t) PROVE IInv'
  <2> USE <1>2
  <2> DEFINE e == At(t)
  <2>0. e \in Endpoint  BY Peers
  <2>1. TypeOK'
    <3>1. signals' \in [Endpoint -> Nat] /\ saw' \subseteq Thread
      <4>1. CASE signals[e] > 0
        <5>1. signals' = [signals EXCEPT ![e] = signals[e] - 1] /\ saw' = saw \cup {t}
          BY <4>1 DEF PollSignal, SignalPending
        <5>2. signals[e] - 1 \in Nat  BY <2>0, <4>1 DEF IInv, TypeOK
        <5> QED  BY <5>1, <5>2 DEF IInv, TypeOK
      <4>2. CASE ~(signals[e] > 0)
        BY <4>2 DEF PollSignal, SignalPending, IInv, TypeOK
      <4> QED  BY <4>1, <4>2
    <3> QED  BY <3>1 DEF IInv, PollSignal, Goto, TypeOK, connVars
  <2>2. CallsOK'
    BY DEF IInv, PollSignal, Goto, TypeOK, CallsOK, connVars
  <2>3. InboxInOrder'
    BY DEF IInv, PollSignal, InboxInOrder, connVars
  <2>4. DisconnectKept'
    <3> SUFFICES ASSUME NEW f \in Endpoint
                 PROVE  (Peer[f] \notin alive') <=>
                          \/ signals'[f] > 0
                          \/ \E u \in saw' : At(u) = f
                          \/ ~connected'[f]
      BY DEF DisconnectKept
    <3>1. (Peer[f] \notin alive) <=>
            signals[f] > 0 \/ (\E u \in saw : At(u) = f) \/ ~connected[f]
      BY DEF IInv, DisconnectKept
    <3>2. alive' = alive /\ connected' = connected
      BY DEF PollSignal, connVars
    <3>3. CASE signals[e] > 0
      <4>1. signals' = [signals EXCEPT ![e] = @ - 1] /\ saw' = saw \cup {t}
        BY <3>3 DEF PollSignal, SignalPending
      <4>2. CASE f = e
        BY <3>1, <3>2, <3>3, <4>1, <4>2
      <4>3. CASE f # e
        <5>1. signals'[f] = signals[f]  BY <4>1, <4>3 DEF IInv, TypeOK
        <5>2. (\E u \in saw' : At(u) = f) <=> (\E u \in saw : At(u) = f)
          BY <4>1, <4>3
        <5> QED  BY <3>1, <3>2, <5>1, <5>2
      <4> QED  BY <4>2, <4>3
    <3>4. CASE ~(signals[e] > 0)
      BY <3>1, <3>2, <3>4 DEF PollSignal, SignalPending
    <3> QED  BY <3>3, <3>4
  <2> QED  BY <2>1, <2>2, <2>3, <2>4 DEF IInv
\* Reporting the closed connection moves it on into connected_.
<1>3. ASSUME NEW t \in Thread, ThrowClosed(t) PROVE IInv'
  <2> USE <1>3
  <2> DEFINE e == At(t)
  <2>0. e \in Endpoint  BY Peers
  <2>a. /\ connected' = [connected EXCEPT ![e] = @ /\ t \notin saw]
        /\ saw' = saw \ {t}
        /\ signals' = signals /\ alive' = alive
    BY DEF ThrowClosed, RememberDisconnect
  <2>1. TypeOK'
    BY <2>0 DEF IInv, ThrowClosed, RememberDisconnect, Goto, TypeOK
  <2>2. CallsOK'
    BY DEF IInv, ThrowClosed, Goto, TypeOK, CallsOK
  <2>3. InboxInOrder'
    BY DEF IInv, ThrowClosed, InboxInOrder
  <2>4. DisconnectKept'
    <3> SUFFICES ASSUME NEW f \in Endpoint
                 PROVE  (Peer[f] \notin alive') <=>
                          \/ signals'[f] > 0
                          \/ \E u \in saw' : At(u) = f
                          \/ ~connected'[f]
      BY DEF DisconnectKept
    <3>1. (Peer[f] \notin alive) <=>
            signals[f] > 0 \/ (\E u \in saw : At(u) = f) \/ ~connected[f]
      BY DEF IInv, DisconnectKept
    <3>2. CASE f = e
      <4>1. ~connected'[f]
        BY <2>0, <2>a, <3>2 DEF ThrowClosed, IInv, TypeOK
      <4>2. Peer[f] \notin alive
        BY <3>1, <3>2 DEF ThrowClosed
      <4> QED  BY <2>a, <4>1, <4>2
    <3>3. CASE f # e
      <4>1. connected'[f] = connected[f]
        BY <2>a, <3>3 DEF IInv, TypeOK
      <4>2. (\E u \in saw' : At(u) = f) <=> (\E u \in saw : At(u) = f)
        BY <2>a, <3>3
      <4> QED  BY <2>a, <3>1, <4>1, <4>2
    <3> QED  BY <3>2, <3>3
  <2> QED  BY <2>1, <2>2, <2>3, <2>4 DEF IInv
\* The steps that neither move a Disconnect nor destroy an endpoint.
<1>4. ASSUME NEW t \in Thread,
             \/ SeeConnected(t) \/ ReturnConnected(t) \/ ReceiveNothing(t)
      PROVE  IInv'
  <2> USE <1>4
  <2>1. TypeOK'
    BY DEF IInv, SeeConnected, ReturnConnected, ReceiveNothing, Goto, TypeOK,
           connVars
  <2>2. CallsOK'
    BY DEF IInv, SeeConnected, ReturnConnected, ReceiveNothing, Goto, TypeOK,
           CallsOK, connVars
  <2>3. UNCHANGED <<inbox, signals, connected, alive, saw, sent, rcvd>>
    BY DEF SeeConnected, ReturnConnected, ReceiveNothing, connVars
  <2>4. InboxInOrder' /\ DisconnectKept'
    BY <2>3 DEF IInv, InboxInOrder, DisconnectKept
  <2> QED  BY <2>1, <2>2, <2>4 DEF IInv
\* A message sent goes behind those already in the peer's inbox.
<1>5. ASSUME NEW t \in Thread, Send(t) PROVE IInv'
  <2> USE <1>5
  <2> DEFINE p == Peer[At(t)]
  <2>0. p \in Endpoint  BY Peers
  <2>a. /\ inbox' = [inbox EXCEPT ![p] = Append(inbox[p], sent[p] + 1)]
        /\ sent' = [sent EXCEPT ![p] = sent[p] + 1]
        /\ rcvd' = rcvd
    BY DEF Send, ToPeersQueue
  <2>b. inbox \in [Endpoint -> Seq(Nat)] /\ sent \in [Endpoint -> Nat]
        /\ rcvd \in [Endpoint -> Nat]
    BY DEF IInv, TypeOK
  <2>1. TypeOK'
    <3>1. inbox' \in [Endpoint -> Seq(Nat)] /\ sent' \in [Endpoint -> Nat]
      BY <2>0, <2>a, <2>b
    <3> QED  BY <3>1, <2>a DEF IInv, Send, Goto, TypeOK
  <2>2. CallsOK'
    BY DEF IInv, Send, Goto, TypeOK, CallsOK
  <2>3. InboxInOrder'
    <3> SUFFICES ASSUME NEW e \in Endpoint
                 PROVE  /\ sent'[e] = rcvd'[e] + Len(inbox'[e])
                        /\ \A i \in 1..Len(inbox'[e]) : inbox'[e][i] = rcvd'[e] + i
      BY DEF InboxInOrder
    <3>1. /\ sent[e] = rcvd[e] + Len(inbox[e])
          /\ \A i \in 1..Len(inbox[e]) : inbox[e][i] = rcvd[e] + i
      BY DEF IInv, InboxInOrder
    <3>2. CASE e = p
      <4> DEFINE q == inbox[p]
      <4>1. q \in Seq(Nat) /\ Len(q) \in Nat /\ sent[p] \in Nat /\ rcvd[p] \in Nat
        BY <2>0, <2>b
      <4>0. sent[p] = rcvd[p] + Len(q)  BY <3>1, <3>2
      <4>2. inbox'[p] = Append(q, sent[p] + 1) /\ sent'[p] = sent[p] + 1
        BY <2>0, <2>a, <2>b
      <4>3. Len(inbox'[p]) = Len(q) + 1  BY <4>1, <4>2
      <4>4. ASSUME NEW i \in 1..Len(q) + 1
            PROVE  inbox'[p][i] = rcvd[p] + i
        <5>1. CASE i = Len(q) + 1
          <6>1. inbox'[p][i] = sent[p] + 1  BY <4>1, <4>2, <5>1
          <6> QED  BY <4>0, <4>1, <5>1, <6>1
        <5>2. CASE i # Len(q) + 1
          <6>1. i \in 1..Len(q)  BY <4>1, <5>2
          <6>2. inbox'[p][i] = q[i]  BY <4>1, <4>2, <6>1
          <6> QED  BY <3>1, <3>2, <6>1, <6>2
        <5> QED  BY <5>1, <5>2
      <4> HIDE DEF p, q
      <4>5. sent'[p] = rcvd'[p] + Len(inbox'[p])
        <5>1. sent'[p] = sent[p] + 1  BY <4>2
        <5>2. rcvd'[p] = rcvd[p]  BY <2>a
        <5>3. Len(q) \in Nat /\ rcvd[p] \in Nat  BY <4>1
        <5> QED  BY <4>0, <4>3, <5>1, <5>2, <5>3
      <4>6. \A i \in 1..Len(inbox'[p]) : inbox'[p][i] = rcvd'[p] + i
        BY <2>a, <4>3, <4>4
      <4> QED  BY <3>2, <4>5, <4>6
    <3>3. CASE e # p
      BY <2>a, <2>b, <3>1, <3>3
    <3> QED  BY <3>2, <3>3
  <2>4. DisconnectKept'
    BY DEF IInv, Send, DisconnectKept
  <2> QED  BY <2>1, <2>2, <2>3, <2>4 DEF IInv
\* What is left in the inbox are the messages after it.
<1>6. ASSUME NEW t \in Thread, Receive(t) PROVE IInv'
  <2> USE <1>6
  <2> DEFINE e == At(t)  q == inbox[e]
  <2>0. e \in Endpoint  BY Peers
  <2>a. q # <<>>  BY DEF Receive
  <2>b. Head(q) = rcvd[e] + 1 /\ rcvd[e] < sent[e]
    BY <2>0, <2>a, NextMessage
  <2>c. /\ inbox' = [inbox EXCEPT ![e] = Tail(q)]
        /\ rcvd' = [rcvd EXCEPT ![e] = rcvd[e] + 1]
        /\ sent' = sent
    BY <2>b DEF Receive
  <2>d. inbox \in [Endpoint -> Seq(Nat)] /\ sent \in [Endpoint -> Nat]
        /\ rcvd \in [Endpoint -> Nat]
    BY DEF IInv, TypeOK
  <2>e. Tail(q) \in Seq(Nat)  BY <2>0, <2>a, <2>d
  <2>1. TypeOK'
    <3>1. inbox' \in [Endpoint -> Seq(Nat)] /\ rcvd' \in [Endpoint -> Nat]
      BY <2>0, <2>c, <2>d, <2>e
    <3> QED  BY <3>1, <2>c DEF IInv, Receive, Goto, TypeOK
  <2>2. CallsOK'
    BY DEF IInv, Receive, Goto, TypeOK, CallsOK
  <2>3. InboxInOrder'
    <3> SUFFICES ASSUME NEW f \in Endpoint
                 PROVE  /\ sent'[f] = rcvd'[f] + Len(inbox'[f])
                        /\ \A i \in 1..Len(inbox'[f]) : inbox'[f][i] = rcvd'[f] + i
      BY DEF InboxInOrder
    <3>1. /\ sent[f] = rcvd[f] + Len(inbox[f])
          /\ \A i \in 1..Len(inbox[f]) : inbox[f][i] = rcvd[f] + i
      BY DEF IInv, InboxInOrder
    <3>2. CASE f = e
      <4>1. q \in Seq(Nat) /\ Len(q) \in Nat /\ sent[e] \in Nat /\ rcvd[e] \in Nat
        BY <2>0, <2>d
      <4>2. inbox'[e] = Tail(q) /\ rcvd'[e] = rcvd[e] + 1 /\ sent'[e] = sent[e]
        BY <2>0, <2>c, <2>d
      <4>3. Len(q) > 0 /\ Len(Tail(q)) = Len(q) - 1
        BY <2>a, <4>1
      <4>4. ASSUME NEW i \in 1..Len(q) - 1
            PROVE  Tail(q)[i] = rcvd[e] + 1 + i
        <5>1. i + 1 \in 1..Len(q) /\ Tail(q)[i] = q[i + 1]
          BY <2>a, <4>1, <4>3
        <5>2. q[i + 1] = rcvd[e] + (i + 1)  BY <3>1, <3>2, <5>1
        <5>3. rcvd[e] \in Nat /\ i \in Nat  BY <4>1, <4>3
        <5>4. rcvd[e] + (i + 1) = rcvd[e] + 1 + i  BY <5>3
        <5> HIDE DEF q
        <5> QED  BY <5>1, <5>2, <5>4
      <4> HIDE DEF e, q
      <4>5. sent'[e] = rcvd'[e] + Len(inbox'[e])
        BY <3>1, <3>2, <4>1, <4>2, <4>3 DEF q
      <4>6. \A i \in 1..Len(inbox'[e]) : inbox'[e][i] = rcvd'[e] + i
        BY <4>2, <4>3, <4>4
      <4> QED  BY <3>2, <4>5, <4>6
    <3>3. CASE f # e
      BY <2>c, <2>d, <3>1, <3>3
    <3> QED  BY <3>2, <3>3
  <2>4. DisconnectKept'
    BY DEF IInv, Receive, DisconnectKept
  <2> QED  BY <2>1, <2>2, <2>3, <2>4 DEF IInv
\* Only the peer of the destroyed endpoint is told, and it is.
<1>7. ASSUME NEW e \in Endpoint, Destroy(e) PROVE IInv'
  <2> USE <1>7
  <2> DEFINE p == Peer[e]
  <2>0. p \in Endpoint  BY Peers
  <2>a. /\ signals' = [signals EXCEPT ![p] = signals[p] + 1]
        /\ alive' = alive \ {e}
        /\ UNCHANGED <<connected, saw>>
    BY DEF Destroy, SignalPeer
  <2>b. signals \in [Endpoint -> Nat]  BY DEF IInv, TypeOK
  <2>1. TypeOK'
    <3>1. signals' \in [Endpoint -> Nat]  BY <2>0, <2>a, <2>b
    <3> QED  BY <3>1, <2>a DEF IInv, Destroy, TypeOK
  <2>2. CallsOK'
    <3> SUFFICES ASSUME NEW t \in Thread
                 PROVE  /\ pc'[t] \in {"polled", "connected"} => At(t) \in alive'
                        /\ t \in saw' => pc'[t] = "polled"
      BY DEF CallsOK
    <3>1. At(t) = e => pc[t] \in {"idle", "closed"}
      BY DEF Destroy, Thread, Role, At
    <3> QED  BY <2>a, <3>1 DEF IInv, CallsOK, Destroy
  <2>3. InboxInOrder'
    BY DEF IInv, Destroy, InboxInOrder
  <2>4. DisconnectKept'
    <3> SUFFICES ASSUME NEW f \in Endpoint
                 PROVE  (Peer[f] \notin alive') <=>
                          \/ signals'[f] > 0
                          \/ \E u \in saw' : At(u) = f
                          \/ ~connected'[f]
      BY DEF DisconnectKept
    <3>1. (Peer[f] \notin alive) <=>
            signals[f] > 0 \/ (\E u \in saw : At(u) = f) \/ ~connected[f]
      BY DEF IInv, DisconnectKept
    <3>2. CASE f = p
      <4>1. Peer[f] = e  BY <3>2, Peers
      <4>2. signals'[f] > 0  BY <2>0, <2>a, <2>b, <3>2
      <4> QED  BY <2>a, <4>1, <4>2
    <3>3. CASE f # p
      <4>1. Peer[f] # e  BY <3>3, Peers
      <4>2. signals'[f] = signals[f]  BY <2>a, <2>b, <3>3
      <4> QED  BY <2>a, <3>1, <4>1, <4>2
    <3> QED  BY <3>2, <3>3
  <2> QED  BY <2>1, <2>2, <2>3, <2>4 DEF IInv
<1> QED  BY <1>1, <1>2, <1>3, <1>4, <1>5, <1>6, <1>7 DEF Next, Call

-----------------------------------------------------------------------------
\* The invariant the following theorems rest on.
THEOREM Invariance == Spec => []IInv
<1>1. ASSUME Init PROVE IInv
  <2> USE <1>1
  <2>1. TypeOK  BY DEF Init, TypeOK
  <2>2. CallsOK  BY DEF Init, CallsOK
  <2>3. InboxInOrder
    <3> SUFFICES ASSUME NEW e \in Endpoint
                 PROVE  /\ sent[e] = rcvd[e] + Len(inbox[e])
                        /\ \A i \in 1..Len(inbox[e]) : inbox[e][i] = rcvd[e] + i
      BY DEF InboxInOrder
    <3>1. sent[e] = 0 /\ rcvd[e] = 0 /\ inbox[e] = <<>>  BY DEF Init
    <3>2. Len(inbox[e]) = 0  BY <3>1
    <3> QED  BY <3>1, <3>2
  <2>4. DisconnectKept
    <3> SUFFICES ASSUME NEW e \in Endpoint
                 PROVE  (Peer[e] \notin alive) <=>
                          \/ signals[e] > 0
                          \/ \E t \in saw : At(t) = e
                          \/ ~connected[e]
      BY DEF DisconnectKept
    <3>1. Peer[e] \in alive  BY Peers DEF Init
    <3>2. ~(signals[e] > 0) /\ saw = {} /\ connected[e]  BY DEF Init
    <3> QED  BY <3>1, <3>2
  <2> QED  BY <2>1, <2>2, <2>3, <2>4 DEF IInv
<1> QED  BY <1>1, NextIInv, PTL DEF Spec

\* Every variable keeps its type, with any number of endpoints.
THEOREM TypeCorrect == Spec => []TypeOK
<1>1. IInv => TypeOK  BY DEF IInv
<1> QED  BY <1>1, Invariance, PTL

\* The one Disconnect an endpoint leaves (LoopbackConnection.cpp, line 34)
\* stays in its peer's signal queue, with one of its threads, or in
\* connected_, although the threads race for it without a lock.
THEOREM DisconnectNeverLost == Spec => []DisconnectKept
<1>1. IInv => DisconnectKept  BY DEF IInv
<1> QED  BY <1>1, Invariance, PTL

\* Every step is one of the abstract connection, or invisible there.
LEMMA NextImplements == IInv /\ [Next]_vars => [Abstract!ConnNext]_(Abstract!connVars)
<1> USE DEF Abstract!connVars
<1> SUFFICES ASSUME IInv, [Next]_vars PROVE [Abstract!ConnNext]_(Abstract!connVars)
  OBVIOUS
<1>1. CASE UNCHANGED vars
  BY <1>1 DEF vars, connVars
<1>2. ASSUME NEW t \in Thread, Call(t)
      PROVE  [Abstract!ConnNext]_(Abstract!connVars)
  <2> DEFINE e == At(t)
  <2>0. e \in Endpoint  BY Peers
  <2>1. CASE PollSignal(t) \/ SeeConnected(t) \/ ReturnConnected(t)
             \/ ReceiveNothing(t)
    BY <2>1 DEF PollSignal, SeeConnected, ReturnConnected, ReceiveNothing,
                connVars
  <2>2. CASE ThrowClosed(t)
    <3>1. e \in alive /\ Peer[e] \notin alive
      BY <2>0, <2>2 DEF IInv, ThrowClosed, CallsOK, DisconnectKept
    <3>2. Abstract!RaiseClosed(e)
      BY <2>2, <3>1 DEF ThrowClosed, Abstract!RaiseClosed
    <3> QED  BY <2>0, <3>2 DEF Abstract!ConnNext
  <2>3. CASE Send(t)
    <3>1. e \in alive  BY <2>3 DEF IInv, CallsOK, Send
    <3>2. Abstract!Send(e)
      BY <2>3, <3>1 DEF Send, Abstract!Send
    <3> QED  BY <2>0, <3>2 DEF Abstract!ConnNext
  <2>4. CASE Receive(t)
    <3>1. e \in alive  BY <2>4 DEF IInv, CallsOK, Receive
    <3>2. Head(inbox[e]) = rcvd[e] + 1 /\ rcvd[e] < sent[e]
      BY <2>0, <2>4, NextMessage DEF Receive
    <3>3. Abstract!Receive(e)
      BY <2>4, <3>1, <3>2 DEF Receive, Abstract!Receive
    <3> QED  BY <2>0, <3>3 DEF Abstract!ConnNext
  <2> QED  BY <1>2, <2>1, <2>2, <2>3, <2>4 DEF Call
<1>3. ASSUME NEW e \in Endpoint, Destroy(e)
      PROVE  [Abstract!ConnNext]_(Abstract!connVars)
  <2>1. Abstract!Destroy(e)
    BY <1>3 DEF Destroy, Abstract!Destroy
  <2> QED  BY <2>1 DEF Abstract!ConnNext
<1> QED  BY <1>1, <1>2, <1>3 DEF Next

\* LoopbackConnection keeps what MessageConnection promises: messages in
\* order and once each, and ConnectionClosedError only for a peer that is
\* gone.
THEOREM Implementation == Spec => Implements
<1>1. Init => Abstract!ConnInit
  BY DEF Init, Abstract!ConnInit
<1>2. IInv /\ [Next]_vars => [Abstract!ConnNext]_(Abstract!connVars)
  BY NextImplements
<1> QED
  BY <1>1, <1>2, Invariance, PTL DEF Spec, Implements, Abstract!ConnSpec

-----------------------------------------------------------------------------
(* ConnectionSpawner: a factory has one spawner for each name, in whose    *)
(* queue the connections made for it wait, in order, until they are        *)
(* accepted.                                                               *)

Made == [spawner : Factory \X Nat, local : Nat, peer : Nat]
Waiting(f, i) == spawners[f][i].waiting

\* As much of the type of the state as the order of connections needs.
SpawnersTyped ==
  /\ spawners \in [Factory -> Seq([name : Nat, waiting : Seq(Nat)])]
  /\ autoPort \in Nat

ClientsTyped ==
  /\ step \in [Client -> {"idle", "number", "write", "queue"}]
  /\ read \in [Client -> Nat]
  /\ names \in [Client -> Seq(Nat)]
  /\ counter \in Nat
  /\ made \in Seq(Made)
  /\ \A c \in Client :
       /\ step[c] = "idle" => names[c] = <<>>
       /\ step[c] \in {"number", "write"} => Len(names[c]) < 2
       /\ step[c] = "queue" => Len(names[c]) = 2

\* A name has one spawner, and only spawners are used.
OneOfEachName ==
  \A f \in Factory : \A i, j \in 1..Len(spawners[f]) :
    spawners[f][i].name = spawners[f][j].name => i = j

InUse ==
  /\ bound \in [Acceptor -> SUBSET Spawner]
  /\ request \in [Client -> SUBSET Spawner]
  /\ \A k \in 1..Len(made) : made[k].spawner \in Spawner
  /\ accepted \subseteq 1..Len(made)

\* What waits at a spawner, and in which order it was and will be accepted.
MadeFor(f, i) == {k \in 1..Len(made) : made[k].spawner = <<f, i>>}
WaitingOK ==
  \A f \in Factory : \A i \in 1..Len(spawners[f]) :
    /\ \A j, l \in 1..Len(Waiting(f, i)) : j < l => Waiting(f, i)[j] < Waiting(f, i)[l]
    /\ {Waiting(f, i)[j] : j \in 1..Len(Waiting(f, i))} = MadeFor(f, i) \ accepted
InTurn ==
  \A k \in accepted : \A l \in 1..k-1 : made[l].spawner = made[k].spawner => l \in accepted

SpawnerInv ==
  SpawnersTyped /\ ClientsTyped /\ OneOfEachName /\ InUse /\ WaitingOK /\ InTurn

\* Membership in Spawner, and what found spawners are.
LEMMA SpawnerIs ==
  ASSUME NEW f \in Factory, NEW i
  PROVE  <<f, i>> \in Spawner <=> i \in 1..Len(spawners[f])
BY DEF Spawner

LEMMA FoundIs ==
  ASSUME SpawnersTyped, NEW f \in Factory, NEW name
  PROVE  /\ Found(f, name) \subseteq Spawner
         /\ Found(f, name) = {} => \A i \in 1..Len(spawners[f]) : spawners[f][i].name # name
<1>1. Found(f, name) \subseteq Spawner  BY DEF Found, Spawner
<1>2. ASSUME NEW i \in 1..Len(spawners[f]), spawners[f][i].name = name
      PROVE  Found(f, name) # {}
  <2> DEFINE same == {j \in 1..Len(spawners[f]) : spawners[f][j].name = name}
  <2>1. same \in SUBSET Nat /\ same # {}  BY <1>2
  <2> HIDE DEF same
  <2>2. PICK j \in same : \A k \in same : j <= k  BY <2>1, LeastElement
  <2> USE DEF same
  <2> QED  BY <2>2 DEF Found
<1> QED  BY <1>1, <1>2

\* What a change of one queue leaves alone.
QueueBecomes(f, i, q) == spawners' = [spawners EXCEPT ![f][i].waiting = q]
OthersKept(f, i, q) ==
  /\ SpawnersTyped' /\ Spawner' = Spawner
  /\ \A g \in Factory :
       /\ Len(spawners'[g]) = Len(spawners[g])
       /\ \A j \in 1..Len(spawners[g]) :
            /\ spawners'[g][j].name = spawners[g][j].name
            /\ Waiting(g, j)' = IF g = f /\ j = i THEN q ELSE Waiting(g, j)

LEMMA QueueChanged ==
  ASSUME SpawnersTyped, NEW f \in Factory, NEW i \in 1..Len(spawners[f]), NEW q \in Seq(Nat),
         QueueBecomes(f, i, q), UNCHANGED autoPort
  PROVE  OthersKept(f, i, q)
<1> DEFINE S == [name : Nat, waiting : Seq(Nat)]
           t == spawners[f]
           r == [t[i] EXCEPT !.waiting = q]
<1>1. t \in Seq(S) /\ t[i] \in S /\ Len(t) \in Nat
  BY ElementOfSeq, LenProperties DEF SpawnersTyped
<1>2. r \in S /\ r.name = t[i].name /\ r.waiting = q  BY <1>1
<1>3. spawners' = [spawners EXCEPT ![f] = [t EXCEPT ![i] = r]]  BY DEF QueueBecomes
<1> HIDE DEF S, r
<1>4. /\ [t EXCEPT ![i] = r] \in Seq(S) /\ Len([t EXCEPT ![i] = r]) = Len(t)
      /\ \A j \in 1..Len(t) : [t EXCEPT ![i] = r][j] = IF j = i THEN r ELSE t[j]
  BY <1>1, <1>2, ExceptSeq
<1>5. spawners' \in [Factory -> Seq(S)]  BY <1>3, <1>4 DEF SpawnersTyped, S
<1>6. \A g \in Factory :
        /\ Len(spawners'[g]) = Len(spawners[g])
        /\ \A j \in 1..Len(spawners[g]) :
             spawners'[g][j] = IF g = f /\ j = i THEN r ELSE spawners[g][j]
  BY <1>3, <1>4 DEF SpawnersTyped
<1>7. SpawnersTyped'  BY <1>5 DEF SpawnersTyped, S
<1>8. Spawner' = Spawner  BY <1>6 DEF Spawner
<1>9. \A g \in Factory : \A j \in 1..Len(spawners[g]) :
        /\ spawners'[g][j].name = spawners[g][j].name
        /\ Waiting(g, j)' = IF g = f /\ j = i THEN q ELSE Waiting(g, j)
  BY <1>2, <1>6 DEF Waiting
<1> QED  BY <1>6, <1>7, <1>8, <1>9 DEF OthersKept

\* A bind of a new name appends a spawner for which nothing was made yet.
LEMMA SpawnerAdded ==
  ASSUME SpawnerInv, NEW f \in Factory, NEW name \in Nat, Found(f, name) = {},
         MakeSpawner(f, name), UNCHANGED <<made, accepted>>
  PROVE  /\ spawners' \in [Factory -> Seq([name : Nat, waiting : Seq(Nat)])]
         /\ spawners' # spawners /\ Spawner \subseteq Spawner'
         /\ <<f, Len(spawners[f]) + 1>> \in Spawner'
         /\ OneOfEachName' /\ WaitingOK'
<1> DEFINE S == [name : Nat, waiting : Seq(Nat)]
           n == Len(spawners[f]) + 1
           r == [name |-> name, waiting |-> <<>>]
<1>1. spawners \in [Factory -> Seq(S)] /\ spawners[f] \in Seq(S) /\ Len(spawners[f]) \in Nat
  BY DEF SpawnerInv, SpawnersTyped
<1>2. r \in S  OBVIOUS
<1>3. spawners' = [spawners EXCEPT ![f] = Append(spawners[f], r)]  BY DEF MakeSpawner
<1> HIDE DEF S, r
<1>4. /\ spawners' \in [Factory -> Seq(S)]
      /\ Len(spawners'[f]) = n /\ spawners'[f][n] = r
      /\ \A j \in 1..Len(spawners[f]) : spawners'[f][j] = spawners[f][j]
      /\ \A g \in Factory : g # f => spawners'[g] = spawners[g]
  BY <1>1, <1>2, <1>3
<1>5. spawners' # spawners  BY <1>1, <1>4
<1>6. Spawner \subseteq Spawner' /\ <<f, n>> \in Spawner'
  <2>1. \A g \in Factory : 1..Len(spawners[g]) \subseteq 1..Len(spawners'[g])
    <3> TAKE g \in Factory
    <3>1. CASE g = f  BY <1>1, <1>4, <3>1
    <3>2. CASE g # f  BY <1>4, <3>2
    <3> QED  BY <3>1, <3>2
  <2>2. n \in 1..Len(spawners'[f])  BY <1>1, <1>4
  <2> QED  BY <2>1, <2>2 DEF Spawner
<1>7. OneOfEachName'
  <2> SUFFICES ASSUME NEW g \in Factory, NEW i \in 1..Len(spawners'[g]), NEW j \in 1..Len(spawners'[g]),
                      spawners'[g][i].name = spawners'[g][j].name
               PROVE  i = j
    BY DEF OneOfEachName
  <2>1. CASE g # f
    BY <1>4, <2>1 DEF SpawnerInv, OneOfEachName
  <2>2. CASE g = f
    <3>1. r.name = name  BY DEF r
    <3>2. \A k \in 1..Len(spawners[f]) : spawners'[f][k].name # name
      <4>1. \A k \in 1..Len(spawners[f]) : spawners[f][k].name # name
        BY FoundIs DEF SpawnerInv
      <4> QED  BY <1>4, <4>1
    <3>3. \A k \in 1..n : k = n \/ k \in 1..Len(spawners[f])  BY <1>1
    <3>4. i = n <=> j = n  BY <1>4, <2>2, <3>1, <3>2, <3>3
    <3> QED  BY <1>4, <2>2, <3>3, <3>4 DEF SpawnerInv, OneOfEachName
  <2> QED  BY <2>1, <2>2
<1>8. WaitingOK'
  <2> SUFFICES ASSUME NEW g \in Factory, NEW i \in 1..Len(spawners'[g])
               PROVE  /\ \A j, l \in 1..Len(Waiting(g, i)') : j < l => Waiting(g, i)'[j] < Waiting(g, i)'[l]
                      /\ {Waiting(g, i)'[j] : j \in 1..Len(Waiting(g, i)')} = MadeFor(g, i) \ accepted
    BY DEF WaitingOK, MadeFor
  <2>1. CASE i \in 1..Len(spawners[g])
    <3>1. Waiting(g, i)' = Waiting(g, i)  BY <1>4, <2>1 DEF Waiting
    <3> QED  BY <2>1, <3>1 DEF SpawnerInv, WaitingOK
  <2>2. CASE i \notin 1..Len(spawners[g])
    <3>1. g = f /\ i = n  BY <1>1, <1>4, <2>2
    <3>2. Waiting(g, i)' = <<>>  BY <1>4, <3>1 DEF Waiting, r
    <3>3. <<g, i>> \notin Spawner  BY <2>2, SpawnerIs
    <3>4. MadeFor(g, i) = {}  BY <3>3 DEF MadeFor, SpawnerInv, InUse
    <3> QED  BY <3>2, <3>4
  <2> QED  BY <2>1, <2>2
<1> QED  BY <1>4, <1>5, <1>6, <1>7, <1>8 DEF S

\* Every step keeps the invariant.
LEMMA NextSpawnerInv == SpawnerInv /\ [SpawnerNext]_spawnerVars => SpawnerInv'
<1> SUFFICES ASSUME SpawnerInv, [SpawnerNext]_spawnerVars PROVE SpawnerInv'
  OBVIOUS
\* What the queues and what was made for them is left alone by most steps.
<1>a. ASSUME UNCHANGED <<spawners, made, accepted>>
      PROVE  OneOfEachName' /\ WaitingOK' /\ InTurn'
  <2>1. OneOfEachName'  BY <1>a DEF SpawnerInv, OneOfEachName
  <2>2. WaitingOK'  BY <1>a DEF SpawnerInv, WaitingOK, Waiting, MadeFor
  <2>3. InTurn'  BY <1>a DEF SpawnerInv, InTurn
  <2> QED  BY <2>1, <2>2, <2>3
<1>1. CASE UNCHANGED spawnerVars
  <2>1. UNCHANGED <<spawners, bound, autoPort, counter, step, request, read, names, made, accepted>>
    BY <1>1 DEF spawnerVars, clientVars
  <2>2. SpawnersTyped' /\ ClientsTyped'
    BY <2>1 DEF SpawnerInv, SpawnersTyped, ClientsTyped
  <2>3. InUse'  BY <2>1 DEF SpawnerInv, InUse, Spawner
  <2> QED  BY <1>a, <2>1, <2>2, <2>3 DEF SpawnerInv
<1>2. ASSUME NEW a \in Acceptor, NEW f \in Factory, NEW name \in Nat, Bind(a, f, name), autoPort' \in Nat
      PROVE  SpawnerInv'
  <2> USE <1>2
  <2>1. UNCHANGED <<counter, step, request, read, names, made, accepted>>
    BY DEF Bind, clientVars
  <2>2. ClientsTyped' /\ InTurn'
    BY <2>1 DEF SpawnerInv, ClientsTyped, InTurn
  <2>3. CASE Found(f, name) # {}
    <3>1. spawners' = spawners /\ bound' = [bound EXCEPT ![a] = Found(f, name)]
      BY <2>3 DEF Bind, KnownSpawner
    <3>2. Found(f, name) \subseteq Spawner  BY FoundIs DEF SpawnerInv
    <3>3. SpawnersTyped'  BY <3>1 DEF SpawnerInv, SpawnersTyped
    <3>4. InUse'  BY <2>1, <3>1, <3>2 DEF SpawnerInv, InUse, Spawner
    <3> QED  BY <1>a, <2>1, <2>2, <3>1, <3>3, <3>4 DEF SpawnerInv
  <2>4. CASE Found(f, name) = {}
    <3>1. MakeSpawner(f, name)  BY <2>4 DEF Bind, KnownSpawner
    <3>2. /\ spawners' \in [Factory -> Seq([name : Nat, waiting : Seq(Nat)])]
          /\ spawners' # spawners /\ Spawner \subseteq Spawner'
          /\ <<f, Len(spawners[f]) + 1>> \in Spawner'
          /\ OneOfEachName' /\ WaitingOK'
      BY <2>1, <2>4, <3>1, SpawnerAdded
    <3>3. bound' = [bound EXCEPT ![a] = {<<f, Len(spawners[f]) + 1>>}]
      BY <3>2 DEF Bind
    <3>4. SpawnersTyped'  BY <3>2 DEF SpawnersTyped
    <3>5. InUse'
      <4>1. bound' \in [Acceptor -> SUBSET Spawner']
        BY <3>2, <3>3 DEF SpawnerInv, InUse
      <4>2. request' \in [Client -> SUBSET Spawner']
        BY <2>1, <3>2 DEF SpawnerInv, InUse
      <4>3. \A k \in 1..Len(made) : made[k].spawner \in Spawner'
        BY <3>2 DEF SpawnerInv, InUse
      <4> QED  BY <2>1, <4>1, <4>2, <4>3 DEF SpawnerInv, InUse
    <3> QED  BY <2>2, <3>2, <3>4, <3>5 DEF SpawnerInv
  <2> QED  BY <2>3, <2>4
<1>3. ASSUME NEW a \in Acceptor, NEW f \in Factory, BindPort(a, f) \/ BindAuto(a, f)
      PROVE  SpawnerInv'
  <2>0. autoPort \in Nat  BY DEF SpawnerInv, SpawnersTyped
  <2>1. CASE BindPort(a, f)
    <3>1. PICK name \in Port : Bind(a, f, name) /\ UNCHANGED autoPort
      BY <2>1 DEF BindPort
    <3>2. name \in Nat  BY SpawnerAssumption
    <3> QED  BY <1>2, <2>0, <3>1, <3>2
  <2>2. CASE BindAuto(a, f)
    <3>1. Bind(a, f, autoPort) /\ autoPort' \in Nat  BY <2>0, <2>2 DEF BindAuto
    <3> QED  BY <1>2, <2>0, <3>1
  <2> QED  BY <1>3, <2>1, <2>2
<1>4. ASSUME NEW a \in Acceptor, Unbind(a) PROVE SpawnerInv'
  <2>1. /\ bound' = [bound EXCEPT ![a] = {}]
        /\ UNCHANGED <<spawners, autoPort, counter, step, request, read, names, made, accepted>>
    BY <1>4 DEF Unbind, clientVars
  <2>2. SpawnersTyped' /\ ClientsTyped'
    BY <2>1 DEF SpawnerInv, SpawnersTyped, ClientsTyped
  <2>3. InUse'  BY <2>1 DEF SpawnerInv, InUse, Spawner
  <2> QED  BY <1>a, <2>1, <2>2, <2>3 DEF SpawnerInv
<1>5. ASSUME NEW c \in Client, StartConnect(c) PROVE SpawnerInv'
  <2>1. PICK f \in Factory, name \in 0..MaxBinds : request' = [request EXCEPT ![c] = Found(f, name)]
    BY <1>5 DEF StartConnect
  <2>2. /\ step[c] = "idle" /\ step' = [step EXCEPT ![c] = "number"]
        /\ UNCHANGED <<spawners, bound, autoPort, counter, read, names, made, accepted>>
    BY <1>5 DEF StartConnect
  <2>3. SpawnersTyped'  BY <2>2 DEF SpawnerInv, SpawnersTyped
  <2>4. ClientsTyped'
    <3>1. step' \in [Client -> {"idle", "number", "write", "queue"}]
      BY <2>2 DEF SpawnerInv, ClientsTyped
    <3>2. Len(names[c]) < 2  BY <2>2 DEF SpawnerInv, ClientsTyped
    <3>3. \A d \in Client : step'[d] = IF d = c THEN "number" ELSE step[d]
      BY <2>2 DEF SpawnerInv, ClientsTyped
    <3> QED  BY <2>2, <3>1, <3>2, <3>3 DEF SpawnerInv, ClientsTyped
  <2>5. Found(f, name) \subseteq Spawner  BY FoundIs DEF SpawnerInv
  <2>6. InUse'  BY <2>1, <2>2, <2>5 DEF SpawnerInv, InUse, Spawner
  <2> QED  BY <1>a, <2>2, <2>3, <2>4, <2>6 DEF SpawnerInv
\* The numbers are no concern of the queues.
<1>6. ASSUME NEW c \in Client, ReadCounter(c) PROVE SpawnerInv'
  <2>1. /\ step[c] = "number" /\ step' = [step EXCEPT ![c] = "write"]
        /\ read' = [read EXCEPT ![c] = counter]
        /\ UNCHANGED <<spawners, bound, autoPort, counter, request, names, made, accepted>>
    BY <1>6 DEF ReadCounter
  <2>2. SpawnersTyped'  BY <2>1 DEF SpawnerInv, SpawnersTyped
  <2>3. ClientsTyped'  BY <2>1 DEF SpawnerInv, ClientsTyped
  <2>4. InUse'  BY <2>1 DEF SpawnerInv, InUse, Spawner
  <2> QED  BY <1>a, <2>1, <2>2, <2>3, <2>4 DEF SpawnerInv
<1>7. ASSUME NEW c \in Client, WriteCounter(c) PROVE SpawnerInv'
  <2>1. /\ step[c] = "write" /\ counter' = read[c] + 1
        /\ names' = [names EXCEPT ![c] = Append(@, read[c])]
        /\ step' = [step EXCEPT ![c] = IF names[c] = <<>> THEN "number" ELSE "queue"]
        /\ UNCHANGED <<spawners, bound, autoPort, request, read, made, accepted>>
    BY <1>7 DEF WriteCounter
  <2>2. names[c] \in Seq(Nat) /\ read[c] \in Nat
    BY DEF SpawnerInv, ClientsTyped
  <2>3. SpawnersTyped'  BY <2>1 DEF SpawnerInv, SpawnersTyped
  <2>4. ClientsTyped'
    <3>1. /\ names' \in [Client -> Seq(Nat)] /\ counter' \in Nat
          /\ step' \in [Client -> {"idle", "number", "write", "queue"}]
      BY <2>1, <2>2 DEF SpawnerInv, ClientsTyped
    <3>2. Len(names[c]) < 2 /\ Len(names'[c]) = Len(names[c]) + 1
      BY <2>1, <2>2 DEF SpawnerInv, ClientsTyped
    <3>3. names[c] = <<>> <=> Len(names[c]) = 0
      BY <2>2
    <3>4. ASSUME NEW d \in Client
          PROVE  /\ step'[d] = "idle" => names'[d] = <<>>
                 /\ step'[d] \in {"number", "write"} => Len(names'[d]) < 2
                 /\ step'[d] = "queue" => Len(names'[d]) = 2
      <4>1. CASE d = c
        BY <2>1, <2>2, <3>2, <3>3, <4>1 DEF SpawnerInv, ClientsTyped
      <4>2. CASE d # c
        BY <2>1, <4>2 DEF SpawnerInv, ClientsTyped
      <4> QED  BY <4>1, <4>2
    <3> QED  BY <2>1, <3>1, <3>4 DEF SpawnerInv, ClientsTyped
  <2>5. InUse'
    <3>1. Spawner' = Spawner  BY <2>1 DEF Spawner
    <3> QED  BY <2>1, <3>1 DEF SpawnerInv, InUse
  <2> QED  BY <1>a, <2>1, <2>3, <2>4, <2>5 DEF SpawnerInv
\* The connection made last goes behind those made before it.
<1>8. ASSUME NEW c \in Client, QueueServerEnd(c) PROVE SpawnerInv'
  <2> DEFINE k == Len(made) + 1
  <2>1. PICK s \in request[c] :
          /\ spawners' = [spawners EXCEPT ![s[1]][s[2]].waiting = Append(@, k)]
          /\ made' = Append(made, [spawner |-> s, local |-> names[c][1], peer |-> names[c][2]])
    BY <1>8 DEF QueueServerEnd
  <2>2. /\ step[c] = "queue" /\ step' = [step EXCEPT ![c] = "idle"]
        /\ request' = [request EXCEPT ![c] = {}] /\ read' = [read EXCEPT ![c] = 0]
        /\ names' = [names EXCEPT ![c] = <<>>]
        /\ UNCHANGED <<bound, autoPort, counter, accepted>>
    BY <1>8 DEF QueueServerEnd
  <2>3. PICK f \in Factory : \E j \in 1..Len(spawners[f]) : s = <<f, j>>
    BY DEF SpawnerInv, InUse, Spawner
  <2>4. PICK i \in 1..Len(spawners[f]) : s = <<f, i>>  BY <2>3
  <2> DEFINE q == Waiting(f, i)
             new == [spawner |-> s, local |-> names[c][1], peer |-> names[c][2]]
  <2>5. q \in Seq(Nat) /\ k \in Nat /\ Len(made) \in Nat /\ Len(q) \in Nat
    <3>1. Len(made) \in Nat  BY DEF SpawnerInv, ClientsTyped
    <3>2. spawners[f] \in Seq([name : Nat, waiting : Seq(Nat)])
      BY DEF SpawnerInv, SpawnersTyped
    <3>3. spawners[f][i] \in [name : Nat, waiting : Seq(Nat)]  BY <3>2, ElementOfSeq
    <3>4. q \in Seq(Nat)  BY <3>3 DEF Waiting
    <3> QED  BY <3>1, <3>4
  <2>6. new \in Made
    <3>1. names[c] \in Seq(Nat) /\ Len(names[c]) = 2
      BY <2>2 DEF SpawnerInv, ClientsTyped
    <3>2. names[c][1] \in Nat /\ names[c][2] \in Nat  BY <3>1
    <3>3. Len(spawners[f]) \in Nat  BY DEF SpawnerInv, SpawnersTyped
    <3>4. s \in Factory \X Nat  BY <2>4, <3>3
    <3> QED  BY <3>2, <3>4 DEF Made
  <2>7. /\ made' \in Seq(Made) /\ Len(made') = k /\ made'[k] = new
        /\ \A l \in 1..Len(made) : made'[l] = made[l]
    <3>1. made \in Seq(Made)  BY DEF SpawnerInv, ClientsTyped
    <3> HIDE DEF new
    <3> QED  BY <2>1, <2>6, <3>1 DEF new
  <2>8. /\ SpawnersTyped' /\ Spawner' = Spawner
        /\ \A g \in Factory :
              /\ Len(spawners'[g]) = Len(spawners[g])
              /\ \A j \in 1..Len(spawners[g]) :
                   /\ spawners'[g][j].name = spawners[g][j].name
                   /\ Waiting(g, j)' = IF g = f /\ j = i THEN Append(q, k) ELSE Waiting(g, j)
    <3>1. QueueBecomes(f, i, Append(q, k))
      BY <2>1, <2>4 DEF Waiting, QueueBecomes
    <3>2. Append(q, k) \in Seq(Nat)  BY <2>5
    <3> HIDE DEF q, k
    <3>3. UNCHANGED autoPort  BY <2>2
    <3>4. SpawnersTyped  BY DEF SpawnerInv
    <3>5. OthersKept(f, i, Append(q, k))  BY <3>1, <3>2, <3>3, <3>4, QueueChanged
    <3> QED  BY <3>5 DEF OthersKept
  <2>9. ClientsTyped'
    <3>1. names'[c] = <<>> /\ step'[c] = "idle"  BY <2>2 DEF SpawnerInv, ClientsTyped
    <3> QED  BY <2>2, <2>7, <3>1 DEF SpawnerInv, ClientsTyped
  <2>10. OneOfEachName'  BY <2>8 DEF SpawnerInv, OneOfEachName
  <2>11. InUse'
    <3>1. \A l \in 1..k : made'[l].spawner \in Spawner
      <4> TAKE l \in 1..k
      <4>1. CASE l = k
        BY <2>7, <4>1 DEF SpawnerInv, InUse
      <4>2. CASE l # k
        <5>1. l \in 1..Len(made)  BY <2>5, <4>2
        <5>2. made[l].spawner \in Spawner  BY <5>1 DEF SpawnerInv, InUse
        <5> QED  BY <2>7, <5>1, <5>2
      <4> QED  BY <4>1, <4>2
    <3>2. accepted \subseteq 1..k  BY <2>5 DEF SpawnerInv, InUse
    <3> HIDE DEF k
    <3> QED  BY <2>2, <2>7, <2>8, <3>1, <3>2 DEF SpawnerInv, InUse
  <2>12. \A g, j : MadeFor(g, j)' = IF <<g, j>> = s THEN MadeFor(g, j) \cup {k} ELSE MadeFor(g, j)
    <3> TAKE g, j
    <3>1. 1..k = (1..Len(made)) \cup {k}  BY <2>5
    <3>2. k \notin 1..Len(made)  BY <2>5
    <3>3. new.spawner = s  OBVIOUS
    <3> HIDE DEF k, new
    <3> QED  BY <2>7, <3>1, <3>2, <3>3 DEF MadeFor
  <2>13. k \notin accepted  BY <2>5 DEF SpawnerInv, InUse
  <2>14. WaitingOK'
    <3> SUFFICES ASSUME NEW g \in Factory, NEW j \in 1..Len(spawners[g])
                 PROVE  /\ \A l, m \in 1..Len(Waiting(g, j)') :
                             l < m => Waiting(g, j)'[l] < Waiting(g, j)'[m]
                        /\ {Waiting(g, j)'[l] : l \in 1..Len(Waiting(g, j)')}
                             = MadeFor(g, j)' \ accepted
      BY <2>2, <2>8 DEF WaitingOK
    <3>1. /\ \A l, m \in 1..Len(Waiting(g, j)) : l < m => Waiting(g, j)[l] < Waiting(g, j)[m]
          /\ {Waiting(g, j)[l] : l \in 1..Len(Waiting(g, j))} = MadeFor(g, j) \ accepted
      BY DEF SpawnerInv, WaitingOK
    <3>2. CASE g = f /\ j = i
      <4> DEFINE w == Append(q, k)
      <4>1. Waiting(g, j)' = w /\ Waiting(g, j) = q  BY <2>8, <3>2
      <4>2. /\ Len(w) = Len(q) + 1 /\ w[Len(q) + 1] = k
            /\ \A l \in 1..Len(q) : w[l] = q[l]
        BY <2>5
      <4>3. \A l \in 1..Len(q) : q[l] < k
        <5> TAKE l \in 1..Len(q)
        <5>1. q[l] \in 1..Len(made)  BY <3>1, <4>1 DEF MadeFor
        <5> QED  BY <2>5, <5>1
      <4>4. 1..Len(w) = (1..Len(q)) \cup {Len(q) + 1}  BY <2>5, <4>2
      <4>5. MadeFor(g, j)' \ accepted = (MadeFor(g, j) \ accepted) \cup {k}
        BY <2>4, <2>12, <2>13, <3>2
      <4> HIDE DEF w, q, k
      <4>6. {w[l] : l \in 1..Len(w)} = {q[l] : l \in 1..Len(q)} \cup {k}
        BY <4>2, <4>4
      <4>7. \A l, m \in 1..Len(w) : l < m => w[l] < w[m]
        <5> TAKE l, m \in 1..Len(w)
        <5> HAVE l < m
        <5>1. Len(q) \in Nat  BY <2>5
        <5>2. m \in (1..Len(q)) \cup {Len(q) + 1} /\ l \in Nat \ {0}  BY <4>4
        <5>3. l \in 1..Len(q)  BY <5>1, <5>2
        <5>4. m \in 1..Len(q) \/ w[m] = k  BY <4>2, <5>2
        <5> QED  BY <3>1, <4>1, <4>2, <4>3, <5>3, <5>4
      <4>8. {w[l] : l \in 1..Len(w)} = MadeFor(g, j)' \ accepted
        BY <3>1, <4>1, <4>5, <4>6
      <4> QED  BY <4>1, <4>7, <4>8
    <3>3. CASE ~(g = f /\ j = i)
      <4>1. <<g, j>> # s  BY <2>4, <3>3
      <4> QED  BY <2>8, <2>12, <3>1, <3>3, <4>1
    <3> QED  BY <3>2, <3>3
  <2>15. InTurn'
    <3> SUFFICES ASSUME NEW l \in accepted, NEW m \in 1..l-1, made'[m].spawner = made'[l].spawner
                 PROVE  m \in accepted
      BY <2>2 DEF InTurn
    <3>1. accepted \subseteq 1..Len(made)  BY DEF SpawnerInv, InUse
    <3>2. l \in 1..Len(made) /\ m \in 1..Len(made)  BY <2>5, <3>1
    <3>3. made[m].spawner = made[l].spawner  BY <2>7, <3>2
    <3> QED  BY <3>3 DEF SpawnerInv, InTurn
  <2> QED  BY <2>8, <2>9, <2>10, <2>11, <2>14, <2>15 DEF SpawnerInv
\* The connection accepted is the one that waits longest of those made for
\* its spawner.
<1>9. ASSUME NEW a \in Acceptor, Accept(a) PROVE SpawnerInv'
  <2>1. PICK s \in bound[a] :
          LET waiting == spawners[s[1]][s[2]].waiting
          IN  /\ waiting # <<>>
              /\ accepted' = accepted \cup {Head(waiting)}
              /\ spawners' = [spawners EXCEPT ![s[1]][s[2]].waiting = Tail(@)]
              /\ UNCHANGED <<bound, autoPort, counter, step, request, read, names, made>>
    BY <1>9 DEF Accept, clientVars
  <2>2. PICK f \in Factory : \E j \in 1..Len(spawners[f]) : s = <<f, j>>
    BY DEF SpawnerInv, InUse, Spawner
  <2>3. PICK i \in 1..Len(spawners[f]) : s = <<f, i>>  BY <2>2
  <2> DEFINE q == Waiting(f, i)
             h == Head(q)
  <2>4. /\ q # <<>> /\ accepted' = accepted \cup {h}
        /\ spawners' = [spawners EXCEPT ![f][i].waiting = Tail(q)]
        /\ UNCHANGED <<bound, autoPort, counter, step, request, read, names, made>>
    BY <2>1, <2>3 DEF Waiting
  <2>5. q \in Seq(Nat)
    <3>1. spawners[f] \in Seq([name : Nat, waiting : Seq(Nat)])
      BY DEF SpawnerInv, SpawnersTyped
    <3>2. spawners[f][i] \in [name : Nat, waiting : Seq(Nat)]  BY <3>1, ElementOfSeq
    <3> QED  BY <3>2 DEF Waiting
  <2>6. /\ Len(q) \in Nat /\ Len(q) > 0 /\ h = q[1]
        /\ Tail(q) \in Seq(Nat) /\ Len(Tail(q)) = Len(q) - 1
        /\ \A l \in 1..Len(q) - 1 : Tail(q)[l] = q[l + 1]
    <3> HIDE DEF q
    <3> QED  BY <2>4, <2>5
  <2>7. /\ SpawnersTyped' /\ Spawner' = Spawner
        /\ \A g \in Factory :
              /\ Len(spawners'[g]) = Len(spawners[g])
              /\ \A j \in 1..Len(spawners[g]) :
                   /\ spawners'[g][j].name = spawners[g][j].name
                   /\ Waiting(g, j)' = IF g = f /\ j = i THEN Tail(q) ELSE Waiting(g, j)
    <3>1. QueueBecomes(f, i, Tail(q))  BY <2>4 DEF QueueBecomes
    <3>2. Tail(q) \in Seq(Nat) /\ UNCHANGED autoPort  BY <2>4, <2>6
    <3> HIDE DEF q
    <3>3. SpawnersTyped  BY DEF SpawnerInv
    <3>4. OthersKept(f, i, Tail(q))  BY <3>1, <3>2, <3>3, QueueChanged
    <3> QED  BY <3>4 DEF OthersKept
  <2>8. /\ \A l, m \in 1..Len(q) : l < m => q[l] < q[m]
        /\ {q[l] : l \in 1..Len(q)} = MadeFor(f, i) \ accepted
    BY DEF SpawnerInv, WaitingOK
  <2>9. h \in MadeFor(f, i) \ accepted
    <3>1. 1 \in 1..Len(q)  BY <2>6
    <3> HIDE DEF q
    <3> QED  BY <2>6, <2>8, <3>1
  <2>10. ClientsTyped'  BY <2>4 DEF SpawnerInv, ClientsTyped
  <2>11. OneOfEachName'  BY <2>7 DEF SpawnerInv, OneOfEachName
  <2>12. InUse'  BY <2>4, <2>7, <2>9 DEF SpawnerInv, InUse, MadeFor
  <2>13. WaitingOK'
    <3> SUFFICES ASSUME NEW g \in Factory, NEW j \in 1..Len(spawners[g])
                 PROVE  /\ \A l, m \in 1..Len(Waiting(g, j)') :
                             l < m => Waiting(g, j)'[l] < Waiting(g, j)'[m]
                        /\ {Waiting(g, j)'[l] : l \in 1..Len(Waiting(g, j)')}
                             = MadeFor(g, j) \ (accepted \cup {h})
      <4>1. accepted' = accepted \cup {h} /\ made' = made  BY <2>4
      <4>2. \A k, l : MadeFor(k, l)' = MadeFor(k, l)  BY <4>1 DEF MadeFor
      <4>3. \A k \in Factory : Len(spawners'[k]) = Len(spawners[k])  BY <2>7
      <4> HIDE DEF h, q, MadeFor
      <4> QED  BY <4>1, <4>2, <4>3 DEF WaitingOK
    <3>1. /\ \A l, m \in 1..Len(Waiting(g, j)) : l < m => Waiting(g, j)[l] < Waiting(g, j)[m]
          /\ {Waiting(g, j)[l] : l \in 1..Len(Waiting(g, j))} = MadeFor(g, j) \ accepted
      BY DEF SpawnerInv, WaitingOK
    <3>2. CASE g = f /\ j = i
      <4> DEFINE w == Tail(q)
      <4>1. Waiting(g, j)' = w  BY <2>7, <3>2
      <4>2. Len(w) = Len(q) - 1 /\ \A l \in 1..Len(w) : w[l] = q[l + 1] /\ l + 1 \in 1..Len(q)
        BY <2>6
      <4>3. \A l, m \in 1..Len(w) : l < m => w[l] < w[m]
        <5> TAKE l, m \in 1..Len(w)
        <5> HAVE l < m
        <5>1. l + 1 < m + 1  BY <2>6, <4>2
        <5> HIDE DEF w, q
        <5> QED  BY <2>8, <4>2, <5>1
      <4>4. {w[l] : l \in 1..Len(w)} = {q[l] : l \in 1..Len(q)} \ {h}
        <5>1. ASSUME NEW l \in 1..Len(w) PROVE w[l] \in {q[m] : m \in 1..Len(q)} \ {h}
          <6>1. 1 \in 1..Len(q) /\ l + 1 \in 1..Len(q) /\ 1 < l + 1  BY <2>6, <4>2
          <6>2. q[1] < q[l + 1]
            <7> HIDE DEF q
            <7> QED  BY <2>8, <6>1
          <6>3. q[1] \in Nat /\ q[l + 1] \in Nat  BY <2>5, <6>1, ElementOfSeq
          <6>4. q[1] # q[l + 1]  BY <6>2, <6>3
          <6> HIDE DEF w, q
          <6> QED  BY <2>6, <4>2, <6>1, <6>4
        <5>2. ASSUME NEW m \in 1..Len(q), q[m] # h PROVE q[m] \in {w[l] : l \in 1..Len(w)}
          <6>1. m # 1  BY <2>6, <5>2
          <6>2. m - 1 \in 1..Len(w) /\ (m - 1) + 1 = m  BY <2>6, <4>2, <6>1
          <6> HIDE DEF w, q
          <6> QED  BY <4>2, <6>2
        <5> HIDE DEF w, q, h
        <5> QED  BY <5>1, <5>2
      <4>5. MadeFor(g, j) \ (accepted \cup {h}) = (MadeFor(g, j) \ accepted) \ {h}
        OBVIOUS
      <4> HIDE DEF w, q, h
      <4>6. {w[l] : l \in 1..Len(w)} = MadeFor(g, j) \ (accepted \cup {h})
        BY <2>8, <3>2, <4>4, <4>5
      <4> QED  BY <4>1, <4>3, <4>6
    <3>3. CASE ~(g = f /\ j = i)
      <4>1. h \notin MadeFor(g, j)
        <5>1. <<g, j>> # <<f, i>>  BY <3>3
        <5> HIDE DEF h
        <5> QED  BY <2>9, <5>1 DEF MadeFor
      <4>2. Waiting(g, j)' = Waiting(g, j)  BY <2>7, <3>3
      <4>3. MadeFor(g, j) \ (accepted \cup {h}) = MadeFor(g, j) \ accepted
        BY <4>1
      <4> HIDE DEF h, q
      <4> QED  BY <3>1, <4>2, <4>3
    <3> QED  BY <3>2, <3>3
  <2>14. InTurn'
    <3> SUFFICES ASSUME NEW k \in accepted \cup {h}, NEW l \in 1..k-1, made[l].spawner = made[k].spawner
                 PROVE  l \in accepted \cup {h}
      BY <2>4 DEF InTurn
    <3>1. CASE k \in accepted
      BY <3>1 DEF SpawnerInv, InTurn
    <3>2. CASE k = h
      <4>1. h \in 1..Len(made) /\ made[h].spawner = <<f, i>>  BY <2>9 DEF MadeFor
      <4>2. l \in 1..Len(made) /\ l < h
        <5>1. Len(made) \in Nat  BY DEF SpawnerInv, ClientsTyped
        <5> HIDE DEF h
        <5> QED  BY <3>2, <4>1, <5>1
      <4>3. SUFFICES ASSUME l \notin accepted PROVE FALSE
        OBVIOUS
      <4>4. l \in MadeFor(f, i) \ accepted  BY <3>2, <4>1, <4>2, <4>3 DEF MadeFor
      <4>5. PICK m \in 1..Len(q) : q[m] = l
        <5> HIDE DEF q
        <5> QED  BY <2>8, <4>4
      <4>6. q[1] <= q[m]
        <5>1. 1 \in 1..Len(q) /\ (m = 1 \/ 1 < m)  BY <2>6
        <5>2. q[1] \in Nat /\ q[m] \in Nat  BY <2>5, <5>1, ElementOfSeq
        <5> HIDE DEF q
        <5> QED  BY <2>8, <5>1, <5>2
      <4>7. h <= l  BY <2>6, <4>5, <4>6
      <4>8. h \in Nat /\ l \in Nat  BY <4>1, <4>2
      <4> HIDE DEF h
      <4> QED  BY <4>2, <4>7, <4>8
    <3> QED  BY <3>1, <3>2
  <2> QED  BY <2>7, <2>10, <2>11, <2>12, <2>13, <2>14 DEF SpawnerInv
<1> QED
  BY <1>1, <1>3, <1>4, <1>5, <1>6, <1>7, <1>8, <1>9 DEF SpawnerNext, Connect

\* Connections of a name are accepted in the order in which they were made,
\* and every acceptor bound to the name finds all that nobody accepted yet.
THEOREM ConnectionsAcceptedInOrder == SpawnerSpec => []AcceptedInOrder
<1>1. SpawnerInit => SpawnerInv
  <2> SUFFICES ASSUME SpawnerInit PROVE SpawnerInv
    OBVIOUS
  <2>1. /\ made = <<>> /\ Len(made) = 0 /\ accepted = {}
        /\ \A f \in Factory : spawners[f] = <<>> /\ Len(spawners[f]) = 0
    BY DEF SpawnerInit
  <2>2. SpawnersTyped  BY DEF SpawnerInit, SpawnersTyped
  <2>3. ClientsTyped  BY <2>1 DEF SpawnerInit, ClientsTyped
  <2>4. OneOfEachName /\ WaitingOK /\ InTurn
    BY <2>1 DEF OneOfEachName, WaitingOK, InTurn
  <2>5. InUse  BY <2>1 DEF SpawnerInit, InUse
  <2> QED  BY <2>2, <2>3, <2>4, <2>5 DEF SpawnerInv
<1>2. SpawnerInv /\ [SpawnerNext]_spawnerVars => SpawnerInv'
  BY NextSpawnerInv
<1>3. SpawnerInv => AcceptedInOrder
  <2> SUFFICES ASSUME SpawnerInv PROVE AcceptedInOrder
    OBVIOUS
  \* Within a factory the name tells the spawner.
  <2>1. ASSUME NEW s \in Spawner, NEW r \in Spawner PROVE SameName(s, r) <=> s = r
    <3>1. PICK f \in Factory : \E i \in 1..Len(spawners[f]) : s = <<f, i>>
      BY DEF Spawner
    <3>2. PICK i \in 1..Len(spawners[f]) : s = <<f, i>>  BY <3>1
    <3>3. PICK g \in Factory : \E j \in 1..Len(spawners[g]) : r = <<g, j>>
      BY DEF Spawner
    <3>4. PICK j \in 1..Len(spawners[g]) : r = <<g, j>>  BY <3>3
    <3> QED  BY <3>2, <3>4 DEF SpawnerInv, OneOfEachName, SameName, NameOf
  <2>2. Len(made) \in Nat  BY DEF SpawnerInv, ClientsTyped
  <2>3. ASSUME NEW k \in accepted, NEW l \in 1..k-1,
               SameName(made[l].spawner, made[k].spawner)
        PROVE  l \in accepted
    <3>1. k \in 1..Len(made) /\ l \in 1..Len(made)  BY <2>2 DEF SpawnerInv, InUse
    <3>2. made[l].spawner = made[k].spawner  BY <2>1, <2>3, <3>1 DEF SpawnerInv, InUse
    <3> QED  BY <3>2 DEF SpawnerInv, InTurn
  <2>4. ASSUME NEW a \in Acceptor, NEW s \in bound[a]
        PROVE  LET waiting == spawners[s[1]][s[2]].waiting
               IN  {waiting[i] : i \in 1..Len(waiting)}
                     = {k \in 1..Len(made) : SameName(made[k].spawner, s)} \ accepted
    <3>0. s \in Spawner  BY DEF SpawnerInv, InUse
    <3>1. PICK f \in Factory : \E i \in 1..Len(spawners[f]) : s = <<f, i>>
      BY <3>0 DEF Spawner
    <3>2. PICK i \in 1..Len(spawners[f]) : s = <<f, i>>  BY <3>1
    <3>3. \A k \in 1..Len(made) : SameName(made[k].spawner, s) <=> made[k].spawner = s
      BY <2>1, <3>0 DEF SpawnerInv, InUse
    <3>4. {k \in 1..Len(made) : SameName(made[k].spawner, s)} = MadeFor(f, i)
      BY <3>2, <3>3 DEF MadeFor
    <3>5. {Waiting(f, i)[j] : j \in 1..Len(Waiting(f, i))} = MadeFor(f, i) \ accepted
      BY DEF SpawnerInv, WaitingOK
    <3> QED  BY <3>2, <3>4, <3>5 DEF Waiting
  <2> QED  BY <2>3, <2>4 DEF AcceptedInOrder
<1> QED
  BY <1>1, <1>2, <1>3, PTL DEF SpawnerSpec
=============================================================================
