-------------------------- MODULE LoopbackConnection --------------------------
(***************************************************************************)
(* LoopbackConnection (net/message/LoopbackConnection.cpp): two endpoints  *)
(* in one process that share, for each direction, a message queue and a    *)
(* signal queue.  The destructor of an endpoint puts Disconnect into its   *)
(* peer's signal queue; every send and receive first takes a signal from   *)
(* its own signal queue and turns it into connected_ = false.  An endpoint *)
(* is used by two threads, as the connection aggregator does: one that     *)
(* sends and one that receives.  Both take signals and read and write      *)
(* connected_, which no lock protects.                                     *)
(*                                                                         *)
(* The queues are MessageQueues, used here as AtomicQueue specifies them.  *)
(***************************************************************************)
EXTENDS Naturals, Sequences

CONSTANTS
  Endpoint,
  Peer,     \* the other endpoint of each
  MaxSent   \* bound on the messages sent to an endpoint

ASSUME PairAssumption ==
  /\ Peer \in [Endpoint -> Endpoint]
  /\ \A e \in Endpoint : Peer[e] # e /\ Peer[Peer[e]] = e
ASSUME BoundAssumption == MaxSent \in Nat

Role == {"send", "receive"}
Thread == Endpoint \X Role
At(t) == t[1]

VARIABLES
  inbox,      \* receiveQueue_ of each endpoint: numbers of messages
  signals,    \* inSignalQueue_ of each endpoint: how many Disconnects
  connected,  \* connected_
  alive,      \* endpoints not destroyed
  pc,         \* where each thread is in its call
  saw,        \* threads whose dequeueNoWait returned a Disconnect
  sent,       \* history: messages sent to each endpoint
  rcvd,       \* history: the last message each endpoint received
  raised      \* history: endpoints that reported their peer gone

connVars == <<sent, rcvd, alive, raised>>
vars == <<inbox, signals, connected, alive, pc, saw, sent, rcvd, raised>>

Init ==
  /\ inbox = [e \in Endpoint |-> <<>>]
  /\ signals = [e \in Endpoint |-> 0]
  /\ connected = [e \in Endpoint |-> TRUE]
  /\ alive = Endpoint
  /\ pc = [t \in Thread |-> "idle"]
  /\ saw = {}
  /\ sent = [e \in Endpoint |-> 0]
  /\ rcvd = [e \in Endpoint |-> 0]
  /\ raised = {}

Goto(t, l) == pc' = [pc EXCEPT ![t] = l]

-----------------------------------------------------------------------------
SignalPending(e) == signals[e] > 0

\* isConnected, first half: dequeueNoWait on the signal queue.
PollSignal(t) ==
  LET e == At(t)
  IN  /\ pc[t] = "idle"
      /\ e \in alive
      /\ IF SignalPending(e)
         THEN /\ signals' = [signals EXCEPT ![e] = @ - 1]
              /\ saw' = saw \cup {t}
         ELSE UNCHANGED <<signals, saw>>
      /\ Goto(t, "polled")
      /\ UNCHANGED <<inbox, connected, connVars>>

\* Mutant: the signal is acted on and not remembered in connected_.
ForgetDisconnect(t) == UNCHANGED connected

\* connected_ = false, by the thread that took the signal.
RememberDisconnect(t) ==
  connected' = [connected EXCEPT ![At(t)] = @ /\ t \notin saw]

\* isConnected, second half, returning false: send and receive throw
\* ConnectionClosedError; whatever is left in the inbox is not delivered.
ThrowClosed(t) ==
  /\ pc[t] = "polled"
  /\ t \in saw \/ ~connected[At(t)]
  /\ RememberDisconnect(t)
  /\ saw' = saw \ {t}
  /\ raised' = raised \cup {At(t)}
  /\ Goto(t, "closed")
  /\ UNCHANGED <<inbox, signals, alive, sent, rcvd>>

\* isConnected returning true.
SeeConnected(t) ==
  /\ pc[t] = "polled"
  /\ t \notin saw /\ connected[At(t)]
  /\ Goto(t, "connected")
  /\ UNCHANGED <<inbox, signals, connected, connVars, saw>>

\* A call of isConnected itself ends here.
ReturnConnected(t) ==
  /\ pc[t] = "connected"
  /\ Goto(t, "idle")
  /\ UNCHANGED <<inbox, signals, connected, connVars, saw>>

\* Mutant: both queues of an endpoint are the one it receives from.
ToOwnQueue(e, n) == inbox' = [inbox EXCEPT ![e] = Append(@, n)]

\* sendQueue_ of an endpoint is the receiveQueue_ of its peer.
ToPeersQueue(e, n) == inbox' = [inbox EXCEPT ![Peer[e]] = Append(@, n)]

\* send, when isConnected returned true.
Send(t) ==
  LET p == Peer[At(t)]
  IN  /\ pc[t] = "connected" /\ t[2] = "send"
      /\ sent[p] < MaxSent
      /\ ToPeersQueue(At(t), sent[p] + 1)
      /\ sent' = [sent EXCEPT ![p] = @ + 1]
      /\ Goto(t, "idle")
      /\ UNCHANGED <<signals, connected, alive, saw, rcvd, raised>>

\* receive, dequeue finding a message within its 200 ms.
Receive(t) ==
  LET e == At(t)
  IN  /\ pc[t] = "connected" /\ t[2] = "receive"
      /\ inbox[e] # <<>>
      /\ rcvd' = [rcvd EXCEPT ![e] = Head(inbox[e])]
      /\ inbox' = [inbox EXCEPT ![e] = Tail(@)]
      /\ Goto(t, "idle")
      /\ UNCHANGED <<signals, connected, alive, saw, sent, raised>>

\* receive, dequeue timing out: an empty Message is returned.
ReceiveNothing(t) ==
  /\ pc[t] = "connected" /\ t[2] = "receive"
  /\ inbox[At(t)] = <<>>
  /\ Goto(t, "idle")
  /\ UNCHANGED <<inbox, signals, connected, connVars, saw>>

SignalPeer(e) == signals' = [signals EXCEPT ![Peer[e]] = @ + 1]

\* The destructor.  Its owner has no call in progress on the object.
Destroy(e) ==
  /\ e \in alive
  /\ \A r \in Role : pc[<<e, r>>] \in {"idle", "closed"}
  /\ SignalPeer(e)
  /\ alive' = alive \ {e}
  /\ UNCHANGED <<inbox, connected, pc, saw, sent, rcvd, raised>>

-----------------------------------------------------------------------------
Call(t) ==
  \/ PollSignal(t) \/ ThrowClosed(t) \/ SeeConnected(t)
  \/ ReturnConnected(t) \/ Send(t) \/ Receive(t) \/ ReceiveNothing(t)

Next == (\E t \in Thread : Call(t)) \/ (\E e \in Endpoint : Destroy(e))

Spec == Init /\ [][Next]_vars

\* The threads of an endpoint call send and receive in a loop.
FairSpec == Spec /\ \A t \in Thread : WF_vars(Call(t))

-----------------------------------------------------------------------------
(* Properties *)

TypeOK ==
  /\ inbox \in [Endpoint -> Seq(Nat)]
  /\ signals \in [Endpoint -> Nat]
  /\ connected \in [Endpoint -> BOOLEAN]
  /\ alive \subseteq Endpoint
  /\ pc \in [Thread -> {"idle", "polled", "connected", "closed"}]
  /\ saw \subseteq Thread
  /\ sent \in [Endpoint -> Nat]
  /\ rcvd \in [Endpoint -> Nat]
  /\ raised \subseteq Endpoint

\* The one Disconnect of a destroyed endpoint is always somewhere: still in
\* the signal queue, in the hands of the thread that took it, or remembered
\* in connected_.  It never reaches an endpoint whose peer lives.
DisconnectKept ==
  \A e \in Endpoint :
    (Peer[e] \notin alive) <=>
      \/ signals[e] > 0
      \/ \E t \in saw : At(t) = e
      \/ ~connected[e]

\* Messages arrive in order, once each, and an endpoint reports its peer gone
\* only when it is: the pair behaves as MessageConnection.
Abstract == INSTANCE MessageConnection
Implements == Abstract!ConnSpec

\* Both threads of an endpoint learn that the peer is gone, although only
\* one of them can take the signal.
PeerGoneNoticed ==
  \A t \in Thread :
    Peer[At(t)] \notin alive ~> pc[t] = "closed" \/ At(t) \notin alive
=============================================================================
