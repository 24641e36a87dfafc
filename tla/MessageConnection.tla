-------------------------- MODULE MessageConnection --------------------------
(***************************************************************************)
(* What the two endpoints of a message connection promise their users      *)
(* (IMessageConnection in net/IMessageConnection.h, as its callers rely on *)
(* it): messages arrive in the order they were sent, each at most once,    *)
(* none invented, and ConnectionClosedError is raised at an endpoint only  *)
(* after the other one was destroyed.  Messages still under way then may   *)
(* be lost.                                                                *)
(*                                                                         *)
(* A message is named by its number among those sent to its endpoint.      *)
(***************************************************************************)
EXTENDS Naturals

CONSTANTS
  Endpoint,
  Peer     \* the other endpoint of each

VARIABLES
  sent,    \* how many messages were sent to each endpoint
  rcvd,    \* the number of the last message each endpoint received
  alive,   \* the endpoints whose object exists
  raised   \* the endpoints where ConnectionClosedError was raised

connVars == <<sent, rcvd, alive, raised>>

ConnInit ==
  /\ sent = [e \in Endpoint |-> 0]
  /\ rcvd = [e \in Endpoint |-> 0]
  /\ alive = Endpoint
  /\ raised = {}

Send(e) ==
  /\ e \in alive
  /\ sent' = [sent EXCEPT ![Peer[e]] = @ + 1]
  /\ UNCHANGED <<rcvd, alive, raised>>

Receive(e) ==
  /\ e \in alive
  /\ rcvd[e] < sent[e]
  /\ rcvd' = [rcvd EXCEPT ![e] = @ + 1]
  /\ UNCHANGED <<sent, alive, raised>>

RaiseClosed(e) ==
  /\ e \in alive
  /\ Peer[e] \notin alive
  /\ raised' = raised \cup {e}
  /\ UNCHANGED <<sent, rcvd, alive>>

Destroy(e) ==
  /\ e \in alive
  /\ alive' = alive \ {e}
  /\ UNCHANGED <<sent, rcvd, raised>>

ConnNext ==
  \E e \in Endpoint : Send(e) \/ Receive(e) \/ RaiseClosed(e) \/ Destroy(e)

ConnSpec == ConnInit /\ [][ConnNext]_connVars
=============================================================================
