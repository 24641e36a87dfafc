------------------------------ MODULE MCTransports ------------------------------
(***************************************************************************)
(* One run for the transports, which share no state: each behaviour is one *)
(* of a pair of LoopbackConnections, of the spawners that make such pairs, *)
(* or of a TCPConnection, with the others at rest in their initial states. *)
(***************************************************************************)
EXTENDS LoopbackConnection, ConnectionSpawner, TCPConnection, TLC

CONSTANTS client, server, f1, f2, c1, c2, a1, a2, near, far

MCPeer == (client :> server) @@ (server :> client)
MCOtherEnd == (near :> far) @@ (far :> near)
MCMaxBytes == (near :> 1) @@ (far :> 3)

VARIABLE part   \* which of the three this behaviour is about

allVars == <<part, vars, spawnerVars, tcpVars>>

AllInit ==
  /\ part \in {"loopback", "spawner", "tcp"}
  /\ Init /\ SpawnerInit /\ TCPInit

AllNext ==
  \/ part = "loopback" /\ Next /\ UNCHANGED <<part, spawnerVars, tcpVars>>
  \/ part = "spawner" /\ SpawnerNext /\ UNCHANGED <<part, vars, tcpVars>>
  \/ part = "tcp" /\ TCPNext /\ UNCHANGED <<part, vars, spawnerVars>>

OfLoopback(A) == part = "loopback" /\ A /\ UNCHANGED <<part, spawnerVars, tcpVars>>
OfSpawner(A) == part = "spawner" /\ A /\ UNCHANGED <<part, vars, tcpVars>>
OfTCP(A) == part = "tcp" /\ A /\ UNCHANGED <<part, vars, spawnerVars>>

\* The fairness of FairSpec, SpawnerSpec and TCPSpec.
AllSpec ==
  /\ AllInit /\ [][AllNext]_allVars
  /\ \A t \in Thread : WF_allVars(OfLoopback(Call(t)))
  /\ \A c \in Client : WF_allVars(OfSpawner(Connect(c)))
  /\ \A a \in Acceptor : WF_allVars(OfSpawner(Accept(a)))
  /\ \A e \in End :
       /\ WF_allVars(OfTCP(ReceiveLoop(e))) /\ WF_allVars(OfTCP(ReceiverCalls(e)))
       /\ WF_allVars(OfTCP(NewsArrives(e)))

AllTypeOK == TypeOK /\ SpawnerTypeOK /\ TCPTypeOK
=============================================================================
