--------------------------------- MODULE MCRpc ---------------------------------
EXTENDS Rpc
CONSTANTS k1, k2

\* Two clients with a call each, whose methods work, throw or end the process;
\* one, with either class, that calls again after its connection broke; and one
\* whose only request is refused.
TwoClients ==
  [auto |-> {}, calls |-> [k \in Client |-> 1], conns |-> 2,
   request |-> (k1 :> {"works", "alien"}) @@ (k2 :> {"throws"})]
OneClient(auto) ==
  [auto |-> auto, calls |-> (k1 :> 2) @@ (k2 :> 0), conns |-> 3,
   request |-> [k \in Client |-> {"works"}]]
Refused ==
  [auto |-> {}, calls |-> (k1 :> 1) @@ (k2 :> 0), conns |-> 2,
   request |-> [k \in Client |-> {"refused"}]]
Loads == {TwoClients, OneClient({}), OneClient({k1}), Refused}
=============================================================================
