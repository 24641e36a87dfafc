----------------------- MODULE MCConnectionAggregator -----------------------
(* Connections opened at one acceptor each. *)
EXTENDS ConnectionAggregator, TLC

CONSTANTS c1, c2

Symmetry == Permutations(Conn)

OnePort == [c \in Conn |-> 1]
TwoPorts == (c1 :> 1) @@ (c2 :> 2)
=============================================================================
