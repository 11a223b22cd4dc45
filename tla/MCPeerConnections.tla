------------------------- MODULE MCPeerConnections -------------------------
(* Instances of PeerConnections for model checking.                         *)
EXTENDS PeerConnections, TLC

CONSTANTS u1, u2, c1, c2

Symmetry == Permutations(Conns) \cup Permutations(Users)
=============================================================================
