--------------------------- MODULE MCSessionGateway ---------------------------
(* Instances of SessionGateway for TLC. *)
EXTENDS SessionGateway, TLC

Symmetry == Permutations(Sockets) \cup Permutations(Users)
=============================================================================
