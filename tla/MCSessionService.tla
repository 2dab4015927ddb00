--------------------------- MODULE MCSessionService ---------------------------
(* Instances of SessionService for TLC. *)
EXTENDS SessionService, TLC

CONSTANTS b, k2

MCPlain == {[user |-> NoUser, id |-> NoId]}
MCNaming == {[user |-> b, id |-> k2]}

\* Calls are interchangeable; for runs without liveness only.
MCSymmetry == Permutations(Calls)
=============================================================================
