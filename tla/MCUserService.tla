---------------------------- MODULE MCUserService ----------------------------
(* Instances of UserService for TLC. *)
EXTENDS UserService

CONSTANTS e, p1, p2

MCCreateDtos == {[email |-> e, password |-> p1]}
MCUpdateDtos == {[email |-> Absent, password |-> p2]}
=============================================================================
