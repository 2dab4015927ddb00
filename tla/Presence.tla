------------------------------ MODULE Presence ------------------------------
(***************************************************************************)
(* What a user may expect of the notices: each reaches all of the user's   *)
(* clients that are there at that moment, and nobody else.  There is no    *)
(* map of sockets here, no verification under way and no stale id.         *)
(* SessionGateway is shown to implement this.                              *)
(***************************************************************************)
CONSTANTS
  Clients, Users, Notices,
  Nobody     \* no user

VARIABLES
  present,   \* whose client each one is while it is there, or Nobody
  inbox      \* the notices each received

Init ==
  /\ present = [c \in Clients |-> Nobody]
  /\ inbox = [c \in Clients |-> {}]

Join(c, user) ==
  /\ present[c] = Nobody
  /\ present' = [present EXCEPT ![c] = user]
  /\ UNCHANGED inbox

Leave(c) == present' = [present EXCEPT ![c] = Nobody] /\ UNCHANGED inbox

Notify(user, notice) ==
  /\ inbox' = [c \in Clients |-> IF present[c] = user THEN inbox[c] \cup {notice} ELSE inbox[c]]
  /\ UNCHANGED present

Next ==
  \/ \E c \in Clients : Leave(c) \/ \E user \in Users : Join(c, user)
  \/ \E user \in Users, notice \in Notices : Notify(user, notice)

Spec == Init /\ [][Next]_<<present, inbox>>
=============================================================================
