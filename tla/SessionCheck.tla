---------------------------- MODULE SessionCheck ----------------------------
(***************************************************************************)
(* The contract between a guard and the session service it asks: a check   *)
(* is refused only while its session is absent, and passes only if its     *)
(* session was found: at once, or after a wait that is the service's       *)
(* affair.  Sessions come and go meanwhile as they like, and a check may   *)
(* be given up at any time, as when a command fails.  SessionService and   *)
(* RequestGuards are both shown to implement this, each from its side.     *)
(***************************************************************************)
CONSTANTS
  Sessions,
  Checks     \* who may ask; one check of each at a time

VARIABLES
  live,      \* the sessions that are there
  at,        \* how far each check is
  of         \* the session it is about

Stages == {"none", "asked", "waiting", "passed", "refused"}
Pending == {"asked", "waiting"}

Init == live \subseteq Sessions /\ at = [c \in Checks |-> "none"]

Ask(c)    == at[c] \notin Pending /\ at'[c] = "asked" /\ of'[c] \in Sessions
Find(c)   == at[c] = "asked" /\ of[c] \in live /\ at'[c] = "waiting" /\ of'[c] = of[c]
Refuse(c) == at[c] = "asked" /\ of[c] \notin live /\ at'[c] = "refused"
Pass(c)   == /\ at[c] = "waiting" \/ (at[c] = "asked" /\ of[c] \in live)
             /\ at'[c] = "passed"
Leave(c)  == at'[c] = "none"
Stay(c)   == at'[c] = at[c] /\ (at[c] \in Pending => of'[c] = of[c])

Next ==
  /\ live' \subseteq Sessions /\ at' \in [Checks -> Stages]
  /\ \A c \in Checks : \/ Ask(c) \/ Find(c) \/ Refuse(c) \/ Pass(c) \/ Leave(c) \/ Stay(c)

Spec == Init /\ [][Next]_<<live, at, of>>
=============================================================================
