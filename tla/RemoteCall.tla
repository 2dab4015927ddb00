----------------------------- MODULE RemoteCall -----------------------------
(***************************************************************************)
(* What a client may conclude from the answer to a request that is to have *)
(* an effect: success means it took place, failure means it did not and    *)
(* never will, and an answer that tells nothing leaves both open, for      *)
(* later too.  RequestExchange is shown to implement this.                 *)
(***************************************************************************)
EXTENDS Naturals

CONSTANT Requests

VARIABLES
  verdict,   \* what the client has been told of each request
  writes,    \* whether it asks for an effect
  effect     \* whether that took place

Verdicts == {"idle", "open", "done", "failed", "unknown"}

Init ==
  /\ verdict = [q \in Requests |-> "idle"]
  /\ writes = [q \in Requests |-> FALSE]
  /\ effect = [q \in Requests |-> FALSE]

Call(q) ==
  /\ verdict[q] = "idle"
  /\ verdict' = [verdict EXCEPT ![q] = "open"]
  /\ \E w \in BOOLEAN : writes' = [writes EXCEPT ![q] = w]
  /\ UNCHANGED effect

\* At most once, and never after a failure was reported.
Effect(q) ==
  /\ verdict[q] \in {"open", "unknown"} /\ writes[q] /\ ~effect[q]
  /\ effect' = [effect EXCEPT ![q] = TRUE]
  /\ UNCHANGED <<verdict, writes>>

Answer(q) ==
  /\ verdict[q] = "open"
  /\ \/ (writes[q] => effect[q]) /\ verdict' = [verdict EXCEPT ![q] = "done"]
     \/ ~effect[q] /\ verdict' = [verdict EXCEPT ![q] = "failed"]
     \/ verdict' = [verdict EXCEPT ![q] = "unknown"]
  /\ UNCHANGED <<writes, effect>>

\* Requests that are over are forgotten.
Forget(qs) ==
  /\ \A q \in qs : verdict[q] \notin {"idle", "open"}
  /\ verdict' = [q \in Requests |-> IF q \in qs THEN "idle" ELSE verdict[q]]
  /\ writes' = [q \in Requests |-> IF q \in qs THEN FALSE ELSE writes[q]]
  /\ effect' = [q \in Requests |-> IF q \in qs THEN FALSE ELSE effect[q]]

Next == \/ \E q \in Requests : Call(q) \/ Effect(q) \/ Answer(q)
        \/ \E qs \in SUBSET Requests : Forget(qs)

Spec == Init /\ [][Next]_<<verdict, writes, effect>>
=============================================================================
