---------------------------- MODULE BreakerPolicy ----------------------------
(***************************************************************************)
(* What a circuit breaker promises its callers, with no breaker state at   *)
(* all: a call reaches the dependency when fewer than failureThreshold     *)
(* failures have been seen since the last success, or when the last        *)
(* failure is at least resetTimeout old.  Any other call is turned away.   *)
(* CircuitBreaker (the three-state machine of the code) implements it.     *)
(***************************************************************************)
EXTENDS Integers

CONSTANTS Calls, failureThreshold, resetTimeout, MaxFailures

VARIABLES pc, streak, age

vars == <<pc, streak, age>>

Allowed == streak < failureThreshold \/ age >= resetTimeout

Init ==
  /\ pc = [c \in Calls |-> "idle"]
  /\ streak = 0
  /\ age = -1

Admit(c) ==
  /\ pc[c] # "running"
  /\ Allowed
  /\ pc' = [pc EXCEPT ![c] = "running"]
  /\ UNCHANGED <<streak, age>>

TurnAway(c) ==
  /\ pc[c] # "running"
  /\ ~Allowed
  /\ pc' = [pc EXCEPT ![c] = "rejected"]
  /\ UNCHANGED <<streak, age>>

Succeed(c) ==
  /\ pc[c] = "running"
  /\ pc' = [pc EXCEPT ![c] = "ok"]
  /\ streak' = 0
  /\ UNCHANGED age

Fail(c) ==
  /\ pc[c] = "running"
  /\ pc' = [pc EXCEPT ![c] = "failed"]
  /\ streak' = IF streak < MaxFailures THEN streak + 1 ELSE streak
  /\ age' = 0

Tick ==
  /\ age \in 0 .. (resetTimeout - 1)
  /\ age' = age + 1
  /\ UNCHANGED <<pc, streak>>

Next ==
  \/ \E c \in Calls : Admit(c) \/ TurnAway(c) \/ Succeed(c) \/ Fail(c)
  \/ Tick

Spec == Init /\ [][Next]_vars
=============================================================================
