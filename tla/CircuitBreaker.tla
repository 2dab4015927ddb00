---------------------------- MODULE CircuitBreaker ----------------------------
(***************************************************************************)
(* src/infrastructure/services/circuit-breaker.service.ts: one instance    *)
(* and the concurrent execute() calls made on it.  (Its logger depends on  *)
(* the request, so what Nest injects is an instance per request: IsStatic  *)
(* in Bootstrap.)                                                          *)
(*                                                                         *)
(* execute() decides synchronously, then awaits the operation, so an       *)
(* operation that started in one breaker state may settle in another.      *)
(* Its start and its settlement are therefore separate actions.            *)
(***************************************************************************)
EXTENDS Integers

CONSTANTS
  Calls,             \* concurrent execute() invocations; a slot is reused
  failureThreshold,  \* options.failureThreshold
  resetTimeout,      \* options.resetTimeout
  MaxFailures        \* bound: failureCount is counted no further than this

ASSUME BreakerAssumption ==
  /\ failureThreshold \in Nat \ {0}
  /\ resetTimeout \in Nat \ {0}
  /\ MaxFailures \in Nat
  /\ MaxFailures >= failureThreshold

VARIABLES
  state,         \* "CLOSED", "OPEN" or "HALF_OPEN"
  failureCount,
  age,           \* Date.now() - lastFailureTime, counted up to resetTimeout;
                 \* NoFailure while lastFailureTime is null
  pc             \* pc[c]: "running" while c awaits its operation, else how
                 \* its last execute() ended

vars == <<state, failureCount, age, pc>>

NoFailure == -1

CircuitState == {"CLOSED", "OPEN", "HALF_OPEN"}

Init ==
  /\ state = "CLOSED"
  /\ failureCount = 0
  /\ age = NoFailure
  /\ pc = [c \in Calls |-> "idle"]

-----------------------------------------------------------------------------
\* The first failure leaves lastFailureTime set, so null is never old enough.
shouldReset == age # NoFailure /\ age >= resetTimeout

\* failureCount++, counted no further than MaxFailures: the code only asks
\* whether the count has reached failureThreshold.
CountedFailure ==
  IF failureCount < MaxFailures THEN failureCount + 1 ELSE failureCount

\* Plausible slips: the counter leaks one failure per success, or is kept.
onSuccessLeaking ==
  /\ failureCount' = failureCount - 1
  /\ state' = "CLOSED"
  /\ UNCHANGED age

onSuccessKeepingCount ==
  /\ state' = "CLOSED"
  /\ UNCHANGED <<failureCount, age>>

onSuccess ==
  /\ failureCount' = 0
  /\ state' = "CLOSED"
  /\ UNCHANGED age

onFailure ==
  /\ failureCount' = CountedFailure
  /\ age' = 0
  /\ state' = IF failureCount' >= failureThreshold THEN "OPEN" ELSE state

\* execute() up to its await: the call is let through to the operation.
Admit(c) ==
  /\ pc[c] # "running"
  /\ state = "OPEN" => shouldReset
  /\ state' = IF state = "OPEN" THEN "HALF_OPEN" ELSE state
  /\ pc' = [pc EXCEPT ![c] = "running"]
  /\ UNCHANGED <<failureCount, age>>

\* A plausible slip: the check moved inside the try block, so a refused call
\* is counted as a failure of the dependency and refreshes lastFailureTime.
RejectInsideTry(c) ==
  /\ pc[c] # "running"
  /\ state = "OPEN" /\ ~shouldReset
  /\ pc' = [pc EXCEPT ![c] = "rejected"]
  /\ onFailure

\* execute() throwing 'Circuit breaker is OPEN': the operation is not called.
Reject(c) ==
  /\ pc[c] # "running"
  /\ state = "OPEN" /\ ~shouldReset
  /\ pc' = [pc EXCEPT ![c] = "rejected"]
  /\ UNCHANGED <<state, failureCount, age>>

Succeed(c) ==
  /\ pc[c] = "running"
  /\ pc' = [pc EXCEPT ![c] = "ok"]
  /\ onSuccess

Fail(c) ==
  /\ pc[c] = "running"
  /\ pc' = [pc EXCEPT ![c] = "failed"]
  /\ onFailure

\* The wall clock advances; it is taken to be monotonic.
Tick ==
  /\ age \in 0 .. (resetTimeout - 1)
  /\ age' = age + 1
  /\ UNCHANGED <<state, failureCount, pc>>

Execute(c) == Admit(c) \/ Reject(c)
Settle(c)  == Succeed(c) \/ Fail(c)

Next ==
  \/ \E c \in Calls : Execute(c) \/ Settle(c)
  \/ Tick

Spec == Init /\ [][Next]_vars

\* Time passes, every operation settles (axios resolves or rejects), and
\* callers keep calling.
Fairness ==
  /\ WF_vars(Tick)
  /\ \A c \in Calls : WF_vars(Execute(c)) /\ WF_vars(Settle(c))

FairSpec == Spec /\ Fairness

-----------------------------------------------------------------------------
TypeOK ==
  /\ state \in CircuitState
  /\ failureCount \in 0 .. MaxFailures
  /\ age \in {NoFailure} \cup 0 .. resetTimeout
  /\ pc \in [Calls -> {"idle", "running", "ok", "failed", "rejected"}]

\* The three-valued state and the counter never disagree: the breaker has
\* left CLOSED exactly when the failures since the last success reach the
\* threshold, whatever order concurrent operations settle in.  This is why
\* one failed probe in HALF_OPEN re-opens the circuit at once.
TrippedIffThreshold ==
  (state # "CLOSED") <=> (failureCount >= failureThreshold)

\* execute() checks the clock only when it finds OPEN; in HALF_OPEN it lets
\* every caller through unchecked.  That is sound only because HALF_OPEN is
\* never left standing once a new failure has been recorded.
HalfOpenIsCooledDown ==
  /\ state = "HALF_OPEN" => age >= resetTimeout
  /\ state = "OPEN" => age # NoFailure

\* No call reaches the dependency while the threshold is reached and the
\* last failure is younger than resetTimeout, however calls interleave.
AdmissionRule ==
  [][\A c \in Calls :
        pc[c] # "running" /\ pc'[c] = "running" =>
          failureCount < failureThreshold \/ age >= resetTimeout]_vars

\* The three-state machine implements the two-condition policy.
Policy == INSTANCE BreakerPolicy WITH streak <- failureCount
ImplementsPolicy == Policy!Spec

\* A breaker that opened is eventually probed again: late failures of calls
\* already in flight prolong the outage, but rejected callers do not.
NeverStuckOpen == (state = "OPEN") ~> (state # "OPEN")
=============================================================================
