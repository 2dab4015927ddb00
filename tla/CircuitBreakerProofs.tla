------------------------- MODULE CircuitBreakerProofs -------------------------
(***************************************************************************)
(* Proofs about CircuitBreaker for any set of callers, any threshold and   *)
(* any timeout.  Inv is inductive: the typing, the agreement of state and  *)
(* counter, and the age of the last failure in each state need each other. *)
(***************************************************************************)
EXTENDS CircuitBreaker, TLAPS

Inv == TypeOK /\ TrippedIffThreshold /\ HalfOpenIsCooledDown

(* The initial state satisfies the inductive invariant. *)
LEMMA InitInv == Init => Inv
  BY BreakerAssumption
  DEF Init, Inv, TypeOK, TrippedIffThreshold, HalfOpenIsCooledDown, CircuitState,
      NoFailure

(* A failure keeps the streak within the bound and never lowers it. *)
LEMMA CountedFailureBound ==
  ASSUME failureCount \in 0 .. MaxFailures
  PROVE  /\ CountedFailure \in 1 .. MaxFailures
         /\ CountedFailure >= failureCount
  BY BreakerAssumption DEF CountedFailure

(* Every step of the breaker, of its callers and of the clock preserves    *)
(* the inductive invariant.                                                *)
LEMMA NextInv == Inv /\ [Next]_vars => Inv'
<1> SUFFICES ASSUME Inv, [Next]_vars
             PROVE  Inv'
  OBVIOUS
<1> USE BreakerAssumption
    DEF Inv, TypeOK, TrippedIffThreshold, HalfOpenIsCooledDown, CircuitState,
        NoFailure
<1>1. ASSUME NEW c \in Calls, Admit(c)
      PROVE  Inv'
  BY <1>1 DEF Admit, shouldReset
<1>2. ASSUME NEW c \in Calls, Reject(c)
      PROVE  Inv'
  BY <1>2 DEF Reject
<1>3. ASSUME NEW c \in Calls, Succeed(c)
      PROVE  Inv'
  BY <1>3 DEF Succeed, onSuccess
<1>4. ASSUME NEW c \in Calls, Fail(c)
      PROVE  Inv'
  <2>1. /\ CountedFailure \in 1 .. MaxFailures
        /\ CountedFailure >= failureCount
    BY CountedFailureBound
  <2>2. CASE CountedFailure >= failureThreshold
    BY <1>4, <2>1, <2>2 DEF Fail, onFailure
  <2>3. CASE CountedFailure < failureThreshold
    BY <1>4, <2>1, <2>3 DEF Fail, onFailure
  <2>4. QED
    BY <2>1, <2>2, <2>3
<1>5. CASE Tick
  BY <1>5 DEF Tick
<1>6. CASE UNCHANGED vars
  BY <1>6 DEF vars
<1>7. QED
  BY <1>1, <1>2, <1>3, <1>4, <1>5, <1>6 DEF Next, Execute, Settle

(* Every behaviour of the breaker stays inside the inductive invariant. *)
THEOREM BreakerInvariant == Spec => []Inv
  BY InitInv, NextInv, PTL DEF Spec

(* The breaker's variables keep their types: in particular the failure     *)
(* count never goes negative and the state is one of the enum's three.     *)
THEOREM BreakerTypeOK == Spec => []TypeOK
<1>1. Inv => TypeOK
  BY DEF Inv
<1>2. QED
  BY <1>1, BreakerInvariant, PTL

(* state and failureCount always agree, however settlements are ordered. *)
THEOREM BreakerTripped == Spec => []TrippedIffThreshold
<1>1. Inv => TrippedIffThreshold
  BY DEF Inv
<1>2. QED
  BY <1>1, BreakerInvariant, PTL

(* HALF_OPEN is never left standing after a fresh failure, which is what   *)
(* makes the unchecked admission in HALF_OPEN sound.                       *)
THEOREM BreakerHalfOpen == Spec => []HalfOpenIsCooledDown
<1>1. Inv => HalfOpenIsCooledDown
  BY DEF Inv
<1>2. QED
  BY <1>1, BreakerInvariant, PTL

-----------------------------------------------------------------------------
(* The streak the policy keeps is the code's failure count, so a step that *)
(* lets a call start is one the policy allows.                             *)
LEMMA AdmitAllowed ==
  ASSUME Inv, NEW c \in Calls, Admit(c)
  PROVE  failureCount < failureThreshold \/ age >= resetTimeout
<1>1. CASE state = "OPEN"
  BY <1>1 DEF Admit, shouldReset
<1>2. CASE state # "OPEN"
  BY <1>2, BreakerAssumption
  DEF Inv, TypeOK, CircuitState, TrippedIffThreshold, HalfOpenIsCooledDown
<1>3. QED
  BY <1>1, <1>2

(* Only Admit turns a call into a running one. *)
LEMMA OnlyAdmitStarts ==
  ASSUME Inv, [Next]_vars, NEW c \in Calls, pc[c] # "running", pc'[c] = "running"
  PROVE  Admit(c)
<1> USE DEF Inv, TypeOK
<1>1. ASSUME NEW d \in Calls, Admit(d)
      PROVE  Admit(c)
  BY <1>1 DEF Admit
<1>2. ASSUME NEW d \in Calls, Reject(d) \/ Succeed(d) \/ Fail(d)
      PROVE  FALSE
  BY <1>2 DEF Reject, Succeed, Fail
<1>3. CASE Tick \/ UNCHANGED vars
  BY <1>3 DEF Tick, vars
<1>4. QED
  BY <1>1, <1>2, <1>3 DEF Next, Execute, Settle

(* However calls interleave, none reaches the dependency while the         *)
(* threshold is reached and the last failure is younger than the timeout.  *)
THEOREM BreakerAdmission == Spec => AdmissionRule
<1>1. Inv /\ [Next]_vars =>
        [\A c \in Calls :
           pc[c] # "running" /\ pc'[c] = "running" =>
             failureCount < failureThreshold \/ age >= resetTimeout]_vars
  BY OnlyAdmitStarts, AdmitAllowed
<1>2. QED
  BY <1>1, BreakerInvariant, PTL DEF Spec, AdmissionRule

(* The refinement: the code's three states, the count and the clock        *)
(* implement the two-condition policy, step by step.                       *)
THEOREM BreakerImplementsPolicy == Spec => ImplementsPolicy
<1> USE DEF Policy!Allowed, Policy!vars
<1>1. Init => Policy!Init
  BY DEF Init, Policy!Init, NoFailure
<1>2. Inv /\ [Next]_vars => [Policy!Next]_(Policy!vars)
  <2> SUFFICES ASSUME Inv, [Next]_vars
               PROVE  [Policy!Next]_(Policy!vars)
    OBVIOUS
  <2>1. ASSUME NEW c \in Calls, Admit(c)
        PROVE  Policy!Admit(c)
    BY <2>1, AdmitAllowed DEF Admit, Policy!Admit
  <2>2. ASSUME NEW c \in Calls, Reject(c)
        PROVE  Policy!TurnAway(c)
    BY <2>2, BreakerAssumption
    DEF Reject, Policy!TurnAway, shouldReset, Inv, TypeOK, TrippedIffThreshold,
        HalfOpenIsCooledDown, CircuitState, NoFailure
  <2>3. ASSUME NEW c \in Calls, Succeed(c)
        PROVE  Policy!Succeed(c)
    BY <2>3 DEF Succeed, onSuccess, Policy!Succeed
  <2>4. ASSUME NEW c \in Calls, Fail(c)
        PROVE  Policy!Fail(c)
    BY <2>4 DEF Fail, onFailure, CountedFailure, Policy!Fail
  <2>5. CASE Tick
    BY <2>5 DEF Tick, Policy!Tick, Policy!Next
  <2>6. CASE UNCHANGED vars
    BY <2>6 DEF vars
  <2>7. QED
    BY <2>1, <2>2, <2>3, <2>4, <2>5, <2>6
    DEF Next, Execute, Settle, Policy!Next
<1>3. QED
  BY <1>1, <1>2, BreakerInvariant, PTL DEF Spec, ImplementsPolicy, Policy!Spec
=============================================================================
