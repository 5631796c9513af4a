----------------------- MODULE HeadscaleClientProofs -----------------------
(***************************************************************************)
(* What holds of the Headscale client and its circuit breaker for every    *)
(* number of callers, threshold, recovery time and retry limit.            *)
(***************************************************************************)
EXTENDS HeadscaleClient, TLAPS

-----------------------------------------------------------------------------
(* The variables keep their types: the count stays within its bound and    *)
(* every caller within its attempts (HeadscaleClient._raw_request,  *)
(* CircuitBreaker).                                                        *)
THEOREM TypeCorrect == Spec => []TypeOK
<1> USE BreakerAssumption
<1>1. Init => TypeOK
  BY DEF Init, TypeOK
<1>2. TypeOK /\ [Next]_vars => TypeOK'
  <2> SUFFICES ASSUME TypeOK, [Next]_vars PROVE TypeOK'
    OBVIOUS
  <2> USE DEF TypeOK
  <2>1. ASSUME NEW p \in Callers, Admitted(p) PROVE TypeOK'
    BY <2>1 DEF Admitted, Look, breakerVars
  <2>2. ASSUME NEW p \in Callers, Answered(p) PROVE TypeOK'
    BY <2>2 DEF Answered, Calling, Return, OnSuccess
  <2>3. ASSUME NEW p \in Callers, Refused(p) PROVE TypeOK'
    BY <2>3 DEF Refused, Calling, Return, breakerVars
  <2>4. ASSUME NEW p \in Callers, ServerError(p) PROVE TypeOK'
    BY <2>4 DEF ServerError, Calling, Return, Retry, LastAttempt, breakerVars
  <2>5. ASSUME NEW p \in Callers, Unreachable(p) PROVE TypeOK'
    BY <2>5 DEF Unreachable, Calling, Return, Retry, LastAttempt, OnFailure,
                CountUp, breakerVars
  <2>6. CASE ChangeHealth
    BY <2>6 DEF ChangeHealth, breakerVars
  <2>7. CASE Tick
    BY <2>7 DEF Tick
  <2>8. CASE UNCHANGED vars
    BY <2>8 DEF vars, breakerVars
  <2> QED
    BY <2>1, <2>2, <2>3, <2>4, <2>5, <2>6, <2>7, <2>8 DEF Next
<1> QED
  BY <1>1, <1>2, PTL DEF Spec

-----------------------------------------------------------------------------
(* The breaker is closed exactly when fewer failures than the threshold    *)
(* are counted, whichever calls end in whichever state                     *)
(* (CircuitBreaker._on_success, _on_failure).                              *)
THEOREM CountAgreesWithState == Spec => []ClosedIffBelowThreshold
<1> USE BreakerAssumption
<1>1. Init => ClosedIffBelowThreshold
  BY DEF Init, ClosedIffBelowThreshold
<1>2. /\ TypeOK
      /\ ClosedIffBelowThreshold
      /\ [Next]_vars
      => ClosedIffBelowThreshold'
  <2> SUFFICES ASSUME TypeOK, ClosedIffBelowThreshold, [Next]_vars
               PROVE  ClosedIffBelowThreshold'
    OBVIOUS
  <2> USE DEF TypeOK, ClosedIffBelowThreshold
  <2>1. CASE UNCHANGED breakerVars
    BY <2>1 DEF breakerVars
  <2>2. CASE OnSuccess
    BY <2>2 DEF OnSuccess
  <2>3. CASE OnFailure
    <3>1. /\ failures' \in Nat
          /\ failures' < Threshold => failures < Threshold
      BY <2>3 DEF OnFailure, CountUp
    <3>2. CASE Trips
      <4>1. failures' >= Threshold
        BY <2>3, <3>1, <3>2 DEF OnFailure, CountUp, Trips
      <4> QED
        BY <2>3, <3>1, <3>2, <4>1 DEF OnFailure
    <3>3. CASE ~Trips
      <4>1. state' = state /\ ~(failures' >= Threshold)
        BY <2>3, <3>3 DEF OnFailure, Trips
      <4> QED
        BY <3>1, <4>1
    <3> QED
      BY <3>2, <3>3
  <2>4. CASE Look
    BY <2>4, <2>1 DEF Look
  <2>5. CASE Tick
    BY <2>5 DEF Tick
  <2> QED
    BY <2>1, <2>2, <2>3, <2>4, <2>5
    DEF Next, Admitted, Answered, Refused, ServerError, Unreachable,
        ChangeHealth, vars
<1> QED
  BY <1>1, <1>2, TypeCorrect, PTL DEF Spec

-----------------------------------------------------------------------------
(* With one caller a call in progress was let through by a breaker that no *)
(* one has touched since, so it is not open.                               *)
CallOfClosedBreaker ==
  \A p \in Callers : Calling(p) => state # "OPEN"

LEMMA OneCallerInv ==
  ASSUME \A p, q \in Callers : p = q
  PROVE  Spec => []CallOfClosedBreaker
<1> USE BreakerAssumption
<1>1. Init => CallOfClosedBreaker
  BY DEF Init, CallOfClosedBreaker
<1>2. TypeOK /\ CallOfClosedBreaker /\ [Next]_vars => CallOfClosedBreaker'
  <2> SUFFICES ASSUME TypeOK, CallOfClosedBreaker, [Next]_vars
               PROVE  CallOfClosedBreaker'
    OBVIOUS
  <2> USE DEF TypeOK, CallOfClosedBreaker, Calling
  <2>1. ASSUME NEW p \in Callers, Admitted(p) PROVE CallOfClosedBreaker'
    BY <2>1 DEF Admitted
  <2>2. ASSUME NEW p \in Callers, Return(p), Calling(p)
        PROVE  CallOfClosedBreaker'
    <3>1. \A q \in Callers : attempt'[q] = 0
      BY <2>2 DEF Return
    <3> QED
      BY <3>1
  <2>3. ASSUME NEW p \in Callers, Retry(p), Calling(p), UNCHANGED breakerVars
        PROVE  CallOfClosedBreaker'
    BY <2>3 DEF Retry, breakerVars
  <2>4. CASE ChangeHealth \/ Tick \/ UNCHANGED vars
    BY <2>4 DEF ChangeHealth, Tick, vars, breakerVars
  <2> QED
    BY <2>1, <2>2, <2>3, <2>4
    DEF Next, Answered, Refused, ServerError, Unreachable
<1> QED
  BY <1>1, <1>2, TypeCorrect, PTL DEF Spec

(* When one thread alone calls Headscale an open breaker closes only by    *)
(* way of a probe, after its recovery time; with more callers a call       *)
(* admitted before the breaker opened closes it at once.                   *)
THEOREM OneCallerKeepsRecoveryTime ==
  ASSUME \A p, q \in Callers : p = q
  PROVE  Spec => RecoveryTimeKept
<1>1. /\ CallOfClosedBreaker
      /\ [Next]_vars
      => [state = "OPEN" => state' # "CLOSED"]_vars
  <2> SUFFICES ASSUME CallOfClosedBreaker, Next, state = "OPEN"
               PROVE  state' # "CLOSED"
    OBVIOUS
  <2>1. \A p \in Callers : ~Calling(p)
    BY DEF CallOfClosedBreaker
  <2>2. ASSUME NEW p \in Callers, Admitted(p) PROVE state' # "CLOSED"
    BY <2>2 DEF Admitted, Look, breakerVars
  <2>3. CASE ChangeHealth \/ Tick
    BY <2>3 DEF ChangeHealth, Tick, breakerVars
  <2> QED
    BY <2>1, <2>2, <2>3 DEF Next, Answered, Refused, ServerError, Unreachable
<1> QED
  BY <1>1, OneCallerInv, PTL DEF Spec, RecoveryTimeKept
=============================================================================
