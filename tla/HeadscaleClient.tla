--------------------------- MODULE HeadscaleClient ---------------------------
(***************************************************************************)
(* Calls to the Headscale API: the client retries a request a few times    *)
(* and passes it through the one circuit breaker of the process, which the *)
(* request threads, the event loop and its background loops all share.     *)
(*                                                                         *)
(* Only the breaker's own fields are under its lock; the call is made      *)
(* outside it, so a call admitted in one state of the breaker may end in   *)
(* another.                                                                *)
(***************************************************************************)
EXTENDS Naturals

CONSTANTS
  Callers,     \* the threads that call Headscale
  Threshold,   \* failures that open the breaker
  Recovery,    \* time an open breaker rejects calls
  MaxRetries,  \* attempts the client makes for a call
  MaxFailures  \* bound of the failure count

ASSUME BreakerAssumption ==
  /\ Threshold \in Nat \ {0}
  /\ Recovery \in Nat \ {0}
  /\ MaxRetries \in Nat \ {0}
  /\ MaxFailures \in Nat /\ MaxFailures >= Threshold

VARIABLES
  state,     \* CLOSED, OPEN or HALF_OPEN
  failures,  \* the breaker's failure count
  elapsed,   \* time since the last change of state, up to Recovery
  attempt,   \* attempt[p]: the attempt p is making, 0 when p is not calling
  healthy    \* does Headscale answer?

breakerVars == <<state, failures, elapsed>>
vars == <<breakerVars, attempt, healthy>>

TypeOK ==
  /\ state \in {"CLOSED", "OPEN", "HALF_OPEN"}
  /\ failures \in 0..MaxFailures
  /\ elapsed \in 0..Recovery
  /\ attempt \in [Callers -> 0..MaxRetries]
  /\ healthy \in BOOLEAN

Init ==
  /\ state = "CLOSED"
  /\ failures = 0
  /\ elapsed = 0
  /\ attempt = [p \in Callers |-> 0]
  /\ healthy = TRUE

(* A mutated form: the count is not kept within bounds.                    *)
CountUpTwice(n) == n + 2

(* Counting up to the bound: beyond the threshold counts are not told      *)
(* apart.                                                                  *)
CountUp(n) == IF n < MaxFailures THEN n + 1 ELSE n

-----------------------------------------------------------------------------
(* The breaker, each operator one critical section of its lock *)

(* A mutated form: an open breaker's time is never seen to be up.          *)
LookNever == UNCHANGED breakerVars

(* A caller looks at the state: an open breaker whose time is up lets the  *)
(* caller through as a probe.                                              *)
Look ==
  \/ /\ state = "OPEN" /\ elapsed = Recovery
     /\ state' = "HALF_OPEN"
     /\ elapsed' = 0
     /\ UNCHANGED failures
  \/ /\ ~(state = "OPEN" /\ elapsed = Recovery)
     /\ UNCHANGED breakerVars

(* A mutated form: a success leaves the count as it is.                    *)
OnSuccessKeepingCount ==
  /\ state' = "CLOSED"
  /\ elapsed' = 0
  /\ UNCHANGED failures

OnSuccess ==
  /\ state' = "CLOSED"
  /\ failures' = 0
  /\ elapsed' = 0

Trips == failures' >= Threshold \/ state = "HALF_OPEN"

OnFailure ==
  /\ failures' = CountUp(failures)
  /\ state' = IF Trips THEN "OPEN" ELSE state
  /\ elapsed' = IF Trips THEN 0 ELSE elapsed

-----------------------------------------------------------------------------
(* A call *)

(* The breaker lets the call through.  Otherwise it fails at once and      *)
(* nothing changes.                                                        *)
Admitted(p) ==
  /\ attempt[p] = 0
  /\ Look
  /\ state' # "OPEN"
  /\ attempt' = [attempt EXCEPT ![p] = 1]
  /\ UNCHANGED healthy

Calling(p) == attempt[p] # 0
LastAttempt(p) == attempt[p] = MaxRetries

Retry(p) == attempt' = [attempt EXCEPT ![p] = attempt[p] + 1]
Return(p) == attempt' = [attempt EXCEPT ![p] = 0]

(* Headscale does what was asked.                                          *)
Answered(p) ==
  /\ Calling(p)
  /\ healthy
  /\ Return(p)
  /\ OnSuccess
  /\ UNCHANGED healthy

(* Headscale answers 401, 403, 404 or another client error: the exception  *)
(* is not one the breaker counts, and is no success either.                *)
Refused(p) ==
  /\ Calling(p)
  /\ healthy
  /\ Return(p)
  /\ UNCHANGED <<breakerVars, healthy>>

(* Headscale answers 5xx: tried again, and at last reported without the    *)
(* breaker hearing of it.                                                  *)
ServerError(p) ==
  /\ Calling(p)
  /\ ~healthy
  /\ IF LastAttempt(p) THEN Return(p) ELSE Retry(p)
  /\ UNCHANGED <<breakerVars, healthy>>

(* No connection, or no answer in time: tried again, and at last a failure *)
(* for the breaker.                                                        *)
Unreachable(p) ==
  /\ Calling(p)
  /\ ~healthy
  /\ \/ /\ ~LastAttempt(p)
        /\ Retry(p)
        /\ UNCHANGED breakerVars
     \/ /\ LastAttempt(p)
        /\ Return(p)
        /\ OnFailure
  /\ UNCHANGED healthy

-----------------------------------------------------------------------------
(* Headscale and the clock *)

ChangeHealth ==
  /\ healthy' = ~healthy
  /\ UNCHANGED <<breakerVars, attempt>>

Tick ==
  /\ elapsed < Recovery
  /\ elapsed' = elapsed + 1
  /\ UNCHANGED <<state, failures, attempt, healthy>>

Next ==
  \/ \E p \in Callers :
       Admitted(p) \/ Answered(p) \/ Refused(p) \/ ServerError(p) \/ Unreachable(p)
  \/ ChangeHealth
  \/ Tick

Spec == Init /\ [][Next]_vars

(* The state sync calls Headscale every 30 seconds whatever happened       *)
(* before, a call ends because every attempt has a timeout, and not every  *)
(* answer of a working Headscale is a refusal: the sync's own list of      *)
(* nodes is not.                                                           *)
FairSpec ==
  /\ Spec
  /\ WF_vars(Tick)
  /\ WF_vars(\E p \in Callers : Admitted(p))
  /\ \A p \in Callers :
       WF_vars(Answered(p) \/ Refused(p) \/ ServerError(p) \/ Unreachable(p))
  /\ SF_vars(\E p \in Callers : Answered(p))

-----------------------------------------------------------------------------
(* Properties *)

(* The count and the state never disagree, whichever calls end while the   *)
(* breaker is open or probing: it is closed exactly when fewer failures    *)
(* than the threshold have been counted since the last success.            *)
ClosedIffBelowThreshold == state = "CLOSED" <=> failures < Threshold

(* docs/ANALISE_TECNICA: the breaker keeps "a recovery time of 20          *)
(* seconds": an open breaker closes only through HALF_OPEN, never straight *)
(* from OPEN.  This holds for one caller; with more, a call admitted       *)
(* before the breaker opened may succeed after and close it.               *)
RecoveryTimeKept == [][state = "OPEN" => state' # "CLOSED"]_vars

(* If Headscale is well from some time on, the breaker is closed for good  *)
(* from some time on: no order of late failures and probes locks it open.  *)
Recovers == <>[]healthy => <>[](state = "CLOSED")
=============================================================================
