--------------------------- MODULE CircuitBreaker ---------------------------
(***************************************************************************)
(* The circuit breaker of the API client (backend/services/shared/         *)
(* circuitBreaker.ts): its methods as functions of its fields.             *)
(*                                                                         *)
(* openUntil is null, or a time in the future or in the past; "ahead"      *)
(* becomes "passed" when the clock reaches it.                             *)
(***************************************************************************)
EXTENDS Naturals

CONSTANTS failureThreshold, successThreshold

ASSUME BreakerAssumption ==
  /\ failureThreshold \in Nat \ {0}
  /\ successThreshold \in Nat \ {0}

VARIABLES
  breaker,  \* the fields of the breaker
  streak    \* history: equal results in a row since the state was entered

breakerVars == <<breaker, streak>>

BreakerInit ==
  /\ breaker = [state |-> "closed", consecutiveFailures |-> 0,
                consecutiveSuccesses |-> 0, openUntil |-> "null"]
  /\ streak = [ok |-> TRUE, n |-> 0]

-----------------------------------------------------------------------------

\* Mutant: closing keeps the failures counted so far.
TransitionKeepingFailures(b, state) ==
  [state |-> state,
   consecutiveFailures |-> IF state = "open" THEN 0 ELSE b.consecutiveFailures,
   consecutiveSuccesses |-> IF state = "open" THEN b.consecutiveSuccesses ELSE 0,
   openUntil |-> IF state = "open" THEN "ahead" ELSE "null"]

\* Opening clears the failures, half-opening the successes, closing both.
TransitionTo(b, state) ==
  [state |-> state,
   consecutiveFailures |-> IF state = "half-open" THEN b.consecutiveFailures ELSE 0,
   consecutiveSuccesses |-> IF state = "open" THEN b.consecutiveSuccesses ELSE 0,
   openUntil |-> IF state = "open" THEN "ahead" ELSE "null"]

CheckState(b) ==
  IF b.state = "open" /\ b.openUntil = "passed"
  THEN TransitionTo(b, "half-open") ELSE b

Counted(b, failures, successes) ==
  [state |-> b.state, consecutiveFailures |-> failures,
   consecutiveSuccesses |-> successes, openUntil |-> b.openUntil]

RecordSuccess(b) ==
  LET c == Counted(b, 0, IF b.state = "half-open" THEN b.consecutiveSuccesses + 1
                         ELSE b.consecutiveSuccesses)
  IN IF c.state = "half-open" /\ c.consecutiveSuccesses >= successThreshold
     THEN TransitionTo(c, "closed") ELSE c

RecordFailure(b) ==
  LET d == Counted(b, b.consecutiveFailures + 1, 0)
  IN IF b.state = "half-open"
     THEN TransitionTo(Counted(b, b.consecutiveFailures, 0), "open")
     ELSE IF b.state = "closed" /\ d.consecutiveFailures >= failureThreshold
          THEN TransitionTo(d, "open") ELSE d

\* The history: a result counts in the state in which it is recorded.
Longer(ok) == IF streak.ok = ok THEN streak.n + 1 ELSE 1

Remember(ok) ==
  streak' = IF breaker'.state # breaker.state THEN [ok |-> TRUE, n |-> 0]
            ELSE [ok |-> ok, n |-> IF Longer(ok) > failureThreshold + successThreshold
                                   THEN streak.n ELSE Longer(ok)]

-----------------------------------------------------------------------------

\* The recovery timeout runs out.
RecoveryTimeout ==
  /\ breaker.openUntil = "ahead"
  /\ breaker' = [breaker EXCEPT !.openUntil = "passed"]
  /\ UNCHANGED streak

\* The result of a call is recorded, in whatever state the breaker is by then.
Record(ok) ==
  /\ breaker' = IF ok THEN RecordSuccess(breaker) ELSE RecordFailure(breaker)
  /\ Remember(ok)

\* reset(): closes the breaker by hand.
ResetBreaker ==
  /\ breaker' = TransitionTo(breaker, "closed")
  /\ streak' = [ok |-> TRUE, n |-> 0]

=============================================================================
