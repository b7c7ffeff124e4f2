-------------------------- MODULE ProtectedCharges --------------------------
(***************************************************************************)
(* Charges and state changes of subscriptions that run under the lock of   *)
(* their subscription (backend/services/billing/lockIntegration.ts,        *)
(* subscription/lockIntegration.ts) and call another service through the   *)
(* API client and its circuit breaker (shared/apiClient.ts).  The function *)
(* that runs under the lock is passed in by the caller; here it makes one  *)
(* request.  Nothing bounds how long a request takes: fetch is called      *)
(* without a timeout.                                                      *)
(***************************************************************************)
EXTENDS AdvisoryLock, CircuitBreaker

VARIABLE request  \* the request of each job: "none", "running" or "settled"

vars == <<heldLocks, job, breaker, streak, request>>

Init ==
  /\ LockInit
  /\ BreakerInit
  /\ request = [j \in Jobs |-> "none"]

-----------------------------------------------------------------------------

\* chargeWithLock, cancelWithLock, ... transitionStateWithLock.
ChargeWithLock(j, s) ==
  /\ WithLock(j, s)
  /\ UNCHANGED <<breaker, streak, request>>

RetryLock(j) == Retry(j) /\ UNCHANGED <<breaker, streak, request>>

TimeOut(j) == GiveUp(j) /\ UNCHANGED <<breaker, streak, request>>

\* Mutant: a request waits for the breaker instead of being refused.
RequestOnceClosed(j) ==
  /\ job[j].pc = "locked"
  /\ request[j] = "none"
  /\ CheckState(breaker).state # "open"
  /\ breaker' = CheckState(breaker)
  /\ streak' = IF breaker'.state # breaker.state
               THEN [ok |-> TRUE, n |-> 0] ELSE streak
  /\ request' = [request EXCEPT ![j] = "running"]
  /\ UNCHANGED lockVars

\* The function under the lock calls request(): execute() first looks at
\* the clock, and throws at once while the breaker is open.
Request(j) ==
  /\ job[j].pc = "locked"
  /\ request[j] = "none"
  /\ breaker' = CheckState(breaker)
  /\ streak' = IF breaker'.state # breaker.state
               THEN [ok |-> TRUE, n |-> 0] ELSE streak
  /\ request' = [request EXCEPT ![j] =
                   IF breaker'.state = "open" THEN "settled" ELSE "running"]
  /\ UNCHANGED lockVars

\* fetch answers.  An error of the client (below 500) is a success to the
\* breaker and thrown outside it; a server or network error is a failure.
Answer(j, ok) ==
  /\ request[j] = "running"
  /\ request' = [request EXCEPT ![j] = "settled"]
  /\ Record(ok)
  /\ UNCHANGED lockVars

\* The function is over, with a result or an error, and the lock released.
EndCharge(j) ==
  /\ request[j] = "settled"
  /\ request' = [request EXCEPT ![j] = "none"]
  /\ Release(j)
  /\ UNCHANGED breakerVars

Timeout == RecoveryTimeout /\ UNCHANGED <<heldLocks, job, request>>

Reset == ResetBreaker /\ UNCHANGED <<heldLocks, job, request>>

\* What the event loop does by itself once a job has started.
Proceed(j) == RetryLock(j) \/ TimeOut(j) \/ Request(j) \/ EndCharge(j)

Next ==
  \/ \E j \in Jobs, s \in Subscriptions : ChargeWithLock(j, s)
  \/ \E j \in Jobs : RetryLock(j)
  \/ \E j \in Jobs : TimeOut(j)
  \/ \E j \in Jobs : Request(j)
  \/ \E j \in Jobs, ok \in BOOLEAN : Answer(j, ok)
  \/ \E j \in Jobs : EndCharge(j)
  \/ Timeout
  \/ Reset

\* Timers fire and continuations run; whether an answer ever comes is up to
\* the other service, so Answer is not fair.
Fairness == \A j \in Jobs : WF_vars(Proceed(j))

Spec == Init /\ [][Next]_vars /\ Fairness

-----------------------------------------------------------------------------

Working == {p \in Jobs \X Subscriptions :
              /\ job[p[1]].pc = "locked"
              /\ job[p[1]].subscription = p[2]}

Exclusive == INSTANCE ExclusiveUse
  WITH Users <- Jobs, Resources <- Subscriptions, inside <- Working

\* While a job works on a subscription under its lock no other job does,
\* over any number of waits, retries, timeouts, refused and failed requests:
\* the service implements exclusive use of the subscriptions.
ImplementsExclusiveUse == Exclusive!Spec

\* Every job ends, with its lock returned, unless its own request hangs: a
\* request that hangs in one job never keeps another job waiting for ever.
ChargeEnds ==
  \A j \in Jobs : job[j].pc # "idle" ~> (job[j].pc = "idle" \/ request[j] = "running")

\* The breaker opens from closed only after failureThreshold failures in a
\* row recorded while it was closed, and closes from half-open only after
\* successThreshold successes in a row recorded while it was half-open (or by
\* reset()), although calls that began in one state report in another.
TransitionsEarned ==
  [][/\ breaker.state = "closed" /\ breaker'.state = "open"
          => Longer(FALSE) >= failureThreshold
     /\ breaker.state = "half-open" /\ breaker'.state = "closed"
          => Longer(TRUE) >= successThreshold \/ Reset
     /\ breaker.state = "open" /\ breaker'.state = "closed" => Reset]_vars

=============================================================================
