---------------------------- MODULE ChargeProofs ----------------------------
(***************************************************************************)
(* The lock service gives every job exclusive use of its subscription, for *)
(* any number of jobs, subscriptions and attempts, and whatever the        *)
(* breaker and the requests do: a refinement of ExclusiveUse.  And the     *)
(* breaker changes state only on results recorded in that state, for every *)
(* pair of thresholds.                                                     *)
(***************************************************************************)
EXTENDS ProtectedCharges, TLAPS

\* The entry of a job in heldLocks is the subscription it works on, and a job
\* that waits or works has a subscription.
HeldIsLocked ==
  \A j \in Jobs :
    /\ heldLocks[j] = IF job[j].pc = "locked" THEN job[j].subscription ELSE NoSubscription
    /\ job[j].pc # "idle" => job[j].subscription \in Subscriptions

LockInv == LockTypeOK /\ HeldIsLocked

\* No job has a lock at first.
LEMMA InitLockInv == Init => LockInv
<1> SUFFICES ASSUME Init PROVE LockInv
  OBVIOUS
<1>1. 0 \in 0..retryAttempts
  BY LockAssumption
<1>2. LockTypeOK
  BY <1>1 DEF Init, LockInit, LockTypeOK, IdleJob
<1>3. HeldIsLocked
  BY DEF Init, LockInit, HeldIsLocked, IdleJob
<1> QED BY <1>2, <1>3 DEF LockInv

\* An attempt of acquire() keeps the invariant.
LEMMA AttemptStep ==
  ASSUME LockInv, NEW j \in Jobs, NEW s \in Subscriptions, NEW n \in 0..retryAttempts,
         job[j].pc # "locked", Attempt(j, s, n)
  PROVE  LockInv'
<1>1. CASE TryAcquire(s)
  <2>1. /\ heldLocks' = [heldLocks EXCEPT ![j] = s]
        /\ job' = [job EXCEPT ![j] = [pc |-> "locked", subscription |-> s, attempt |-> n]]
    BY <1>1 DEF Attempt
  <2>2. LockTypeOK'
    BY <2>1 DEF LockInv, LockTypeOK
  <2>3. HeldIsLocked'
    BY <2>1 DEF LockInv, LockTypeOK, HeldIsLocked
  <2> QED BY <2>2, <2>3 DEF LockInv
<1>2. CASE ~ TryAcquire(s)
  <2>1. /\ heldLocks' = heldLocks
        /\ job' = [job EXCEPT ![j] = [pc |-> "waiting", subscription |-> s, attempt |-> n]]
    BY <1>2 DEF Attempt
  <2>2. LockTypeOK'
    BY <2>1 DEF LockInv, LockTypeOK
  <2>3. HeldIsLocked'
    BY <2>1 DEF LockInv, LockTypeOK, HeldIsLocked
  <2> QED BY <2>2, <2>3 DEF LockInv
<1> QED BY <1>1, <1>2

\* The end of a job keeps the invariant, with or without a lock.
LEMMA EndStep ==
  ASSUME LockInv, NEW j \in Jobs, job' = [job EXCEPT ![j] = IdleJob],
         heldLocks' = [heldLocks EXCEPT ![j] = NoSubscription]
  PROVE  LockInv'
<1>1. IdleJob \in [pc : {"idle", "waiting", "locked"},
                   subscription : Subscriptions \cup {NoSubscription},
                   attempt : 0..retryAttempts]
  BY LockAssumption DEF IdleJob
<1>2. LockTypeOK'
  BY <1>1 DEF LockInv, LockTypeOK
<1>3. HeldIsLocked'
  BY DEF LockInv, LockTypeOK, HeldIsLocked, IdleJob
<1> QED BY <1>2, <1>3 DEF LockInv

\* The steps of the request and of the breaker leave the locks alone.
LEMMA OtherSteps ==
  ASSUME [Next]_vars
  PROVE  \/ \E j \in Jobs, s \in Subscriptions : WithLock(j, s)
         \/ \E j \in Jobs : Retry(j)
         \/ \E j \in Jobs : GiveUp(j)
         \/ \E j \in Jobs : Release(j)
         \/ UNCHANGED lockVars
  BY DEF Next, vars, lockVars, ChargeWithLock, RetryLock, TimeOut, Request, Answer,
         EndCharge, Timeout, Reset

\* The attempt that follows a sleep is within the bound.
LEMMA RetryAttempt ==
  ASSUME LockInv, NEW j \in Jobs, Retry(j)
  PROVE  /\ job[j].subscription \in Subscriptions
         /\ job[j].attempt + 1 \in 0..retryAttempts
         /\ job[j].pc # "locked"
         /\ Attempt(j, job[j].subscription, job[j].attempt + 1)
<1>1. job[j].attempt \in 0..retryAttempts /\ job[j].attempt < retryAttempts
  BY DEF LockInv, LockTypeOK, Retry
<1>2. job[j].attempt + 1 \in 0..retryAttempts
  BY <1>1, LockAssumption
<1> QED BY <1>2 DEF Retry, LockInv, HeldIsLocked

\* Every step of the service keeps the locks and the jobs in agreement.
LEMMA NextLockInv == LockInv /\ [Next]_vars => LockInv'
<1> SUFFICES ASSUME LockInv, [Next]_vars PROVE LockInv'
  OBVIOUS
<1>1. ASSUME NEW j \in Jobs, NEW s \in Subscriptions, WithLock(j, s) PROVE LockInv'
  <2>1. 1 \in 0..retryAttempts
    BY LockAssumption
  <2> QED BY <1>1, <2>1, AttemptStep DEF WithLock
<1>2. ASSUME NEW j \in Jobs, Retry(j) PROVE LockInv'
  BY <1>2, RetryAttempt, AttemptStep
<1>3. ASSUME NEW j \in Jobs, GiveUp(j) PROVE LockInv'
  <2>1. heldLocks[j] = NoSubscription
    BY <1>3 DEF GiveUp, LockInv, HeldIsLocked
  <2>2. heldLocks' = [heldLocks EXCEPT ![j] = NoSubscription]
    BY <1>3, <2>1 DEF GiveUp, LockInv, LockTypeOK
  <2> QED BY <1>3, <2>2, EndStep DEF GiveUp
<1>4. ASSUME NEW j \in Jobs, Release(j) PROVE LockInv'
  BY <1>4, EndStep DEF Release
<1>5. CASE UNCHANGED lockVars
  BY <1>5 DEF lockVars, LockInv, LockTypeOK, HeldIsLocked
<1> QED BY <1>1, <1>2, <1>3, <1>4, <1>5, OtherSteps

\* acquire(), withLock() and release() keep heldLocks in step with the jobs.
THEOREM LocksAgree == Spec => []LockInv
  BY InitLockInv, NextLockInv, PTL DEF Spec

-----------------------------------------------------------------------------

\* What a pair of Working says.
LEMMA WorkingPair ==
  ASSUME NEW u \in Jobs, NEW r \in Subscriptions
  PROVE  <<u, r>> \in Working <=> job[u].pc = "locked" /\ job[u].subscription = r
  BY DEF Working

\* An attempt enters a free subscription or changes nothing abstract.
LEMMA AttemptRefines ==
  ASSUME LockInv, NEW j \in Jobs, NEW s \in Subscriptions, NEW n,
         job[j].pc # "locked", Attempt(j, s, n)
  PROVE  Exclusive!Enter(j, s) \/ Working' = Working
<1>1. CASE TryAcquire(s)
  <2>1. job' = [job EXCEPT ![j] = [pc |-> "locked", subscription |-> s, attempt |-> n]]
    BY <1>1 DEF Attempt
  <2>2. \A u \in Jobs : <<u, s>> \notin Working
    BY <1>1, WorkingPair DEF TryAcquire, LockInv, HeldIsLocked
  <2>3. Working' = Working \cup {<<j, s>>}
    BY <2>1 DEF Working, LockInv, LockTypeOK
  <2> QED BY <2>2, <2>3 DEF Exclusive!Enter, Exclusive!Free
<1>2. CASE ~ TryAcquire(s)
  <2>1. job' = [job EXCEPT ![j] = [pc |-> "waiting", subscription |-> s, attempt |-> n]]
    BY <1>2 DEF Attempt
  <2> QED BY <2>1 DEF Working, LockInv, LockTypeOK
<1> QED BY <1>1, <1>2

\* Every step of the service is a step of ExclusiveUse or leaves it alone.
LEMMA StepRefines ==
  ASSUME LockInv, [Next]_vars
  PROVE  Exclusive!Next \/ Working' = Working
<1>1. ASSUME NEW j \in Jobs, NEW s \in Subscriptions, WithLock(j, s)
      PROVE  Exclusive!Next \/ Working' = Working
  BY <1>1, AttemptRefines DEF WithLock, Exclusive!Next
<1>2. ASSUME NEW j \in Jobs, Retry(j)
      PROVE  Exclusive!Next \/ Working' = Working
  BY <1>2, RetryAttempt, AttemptRefines DEF Exclusive!Next
<1>3. ASSUME NEW j \in Jobs, GiveUp(j)
      PROVE  Working' = Working
  <2>1. job[j].pc = "waiting" /\ job' = [job EXCEPT ![j] = IdleJob]
    BY <1>3 DEF GiveUp
  <2> QED BY <2>1 DEF Working, IdleJob, LockInv, LockTypeOK
<1>4. ASSUME NEW j \in Jobs, Release(j)
      PROVE  Exclusive!Next
  <2>1. PICK s \in Subscriptions : job[j].subscription = s
    BY <1>4 DEF Release, LockInv, HeldIsLocked
  <2>2. job[j].pc = "locked" /\ job' = [job EXCEPT ![j] = IdleJob]
    BY <1>4 DEF Release
  <2>3. <<j, s>> \in Working
    BY <2>1, <2>2, WorkingPair
  <2>4. Working' = Working \ {<<j, s>>}
    BY <2>1, <2>2 DEF Working, IdleJob, LockInv, LockTypeOK
  <2> QED BY <2>3, <2>4 DEF Exclusive!Next, Exclusive!Leave
<1>5. CASE UNCHANGED lockVars
  BY <1>5 DEF lockVars, Working
<1> QED BY <1>1, <1>2, <1>3, <1>4, <1>5, OtherSteps

\* Nobody enters a subscription that another job works on: withLock() of any
\* number of jobs implements exclusive use.
THEOREM LockRefinement == Spec => ImplementsExclusiveUse
<1>1. Init => Exclusive!Init
  BY DEF Init, LockInit, IdleJob, Working, Exclusive!Init
<1>2. LockInv /\ [Next]_vars => [Exclusive!Next]_Working
  BY StepRefines
<1> QED BY <1>1, <1>2, LocksAgree, PTL DEF Spec, ImplementsExclusiveUse, Exclusive!Spec

-----------------------------------------------------------------------------

BreakerTypeOK ==
  /\ breaker \in [state : {"closed", "open", "half-open"}, consecutiveFailures : Nat,
                  consecutiveSuccesses : Nat, openUntil : {"null", "ahead", "passed"}]
  /\ streak \in [ok : BOOLEAN, n : Nat]

\* In a state that counts, the counter is below its threshold and the results
\* in a row recorded in that state account for it: what calls that began in an
\* earlier state added to it is gone.
CountersEarned ==
  /\ breaker.state = "closed" =>
       /\ breaker.consecutiveFailures < failureThreshold
       /\ breaker.consecutiveFailures <= IF streak.ok THEN 0 ELSE streak.n
  /\ breaker.state = "half-open" =>
       /\ breaker.consecutiveSuccesses < successThreshold
       /\ breaker.consecutiveSuccesses <= IF streak.ok THEN streak.n ELSE 0

BreakerInv == BreakerTypeOK /\ CountersEarned

\* The constructor.
LEMMA InitBreakerInv == Init => BreakerInv
  BY BreakerAssumption
     DEF Init, BreakerInit, BreakerInv, BreakerTypeOK, CountersEarned

\* A transition clears the counter of the state it leads to.
LEMMA TransitionFacts ==
  ASSUME NEW b, b.consecutiveFailures \in Nat, b.consecutiveSuccesses \in Nat,
         NEW st \in {"closed", "open", "half-open"}
  PROVE  LET t == TransitionTo(b, st) IN
         /\ t \in [state : {"closed", "open", "half-open"}, consecutiveFailures : Nat,
                   consecutiveSuccesses : Nat, openUntil : {"null", "ahead", "passed"}]
         /\ t.state = st
         /\ st = "closed" => t.consecutiveFailures = 0
         /\ st = "half-open" => t.consecutiveSuccesses = 0
  BY DEF TransitionTo

\* recordSuccess() and recordFailure() when the state stays: the counter of the
\* state goes up by one or is cleared.
LEMMA RecordFacts ==
  ASSUME BreakerInv, NEW ok \in BOOLEAN, Record(ok)
  PROVE  /\ BreakerTypeOK'
         /\ breaker'.state # breaker.state =>
              /\ breaker.state = "closed" =>
                   /\ ~ok /\ breaker'.state = "open"
                   /\ breaker.consecutiveFailures + 1 >= failureThreshold
              /\ breaker.state = "half-open" =>
                   \/ ~ok /\ breaker'.state = "open"
                   \/ /\ ok /\ breaker'.state = "closed" /\ breaker'.consecutiveFailures = 0
                      /\ breaker.consecutiveSuccesses + 1 >= successThreshold
              /\ breaker.state # "open"
         /\ breaker'.state = breaker.state /\ breaker.state = "closed" =>
              /\ breaker'.consecutiveFailures < failureThreshold
              /\ breaker'.consecutiveFailures = IF ok THEN 0 ELSE breaker.consecutiveFailures + 1
         /\ breaker'.state = breaker.state /\ breaker.state = "half-open" =>
              /\ breaker'.consecutiveSuccesses < successThreshold
              /\ ok /\ breaker'.consecutiveSuccesses = breaker.consecutiveSuccesses + 1
<1> USE BreakerAssumption
<1>1. /\ breaker.state \in {"closed", "open", "half-open"}
      /\ breaker.consecutiveFailures \in Nat /\ breaker.consecutiveSuccesses \in Nat
      /\ breaker.openUntil \in {"null", "ahead", "passed"}
      /\ streak.ok \in BOOLEAN /\ streak.n \in Nat
  BY DEF BreakerInv, BreakerTypeOK
<1>2. streak' \in [ok : BOOLEAN, n : Nat]
  BY <1>1 DEF Record, Remember, Longer
<1>3. CASE ok
  <2>1. breaker' = RecordSuccess(breaker)
    BY <1>3 DEF Record
  <2> QED BY <1>1, <1>2, <1>3, <2>1
          DEF RecordSuccess, Counted, TransitionTo, BreakerTypeOK, BreakerInv, CountersEarned
<1>4. CASE ~ok
  <2>1. breaker' = RecordFailure(breaker)
    BY <1>4 DEF Record
  <2> QED BY <1>1, <1>2, <1>4, <2>1
          DEF RecordFailure, Counted, TransitionTo, BreakerTypeOK, BreakerInv, CountersEarned
<1> QED BY <1>3, <1>4

\* A result is recorded.
LEMMA RecordStep ==
  ASSUME BreakerInv, NEW ok \in BOOLEAN, Record(ok)
  PROVE  BreakerInv'
<1> USE BreakerAssumption
<1>1. /\ breaker.state \in {"closed", "open", "half-open"}
      /\ breaker.consecutiveFailures \in Nat /\ breaker.consecutiveSuccesses \in Nat
      /\ streak.ok \in BOOLEAN /\ streak.n \in Nat
  BY DEF BreakerInv, BreakerTypeOK
<1>2. CASE breaker'.state # breaker.state
  <2>1. streak' = [ok |-> TRUE, n |-> 0]
    BY <1>2 DEF Record, Remember
  <2>2. /\ BreakerTypeOK'
        /\ breaker'.state # "half-open"
        /\ breaker'.state = "closed" => breaker'.consecutiveFailures = 0
    BY <1>1, <1>2, RecordFacts
  <2> QED BY <2>1, <2>2 DEF BreakerInv, CountersEarned
<1>3. CASE breaker'.state = breaker.state
  <2>1. /\ streak'.ok = ok
        /\ streak'.n = IF Longer(ok) > failureThreshold + successThreshold
                       THEN streak.n ELSE Longer(ok)
    BY <1>3 DEF Record, Remember
  <2>2. CASE breaker.state = "closed"
    BY <1>1, <1>3, <2>1, <2>2, RecordFacts DEF BreakerInv, CountersEarned, Longer
  <2>3. CASE breaker.state = "half-open"
    BY <1>1, <1>3, <2>1, <2>3, RecordFacts DEF BreakerInv, CountersEarned, Longer
  <2>4. CASE breaker.state = "open"
    BY <1>3, <2>4, RecordFacts DEF BreakerInv, CountersEarned
  <2> QED BY <1>1, <2>2, <2>3, <2>4
<1> QED BY <1>2, <1>3

\* The steps that leave the breaker alone or only let its timeout run out.
LEMMA BreakerSteps ==
  ASSUME [Next]_vars
  PROVE  \/ \E ok \in BOOLEAN : Record(ok)
         \/ /\ breaker' = CheckState(breaker)
            /\ streak' = IF breaker'.state # breaker.state
                         THEN [ok |-> TRUE, n |-> 0] ELSE streak
         \/ RecoveryTimeout
         \/ Reset
         \/ UNCHANGED breakerVars
  BY DEF Next, vars, breakerVars, ChargeWithLock, RetryLock, TimeOut, Request, Answer,
         EndCharge, Timeout, Reset

\* Every step keeps the counters within what was earned.
LEMMA NextBreakerInv == BreakerInv /\ [Next]_vars => BreakerInv'
<1> SUFFICES ASSUME BreakerInv, [Next]_vars PROVE BreakerInv'
  OBVIOUS
<1> USE BreakerAssumption
<1>1. ASSUME NEW ok \in BOOLEAN, Record(ok) PROVE BreakerInv'
  BY <1>1, RecordStep
<1>2. breaker.consecutiveFailures \in Nat /\ breaker.consecutiveSuccesses \in Nat
  BY DEF BreakerInv, BreakerTypeOK
<1>3. CASE /\ breaker' = CheckState(breaker)
           /\ streak' = IF breaker'.state # breaker.state
                        THEN [ok |-> TRUE, n |-> 0] ELSE streak
  <2>1. CASE breaker' = breaker
    BY <1>3, <2>1 DEF BreakerInv, BreakerTypeOK, CountersEarned
  <2>2. CASE breaker.state = "open" /\ breaker' = TransitionTo(breaker, "half-open")
    BY <1>2, <1>3, <2>2, TransitionFacts DEF BreakerInv, BreakerTypeOK, CountersEarned
  <2> QED BY <1>3, <2>1, <2>2 DEF CheckState
<1>4. CASE RecoveryTimeout
  BY <1>4 DEF RecoveryTimeout, BreakerInv, BreakerTypeOK, CountersEarned
<1>5. CASE Reset
  BY <1>2, <1>5, TransitionFacts
     DEF Reset, ResetBreaker, BreakerInv, BreakerTypeOK, CountersEarned
<1>6. CASE UNCHANGED breakerVars
  BY <1>6 DEF breakerVars, BreakerInv, BreakerTypeOK, CountersEarned
<1> QED BY <1>1, <1>3, <1>4, <1>5, <1>6, BreakerSteps

\* A change of state is backed by the results recorded in the state left.
LEMMA StepEarned ==
  ASSUME BreakerInv, [Next]_vars
  PROVE  /\ breaker.state = "closed" /\ breaker'.state = "open"
              => Longer(FALSE) >= failureThreshold
         /\ breaker.state = "half-open" /\ breaker'.state = "closed"
              => Longer(TRUE) >= successThreshold \/ Reset
         /\ breaker.state = "open" /\ breaker'.state = "closed" => Reset
<1> USE BreakerAssumption
<1>1. /\ breaker.consecutiveFailures \in Nat /\ breaker.consecutiveSuccesses \in Nat
      /\ streak.ok \in BOOLEAN /\ streak.n \in Nat
  BY DEF BreakerInv, BreakerTypeOK
<1>2. CASE \E ok \in BOOLEAN : Record(ok)
  BY <1>1, <1>2, RecordFacts DEF BreakerInv, CountersEarned, Longer
<1>3. CASE breaker' = CheckState(breaker)
  BY <1>1, <1>3, TransitionFacts DEF CheckState
<1>4. CASE RecoveryTimeout
  BY <1>4 DEF RecoveryTimeout, BreakerInv, BreakerTypeOK
<1>5. CASE Reset
  <2>1. breaker'.state = "closed"
    BY <1>1, <1>5, TransitionFacts DEF Reset, ResetBreaker
  <2> QED BY <1>5, <2>1
<1>6. CASE UNCHANGED breakerVars
  BY <1>6 DEF breakerVars
<1> QED BY <1>2, <1>3, <1>4, <1>5, <1>6, BreakerSteps

\* The breaker opens and closes only on the results its state has earned,
\* for every pair of thresholds and any number of calls in flight.
THEOREM BreakerEarned == Spec => TransitionsEarned
<1>1. Spec => []BreakerInv
  BY InitBreakerInv, NextBreakerInv, PTL DEF Spec
<1>2. BreakerInv /\ [Next]_vars =>
        [/\ breaker.state = "closed" /\ breaker'.state = "open"
              => Longer(FALSE) >= failureThreshold
         /\ breaker.state = "half-open" /\ breaker'.state = "closed"
              => Longer(TRUE) >= successThreshold \/ Reset
         /\ breaker.state = "open" /\ breaker'.state = "closed" => Reset]_vars
  BY StepEarned
<1> QED BY <1>1, <1>2, PTL DEF Spec, TransitionsEarned

=============================================================================
