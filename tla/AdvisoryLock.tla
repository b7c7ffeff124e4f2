---------------------------- MODULE AdvisoryLock ----------------------------
(***************************************************************************)
(* Locks on subscriptions (backend/services/shared/locking/                *)
(* AdvisoryLockService.ts), taken by the billing and subscription jobs     *)
(* through withLock().                                                     *)
(*                                                                         *)
(* acquire() looks at heldLocks and enters its own lock without an await   *)
(* in between; between two attempts it sleeps.  Every acquire() draws a    *)
(* fresh lock id, and a job has at most one lock: the job stands for the   *)
(* id.  Of the clock only one bit matters, whether the deadline has passed *)
(* when a sleep ends, and that may happen after any sleep.                 *)
(***************************************************************************)
EXTENDS Naturals

CONSTANTS
  Jobs,            \* jobs of the billing and subscription services
  Subscriptions,
  NoSubscription,
  retryAttempts    \* LockConfig.retryAttempts

ASSUME LockAssumption ==
  /\ NoSubscription \notin Subscriptions
  /\ retryAttempts \in Nat \ {0}

VARIABLES
  heldLocks,  \* subscription of the lock of each job, the Map of the service
  job         \* where each job is

lockVars == <<heldLocks, job>>

IdleJob == [pc |-> "idle", subscription |-> NoSubscription, attempt |-> 0]

LockTypeOK ==
  /\ heldLocks \in [Jobs -> Subscriptions \cup {NoSubscription}]
  /\ job \in [Jobs -> [pc : {"idle", "waiting", "locked"},
                       subscription : Subscriptions \cup {NoSubscription},
                       attempt : 0..retryAttempts]]

LockInit ==
  /\ heldLocks = [j \in Jobs |-> NoSubscription]
  /\ job = [j \in Jobs |-> IdleJob]

-----------------------------------------------------------------------------

\* Mutant: the search ends at the first entry of another subscription.
TryAcquireFirst(s) ==
  (\E j \in Jobs : heldLocks[j] = s) => \E j \in Jobs : heldLocks[j] \notin {s, NoSubscription}

\* tryAcquire: no entry of heldLocks is for s.
TryAcquire(s) == \A j \in Jobs : heldLocks[j] # s

\* One pass through the loop of acquire(), up to its return or its sleep.
Attempt(j, s, n) ==
  \/ /\ TryAcquire(s)
     /\ heldLocks' = [heldLocks EXCEPT ![j] = s]
     /\ job' = [job EXCEPT ![j] =
                  [pc |-> "locked", subscription |-> s, attempt |-> n]]
  \/ /\ ~ TryAcquire(s)
     /\ job' = [job EXCEPT ![j] =
                  [pc |-> "waiting", subscription |-> s, attempt |-> n]]
     /\ UNCHANGED heldLocks

\* withLock() is called: the first attempt of acquire().
WithLock(j, s) ==
  /\ job[j].pc = "idle"
  /\ Attempt(j, s, 1)

\* A sleep ends before the deadline, with attempts left.
Retry(j) ==
  /\ job[j].pc = "waiting"
  /\ job[j].attempt < retryAttempts
  /\ Attempt(j, job[j].subscription, job[j].attempt + 1)

\* A sleep ends and the loop too: the deadline has passed or no attempt is
\* left.  acquisitionTimeout is thrown to the caller of withLock().
GiveUp(j) ==
  /\ job[j].pc = "waiting"
  /\ job' = [job EXCEPT ![j] = IdleJob]
  /\ UNCHANGED heldLocks

\* The finally block of withLock(), whatever became of the function:
\* release() finds the entry of the lock id and deletes it.
Release(j) ==
  /\ job[j].pc = "locked"
  /\ heldLocks' = [heldLocks EXCEPT ![j] = NoSubscription]
  /\ job' = [job EXCEPT ![j] = IdleJob]

=============================================================================
