----------------------------- MODULE FairQueue ------------------------------
(***************************************************************************)
(* The job queue of the billing jobs (backend/shared/queue/                *)
(* weightedFairQueue.ts and priorityQueue.ts, wired by queueFactory.ts and *)
(* backend/billing/jobs/billingJobQueue.ts): one queue in memory for every *)
(* priority class, a copy of every waiting job in Redis, and a scheduler   *)
(* that shares the worker among the classes by weight.                     *)
(*                                                                         *)
(* Code runs without interruption up to an await of Redis or of a handler; *)
(* the actions are these stretches.  Shares are kept in units of 1/Scale   *)
(* so that dividing the idle capacity by a sum of weights is exact.  A job *)
(* that is over leaves its name to a later one.                            *)
(***************************************************************************)
EXTENDS Sums, Sequences, Functions

CONSTANTS
  Jobs,
  PRIORITY_ORDER,  \* the priority classes, most urgent first
  Low,             \* the class with a guaranteed minimum
  weights,         \* share of each class
  Scale,           \* a multiple of 100 and of every sum of weights
  maxSize,         \* capacity of a class
  MaxOpen,         \* bound on the jobs being added at once
  MaxFaults        \* bound on restarts and on failures of Redis

Classes == Range(PRIORITY_ORDER)
NoClass == "no class"

ASSUME QueueAssumption ==
  /\ PRIORITY_ORDER \in Seq(STRING) /\ NoClass \notin Classes
  /\ Low \in Classes
  /\ weights \in [Classes -> Nat \ {0}]
  /\ Scale \in Nat \ {0} /\ Scale % 100 = 0
  /\ \A S \in SUBSET Classes : S # {} => Scale % SumOver(weights, S) = 0
  /\ maxSize \in Nat /\ MaxOpen \in Nat \ {0} /\ MaxFaults \in Nat

VARIABLES
  job,       \* where each job is: [at, class, pausing]
  pending,   \* PriorityQueue.pending of each class
  closed,    \* PriorityQueue.paused: the classes that take and give no jobs
  paused,    \* WeightedFairQueue.paused
  deficits,
  resuming,  \* resumeAll(): whether it runs and the classes it has resumed
  stored,    \* the jobs in Redis
  faults,    \* restarts, and failures of Redis that leave a trace
  stranded   \* history: classes that a failed pause() left closed

queueVars == <<pending, closed, paused, deficits, resuming, stored, stranded>>
vars == <<job, queueVars, faults>>

NewJob == [at |-> "new", class |-> NoClass, pausing |-> NoClass]

Init ==
  /\ job = [j \in Jobs |-> NewJob]
  /\ pending = [c \in Classes |-> <<>>]
  /\ closed = {}
  /\ paused = {}
  /\ deficits = [c \in Classes |-> 0]
  /\ resuming = [on |-> FALSE, visited |-> {}]
  /\ stored = {}
  /\ faults = 0
  /\ stranded = {}

-----------------------------------------------------------------------------
\* Scheduling, as functions of the state.

Active == {c \in Classes : c \notin paused /\ pending[c] # <<>>}

\* The capacity of idle classes is shared among the active ones.
Shared ==
  LET sum == SumOver(weights, Active)
      idle == SumOver(weights, Classes \ Active)
  IN [c \in Classes |->
        IF c \in Active
        THEN Scale * weights[c] + idle * weights[c] * (Scale \div sum)
        ELSE 0]

Position(c) == CHOOSE i \in DOMAIN PRIORITY_ORDER : PRIORITY_ORDER[i] = c

\* Starvation prevention: the other classes make up for what Low lacks of its
\* minimum.  Each gives what it has above the minimum, in order, until the
\* classes before it have given enough.
EffectiveWeights ==
  LET shared == Shared
      minLow == Max({SumOver(shared, Classes), 100 * Scale}) \div 100
      lack == minLow - shared[Low]
      spare == [c \in Classes |->
                  IF c = Low THEN 0 ELSE Max({0, shared[c] - minLow})]
      before(c) == {d \in Classes : Position(d) < Position(c)}
      given == [c \in Classes |->
                  Max({0, Min({spare[c], lack - SumOver(spare, before(c))})})]
  IN IF Low \in Active
     THEN [c \in Classes |-> IF c = Low
                             THEN shared[c] + SumOver(given, Classes)
                             ELSE shared[c] - given[c]]
     ELSE shared

\* Mutant: always the most urgent class with work.
IsMostUrgent(c, credited) == \A d \in Active : Position(c) <= Position(d)

\* selectNextPriority: the largest deficit, the more urgent class on a tie.
IsBest(c, credited) ==
  \A d \in Active :
    \/ credited[c] > credited[d]
    \/ credited[c] = credited[d] /\ Position(c) <= Position(d)

\* resolveBackpressure: the least urgent class not paused yet, never the
\* first one, when every class is full or paused.
AllFull == \A c \in Classes : c \in paused \/ Len(pending[c]) >= maxSize

Pausable == {c \in Classes \ paused : Position(c) > 1}

ToPause ==
  IF AllFull /\ Pausable # {}
  THEN CHOOSE c \in Pausable : \A d \in Pausable : Position(d) <= Position(c)
  ELSE NoClass

-----------------------------------------------------------------------------
\* Adding a job.

\* Mutant: one job too many fits.
FullAbove(c) == Len(pending[c]) > maxSize

IsFull(c) == Len(pending[c]) >= maxSize

\* Calls of enqueue() and add() that wait for something.
Open == {j \in Jobs : job[j].at \in {"pausing", "adding"}}

MayCall == Cardinality(Open) < MaxOpen

\* PriorityQueue.add up to the await of Redis, or its refusal.
StartAdd(j, c) ==
  job' = [job EXCEPT ![j] =
            IF c \in closed \/ IsFull(c) THEN NewJob
            ELSE [at |-> "adding", class |-> c, pausing |-> NoClass]]

\* PriorityQueue.add called directly, as enqueueDunningReminder does.
Add(j, c) ==
  /\ job[j].at = "new" /\ MayCall
  /\ StartAdd(j, c)
  /\ UNCHANGED <<queueVars, faults>>

\* enqueue() and spawnSubJob(): without anything to pause the job is added
\* at once, unless its class is paused.
Enqueue(j, c) ==
  /\ job[j].at = "new" /\ MayCall
  /\ ToPause = NoClass
  /\ c \notin paused
  /\ StartAdd(j, c)
  /\ UNCHANGED <<queueVars, faults>>

\* enqueue() with backpressure: the queue of the class closes at once, the
\* scheduler learns of it after the await.
EnqueuePausing(j, c) ==
  /\ job[j].at = "new" /\ MayCall
  /\ ToPause # NoClass
  /\ closed' = closed \cup {ToPause}
  /\ job' = [job EXCEPT ![j] =
               [at |-> "pausing", class |-> c, pausing |-> ToPause]]
  /\ UNCHANGED <<pending, paused, deficits, resuming, stored, faults, stranded>>

PauseDone(j) ==
  LET c == job[j].class IN
  /\ job[j].at = "pausing"
  /\ paused' = paused \cup {job[j].pausing}
  /\ stranded' = stranded \ {job[j].pausing}
  /\ IF c \in paused'
     THEN job' = [job EXCEPT ![j] = NewJob]
     ELSE StartAdd(j, c)
  /\ UNCHANGED <<pending, closed, deficits, resuming, stored, faults>>

\* Redis rejects the pause and enqueue() throws: the queue of the class stays
\* closed, and unless another call paused it the scheduler never learns of it.
PauseFails(j) ==
  /\ faults < MaxFaults
  /\ job[j].at = "pausing"
  /\ job' = [job EXCEPT ![j] = NewJob]
  /\ stranded' = stranded \cup (({job[j].pausing} \cap closed) \ paused)
  /\ faults' = faults + 1
  /\ UNCHANGED <<pending, closed, paused, deficits, resuming, stored>>

\* Redis has the job; it joins the queue in memory, whatever its length now.
AddDone(j) ==
  LET c == job[j].class IN
  /\ job[j].at = "adding"
  /\ job' = [job EXCEPT ![j].at = "pending"]
  /\ pending' = [pending EXCEPT ![c] = Append(@, j)]
  /\ stored' = stored \cup {j}
  /\ UNCHANGED <<closed, paused, deficits, resuming, faults, stranded>>

\* The call of Redis fails before the job is stored: add() throws.
AddFails(j) ==
  /\ job[j].at = "adding"
  /\ job' = [job EXCEPT ![j] = NewJob]
  /\ UNCHANGED <<queueVars, faults>>

\* A job that only Redis may still know.
LostJob == [NewJob EXCEPT !.at = "lost"]

\* The call fails after Redis stored the job: add() throws all the same, and
\* the job is in Redis without being in the queue in memory.
AddFailsStored(j) ==
  /\ faults < MaxFaults
  /\ job[j].at = "adding"
  /\ job' = [job EXCEPT ![j] = LostJob]
  /\ stored' = stored \cup {j}
  /\ faults' = faults + 1
  /\ UNCHANGED <<pending, closed, paused, deficits, resuming, stranded>>

-----------------------------------------------------------------------------
\* Taking a job.

\* processing: the job the worker took last is still under way.
Busy == \E j \in Jobs : job[j].at \in {"removing", "running"}

\* The timer of startProcessing fires: processNext() up to its first await.
ScheduleNext ==
  LET share == EffectiveWeights
      credited == [c \in Classes |-> deficits[c] + share[c]]
  IN
  /\ ~ Busy
  /\ \E best \in Active :
       /\ IsBest(best, credited)
       /\ deficits' = [credited EXCEPT ![best] = @ - SumOver(share, Active)]
       /\ IF best \in closed
          THEN UNCHANGED <<job, pending>>
          ELSE /\ pending' = [pending EXCEPT ![best] = Tail(@)]
               /\ job' = [job EXCEPT ![Head(pending[best])].at = "removing"]
  /\ UNCHANGED <<closed, paused, resuming, stored, faults, stranded>>

\* Mutant: the job stays in Redis.
RemovedNot(j) ==
  /\ job[j].at = "removing"
  /\ job' = [job EXCEPT ![j].at = "running"]
  /\ UNCHANGED <<queueVars, faults>>

\* The job is removed from Redis and its handler called.
Removed(j) ==
  /\ job[j].at = "removing"
  /\ stored' = stored \ {j}
  /\ job' = [job EXCEPT ![j].at = "running"]
  /\ UNCHANGED <<pending, closed, paused, deficits, resuming, faults, stranded>>

\* A call of Redis fails, before or after the removal: processNext() rejects,
\* and the job is neither in memory nor with a handler.
RemoveFails(j) ==
  /\ faults < MaxFaults
  /\ job[j].at = "removing"
  /\ job' = [job EXCEPT ![j] = LostJob]
  /\ stored' \in {stored, stored \ {j}}
  /\ faults' = faults + 1
  /\ UNCHANGED <<pending, closed, paused, deficits, resuming, stranded>>

\* The handler ends, or there is none: either way the job is over.
Finish(j) ==
  /\ job[j].at = "running"
  /\ job' = [job EXCEPT ![j] = NewJob]
  /\ UNCHANGED <<queueVars, faults>>

-----------------------------------------------------------------------------
\* Resuming and restarting.

ResumeAll ==
  /\ ~ resuming.on
  /\ paused # {}
  /\ resuming' = [on |-> TRUE, visited |-> {}]
  /\ UNCHANGED <<job, pending, closed, paused, deficits, stored, faults, stranded>>

\* The loop over this.paused opens the queue of the next class and awaits it.
ResumeClass(c) ==
  /\ resuming.on
  /\ c \in paused \ resuming.visited
  /\ resuming' = [resuming EXCEPT !.visited = @ \cup {c}]
  /\ closed' = closed \ {c}
  /\ UNCHANGED <<job, pending, paused, deficits, stored, faults, stranded>>

\* Redis rejects the resumption it awaits: resumeAll() throws before clear(),
\* and the classes opened so far stay paused for the scheduler.
ResumeFails ==
  /\ faults < MaxFaults
  /\ resuming.on
  /\ resuming.visited # {}
  /\ resuming' = [on |-> FALSE, visited |-> {}]
  /\ faults' = faults + 1
  /\ UNCHANGED <<job, pending, closed, paused, deficits, stored, stranded>>

\* Mutant: the loop is over the classes that were paused when it began.
ResumeSnapshotDone ==
  /\ resuming.on
  /\ resuming.visited # {}
  /\ resuming' = [on |-> FALSE, visited |-> {}]
  /\ paused' = {}
  /\ UNCHANGED <<job, pending, closed, deficits, stored, faults, stranded>>

\* A class that joined during the loop was visited too; then clear().
ResumeDone ==
  /\ resuming.on
  /\ paused \subseteq resuming.visited
  /\ resuming' = [on |-> FALSE, visited |-> {}]
  /\ paused' = {}
  /\ UNCHANGED <<job, pending, closed, deficits, stored, faults, stranded>>

\* The process restarts with empty queues; what was being stored or removed
\* may be in Redis or not.  Nothing reads Redis back.
Crash ==
  /\ faults < MaxFaults
  /\ \E S \in SUBSET {j \in Jobs : job[j].at \in {"adding", "removing"}} :
       stored' = S \cup {j \in stored : job[j].at \in {"pending", "lost"}}
  /\ job' = [j \in Jobs |-> IF job[j].at \in {"new", "pausing"} THEN NewJob
                            ELSE LostJob]
  /\ pending' = [c \in Classes |-> <<>>]
  /\ closed' = {}
  /\ paused' = {}
  /\ deficits' = [c \in Classes |-> 0]
  /\ resuming' = [on |-> FALSE, visited |-> {}]
  /\ faults' = faults + 1
  /\ stranded' = {}

Next ==
  \/ \E j \in Jobs, c \in Classes : Add(j, c)
  \/ \E j \in Jobs, c \in Classes : Enqueue(j, c)
  \/ \E j \in Jobs, c \in Classes : EnqueuePausing(j, c)
  \/ \E j \in Jobs : PauseDone(j)
  \/ \E j \in Jobs : PauseFails(j)
  \/ \E j \in Jobs : AddDone(j)
  \/ \E j \in Jobs : AddFails(j)
  \/ \E j \in Jobs : AddFailsStored(j)
  \/ ScheduleNext
  \/ \E j \in Jobs : Removed(j)
  \/ \E j \in Jobs : RemoveFails(j)
  \/ \E j \in Jobs : Finish(j)
  \/ ResumeAll
  \/ \E c \in Classes : ResumeClass(c)
  \/ ResumeFails
  \/ ResumeDone
  \/ Crash

\* The worker's timer fires, Redis answers and handlers end; once
\* called, resumeAll() gets to its end.  It is only called by hand, and
\* restarts are not to be relied on.
Fairness ==
  /\ WF_vars(ScheduleNext)
  /\ WF_vars(ResumeDone) /\ \A c \in Classes : WF_vars(ResumeClass(c))
  /\ \A j \in Jobs : /\ WF_vars(PauseDone(j))
                     /\ WF_vars(AddDone(j))
                     /\ WF_vars(Removed(j))
                     /\ WF_vars(Finish(j))

Spec == Init /\ [][Next]_vars
FairSpec == Spec /\ Fairness

-----------------------------------------------------------------------------

\* Shares are kept: what a class was promised and what it was served never
\* differ by more than half a job for every other class, whatever classes
\* become active, idle, full or paused in between.  An active class gains in
\* every round it is passed over, so none starves, and deficits carried over
\* do not add up.
BoundedLag ==
  LET round == Scale * SumOver(weights, Classes)
      bound == (Cardinality(Classes) - 1) * round
  IN \A c \in Classes : -bound <= 2 * deficits[c] /\ 2 * deficits[c] <= bound

\* Redis and memory agree on the waiting jobs over concurrent additions and
\* removals: a waiting job is in Redis, and a job in Redis is waiting, being
\* removed, or was lost to a restart or to a call of Redis that failed half
\* done.  Without such a fault none is lost.
RedisAgrees ==
  \A j \in Jobs :
    /\ job[j].at = "pending" => j \in stored
    /\ j \in stored => job[j].at \in {"pending", "removing", "lost"}
    /\ job[j].at = "lost" => faults > 0

\* The check of the capacity and the addition are separated by an await, and
\* the queue may overfill; the excess, jobs on their way included, never
\* reaches the number of jobs that are added at once.
OvershootBounded ==
  \A c \in Classes :
    Len(pending[c]) + Cardinality({j \in Jobs : job[j].at = "adding" /\ job[j].class = c})
      < maxSize + MaxOpen

\* A queue that is closed is known to the scheduler, or will be when the pause
\* under way ends: resumeAll() racing with backpressure never leaves a class
\* closed that no later resumeAll() would open.  Only a pause that Redis
\* rejected does, until backpressure pauses the class again.
ClosedIsKnown ==
  \A c \in closed :
    \/ c \in paused
    \/ \E j \in Jobs : job[j].pausing = c
    \/ c \in stranded

\* The documentation: a class paused by backpressure is resumed by itself
\* when there is room again (unless the room is gone first).
ResumesAutomatically ==
  \A c \in Classes :
    (c \in paused /\ ~ AllFull) ~> (c \notin paused \/ AllFull)

=============================================================================
