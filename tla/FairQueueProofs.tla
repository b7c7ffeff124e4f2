-------------------------- MODULE FairQueueProofs ---------------------------
(***************************************************************************)
(* The safety of the job queue for any number of jobs, classes and         *)
(* restarts: Redis and the queues in memory agree, a class overfills by    *)
(* less than the number of jobs being added at once, no class is closed    *)
(* behind the scheduler's back, and no class lags far behind its share.    *)
(*                                                                         *)
(* A bound on the deficit of one class is not inductive: when a class is   *)
(* passed over it grows, and only the deficits of the others say by how    *)
(* much it may.  LagBounded therefore bounds the sum over every set of     *)
(* classes at once.                                                        *)
(***************************************************************************)
EXTENDS FairQueue, SumProofs

Places == {"new", "pausing", "adding", "pending", "removing", "running", "lost"}

JobRecord ==
  [at : Places, class : Classes \cup {NoClass}, pausing : Classes \cup {NoClass}]

TypeOK ==
  /\ job \in [Jobs -> JobRecord]
  /\ pending \in [Classes -> Seq(Jobs)]
  /\ closed \subseteq Classes /\ faults \in Nat
  /\ \A j \in Jobs : /\ job[j].at \in {"pausing", "adding"} => job[j].class \in Classes
                     /\ job[j].at # "pausing" => job[j].pausing = NoClass

\* A queue in memory holds waiting jobs of its class, each once, and every
\* waiting job is in the queue of its class.
QueuesExact ==
  /\ \A c \in Classes : \A i \in 1..Len(pending[c]) :
        job[pending[c][i]].at = "pending" /\ job[pending[c][i]].class = c
  /\ \A c \in Classes : \A i, k \in 1..Len(pending[c]) :
        pending[c][i] = pending[c][k] => i = k
  /\ \A j \in Jobs : job[j].at = "pending" =>
        /\ job[j].class \in Classes
        /\ \E i \in 1..Len(pending[job[j].class]) : pending[job[j].class][i] = j

\* No more calls are open than may be.
OpenBounded == IsFiniteSet(Open) /\ Cardinality(Open) <= MaxOpen

\* The classes that a running resumeAll() has opened are still known to be
\* paused, so that backpressure does not close them again before its clear().
VisitedAreOpen ==
  resuming.visited \subseteq paused /\ resuming.visited \cap closed = {}

QueueInv ==
  TypeOK /\ QueuesExact /\ RedisAgrees /\ OpenBounded /\ OvershootBounded
         /\ VisitedAreOpen /\ ClosedIsKnown

Adding(c) == {j \in Jobs : job[j].at = "adding" /\ job[j].class = c}

-----------------------------------------------------------------------------

\* Every queue is empty at first.
LEMMA InitInv == Init => QueueInv
<1> SUFFICES ASSUME Init PROVE QueueInv
  OBVIOUS
<1> USE QueueAssumption
<1>1. /\ \A j \in Jobs : job[j] = NewJob
      /\ \A c \in Classes : pending[c] = <<>>
      /\ closed = {} /\ paused = {} /\ stored = {} /\ resuming.visited = {}
  BY DEF Init
<1>2. NewJob \in JobRecord /\ NewJob.at = "new" /\ NewJob.pausing = NoClass
  BY DEF NewJob, JobRecord, Places
<1>3. TypeOK
  BY <1>1, <1>2 DEF Init, TypeOK
<1>4. QueuesExact /\ RedisAgrees
  BY <1>1, <1>2 DEF QueuesExact, RedisAgrees
<1>5. VisitedAreOpen /\ ClosedIsKnown
  BY <1>1 DEF VisitedAreOpen, ClosedIsKnown
<1>6. Open = {} /\ \A c \in Classes : {j \in Jobs : job[j].at = "adding" /\ job[j].class = c} = {}
  BY <1>1, <1>2 DEF Open
<1>7. IsFiniteSet({}) /\ Cardinality({}) = 0
  BY FS_EmptySet
<1>8. OpenBounded
  BY <1>6, <1>7 DEF OpenBounded
<1>9. OvershootBounded
  <2> SUFFICES ASSUME NEW c \in Classes
               PROVE  Len(pending[c]) + Cardinality(Adding(c)) < maxSize + MaxOpen
    BY DEF OvershootBounded, Adding
  <2>1. Len(pending[c]) = 0
    BY <1>1
  <2>2. Cardinality(Adding(c)) = 0
    BY <1>6, <1>7 DEF Adding
  <2> QED BY <2>1, <2>2
<1> QED BY <1>3, <1>4, <1>5, <1>8, <1>9 DEF QueueInv

\* Of a set of positions that is not empty one is the last.
LEMMA LastPosition ==
  ASSUME NEW n \in Nat, NEW S \in SUBSET (1..n), S # {}
  PROVE  \E x \in S : \A y \in S : y <= x
<1> DEFINE R == OpToRel(<, Nat)
           T == {n - x : x \in S}
<1>1. IsWellFoundedOn(R, Nat)
  BY NatLessThanWellFounded
<1>2. T \subseteq Nat /\ T # {}
  <2> HIDE DEF R
  <2>1. \A x \in S : n - x \in Nat
    OBVIOUS
  <2>2. PICK x \in S : TRUE
    OBVIOUS
  <2>3. n - x \in T
    BY <2>2
  <2> QED BY <2>1, <2>3
<1>3. PICK m \in T : \A y \in T : ~ (<<y, m>> \in R)
  <2> HIDE DEF R, T
  <2> QED BY <1>1, <1>2, WFMin
<1>4. \A y \in T : ~ (y < m)
  BY <1>2, <1>3 DEF OpToRel
<1>5. PICK x \in S : m = n - x
  BY <1>3
<1>6. \A y \in S : y <= x
  BY <1>4, <1>5
<1> QED BY <1>6

\* resolveBackpressure() picks a class that is not paused yet.
LEMMA ToPauseFacts ==
  ToPause # NoClass => ToPause \in Classes \ paused
<1> SUFFICES ASSUME ToPause # NoClass PROVE ToPause \in Classes \ paused
  OBVIOUS
<1>1. Pausable # {} /\ ToPause = CHOOSE c \in Pausable : \A d \in Pausable : Position(d) <= Position(c)
  BY DEF ToPause
<1>2. PRIORITY_ORDER \in Seq(STRING)
  BY QueueAssumption
<1>3. \A c \in Classes : Position(c) \in 1..Len(PRIORITY_ORDER)
  BY <1>2 DEF Classes, Range, Position
<1> DEFINE S == {Position(c) : c \in Pausable}
<1>4. S \in SUBSET (1..Len(PRIORITY_ORDER)) /\ S # {} /\ Len(PRIORITY_ORDER) \in Nat
  BY <1>1, <1>2, <1>3 DEF Pausable
<1>5. PICK x \in S : \A y \in S : y <= x
  <2> HIDE DEF S
  <2> QED BY <1>4, LastPosition
<1>6. PICK c \in Pausable : x = Position(c)
  BY <1>5
<1>7. \A d \in Pausable : Position(d) <= Position(c)
  BY <1>5, <1>6
<1>8. ToPause \in Pausable
  BY <1>1, <1>6, <1>7
<1> QED BY <1>8 DEF Pausable

\* A step that takes calls off the open ones, or leaves them, and appends to
\* no queue keeps both bounds.
LEMMA BoundsKept ==
  ASSUME QueueInv, Open' \subseteq Open,
         pending' \in [Classes -> Seq(Jobs)],
         \A c \in Classes : Len(pending'[c]) <= Len(pending[c]) /\ Adding(c)' \subseteq Adding(c)
  PROVE  OpenBounded' /\ OvershootBounded'
<1> USE QueueAssumption
<1>1. IsFiniteSet(Open) /\ Cardinality(Open) \in Nat /\ Cardinality(Open) <= MaxOpen
  BY FS_CardinalityType DEF QueueInv, OpenBounded
<1>2. IsFiniteSet(Open') /\ Cardinality(Open') <= Cardinality(Open) /\ Cardinality(Open') \in Nat
  BY <1>1, FS_Subset, FS_CardinalityType
<1>3. OpenBounded'
  BY <1>1, <1>2 DEF OpenBounded
<1>4. ASSUME NEW c \in Classes
      PROVE  Len(pending'[c]) + Cardinality(Adding(c)') < maxSize + MaxOpen
  <2>1. Adding(c) \subseteq Open
    BY DEF Adding, Open
  <2>2. /\ IsFiniteSet(Adding(c)) /\ Cardinality(Adding(c)) \in Nat
        /\ Cardinality(Adding(c)') \in Nat
        /\ Cardinality(Adding(c)') <= Cardinality(Adding(c))
    BY <1>1, <2>1, FS_Subset, FS_CardinalityType
  <2>3. Len(pending[c]) + Cardinality(Adding(c)) < maxSize + MaxOpen
    BY DEF QueueInv, OvershootBounded, Adding
  <2>4. Len(pending[c]) \in Nat /\ Len(pending'[c]) \in Nat
    BY DEF QueueInv, TypeOK
  <2> QED BY <2>2, <2>3, <2>4
<1>5. OvershootBounded'
  BY <1>4 DEF OvershootBounded, Adding
<1> QED BY <1>3, <1>5

\* A call that starts to add a job to a class with room: together with every
\* other open call it still fits below the bound.
LEMMA BoundsAdding ==
  ASSUME QueueInv, NEW j \in Jobs, NEW d \in Classes,
         Open' \subseteq Open \cup {j}, j \in Open \/ MayCall,
         ~ IsFull(d), UNCHANGED pending,
         Adding(d)' \subseteq Open',
         \A c \in Classes \ {d} : Adding(c)' \subseteq Adding(c)
  PROVE  OpenBounded' /\ OvershootBounded'
<1> USE QueueAssumption
<1>1. IsFiniteSet(Open) /\ Cardinality(Open) \in Nat /\ Cardinality(Open) <= MaxOpen
  BY FS_CardinalityType DEF QueueInv, OpenBounded
<1>2. /\ IsFiniteSet(Open \cup {j}) /\ Cardinality(Open \cup {j}) \in Nat
      /\ Cardinality(Open \cup {j}) <= MaxOpen
  <2>1. CASE j \in Open
    <3>1. Open \cup {j} = Open
      BY <2>1
    <3> QED BY <1>1, <3>1
  <2>2. CASE j \notin Open
    <3>1. Cardinality(Open) < MaxOpen
      BY <2>2 DEF MayCall
    <3>2. IsFiniteSet(Open \cup {j}) /\ Cardinality(Open \cup {j}) = Cardinality(Open) + 1
      BY <1>1, <2>2, FS_AddElement
    <3> QED BY <1>1, <3>1, <3>2
  <2> QED BY <2>1, <2>2
<1>3. IsFiniteSet(Open') /\ Cardinality(Open') \in Nat /\ Cardinality(Open') <= MaxOpen
  BY <1>2, FS_Subset, FS_CardinalityType
<1>4. OpenBounded'
  BY <1>3 DEF OpenBounded
<1>5. ASSUME NEW c \in Classes
      PROVE  Len(pending'[c]) + Cardinality(Adding(c)') < maxSize + MaxOpen
  <2>1. Len(pending[c]) \in Nat
    BY DEF QueueInv, TypeOK
  <2>2. CASE c = d
    <3>1. Cardinality(Adding(c)') \in Nat /\ Cardinality(Adding(c)') <= Cardinality(Open')
      BY <1>3, <2>2, FS_Subset, FS_CardinalityType
    <3>2. Len(pending[c]) < maxSize
      BY <2>1, <2>2 DEF IsFull
    <3> QED BY <1>3, <2>1, <3>1, <3>2
  <2>3. CASE c # d
    <3>1. Adding(c) \subseteq Open
      BY DEF Adding, Open
    <3>2. /\ IsFiniteSet(Adding(c)) /\ Cardinality(Adding(c)) \in Nat
          /\ Cardinality(Adding(c)') \in Nat
          /\ Cardinality(Adding(c)') <= Cardinality(Adding(c))
      BY <1>1, <2>3, <3>1, FS_Subset, FS_CardinalityType
    <3>3. Len(pending[c]) + Cardinality(Adding(c)) < maxSize + MaxOpen
      BY DEF QueueInv, OvershootBounded, Adding
    <3> QED BY <2>1, <3>2, <3>3
  <2> QED BY <2>2, <2>3
<1>6. OvershootBounded'
  BY <1>5 DEF OvershootBounded, Adding
<1> QED BY <1>4, <1>6

\* The records that the actions write.
LEMMA Records ==
  /\ NewJob \in JobRecord /\ NewJob.at = "new" /\ NewJob.pausing = NoClass
  /\ LostJob \in JobRecord /\ LostJob.at = "lost" /\ LostJob.pausing = NoClass
  /\ \A c \in Classes :
       LET adding == [at |-> "adding", class |-> c, pausing |-> NoClass]
       IN /\ adding \in JobRecord /\ adding.at = "adding" /\ adding.class = c
          /\ adding.pausing = NoClass
  /\ \A c, p \in Classes :
       LET waits == [at |-> "pausing", class |-> c, pausing |-> p]
       IN /\ waits \in JobRecord /\ waits.at = "pausing" /\ waits.class = c
          /\ waits.pausing = p
  BY DEF NewJob, LostJob, JobRecord, Places

\* A job outside the queues is written, and stays outside.
LEMMA JobStep ==
  ASSUME QueueInv, NEW j \in Jobs, NEW rec \in JobRecord,
         job' = [job EXCEPT ![j] = rec], UNCHANGED pending, closed' \subseteq Classes,
         job[j].at # "pending", rec.at # "pending",
         rec.at \in {"pausing", "adding"} => rec.class \in Classes,
         rec.at # "pausing" => rec.pausing = NoClass,
         faults' \in {faults, faults + 1}
  PROVE  /\ TypeOK' /\ QueuesExact'
         /\ job'[j] = rec
         /\ \A k \in Jobs : k # j => job'[k] = job[k]
<1>1. job'[j] = rec /\ \A k \in Jobs : k # j => job'[k] = job[k]
  BY DEF QueueInv, TypeOK
<1>2. TypeOK'
  BY <1>1 DEF QueueInv, TypeOK
<1>3. \A c \in Classes : \A i \in 1..Len(pending[c]) :
         pending[c][i] \in Jobs /\ pending[c][i] # j
  BY DEF QueueInv, TypeOK, QueuesExact
<1>4. QueuesExact'
  BY <1>1, <1>3 DEF QueueInv, QueuesExact
<1> QED BY <1>1, <1>2, <1>4

\* A class stays known as paused while the call that pauses it is under way,
\* and known as stranded until another pauses it.
LEMMA KnownKept ==
  ASSUME QueueInv, NEW j \in Jobs, \A k \in Jobs : k # j => job'[k] = job[k],
         job[j].pausing \in {NoClass} \cup paused' \cup stranded' \/ job[j].pausing \notin closed,
         paused \subseteq paused', stranded \subseteq stranded' \cup paused',
         closed' \subseteq closed
  PROVE  ClosedIsKnown'
<1> SUFFICES ASSUME NEW c \in closed'
             PROVE  c \in paused' \/ (\E k \in Jobs : job'[k].pausing = c) \/ c \in stranded'
  BY DEF ClosedIsKnown
<1>1. c \in Classes /\ c # NoClass /\ c \in closed
  BY QueueAssumption DEF QueueInv, TypeOK
<1>2. c \in paused \/ (\E k \in Jobs : job[k].pausing = c) \/ c \in stranded
  BY <1>1 DEF QueueInv, ClosedIsKnown
<1> QED BY <1>1, <1>2

\* add() up to its await, from a call that was new or had paused a class.
LEMMA StartAddStep ==
  ASSUME QueueInv, NEW j \in Jobs, NEW c \in Classes, StartAdd(j, c),
         \/ job[j].at = "new" /\ MayCall /\ UNCHANGED paused
         \/ job[j].at = "pausing" /\ paused' = paused \cup {job[j].pausing},
         stranded \subseteq stranded' \cup paused',
         UNCHANGED <<pending, closed, resuming, stored, faults>>
  PROVE  QueueInv'
<1> DEFINE rec == IF c \in closed \/ IsFull(c) THEN NewJob
                  ELSE [at |-> "adding", class |-> c, pausing |-> NoClass]
<1>1. job' = [job EXCEPT ![j] = rec]
  BY DEF StartAdd
<1>2. /\ rec \in JobRecord /\ rec.pausing = NoClass
      /\ rec.at = "new" \/ (rec.at = "adding" /\ rec.class = c /\ ~IsFull(c))
  BY Records
<1> HIDE DEF rec
<1>3. /\ TypeOK' /\ QueuesExact' /\ job'[j] = rec
      /\ \A k \in Jobs : k # j => job'[k] = job[k]
  BY <1>1, <1>2, JobStep DEF QueueInv, TypeOK
<1>4. RedisAgrees'
  BY <1>2, <1>3 DEF QueueInv, RedisAgrees
<1>5. VisitedAreOpen'
  BY DEF QueueInv, VisitedAreOpen
<1>6. ClosedIsKnown'
  BY <1>3, KnownKept DEF QueueInv, TypeOK
<1>7. OpenBounded' /\ OvershootBounded'
  <2>1. CASE rec.at = "new"
    <3>1. Open' \subseteq Open /\ \A d \in Classes : Adding(d)' \subseteq Adding(d)
      BY <1>3, <2>1 DEF Open, Adding
    <3>2. \A d \in Classes : Len(pending'[d]) <= Len(pending[d])
      BY DEF QueueInv, TypeOK
    <3>3. pending' \in [Classes -> Seq(Jobs)]
      BY DEF QueueInv, TypeOK
    <3> QED BY <3>1, <3>2, <3>3, BoundsKept
  <2>2. CASE rec.at = "adding" /\ rec.class = c /\ ~IsFull(c)
    <3>1. Open' \subseteq Open \cup {j} /\ (j \in Open \/ MayCall)
      BY <1>3 DEF Open
    <3>2. Adding(c)' \subseteq Open' /\ \A d \in Classes \ {c} : Adding(d)' \subseteq Adding(d)
      BY <1>3, <2>2 DEF Open, Adding
    <3> QED BY <2>2, <3>1, <3>2, BoundsAdding
  <2> QED BY <1>2, <2>1, <2>2
<1> QED BY <1>3, <1>4, <1>5, <1>6, <1>7 DEF QueueInv

\* enqueue() under backpressure closes a class that nobody knows to be paused,
\* and is the call that will make it known.
LEMMA EnqueuePausingStep ==
  ASSUME QueueInv, NEW j \in Jobs, NEW c \in Classes, EnqueuePausing(j, c)
  PROVE  QueueInv'
<1> DEFINE p == ToPause
           rec == [at |-> "pausing", class |-> c, pausing |-> p]
<1>1. /\ job[j].at = "new" /\ MayCall /\ p # NoClass
      /\ closed' = closed \cup {p} /\ job' = [job EXCEPT ![j] = rec]
      /\ UNCHANGED <<pending, paused, resuming, stored, faults, stranded>>
  BY DEF EnqueuePausing
<1>2. p \in Classes \ paused
  BY <1>1, ToPauseFacts
<1> HIDE DEF p
<1>3. rec \in JobRecord /\ rec.at = "pausing" /\ rec.class = c /\ rec.pausing = p
  BY <1>2, Records
<1> HIDE DEF rec
<1>4. /\ TypeOK' /\ QueuesExact' /\ job'[j] = rec
      /\ \A k \in Jobs : k # j => job'[k] = job[k]
  BY <1>1, <1>2, <1>3, JobStep DEF QueueInv, TypeOK
<1>5. RedisAgrees'
  BY <1>1, <1>3, <1>4 DEF QueueInv, RedisAgrees
<1>6. VisitedAreOpen'
  BY <1>1, <1>2 DEF QueueInv, VisitedAreOpen
<1>7. ClosedIsKnown'
  <2>1. job[j].pausing = NoClass
    BY <1>1 DEF QueueInv, TypeOK
  <2> QED BY <1>1, <1>3, <1>4, <2>1, QueueAssumption DEF QueueInv, TypeOK, ClosedIsKnown
<1>8. OpenBounded' /\ OvershootBounded'
  <2>1. Open' = Open \cup {j} /\ j \notin Open
    BY <1>1, <1>3, <1>4 DEF Open
  <2>2. \A d \in Classes : Adding(d)' = Adding(d)
    BY <1>1, <1>3, <1>4 DEF Adding
  <2>3. IsFiniteSet(Open) /\ Cardinality(Open) < MaxOpen /\ Cardinality(Open) \in Nat
    BY <1>1, FS_CardinalityType DEF QueueInv, OpenBounded, MayCall
  <2>4. IsFiniteSet(Open') /\ Cardinality(Open') = Cardinality(Open) + 1
    BY <2>1, <2>3, FS_AddElement
  <2>5. OpenBounded'
    BY <2>3, <2>4, QueueAssumption DEF OpenBounded
  <2>6. \A d \in Classes : Len(pending[d]) + Cardinality(Adding(d)) < maxSize + MaxOpen
    BY DEF QueueInv, OvershootBounded, Adding
  <2>7. \A d \in Classes : Len(pending'[d]) + Cardinality(Adding(d)') < maxSize + MaxOpen
    BY <1>1, <2>2, <2>6
  <2>8. OvershootBounded'
    BY <2>7 DEF OvershootBounded, Adding
  <2> QED BY <2>5, <2>8
<1> QED BY <1>4, <1>5, <1>6, <1>7, <1>8 DEF QueueInv

\* A job outside the queues is written and opens no call.
LEMMA DropStep ==
  ASSUME QueueInv, NEW j \in Jobs, NEW rec \in JobRecord,
         job' = [job EXCEPT ![j] = rec], job[j].at # "pending",
         rec.at \in {"new", "running", "lost"}, rec.pausing = NoClass,
         job[j].pausing \in {NoClass} \cup paused' \cup stranded' \/ job[j].pausing \notin closed,
         paused \subseteq paused', stranded \subseteq stranded' \cup paused',
         stored' \subseteq stored \cup {j}, stored \ {j} \subseteq stored',
         j \in stored' => rec.at = "lost",
         faults' \in {faults, faults + 1}, rec.at = "lost" => faults' = faults + 1,
         UNCHANGED <<pending, closed, resuming>>
  PROVE  QueueInv'
<1>1. /\ TypeOK' /\ QueuesExact' /\ job'[j] = rec
      /\ \A k \in Jobs : k # j => job'[k] = job[k]
  BY JobStep DEF QueueInv, TypeOK
<1>2. RedisAgrees'
  <2>1. faults \in Nat
    BY DEF QueueInv, TypeOK
  <2>2. rec.at = "lost" => faults' > 0
    BY <2>1
  <2>3. faults > 0 => faults' > 0
    BY <2>1
  <2> QED BY <1>1, <2>2, <2>3 DEF QueueInv, RedisAgrees
<1>3. VisitedAreOpen'
  BY DEF QueueInv, VisitedAreOpen
<1>4. ClosedIsKnown'
  BY <1>1, KnownKept
<1>5. Open' \subseteq Open /\ \A d \in Classes : Adding(d)' \subseteq Adding(d)
  BY <1>1 DEF Open, Adding
<1>6. pending' \in [Classes -> Seq(Jobs)] /\ \A d \in Classes : Len(pending'[d]) <= Len(pending[d])
  BY DEF QueueInv, TypeOK
<1>7. OpenBounded' /\ OvershootBounded'
  BY <1>5, <1>6, BoundsKept
<1> QED BY <1>1, <1>2, <1>3, <1>4, <1>7 DEF QueueInv

\* The scheduler learns of the paused class; the job is refused or added.
LEMMA PauseDoneStep ==
  ASSUME QueueInv, NEW j \in Jobs, PauseDone(j)
  PROVE  QueueInv'
<1>1. /\ job[j].at = "pausing" /\ paused' = paused \cup {job[j].pausing}
      /\ stranded' = stranded \ {job[j].pausing}
      /\ UNCHANGED <<pending, closed, resuming, stored, faults>>
  BY DEF PauseDone
<1>2. job[j].class \in Classes /\ j \notin stored
  BY <1>1 DEF QueueInv, TypeOK, RedisAgrees
<1>3. CASE job' = [job EXCEPT ![j] = NewJob]
  BY <1>1, <1>2, <1>3, DropStep, Records
<1>4. CASE StartAdd(j, job[j].class)
  BY <1>1, <1>2, <1>4, StartAddStep
<1> QED BY <1>3, <1>4 DEF PauseDone

\* Redis rejects the pause: the class is stranded unless it is known or open.
LEMMA PauseFailsStep ==
  ASSUME QueueInv, NEW j \in Jobs, PauseFails(j)
  PROVE  QueueInv'
<1>1. /\ job[j].at = "pausing" /\ job' = [job EXCEPT ![j] = NewJob]
      /\ stranded' = stranded \cup (({job[j].pausing} \cap closed) \ paused)
      /\ faults' = faults + 1
      /\ UNCHANGED <<pending, closed, paused, resuming, stored>>
  BY DEF PauseFails
<1>2. j \notin stored
  BY <1>1 DEF QueueInv, RedisAgrees
<1>3. job[j].pausing \in {NoClass} \cup paused' \cup stranded' \/ job[j].pausing \notin closed
  BY <1>1
<1>4. stranded \subseteq stranded' \cup paused'
  BY <1>1
<1> QED BY <1>1, <1>2, <1>3, <1>4, DropStep, Records

\* The job joins the queue of its class, and is in Redis.
LEMMA AddDoneStep ==
  ASSUME QueueInv, NEW j \in Jobs, AddDone(j)
  PROVE  QueueInv'
<1>0. PICK c \in Classes : c = job[j].class
  BY DEF AddDone, QueueInv, TypeOK
<1>1. /\ job[j].at = "adding"
      /\ job' = [job EXCEPT ![j].at = "pending"]
      /\ pending' = [pending EXCEPT ![c] = Append(@, j)]
      /\ stored' = stored \cup {j}
      /\ UNCHANGED <<closed, paused, resuming, faults, stranded>>
  BY <1>0 DEF AddDone
<1>2. /\ job \in [Jobs -> JobRecord] /\ pending \in [Classes -> Seq(Jobs)]
      /\ c \in Classes /\ pending[c] \in Seq(Jobs) /\ Len(pending[c]) \in Nat
  BY <1>1 DEF QueueInv, TypeOK
<1>3. /\ job' \in [Jobs -> JobRecord]
      /\ job'[j].at = "pending" /\ job'[j].class = c /\ job'[j].pausing = job[j].pausing
      /\ \A k \in Jobs : k # j => job'[k] = job[k]
  BY <1>0, <1>1, <1>2 DEF JobRecord, Places
<1>4. /\ pending' \in [Classes -> Seq(Jobs)]
      /\ Len(pending'[c]) = Len(pending[c]) + 1
      /\ \A i \in 1..Len(pending[c]) : pending'[c][i] = pending[c][i]
      /\ pending'[c][Len(pending[c]) + 1] = j
      /\ \A d \in Classes : d # c => pending'[d] = pending[d]
  BY <1>1, <1>2
<1>5. TypeOK'
  BY <1>1, <1>3, <1>4 DEF QueueInv, TypeOK
<1>6. \A d \in Classes : \A i \in 1..Len(pending[d]) :
         pending[d][i] \in Jobs /\ pending[d][i] # j
  BY <1>1 DEF QueueInv, TypeOK, QueuesExact
<1>7. QueuesExact'
  <2>1. ASSUME NEW d \in Classes, NEW i \in 1..Len(pending'[d])
        PROVE  job'[pending'[d][i]].at = "pending" /\ job'[pending'[d][i]].class = d
    <3>1. CASE d = c /\ i = Len(pending[c]) + 1
      BY <1>3, <1>4, <3>1
    <3>2. CASE ~(d = c /\ i = Len(pending[c]) + 1)
      <4>1. i \in 1..Len(pending[d]) /\ pending'[d][i] = pending[d][i]
        <5>1. CASE d = c
          BY <1>2, <1>4, <3>2, <5>1
        <5>2. CASE d # c
          BY <1>4, <5>2
        <5> QED BY <5>1, <5>2
      <4>2. job[pending[d][i]].at = "pending" /\ job[pending[d][i]].class = d
        BY <4>1 DEF QueueInv, QueuesExact
      <4> QED BY <1>3, <1>6, <4>1, <4>2
    <3> QED BY <3>1, <3>2
  <2>2. ASSUME NEW d \in Classes, NEW i \in 1..Len(pending'[d]), NEW k \in 1..Len(pending'[d]),
               pending'[d][i] = pending'[d][k]
        PROVE  i = k
    <3>1. \A m, n \in 1..Len(pending[d]) : pending[d][m] = pending[d][n] => m = n
      BY DEF QueueInv, QueuesExact
    <3>2. CASE d = c
      <4>1. \A m \in 1..Len(pending[c]) : pending'[c][m] = pending[c][m] /\ pending[c][m] # j
        BY <1>2, <1>4, <1>6
      <4>2. (i = Len(pending[c]) + 1 \/ i \in 1..Len(pending[c]))
            /\ (k = Len(pending[c]) + 1 \/ k \in 1..Len(pending[c]))
        BY <1>2, <1>4, <3>2
      <4> QED BY <1>4, <2>2, <3>1, <3>2, <4>1, <4>2
    <3>3. CASE d # c
      BY <1>4, <2>2, <3>1, <3>3
    <3> QED BY <3>2, <3>3
  <2>3. ASSUME NEW k \in Jobs, job'[k].at = "pending"
        PROVE  /\ job'[k].class \in Classes
               /\ \E i \in 1..Len(pending'[job'[k].class]) : pending'[job'[k].class][i] = k
    <3>1. CASE k = j
      <4>1. Len(pending[c]) + 1 \in 1..Len(pending'[c])
        BY <1>2, <1>4
      <4> QED BY <1>2, <1>3, <1>4, <3>1, <4>1
    <3>2. CASE k # j
      <4>1. PICK i \in 1..Len(pending[job[k].class]) : pending[job[k].class][i] = k
        BY <1>3, <2>3, <3>2 DEF QueueInv, QueuesExact
      <4>2. job[k].class \in Classes /\ job'[k].class = job[k].class
        BY <1>3, <2>3, <3>2 DEF QueueInv, QueuesExact
      <4>3. i \in 1..Len(pending'[job[k].class]) /\ pending'[job[k].class][i] = k
        <5>1. CASE job[k].class = c
          BY <1>2, <1>4, <4>1, <5>1
        <5>2. CASE job[k].class # c
          BY <1>4, <4>1, <4>2, <5>2
        <5> QED BY <5>1, <5>2
      <4> QED BY <4>2, <4>3
    <3> QED BY <3>1, <3>2
  <2> QED BY <2>1, <2>2, <2>3 DEF QueuesExact
<1>8. RedisAgrees'
  BY <1>1, <1>3 DEF QueueInv, RedisAgrees
<1>9. VisitedAreOpen' /\ ClosedIsKnown'
  BY <1>1, <1>3 DEF QueueInv, VisitedAreOpen, ClosedIsKnown
<1>10. OpenBounded' /\ OvershootBounded'
  <2>1. Open' \subseteq Open
    BY <1>1, <1>3 DEF Open
  <2>2. IsFiniteSet(Open) /\ Cardinality(Open) \in Nat /\ Cardinality(Open) <= MaxOpen
    BY FS_CardinalityType DEF QueueInv, OpenBounded
  <2>3. IsFiniteSet(Open') /\ Cardinality(Open') <= Cardinality(Open) /\ Cardinality(Open') \in Nat
    BY <2>1, <2>2, FS_Subset, FS_CardinalityType
  <2>4. OpenBounded'
    BY <2>2, <2>3, QueueAssumption DEF OpenBounded
  <2>5. ASSUME NEW d \in Classes
        PROVE  Len(pending'[d]) + Cardinality(Adding(d)') < maxSize + MaxOpen
    <3>1. Len(pending[d]) + Cardinality(Adding(d)) < maxSize + MaxOpen
      BY DEF QueueInv, OvershootBounded, Adding
    <3>2. CASE d = c
      <4>1. j \in Adding(c) /\ Adding(c)' = Adding(c) \ {j} /\ Adding(c) \subseteq Open
        BY <1>0, <1>1, <1>3 DEF Adding, Open
      <4>2. IsFiniteSet(Adding(c)) /\ Cardinality(Adding(c)) \in Nat
        BY <2>2, <4>1, FS_Subset, FS_CardinalityType
      <4>3. Cardinality(Adding(c)') = Cardinality(Adding(c)) - 1
        BY <4>1, <4>2, FS_RemoveElement
      <4> QED BY <1>2, <1>4, <3>1, <3>2, <4>2, <4>3, QueueAssumption
    <3>3. CASE d # c
      <4>1. Adding(d)' = Adding(d)
        BY <1>0, <1>1, <1>3, <3>3 DEF Adding
      <4> QED BY <1>4, <3>1, <3>3, <4>1
    <3> QED BY <3>2, <3>3
  <2>6. OvershootBounded'
    BY <2>5 DEF OvershootBounded, Adding
  <2> QED BY <2>4, <2>6
<1> QED BY <1>5, <1>7, <1>8, <1>9, <1>10 DEF QueueInv

\* processNext() takes the first job of an open queue, which was there once.
LEMMA TakeStep ==
  ASSUME QueueInv, NEW c \in Classes, pending[c] # <<>>,
         pending' = [pending EXCEPT ![c] = Tail(@)],
         job' = [job EXCEPT ![Head(pending[c])].at = "removing"],
         UNCHANGED <<closed, paused, resuming, stored, faults, stranded>>
  PROVE  QueueInv'
<1> DEFINE q == pending[c]
<1>1. /\ job \in [Jobs -> JobRecord] /\ pending \in [Classes -> Seq(Jobs)]
      /\ q \in Seq(Jobs) /\ Len(q) \in Nat \ {0}
  BY DEF QueueInv, TypeOK
<1>2. PICK j \in Jobs : j = q[1] /\ j = Head(q)
  BY <1>1
<1>3. 1 \in 1..Len(q) /\ job[j].at = "pending" /\ job[j].class = c
  BY <1>1, <1>2 DEF QueueInv, QueuesExact
<1>4. /\ job' \in [Jobs -> JobRecord]
      /\ job'[j].at = "removing" /\ job'[j].class = c /\ job'[j].pausing = job[j].pausing
      /\ \A k \in Jobs : k # j => job'[k] = job[k]
  BY <1>1, <1>2, <1>3 DEF JobRecord, Places
<1>5. /\ pending' \in [Classes -> Seq(Jobs)]
      /\ Len(pending'[c]) = Len(q) - 1
      /\ \A i \in 1..Len(pending'[c]) : pending'[c][i] = q[i + 1]
      /\ \A d \in Classes : d # c => pending'[d] = pending[d]
  BY <1>1
<1>6. /\ \A i \in 1..Len(q) : job[q[i]].at = "pending" /\ job[q[i]].class = c
      /\ \A i, k \in 1..Len(q) : q[i] = q[k] => i = k
      /\ \A i \in 1..Len(q) : q[i] \in Jobs
  BY <1>1 DEF QueueInv, QueuesExact
<1>7. \A d \in Classes : d # c => \A i \in 1..Len(pending[d]) :
         pending[d][i] \in Jobs /\ pending[d][i] # j
  BY <1>1, <1>3 DEF QueueInv, QueuesExact
<1> HIDE DEF q
<1>8. \A i \in 1..Len(pending'[c]) : i + 1 \in 1..Len(q) /\ i + 1 # 1
  BY <1>1, <1>5
<1>9. TypeOK'
  BY <1>3, <1>4, <1>5 DEF QueueInv, TypeOK
<1>10. QueuesExact'
  <2>1. ASSUME NEW d \in Classes, NEW i \in 1..Len(pending'[d])
        PROVE  job'[pending'[d][i]].at = "pending" /\ job'[pending'[d][i]].class = d
    <3>1. CASE d = c
      <4>1. pending'[c][i] = q[i + 1] /\ q[i + 1] \in Jobs /\ q[i + 1] # j
        BY <1>2, <1>3, <1>5, <1>6, <1>8, <3>1
      <4>2. job[q[i + 1]].at = "pending" /\ job[q[i + 1]].class = c
        BY <1>6, <1>8, <3>1
      <4>3. job'[q[i + 1]] = job[q[i + 1]]
        BY <1>4, <4>1
      <4> QED BY <3>1, <4>1, <4>2, <4>3
    <3>2. CASE d # c
      <4>1. job[pending[d][i]].at = "pending" /\ job[pending[d][i]].class = d
        BY <1>5, <3>2 DEF QueueInv, QueuesExact
      <4> QED BY <1>4, <1>5, <1>7, <3>2, <4>1
    <3> QED BY <3>1, <3>2
  <2>2. ASSUME NEW d \in Classes, NEW i \in 1..Len(pending'[d]), NEW k \in 1..Len(pending'[d]),
               pending'[d][i] = pending'[d][k]
        PROVE  i = k
    <3>1. CASE d = c
      <4>1. q[i + 1] = q[k + 1] /\ i + 1 \in 1..Len(q) /\ k + 1 \in 1..Len(q)
        BY <1>5, <1>8, <2>2, <3>1
      <4>2. i + 1 = k + 1
        BY <1>6, <4>1
      <4> QED BY <4>2
    <3>2. CASE d # c
      BY <1>5, <2>2, <3>2 DEF QueueInv, QueuesExact
    <3> QED BY <3>1, <3>2
  <2>3. ASSUME NEW k \in Jobs, job'[k].at = "pending"
        PROVE  /\ job'[k].class \in Classes
               /\ \E i \in 1..Len(pending'[job'[k].class]) : pending'[job'[k].class][i] = k
    <3>1. k # j /\ job'[k] = job[k]
      BY <1>4, <2>3
    <3>2. PICK d \in Classes : d = job[k].class
      BY <2>3, <3>1 DEF QueueInv, QueuesExact
    <3>3. PICK i \in 1..Len(pending[d]) : pending[d][i] = k
      BY <2>3, <3>1, <3>2 DEF QueueInv, QueuesExact
    <3>4. CASE d = c
      <4>1. q[i] = k /\ i \in 1..Len(q) /\ i # 1
        BY <1>2, <3>1, <3>3, <3>4 DEF q
      <4>2. i - 1 \in 1..Len(pending'[c]) /\ (i - 1) + 1 = i
        BY <1>1, <1>5, <4>1
      <4>3. pending'[c][i - 1] = k
        BY <1>5, <4>1, <4>2
      <4> QED BY <3>1, <3>2, <3>4, <4>2, <4>3
    <3>5. CASE d # c
      BY <1>5, <3>1, <3>2, <3>3, <3>5
    <3> QED BY <3>4, <3>5
  <2> QED BY <2>1, <2>2, <2>3 DEF QueuesExact
<1>11. RedisAgrees'
  BY <1>3, <1>4 DEF QueueInv, RedisAgrees
<1>12. VisitedAreOpen' /\ ClosedIsKnown'
  BY <1>4 DEF QueueInv, VisitedAreOpen, ClosedIsKnown
<1>13. OpenBounded' /\ OvershootBounded'
  <2>1. Open' \subseteq Open /\ \A d \in Classes : Adding(d)' \subseteq Adding(d)
    BY <1>4 DEF Open, Adding
  <2>2. \A d \in Classes : Len(pending'[d]) <= Len(pending[d])
    <3> SUFFICES ASSUME NEW d \in Classes PROVE Len(pending'[d]) <= Len(pending[d])
      OBVIOUS
    <3>1. CASE d = c
      BY <1>1, <1>5, <3>1 DEF q
    <3>2. CASE d # c
      BY <1>1, <1>5, <3>2
    <3> QED BY <3>1, <3>2
  <2> QED BY <1>5, <2>1, <2>2, BoundsKept
<1> QED BY <1>9, <1>10, <1>11, <1>12, <1>13 DEF QueueInv

\* A step that leaves the jobs and the queues alone.
LEMMA SameJobs ==
  ASSUME QueueInv, UNCHANGED <<job, pending, stored>>, faults' \in {faults, faults + 1}
  PROVE  /\ closed' \subseteq Classes => TypeOK'
         /\ QueuesExact' /\ RedisAgrees' /\ OpenBounded' /\ OvershootBounded'
<1>1. closed' \subseteq Classes => TypeOK'
  BY DEF QueueInv, TypeOK
<1>2. QueuesExact' /\ RedisAgrees'
  <2>1. faults > 0 => faults' > 0
    BY DEF QueueInv, TypeOK
  <2> QED BY <2>1 DEF QueueInv, QueuesExact, RedisAgrees
<1>3. OpenBounded' /\ OvershootBounded'
  BY DEF QueueInv, OpenBounded, OvershootBounded, Open
<1> QED BY <1>1, <1>2, <1>3

\* processNext(), or its return from a queue that is closed.
LEMMA ScheduleStep ==
  ASSUME QueueInv, ScheduleNext
  PROVE  QueueInv'
<1>1. PICK best \in Active :
         IF best \in closed
         THEN UNCHANGED <<job, pending>>
         ELSE /\ pending' = [pending EXCEPT ![best] = Tail(@)]
              /\ job' = [job EXCEPT ![Head(pending[best])].at = "removing"]
  BY DEF ScheduleNext
<1>2. UNCHANGED <<closed, paused, resuming, stored, faults, stranded>>
  BY DEF ScheduleNext
<1>3. best \in Classes /\ pending[best] # <<>>
  BY DEF Active
<1>4. CASE best \in closed
  <2>1. closed' \subseteq Classes
    BY <1>2 DEF QueueInv, TypeOK
  <2>2. VisitedAreOpen' /\ ClosedIsKnown'
    BY <1>1, <1>2, <1>4 DEF QueueInv, VisitedAreOpen, ClosedIsKnown
  <2> QED BY <1>1, <1>2, <1>4, <2>1, <2>2, SameJobs DEF QueueInv
<1>5. CASE best \notin closed
  BY <1>1, <1>2, <1>3, <1>5, TakeStep
<1> QED BY <1>4, <1>5

\* resumeAll(): its start, the opening of a class, its failure, and the clear()
\* at its end, when every class known as paused has been opened.
LEMMA ResumeStep ==
  ASSUME QueueInv, ResumeAll \/ (\E c \in Classes : ResumeClass(c))
                   \/ ResumeFails \/ ResumeDone
  PROVE  QueueInv'
<1>1. /\ UNCHANGED <<job, pending, stored>> /\ closed' \subseteq closed
      /\ faults' \in {faults, faults + 1}
  BY DEF ResumeAll, ResumeClass, ResumeFails, ResumeDone
<1>2. closed' \subseteq Classes
  BY <1>1 DEF QueueInv, TypeOK
<1>3. VisitedAreOpen' /\ ClosedIsKnown'
  <2>1. CASE ResumeAll
    BY <2>1 DEF ResumeAll, QueueInv, VisitedAreOpen, ClosedIsKnown
  <2>2. ASSUME NEW c \in Classes, ResumeClass(c) PROVE VisitedAreOpen' /\ ClosedIsKnown'
    <3>1. resuming'.visited \subseteq resuming.visited \cup {c}
      BY <2>2 DEF ResumeClass
    <3> QED BY <2>2, <3>1 DEF ResumeClass, QueueInv, VisitedAreOpen, ClosedIsKnown
  <2>3. CASE ResumeDone
    BY <2>3 DEF ResumeDone, QueueInv, VisitedAreOpen, ClosedIsKnown
  <2>4. CASE ResumeFails
    BY <2>4 DEF ResumeFails, QueueInv, VisitedAreOpen, ClosedIsKnown
  <2> QED BY <2>1, <2>2, <2>3, <2>4
<1> QED BY <1>1, <1>2, <1>3, SameJobs DEF QueueInv

\* A restart: nothing waits in memory, and what Redis has is lost to it.
LEMMA CrashStep ==
  ASSUME QueueInv, Crash
  PROVE  QueueInv'
<1>1. /\ \A j \in Jobs : job'[j] = IF job[j].at \in {"new", "pausing"} THEN NewJob
                                   ELSE LostJob
      /\ \A c \in Classes : pending'[c] = <<>>
      /\ DOMAIN job' = Jobs
      /\ job' = [j \in Jobs |-> job'[j]]
      /\ pending' \in [Classes -> Seq(Jobs)]
      /\ closed' = {} /\ paused' = {} /\ resuming'.visited = {}
      /\ faults' = faults + 1
  BY DEF Crash
<1>2. \A j \in Jobs : /\ job'[j] \in JobRecord /\ job'[j].pausing = NoClass
                      /\ job'[j].at \in {"new", "lost"}
                      /\ job[j].at \notin {"new", "pausing"} => job'[j].at = "lost"
  BY <1>1, Records
<1>3. TypeOK' /\ faults' > 0
  <2>1. faults' \in Nat /\ faults' > 0
    BY <1>1 DEF QueueInv, TypeOK
  <2> QED BY <1>1, <1>2, <2>1 DEF TypeOK
<1>4. QueuesExact'
  BY <1>1, <1>2 DEF QueuesExact
<1>5. RedisAgrees'
  <2>1. \A j \in Jobs : j \in stored' => job[j].at \in {"adding", "removing", "pending", "lost"}
    BY DEF Crash
  <2> QED BY <1>2, <1>3, <2>1 DEF RedisAgrees
<1>6. VisitedAreOpen' /\ ClosedIsKnown'
  BY <1>1 DEF VisitedAreOpen, ClosedIsKnown
<1>7. Open' \subseteq Open /\ \A d \in Classes : Adding(d)' \subseteq Adding(d)
  BY <1>2 DEF Open, Adding
<1>8. \A d \in Classes : Len(pending'[d]) <= Len(pending[d])
  <2>1. \A d \in Classes : Len(pending'[d]) = 0 /\ Len(pending[d]) \in Nat
    BY <1>1 DEF QueueInv, TypeOK
  <2> QED BY <2>1
<1>9. OpenBounded' /\ OvershootBounded'
  BY <1>1, <1>7, <1>8, BoundsKept
<1> QED BY <1>3, <1>4, <1>5, <1>6, <1>9 DEF QueueInv

\* Every step keeps the invariant.
LEMMA NextInv == QueueInv /\ [Next]_vars => QueueInv'
<1> SUFFICES ASSUME QueueInv, [Next]_vars PROVE QueueInv'
  OBVIOUS
<1> USE DEF queueVars
<1>1. ASSUME NEW j \in Jobs, NEW c \in Classes, Add(j, c) \/ Enqueue(j, c) PROVE QueueInv'
  BY <1>1, StartAddStep DEF Add, Enqueue
<1>2. ASSUME NEW j \in Jobs, NEW c \in Classes, EnqueuePausing(j, c) PROVE QueueInv'
  BY <1>2, EnqueuePausingStep
<1>3. ASSUME NEW j \in Jobs, PauseDone(j) PROVE QueueInv'
  BY <1>3, PauseDoneStep
<1>4. ASSUME NEW j \in Jobs, AddDone(j) PROVE QueueInv'
  BY <1>4, AddDoneStep
<1>5. ASSUME NEW j \in Jobs, job[j].at \in {"adding", "removing", "running"}
      PROVE  job[j].pausing = NoClass /\ (job[j].at # "removing" => j \notin stored)
  BY <1>5 DEF QueueInv, TypeOK, RedisAgrees
<1>6. ASSUME NEW j \in Jobs, AddFails(j) \/ Finish(j) PROVE QueueInv'
  <2>1. /\ job[j].at \in {"adding", "running"} /\ job' = [job EXCEPT ![j] = NewJob]
        /\ UNCHANGED <<pending, closed, paused, resuming, stored, faults, stranded>>
    BY <1>6 DEF AddFails, Finish
  <2> QED BY <1>5, <2>1, DropStep, Records
<1>7. CASE ScheduleNext
  BY <1>7, ScheduleStep
<1>8. ASSUME NEW j \in Jobs, Removed(j) PROVE QueueInv'
  <2> DEFINE rec == [job[j] EXCEPT !.at = "running"]
  <2>1. /\ job[j].at = "removing" /\ job' = [job EXCEPT ![j] = rec]
        /\ stored' = stored \ {j}
        /\ UNCHANGED <<pending, closed, paused, resuming, faults, stranded>>
    BY <1>8 DEF Removed
  <2>2. rec \in JobRecord /\ rec.at = "running" /\ rec.pausing = job[j].pausing
    BY DEF QueueInv, TypeOK, JobRecord, Places
  <2> HIDE DEF rec
  <2> QED BY <1>5, <2>1, <2>2, DropStep
<1>9. ASSUME NEW j \in Jobs, RemoveFails(j) \/ AddFailsStored(j) PROVE QueueInv'
  <2>1. /\ job[j].at \in {"adding", "removing"} /\ job' = [job EXCEPT ![j] = LostJob]
        /\ stored' \subseteq stored \cup {j} /\ stored \ {j} \subseteq stored'
        /\ faults' = faults + 1
        /\ UNCHANGED <<pending, closed, paused, resuming, stranded>>
    BY <1>9 DEF RemoveFails, AddFailsStored
  <2> QED BY <1>5, <2>1, DropStep, Records
<1>13. ASSUME NEW j \in Jobs, PauseFails(j) PROVE QueueInv'
  BY <1>13, PauseFailsStep
<1>10. CASE ResumeAll \/ (\E c \in Classes : ResumeClass(c)) \/ ResumeFails \/ ResumeDone
  BY <1>10, ResumeStep
<1>11. CASE Crash
  BY <1>11, CrashStep
<1>12. CASE UNCHANGED vars
  <2>1. closed' \subseteq Classes /\ VisitedAreOpen' /\ ClosedIsKnown'
    BY <1>12 DEF vars, QueueInv, TypeOK, VisitedAreOpen, ClosedIsKnown
  <2> QED BY <1>12, <2>1, SameJobs DEF vars, QueueInv
<1> QED BY <1>1, <1>2, <1>3, <1>4, <1>6, <1>7, <1>8, <1>9, <1>10, <1>11, <1>12, <1>13 DEF Next

\* The invariant of the queue.
LEMMA QueueInvariant == Spec => []QueueInv
  BY InitInv, NextInv, PTL DEF Spec

\* A waiting job is in Redis, and Redis has nothing but waiting jobs, jobs
\* being removed and lost ones, over concurrent additions, calls of Redis that
\* fail before or after they took effect, and restarts; only faults lose jobs.
THEOREM RedisInStep == Spec => []RedisAgrees
<1>1. QueueInv => RedisAgrees
  BY DEF QueueInv
<1> QED BY <1>1, QueueInvariant, PTL

\* A waiting job is in the queue of its class exactly once, and a queue holds
\* nothing else: no job is served twice and none is forgotten in memory.
THEOREM WaitsOnce == Spec => []QueuesExact
<1>1. QueueInv => QueuesExact
  BY DEF QueueInv
<1> QED BY <1>1, QueueInvariant, PTL

\* add() checks the capacity before its await, so a class may overfill, but by
\* less than the number of calls open at once.
THEOREM CapacityOvershoot == Spec => []OvershootBounded
<1>1. QueueInv => OvershootBounded
  BY DEF QueueInv
<1> QED BY <1>1, QueueInvariant, PTL

\* resumeAll() racing with backpressure never forgets a closed class.
THEOREM NoClassForgotten == Spec => []ClosedIsKnown
<1>1. QueueInv => ClosedIsKnown
  BY DEF QueueInv
<1> QED BY <1>1, QueueInvariant, PTL

-----------------------------------------------------------------------------
(* How far a class may lag *)

\* The sum of the deficits of k classes of n is at most k (n - k) / 2 rounds,
\* whichever k classes these are, and all deficits cancel out.
LagBounded(d, C, round) ==
  /\ \A c \in C : d[c] \in Int
  /\ SumOver(d, C) = 0
  /\ \A S \in SUBSET C :
       2 * SumOver(d, S)
         <= round * (Cardinality(S) * (Cardinality(C) - Cardinality(S)))

\* A round is shared out among the active classes.
SharedOut(e, C, A, round) ==
  /\ A \subseteq C
  /\ \A c \in C : e[c] \in Nat /\ (c \notin A => e[c] = 0)
  /\ SumOver(e, A) = round

\* The active class b with the largest deficit pays for the round.
Pays(b, d, e, g, C, A, round) ==
  /\ b \in A
  /\ \A a \in A : d[a] + e[a] <= d[b] + e[b]
  /\ \A c \in C : g[c] = d[c] + e[c] - (IF c = b THEN round ELSE 0)

\* A round of the scheduler, from deficits d to g.
Round(b, d, e, g, C, A, round) ==
  /\ IsFiniteSet(C) /\ round \in Nat
  /\ LagBounded(d, C, round)
  /\ SharedOut(e, C, A, round)
  /\ Pays(b, d, e, g, C, A, round)

\* Why the bound is kept by k classes of which m were active and none paid: the
\* class that did had at least their average.
LEMMA LagArithmetic ==
  ASSUME NEW R \in Nat, NEW n \in Int, NEW k \in Int, NEW m \in Nat, m >= 1,
         NEW rest \in Int, NEW all \in Int, NEW got \in Int,
         NEW active \in Int, NEW payer \in Int,
         2 * rest <= R * ((k - m) * (n - (k - m))),
         2 * all <= R * ((k + 1) * (n - (k + 1))),
         got <= R,
         all + got = rest + active + payer,
         active <= m * payer
  PROVE  2 * (rest + active) <= R * (k * (n - k))
  <1>1. PICK v \in Int : v = k * (n - k)
    OBVIOUS
  <1>2. PICK a \in Int : a = (k - m) * (n - (k - m))
    OBVIOUS
  <1>3. PICK b \in Int : b = (k + 1) * (n - (k + 1))
    OBVIOUS
  <1>4. a + m * (b + 2) = (m + 1) * v + m - m * m
    BY <1>1, <1>2, <1>3
  <1>5. m <= m * m
    OBVIOUS
  <1>6. a + m * (b + 2) <= (m + 1) * v
    BY <1>4, <1>5
  <1>7. R * (a + m * (b + 2)) <= R * ((m + 1) * v)
    BY <1>6, Scaling
  <1>8. (m + 1) * active <= m * (all + got - rest)
    <2>1. m * (active + payer) = m * active + m * payer
      OBVIOUS
    <2>2. (m + 1) * active = m * active + active
      OBVIOUS
    <2>3. active + payer = all + got - rest
      OBVIOUS
    <2> QED  BY <2>1, <2>2, <2>3
  <1>9. 2 * all + 2 * got <= R * (b + 2)
    <2>1. R * (b + 2) = R * b + 2 * R
      OBVIOUS
    <2> QED  BY <1>3, <2>1
  <1>10. m * (2 * all + 2 * got) <= m * (R * (b + 2))
    BY <1>9, Scaling
  <1>11. (m + 1) * (2 * (rest + active)) <= 2 * rest + m * (2 * all + 2 * got)
    <2>1. m * (all + got - rest) = m * (all + got) - m * rest
      OBVIOUS
    <2>2. m * (2 * all + 2 * got) = 2 * (m * (all + got))
      OBVIOUS
    <2>3. (m + 1) * (2 * (rest + active)) = 2 * (m * rest) + 2 * rest + 2 * ((m + 1) * active)
      OBVIOUS
    <2> QED  BY <1>8, <2>1, <2>2, <2>3
  <1>12. (m + 1) * (2 * (rest + active)) <= (m + 1) * (R * v)
    <2>1. R * (a + m * (b + 2)) = R * a + m * (R * (b + 2))
      OBVIOUS
    <2>2. R * ((m + 1) * v) = (m + 1) * (R * v)
      OBVIOUS
    <2> QED  BY <1>2, <1>7, <1>10, <1>11, <2>1, <2>2
  <1>13. PICK x \in Int : x = 2 * (rest + active)
    OBVIOUS
  <1>14. PICK y \in Int : y = R * v
    OBVIOUS
  <1>15. PICK p \in Nat \ {0} : p = m + 1
    OBVIOUS
  <1>16. p * x < p * y + p
    BY <1>12, <1>13, <1>14, <1>15
  <1>17. x <= y
    BY <1>16, Cancel
  <1> QED  BY <1>1, <1>13, <1>14, <1>17

\* The sum over one class.
LEMMA SumOne ==
  ASSUME NEW f, NEW a, f[a] \in Int
  PROVE  SumOver(f, {a}) = f[a]
  <1>1. PICK S : S = {a}
    OBVIOUS
  <1>2. IsFiniteSet(S) /\ a \in S /\ S \ {a} = {} /\ \A x \in S : f[x] \in Int
    BY <1>1, FS_Singleton
  <1>3. SumOver(f, S) = f[a] + SumOver(f, S \ {a})
    BY <1>2, SumRemove
  <1>4. SumOver(f, S \ {a}) = 0
    BY <1>2, SumEmpty
  <1> QED  BY <1>1, <1>3, <1>4

\* What part of a round a set of classes gets: all of it, if it has all the
\* active classes.
LEMMA SharesOfPart ==
  ASSUME NEW C, IsFiniteSet(C), NEW e, NEW A, NEW R \in Nat,
         SharedOut(e, C, A, R), NEW S \in SUBSET C
  PROVE  /\ SumOver(e, S) \in Nat
         /\ SumOver(e, S) <= R
         /\ SumOver(e, C) = R
         /\ S \cap A = {} => SumOver(e, S) = 0
  <1>1. /\ IsFiniteSet(S) /\ IsFiniteSet(C \ S) /\ IsFiniteSet(S \cap A)
        /\ S \cup (C \ S) = C /\ S \cap (C \ S) = {}
        /\ \A c \in C : e[c] \in Nat /\ e[c] \in Int
    BY FS_Subset DEF SharedOut
  <1>2. SumOver(e, C) = SumOver(e, A)
    <2>1. A \in SUBSET C /\ \A c \in C \ A : e[c] = 0
      BY DEF SharedOut
    <2> QED  BY <1>1, <2>1, SumPart
  <1>3. SumOver(e, C) = R
    BY <1>2 DEF SharedOut
  <1>4. SumOver(e, S) \in Nat /\ SumOver(e, C \ S) \in Nat
    BY <1>1, SumNat
  <1>5. SumOver(e, C) = SumOver(e, S) + SumOver(e, C \ S)
    <2>1. PICK T : T = C \ S
      OBVIOUS
    <2>2. SumOver(e, S \cup T) = SumOver(e, S) + SumOver(e, T)
      <3>1. IsFiniteSet(T) /\ S \cap T = {} /\ \A c \in S \cup T : e[c] \in Int
        BY <1>1, <2>1
      <3> QED  BY <1>1, <3>1, SumUnion
    <2> QED  BY <1>1, <2>1, <2>2
  <1>6. ASSUME S \cap A = {} PROVE SumOver(e, S) = 0
    <2>1. {} \in SUBSET S /\ \A c \in S \ {} : e[c] = 0
      BY <1>6 DEF SharedOut
    <2>2. SumOver(e, S) = SumOver(e, {})
      BY <1>1, <2>1, SumPart
    <2> QED  BY <2>2, SumEmpty
  <1> QED  BY <1>3, <1>4, <1>5, <1>6

\* The sums of the deficits after a round: before, plus the shares, less the
\* round if the class that paid is among them.
LEMMA RoundSums ==
  ASSUME NEW C, NEW d, NEW e, NEW g, NEW A, NEW R, NEW b,
         Round(b, d, e, g, C, A, R), NEW S \in SUBSET C
  PROVE  /\ SumOver(d, S) \in Int
         /\ b \in S => SumOver(g, S) = SumOver(d, S) + SumOver(e, S) - R
         /\ b \notin S => SumOver(g, S) = SumOver(d, S) + SumOver(e, S)
  <1>0. /\ IsFiniteSet(C) /\ R \in Nat
        /\ LagBounded(d, C, R) /\ SharedOut(e, C, A, R) /\ Pays(b, d, e, g, C, A, R)
    BY DEF Round
  <1>1. PICK x : x = [c \in C |-> d[c] + e[c]]
    OBVIOUS
  <1>2. PICK p : p = [c \in C |-> IF c = b THEN R ELSE 0]
    OBVIOUS
  <1>3. \A c \in C : /\ d[c] \in Int /\ e[c] \in Int /\ p[c] \in Int /\ g[c] \in Int
                     /\ x[c] = d[c] + e[c] /\ x[c] = g[c] + p[c]
    <2> SUFFICES ASSUME NEW c \in C
                 PROVE  /\ d[c] \in Int /\ e[c] \in Int /\ p[c] \in Int /\ g[c] \in Int
                        /\ x[c] = d[c] + e[c] /\ x[c] = g[c] + p[c]
      OBVIOUS
    <2>1. PICK u \in Int, v \in Int : u = d[c] /\ v = e[c]
      BY <1>0 DEF SharedOut, LagBounded
    <2>2. g[c] = u + v - (IF c = b THEN R ELSE 0)
      BY <1>0, <2>1 DEF Pays
    <2>3. x[c] = u + v /\ p[c] = IF c = b THEN R ELSE 0
      BY <1>1, <1>2, <2>1
    <2> QED  BY <1>0, <2>1, <2>2, <2>3
  <1>4. IsFiniteSet(S)
    BY <1>0, FS_Subset
  <1>5. \A c \in S : /\ d[c] \in Int /\ e[c] \in Int /\ p[c] \in Int /\ g[c] \in Int
                     /\ x[c] = d[c] + e[c] /\ x[c] = g[c] + p[c]
    BY <1>3
  <1>6. SumOver(x, S) = SumOver(d, S) + SumOver(e, S)
    BY <1>4, <1>5, SumOfSums
  <1>7. SumOver(x, S) = SumOver(g, S) + SumOver(p, S)
    BY <1>4, <1>5, SumOfSums
  <1>8. SumOver(p, S) = IF b \in S THEN R ELSE 0
    <2>1. CASE b \in S
      <3>1. {b} \in SUBSET S /\ (\A c \in S \ {b} : p[c] = 0) /\ p[b] = R
        BY <1>2, <2>1
      <3>2. SumOver(p, S) = SumOver(p, {b})
        BY <1>4, <1>5, <3>1, SumPart
      <3>3. SumOver(p, {b}) = p[b]
        <4>1. p[b] \in Int
          BY <1>5, <2>1
        <4> QED  BY <4>1, SumOne
      <3> QED  BY <2>1, <3>1, <3>2, <3>3
    <2>2. CASE b \notin S
      <3>1. {} \in SUBSET S /\ \A c \in S \ {} : p[c] = 0
        BY <1>2, <2>2
      <3>2. SumOver(p, S) = SumOver(p, {})
        BY <1>4, <1>5, <3>1, SumPart
      <3> QED  BY <2>2, <3>2, SumEmpty
    <2> QED  BY <2>1, <2>2
  <1>9. SumOver(d, S) \in Int /\ SumOver(e, S) \in Int /\ SumOver(g, S) \in Int
    BY <1>4, <1>5, SumInt
  <1>10. ASSUME b \in S PROVE SumOver(g, S) = SumOver(d, S) + SumOver(e, S) - R
    BY <1>0, <1>6, <1>7, <1>8, <1>9, <1>10
  <1>11. ASSUME b \notin S PROVE SumOver(g, S) = SumOver(d, S) + SumOver(e, S)
    BY <1>6, <1>7, <1>8, <1>9, <1>11
  <1> QED  BY <1>9, <1>10, <1>11

\* A round keeps the bound.
LEMMA RoundKeepsLag ==
  ASSUME NEW C, NEW d, NEW e, NEW g, NEW A, NEW R, NEW b,
         Round(b, d, e, g, C, A, R)
  PROVE  LagBounded(g, C, R)
  <1> IsFiniteSet(C) /\ R \in Nat
    BY DEF Round
  <1> LagBounded(d, C, R) /\ SharedOut(e, C, A, R) /\ Pays(b, d, e, g, C, A, R)
    BY DEF Round
  <1>1. PICK n \in Nat : n = Cardinality(C)
    BY FS_CardinalityType
  <1>2. b \in A /\ b \in C /\ A \subseteq C
    BY DEF Pays, SharedOut
  <1>3. \A c \in C : d[c] \in Int /\ e[c] \in Int /\ g[c] \in Int
    <2> SUFFICES ASSUME NEW c \in C PROVE d[c] \in Int /\ e[c] \in Int /\ g[c] \in Int
      OBVIOUS
    <2>1. d[c] \in Int /\ e[c] \in Int
      BY DEF LagBounded, SharedOut
    <2>2. g[c] = d[c] + e[c] - (IF c = b THEN R ELSE 0)
      BY DEF Pays
    <2> QED  BY <2>1, <2>2
  <1>4. \A S \in SUBSET C :
          /\ SumOver(d, S) \in Int
          /\ b \in S => SumOver(g, S) = SumOver(d, S) + SumOver(e, S) - R
          /\ b \notin S => SumOver(g, S) = SumOver(d, S) + SumOver(e, S)
    <2> SUFFICES ASSUME NEW S \in SUBSET C
                 PROVE  /\ SumOver(d, S) \in Int
                        /\ b \in S => SumOver(g, S) = SumOver(d, S) + SumOver(e, S) - R
                        /\ b \notin S => SumOver(g, S) = SumOver(d, S) + SumOver(e, S)
      OBVIOUS
    <2> QED  BY RoundSums
  <1>5. \A S \in SUBSET C :
          /\ SumOver(e, S) \in Nat /\ SumOver(e, S) <= R /\ SumOver(e, C) = R
          /\ S \cap A = {} => SumOver(e, S) = 0
    <2> SUFFICES ASSUME NEW S \in SUBSET C
                 PROVE  /\ SumOver(e, S) \in Nat /\ SumOver(e, S) <= R /\ SumOver(e, C) = R
                        /\ S \cap A = {} => SumOver(e, S) = 0
      OBVIOUS
    <2> QED  BY SharesOfPart
  <1>6. \A S \in SUBSET C :
          2 * SumOver(d, S) <= R * (Cardinality(S) * (n - Cardinality(S)))
    BY <1>1 DEF LagBounded
  <1>7. SumOver(g, C) = 0
    <2>1. SumOver(g, C) = SumOver(d, C) + SumOver(e, C) - R
      BY <1>2, <1>4
    <2> QED  BY <1>5, <2>1 DEF LagBounded
  <1>8. ASSUME NEW S \in SUBSET C
        PROVE  2 * SumOver(g, S) <= R * (Cardinality(S) * (n - Cardinality(S)))
    <2>1. PICK k \in Nat : k = Cardinality(S)
      BY FS_Subset, FS_CardinalityType
    <2>2. PICK y \in Int : y = R * (k * (n - k))
      OBVIOUS
    <2>3. 2 * SumOver(d, S) <= y
      BY <1>6, <2>1, <2>2
    <2>4. CASE b \in S
      <3>1. SumOver(g, S) = SumOver(d, S) + SumOver(e, S) - R
        BY <1>4, <2>4
      <3>2. SumOver(d, S) \in Int /\ SumOver(e, S) \in Nat /\ SumOver(e, S) <= R
        BY <1>4, <1>5
      <3>3. 2 * SumOver(g, S) <= y
        BY <2>3, <3>1, <3>2
      <3> QED  BY <2>1, <2>2, <3>3
    <2>5. CASE S \cap A = {}
      <3>1. b \notin S
        BY <1>2, <2>5
      <3>2. SumOver(g, S) = SumOver(d, S) + 0
        BY <1>4, <1>5, <2>5, <3>1
      <3>3. SumOver(d, S) \in Int
        BY <1>4
      <3>4. 2 * SumOver(g, S) <= y
        BY <2>3, <3>2, <3>3
      <3> QED  BY <2>1, <2>2, <3>4
    <2>6. CASE b \notin S /\ S \cap A # {}
      <3>1. PICK T \in SUBSET C : T = S \cap A
        OBVIOUS
      <3>2. PICK U \in SUBSET C : U = S \ A
        OBVIOUS
      <3>3. PICK V \in SUBSET C : V = S \cup {b}
        BY <1>2
      <3>4. /\ IsFiniteSet(S) /\ IsFiniteSet(T) /\ IsFiniteSet(U) /\ IsFiniteSet(V)
            /\ S = U \cup T /\ U \cap T = {} /\ U \cap A = {}
            /\ b \in V /\ V \ {b} = S /\ b \notin S /\ b \notin T /\ b \notin U
            /\ T \subseteq A /\ T # {}
        BY <2>6, <3>1, <3>2, <3>3, FS_Subset
      <3>5. PICK m \in Nat : m = Cardinality(T) /\ m >= 1
        <4>1. Cardinality(T) \in Nat /\ Cardinality(T) # 0
          BY <3>4, FS_CardinalityType, FS_EmptySet
        <4> QED  BY <4>1
      <3>6. Cardinality(U) = k - m
        <4>1. Cardinality(U \cup T) = Cardinality(U) + Cardinality(T) - Cardinality(U \cap T)
          BY <3>4, FS_Union
        <4>2. Cardinality(U \cap T) = 0 /\ Cardinality(U) \in Nat
          BY <3>4, FS_EmptySet, FS_CardinalityType
        <4> QED  BY <2>1, <3>4, <3>5, <4>1, <4>2
      <3>7. Cardinality(V) = k + 1
        <4>1. Cardinality(S \cup {b}) = Cardinality(S) + 1
          BY <3>4, FS_AddElement
        <4> QED  BY <2>1, <3>3, <4>1
      <3>8. PICK rest \in Int : rest = SumOver(d, U)
        BY <1>4
      <3>9. PICK all \in Int : all = SumOver(d, V)
        BY <1>4
      <3>10. PICK got \in Int : got = SumOver(e, V) /\ got <= R
        BY <1>5
      <3>11. PICK active \in Int : active = SumOver(g, T)
        <4>1. \A c \in T : g[c] \in Int
          BY <1>3
        <4> QED  BY <3>4, <4>1, SumInt
      <3>12. PICK payer \in Int : payer = d[b] + e[b]
        BY <1>2, <1>3
      <3>13. SumOver(g, U) = rest
        <4>1. SumOver(g, U) = SumOver(d, U) + 0
          BY <1>4, <1>5, <3>4
        <4> QED  BY <3>8, <4>1
      <3>14. SumOver(g, S) = rest + active
        <4>1. \A c \in U \cup T : g[c] \in Int
          BY <1>3
        <4>2. SumOver(g, U \cup T) = SumOver(g, U) + SumOver(g, T)
          BY <3>4, <4>1, SumUnion
        <4> QED  BY <3>4, <3>11, <3>13, <4>2
      <3>15. all + got = rest + active + payer
        <4>1. SumOver(g, V) = all + got - R
          BY <1>4, <3>4, <3>9, <3>10
        <4>2. SumOver(g, V) = g[b] + SumOver(g, S)
          <5>1. \A c \in V : g[c] \in Int
            BY <1>3
          <5> QED  BY <3>4, <5>1, SumRemove
        <4>3. g[b] = payer - R
          <5>1. g[b] = d[b] + e[b] - R
            BY <1>2 DEF Pays
          <5>2. d[b] \in Int /\ e[b] \in Int
            BY <1>2, <1>3
          <5> QED  BY <3>12, <5>1, <5>2
        <4>4. all + got - R = payer - R + (rest + active)
          BY <3>14, <4>1, <4>2, <4>3
        <4> QED  BY <4>4
      <3>16. active <= m * payer
        <4>1. PICK h : h = [c \in C |-> payer]
          OBVIOUS
        <4>2. \A c \in T : g[c] \in Int /\ h[c] \in Int /\ g[c] <= h[c] /\ h[c] = payer
          <5> SUFFICES ASSUME NEW c \in T
                       PROVE  g[c] \in Int /\ h[c] \in Int /\ g[c] <= h[c] /\ h[c] = payer
            OBVIOUS
          <5>1. c \in A /\ c \in C /\ c # b
            BY <3>4
          <5>2. g[c] = d[c] + e[c] - 0 /\ d[c] + e[c] <= d[b] + e[b]
            BY <5>1 DEF Pays
          <5>3. d[c] \in Int /\ e[c] \in Int
            BY <1>3, <5>1
          <5> QED  BY <3>12, <4>1, <5>1, <5>2, <5>3
        <4>3. SumOver(g, T) <= SumOver(h, T)
          BY <3>4, <4>2, SumMonotone
        <4>4. SumOver(h, T) = Cardinality(T) * payer
          BY <3>4, <4>2, SumConstant
        <4> QED  BY <3>5, <3>11, <4>3, <4>4
      <3>17. 2 * rest <= R * ((k - m) * (n - (k - m)))
        BY <1>6, <3>6, <3>8
      <3>18. 2 * all <= R * ((k + 1) * (n - (k + 1)))
        BY <1>6, <3>7, <3>9
      <3>19. 2 * (rest + active) <= R * (k * (n - k))
        BY <3>5, <3>10, <3>15, <3>16, <3>17, <3>18, LagArithmetic
      <3> QED  BY <2>1, <3>14, <3>19
    <2> QED  BY <2>4, <2>5, <2>6
  <1> QED  BY <1>1, <1>3, <1>7, <1>8 DEF LagBounded

\* There are finitely many classes.
LEMMA ClassesFinite == IsFiniteSet(Classes)
  <1>1. PICK n \in Nat : PRIORITY_ORDER \in [1..n -> STRING]
    BY QueueAssumption
  <1>2. PRIORITY_ORDER \in Surjection(1..n, Classes)
    BY <1>1 DEF Surjection, Classes, Range
  <1>3. IsFiniteSet(1..n)
    BY <1>1, FS_Interval
  <1> QED  BY <1>2, <1>3, FS_Surjection

\* What is served in one round.
FullRound == Scale * SumOver(weights, Classes)

\* The weights of some classes add up to a positive number.
LEMMA WeightsPositive ==
  ASSUME NEW S \in SUBSET Classes
  PROVE  /\ IsFiniteSet(S)
         /\ SumOver(weights, S) \in Nat
         /\ S # {} => SumOver(weights, S) > 0
  <1>1. IsFiniteSet(S) /\ \A c \in S : weights[c] \in Nat /\ weights[c] > 0
    BY ClassesFinite, QueueAssumption, FS_Subset
  <1>2. SumOver(weights, S) \in Nat
    BY <1>1, SumNat
  <1>3. ASSUME S # {} PROVE SumOver(weights, S) > 0
    <2>1. PICK a \in S : TRUE
      BY <1>3
    <2>2. SumOver(weights, S) = weights[a] + SumOver(weights, S \ {a})
      <3>1. \A c \in S : weights[c] \in Int
        BY <1>1
      <3> QED  BY <1>1, <3>1, SumRemove
    <2>3. SumOver(weights, S \ {a}) \in Nat
      <3>1. IsFiniteSet(S \ {a}) /\ \A c \in S \ {a} : weights[c] \in Nat
        BY <1>1, FS_Subset
      <3> QED  BY <3>1, SumNat
    <2> QED  BY <1>1, <2>2, <2>3
  <1> QED  BY <1>1, <1>2, <1>3

\* The idle capacity is shared out exactly: the shares of the active classes
\* are a full round.
LEMMA SharedIsRound ==
  ASSUME Active # {}
  PROVE  SharedOut(Shared, Classes, Active, FullRound)
  <1>1. Active \in SUBSET Classes /\ Classes \ Active \in SUBSET Classes
    BY DEF Active
  <1>2. PICK sum \in Nat \ {0} : sum = SumOver(weights, Active)
    BY <1>1, WeightsPositive
  <1>3. PICK idle \in Nat : idle = SumOver(weights, Classes \ Active)
    BY <1>1, WeightsPositive
  <1>4. SumOver(weights, Classes) = sum + idle
    <2>1. PICK T : T = Classes \ Active
      OBVIOUS
    <2>2. /\ IsFiniteSet(Active) /\ IsFiniteSet(T) /\ Active \cap T = {}
          /\ Active \cup T = Classes /\ \A c \in Active \cup T : weights[c] \in Int
      BY <1>1, <2>1, WeightsPositive, QueueAssumption
    <2>3. SumOver(weights, Active \cup T) = SumOver(weights, Active) + SumOver(weights, T)
      BY <2>2, SumUnion
    <2> QED  BY <1>2, <1>3, <2>1, <2>2, <2>3
  <1>5. PICK q \in Nat : Scale \div sum = q /\ Scale = sum * q
    <2>1. Scale % sum = 0 /\ Scale \in Nat
      BY <1>1, <1>2, QueueAssumption
    <2> QED  BY <2>1
  <1>6. PICK k \in Nat : k = q * (sum + idle)
    OBVIOUS
  <1>7. \A c \in Classes : weights[c] \in Nat
    BY QueueAssumption
  <1>8. \A c \in Classes : Shared[c] = IF c \in Active THEN k * weights[c] ELSE 0
    <2> SUFFICES ASSUME NEW c \in Classes
                 PROVE  Shared[c] = IF c \in Active THEN k * weights[c] ELSE 0
      OBVIOUS
    <2>1. PICK w \in Nat : w = weights[c]
      BY <1>7
    <2>2. Shared[c] = IF c \in Active THEN Scale * w + idle * w * q ELSE 0
      BY <1>2, <1>3, <1>5, <2>1 DEF Shared
    <2>3. Scale * w + idle * w * q = k * w
      <3>1. (sum * q) * w + idle * w * q = (q * (sum + idle)) * w
        OBVIOUS
      <3> QED  BY <1>5, <1>6, <3>1
    <2> QED  BY <2>1, <2>2, <2>3
  <1>9. SumOver(Shared, Active) = k * sum
    <2>1. \A c \in Active : weights[c] \in Int /\ Shared[c] = k * weights[c]
      BY <1>1, <1>7, <1>8
    <2>2. IsFiniteSet(Active)
      BY <1>1, WeightsPositive
    <2> QED  BY <1>2, <2>1, <2>2, SumScaled
  <1>10. k * sum = FullRound
    <2>1. (q * (sum + idle)) * sum = (sum * q) * (sum + idle)
      OBVIOUS
    <2> QED  BY <1>4, <1>5, <1>6, <2>1 DEF FullRound
  <1>11. \A c \in Classes : Shared[c] \in Nat /\ (c \notin Active => Shared[c] = 0)
    BY <1>7, <1>8
  <1> QED  BY <1>1, <1>9, <1>10, <1>11 DEF SharedOut

\* What classes give to one of them stays in the round.
LEMMA GivingKeepsRound ==
  ASSUME NEW C, IsFiniteSet(C), NEW A, NEW R \in Nat, NEW s, NEW e, NEW g, NEW low,
         SharedOut(s, C, A, R), low \in A,
         \A c \in C : g[c] \in Nat /\ g[c] <= s[c],
         g[low] = 0,
         \A c \in C : e[c] = IF c = low THEN s[c] + SumOver(g, C) ELSE s[c] - g[c]
  PROVE  SharedOut(e, C, A, R)
  <1>1. A \in SUBSET C /\ IsFiniteSet(A) /\ low \in C
    BY FS_Subset DEF SharedOut
  <1>2. \A c \in C : s[c] \in Nat /\ (c \notin A => s[c] = 0)
    BY DEF SharedOut
  <1>3. PICK gift \in Nat : gift = SumOver(g, C)
    BY SumNat
  <1>4. \A c \in C \ A : g[c] = 0
    BY <1>2
  <1>5. SumOver(g, A) = gift
    <2>1. \A c \in C : g[c] \in Int
      OBVIOUS
    <2> QED  BY <1>1, <1>3, <1>4, <2>1, SumPart
  <1>6. PICK p : p = [c \in C |-> IF c = low THEN gift ELSE 0]
    OBVIOUS
  <1>7. PICK x : x = [c \in C |-> s[c] + p[c]]
    OBVIOUS
  <1>8. \A c \in C : /\ e[c] \in Nat /\ s[c] \in Int /\ p[c] \in Int /\ g[c] \in Int
                     /\ x[c] = s[c] + p[c] /\ x[c] = e[c] + g[c]
    <2> SUFFICES ASSUME NEW c \in C
                 PROVE  /\ e[c] \in Nat /\ s[c] \in Int /\ p[c] \in Int /\ g[c] \in Int
                        /\ x[c] = s[c] + p[c] /\ x[c] = e[c] + g[c]
      OBVIOUS
    <2>1. PICK u \in Nat, v \in Nat : u = s[c] /\ v = g[c] /\ v <= u
      BY <1>2
    <2>2. e[c] = IF c = low THEN u + gift ELSE u - v
      BY <1>3, <2>1
    <2>3. p[c] = (IF c = low THEN gift ELSE 0) /\ x[c] = u + p[c]
      BY <1>6, <1>7, <2>1
    <2>4. CASE c = low
      BY <2>1, <2>2, <2>3, <2>4
    <2>5. CASE c # low
      BY <2>1, <2>2, <2>3, <2>5
    <2> QED  BY <2>4, <2>5
  <1>9. \A c \in A : /\ e[c] \in Int /\ s[c] \in Int /\ p[c] \in Int /\ g[c] \in Int
                     /\ x[c] = s[c] + p[c] /\ x[c] = e[c] + g[c]
    BY <1>1, <1>8
  <1>10. SumOver(x, A) = SumOver(s, A) + SumOver(p, A)
    BY <1>1, <1>9, SumOfSums
  <1>11. SumOver(x, A) = SumOver(e, A) + SumOver(g, A)
    BY <1>1, <1>9, SumOfSums
  <1>12. SumOver(p, A) = gift
    <2>1. {low} \in SUBSET A /\ (\A c \in A \ {low} : p[c] = 0) /\ p[low] = gift
      BY <1>1, <1>6
    <2>2. SumOver(p, A) = SumOver(p, {low})
      BY <1>1, <1>9, <2>1, SumPart
    <2>3. p[low] \in Int
      BY <2>1
    <2>4. SumOver(p, {low}) = p[low]
      BY <2>3, SumOne
    <2> QED  BY <2>1, <2>2, <2>4
  <1>13. SumOver(e, A) \in Int /\ SumOver(s, A) = R
    BY <1>1, <1>9, SumInt DEF SharedOut
  <1>14. SumOver(e, A) = R
    BY <1>5, <1>10, <1>11, <1>12, <1>13
  <1>15. ASSUME NEW c \in C, c \notin A PROVE e[c] = 0
    <2>1. s[c] = 0 /\ g[c] = 0 /\ c # low
      BY <1>2, <1>4, <1>15
    <2> QED  BY <2>1
  <1> QED  BY <1>1, <1>8, <1>14, <1>15 DEF SharedOut

\* The larger of two numbers.
LEMMA LargerOf ==
  ASSUME NEW a \in Int, NEW b \in Int
  PROVE  Max({a, b}) \in {a, b} /\ Max({a, b}) >= a /\ Max({a, b}) >= b
  <1>1. \E x \in {a, b} : \A y \in {a, b} : x >= y
    <2>1. CASE a >= b
      BY <2>1
    <2>2. CASE b >= a
      BY <2>2
    <2> QED  BY <2>1, <2>2
  <1>2. Max({a, b}) \in {a, b} /\ \A y \in {a, b} : Max({a, b}) >= y
    BY <1>1 DEF Max
  <1> QED  BY <1>2

\* The smaller of two numbers.
LEMMA SmallerOf ==
  ASSUME NEW a \in Int, NEW b \in Int
  PROVE  Min({a, b}) \in {a, b} /\ Min({a, b}) <= a /\ Min({a, b}) <= b
  <1>1. \E x \in {a, b} : \A y \in {a, b} : x <= y
    <2>1. CASE a <= b
      BY <2>1
    <2>2. CASE b <= a
      BY <2>2
    <2> QED  BY <2>1, <2>2
  <1>2. Min({a, b}) \in {a, b} /\ \A y \in {a, b} : Min({a, b}) <= y
    BY <1>1 DEF Min
  <1> QED  BY <1>2

\* Starvation prevention moves shares between active classes and no more.
LEMMA EffectiveIsRound ==
  ASSUME Active # {}
  PROVE  SharedOut(EffectiveWeights, Classes, Active, FullRound)
  <1>1. SharedOut(Shared, Classes, Active, FullRound)
    BY SharedIsRound
  <1>2. CASE Low \notin Active
    <2>1. EffectiveWeights = Shared
      BY <1>2 DEF EffectiveWeights
    <2> QED  BY <1>1, <2>1
  <1>3. CASE Low \in Active
    <2>1. PICK s : s = Shared
      OBVIOUS
    <2>2. \A c \in Classes : s[c] \in Nat
      BY <1>1, <2>1 DEF SharedOut
    <2>3. PICK total \in Nat : total = SumOver(s, Classes)
      BY <2>2, ClassesFinite, SumNat
    <2>4. PICK least \in Nat : least = Max({SumOver(s, Classes), 100 * Scale}) \div 100
      <3>1. PICK most \in Int : most = 100 * Scale /\ most >= 0
        BY QueueAssumption
      <3>2. PICK x \in Nat : x = Max({total, most})
        <4>1. total \in Int
          OBVIOUS
        <4>2. Max({total, most}) \in {total, most}
          BY <4>1, LargerOf
        <4> QED  BY <3>1, <4>2
      <3>3. x \div 100 \in Nat
        OBVIOUS
      <3> QED  BY <2>3, <3>1, <3>2, <3>3
    <2>5. PICK lack \in Int : lack = least - s[Low]
      BY <2>2, QueueAssumption
    <2>6. PICK spare : spare = [c \in Classes |->
                                  IF c = Low THEN 0 ELSE Max({0, s[c] - least})]
      OBVIOUS
    <2> DEFINE before(c) == {d \in Classes : Position(d) < Position(c)}
    <2>7. PICK given : given = [c \in Classes |->
                 Max({0, Min({spare[c], lack - SumOver(spare, before(c))})})]
      OBVIOUS
    <2>8. EffectiveWeights =
            [c \in Classes |-> IF c = Low THEN s[c] + SumOver(given, Classes)
                               ELSE s[c] - given[c]]
      BY <1>3, <2>1, <2>4, <2>5, <2>6, <2>7 DEF EffectiveWeights
    <2>9. \A c \in Classes : spare[c] \in Nat /\ spare[c] <= s[c]
      <3> SUFFICES ASSUME NEW c \in Classes PROVE spare[c] \in Nat /\ spare[c] <= s[c]
        OBVIOUS
      <3>1. PICK u \in Nat, v \in Int : u = s[c] /\ v = u - least /\ v <= u
        BY <2>2
      <3>2. Max({0, v}) \in Nat /\ Max({0, v}) <= u
        <4>1. Max({0, v}) \in {0, v} /\ Max({0, v}) >= 0
          BY LargerOf
        <4> QED  BY <3>1, <4>1
      <3>3. spare[c] = IF c = Low THEN 0 ELSE Max({0, v})
        BY <2>6, <3>1
      <3> QED  BY <3>1, <3>2, <3>3
    <2>10. \A c \in Classes : given[c] \in Nat /\ given[c] <= spare[c]
      <3> SUFFICES ASSUME NEW c \in Classes PROVE given[c] \in Nat /\ given[c] <= spare[c]
        OBVIOUS
      <3>1. PICK w \in Nat : w = spare[c]
        BY <2>9
      <3>2. PICK taken \in Nat : taken = SumOver(spare, before(c))
        <4>1. PICK S \in SUBSET Classes : S = before(c)
          OBVIOUS
        <4>2. IsFiniteSet(S) /\ \A d \in S : spare[d] \in Nat
          BY <2>9, ClassesFinite, FS_Subset
        <4> QED  BY <4>1, <4>2, SumNat
      <3>3. PICK v \in Int : v = lack - taken
        OBVIOUS
      <3>4. PICK x \in Int : x = Min({w, v}) /\ x <= w
        <4>1. w \in Int
          OBVIOUS
        <4>2. Min({w, v}) \in {w, v} /\ Min({w, v}) <= w
          BY <4>1, SmallerOf
        <4> QED  BY <4>1, <4>2
      <3>5. Max({0, x}) \in Nat /\ Max({0, x}) <= w
        <4>1. Max({0, x}) \in {0, x} /\ Max({0, x}) >= 0
          BY LargerOf
        <4> QED  BY <3>4, <4>1
      <3>6. given[c] = Max({0, x})
        BY <2>7, <3>1, <3>2, <3>3, <3>4
      <3> QED  BY <3>1, <3>5, <3>6
    <2>11. given[Low] = 0
      <3>1. Low \in Classes
        BY QueueAssumption
      <3>2. spare[Low] = 0
        BY <2>6, <3>1
      <3>3. given[Low] \in Nat /\ given[Low] <= 0
        BY <2>10, <3>1, <3>2
      <3> QED  BY <3>3
    <2>12. \A c \in Classes : given[c] \in Nat /\ given[c] <= s[c]
      <3> SUFFICES ASSUME NEW c \in Classes PROVE given[c] \in Nat /\ given[c] <= s[c]
        OBVIOUS
      <3>1. given[c] \in Nat /\ given[c] <= spare[c] /\ spare[c] \in Nat /\ spare[c] <= s[c]
        BY <2>9, <2>10
      <3>2. s[c] \in Nat
        BY <2>2
      <3> QED  BY <3>1, <3>2
    <2>13. PICK e : e = EffectiveWeights
      OBVIOUS
    <2>14. \A c \in Classes : e[c] = IF c = Low THEN s[c] + SumOver(given, Classes)
                                     ELSE s[c] - given[c]
      BY <2>8, <2>13
    <2>15. FullRound \in Nat
      BY WeightsPositive, QueueAssumption DEF FullRound
    <2>16. SharedOut(s, Classes, Active, FullRound)
      BY <1>1, <2>1
    <2> HIDE DEF before
    <2>17. SharedOut(e, Classes, Active, FullRound)
      BY <1>3, <2>11, <2>12, <2>14, <2>15, <2>16, ClassesFinite, GivingKeepsRound
    <2> QED  BY <2>13, <2>17
  <1> QED  BY <1>2, <1>3

\* The deficits stay within the bound: nobody pays before the first round and
\* after a restart, and only the scheduler changes them.
LEMMA LagInvariant == Spec => [](LagBounded(deficits, Classes, FullRound))
  <1>1. FullRound \in Nat
    BY WeightsPositive, QueueAssumption DEF FullRound
  <1>2. ASSUME NEW d, d = [c \in Classes |-> 0]
        PROVE  LagBounded(d, Classes, FullRound)
    <2>1. \A c \in Classes : d[c] = 0
      BY <1>2
    <2>2. ASSUME NEW S \in SUBSET Classes
          PROVE  /\ SumOver(d, S) = 0
                 /\ Cardinality(S) \in Nat
                 /\ Cardinality(S) <= Cardinality(Classes)
      <3>1. IsFiniteSet(S) /\ \A c \in S : d[c] = 0
        BY <2>1, ClassesFinite, FS_Subset
      <3>2. SumOver(d, S) = Cardinality(S) * 0
        BY <3>1, SumConstant
      <3>3. Cardinality(S) \in Nat /\ Cardinality(S) <= Cardinality(Classes)
        BY <3>1, ClassesFinite, FS_Subset, FS_CardinalityType
      <3> QED  BY <3>2, <3>3
    <2>3. ASSUME NEW S \in SUBSET Classes
          PROVE  2 * SumOver(d, S) <=
                   FullRound * (Cardinality(S) * (Cardinality(Classes) - Cardinality(S)))
      <3>1. PICK k \in Nat, n \in Nat :
              k = Cardinality(S) /\ n = Cardinality(Classes) /\ k <= n
        BY <2>2, ClassesFinite, FS_CardinalityType
      <3>2. k * (n - k) \in Nat
        BY <3>1
      <3>3. FullRound * (k * (n - k)) >= 0
        BY <1>1, <3>2
      <3> QED  BY <2>2, <3>1, <3>3
    <2>4. SumOver(d, Classes) = 0
      BY <2>2
    <2> QED  BY <2>1, <2>3, <2>4 DEF LagBounded
  <1>3. Init => LagBounded(deficits, Classes, FullRound)
    BY <1>2 DEF Init
  <1>4. LagBounded(deficits, Classes, FullRound) /\ [Next]_vars
          => LagBounded(deficits, Classes, FullRound)'
    <2> SUFFICES ASSUME LagBounded(deficits, Classes, FullRound), [Next]_vars
                 PROVE  LagBounded(deficits', Classes, FullRound)
      BY DEF LagBounded, FullRound
    <2>1. CASE deficits' = deficits
      BY <2>1
    <2>2. CASE Crash
      BY <1>2, <2>2 DEF Crash
    <2>3. CASE ScheduleNext
      <3>1. PICK e : e = EffectiveWeights
        OBVIOUS
      <3>2. PICK x : x = [c \in Classes |-> deficits[c] + e[c]]
        OBVIOUS
      <3>3. PICK b \in Active :
              /\ IsBest(b, x)
              /\ deficits' = [x EXCEPT ![b] = @ - SumOver(e, Active)]
        <4>1. PICK b \in Active :
                /\ IsBest(b, [c \in Classes |-> deficits[c] + EffectiveWeights[c]])
                /\ deficits' = [[c \in Classes |-> deficits[c] + EffectiveWeights[c]]
                                 EXCEPT ![b] = @ - SumOver(EffectiveWeights, Active)]
          BY <2>3, Zenon DEF ScheduleNext
        <4>2. x = [c \in Classes |-> deficits[c] + EffectiveWeights[c]]
          BY <3>1, <3>2
        <4> QED  BY <3>1, <4>1, <4>2, Zenon
      <3>4. SharedOut(e, Classes, Active, FullRound)
        BY <3>1, <3>3, EffectiveIsRound
      <3>5. b \in Classes /\ Active \subseteq Classes
        BY <3>3 DEF Active
      <3>6. \A c \in Classes : deficits[c] \in Int /\ e[c] \in Int
        BY <3>4 DEF LagBounded, SharedOut
      <3>7. \A a \in Active : deficits[a] + e[a] <= deficits[b] + e[b]
        <4> SUFFICES ASSUME NEW a \in Active
                     PROVE  deficits[a] + e[a] <= deficits[b] + e[b]
          OBVIOUS
        <4>1. x[b] > x[a] \/ x[b] = x[a]
          BY <3>3 DEF IsBest
        <4>2. /\ x[a] = deficits[a] + e[a] /\ x[b] = deficits[b] + e[b]
              /\ x[a] \in Int /\ x[b] \in Int
          BY <3>2, <3>5, <3>6
        <4> QED  BY <4>1, <4>2
      <3>8. PICK g : g = deficits'
        OBVIOUS
      <3>9. \A c \in Classes :
              g[c] = deficits[c] + e[c] - (IF c = b THEN FullRound ELSE 0)
        <4> SUFFICES ASSUME NEW c \in Classes
                     PROVE  g[c] = deficits[c] + e[c] - (IF c = b THEN FullRound ELSE 0)
          OBVIOUS
        <4>1. SumOver(e, Active) = FullRound
          BY <3>4 DEF SharedOut
        <4>2. PICK v \in Int : v = deficits[c] + e[c] /\ x[c] = v
          BY <3>2, <3>6
        <4>3. g[c] = IF c = b THEN v - FullRound ELSE v
          BY <3>2, <3>3, <3>5, <3>8, <4>1, <4>2
        <4> QED  BY <1>1, <3>6, <4>2, <4>3
      <3>10. Pays(b, deficits, e, g, Classes, Active, FullRound)
        BY <3>3, <3>7, <3>9 DEF Pays
      <3>11. Round(b, deficits, e, g, Classes, Active, FullRound)
        BY <1>1, <3>4, <3>10, ClassesFinite DEF Round
      <3>12. LagBounded(g, Classes, FullRound)
        BY <3>11, RoundKeepsLag
      <3> QED  BY <3>8, <3>12
    <2>4. deficits' = deficits \/ Crash \/ ScheduleNext
      BY DEF Next, vars, queueVars, Add, Enqueue, EnqueuePausing, PauseDone, AddDone,
             PauseFails, AddFails, AddFailsStored, Removed, RemoveFails, Finish,
             ResumeAll, ResumeClass, ResumeFails, ResumeDone
    <2> QED  BY <2>1, <2>2, <2>3, <2>4
  <1> QED  BY <1>3, <1>4, PTL DEF Spec

\* No class lags behind its share, or runs ahead of it, by more than half a job
\* for every other class: for all weights and any number of classes, whatever
\* becomes active, idle, full or paused.
THEOREM LagStaysBounded == Spec => []BoundedLag
  <1>1. LagBounded(deficits, Classes, FullRound) => BoundedLag
    <2> SUFFICES ASSUME LagBounded(deficits, Classes, FullRound), NEW c \in Classes
                 PROVE  LET bound == (Cardinality(Classes) - 1) * FullRound
                        IN  -bound <= 2 * deficits[c] /\ 2 * deficits[c] <= bound
      BY DEF BoundedLag, FullRound
    <2>1. PICK n \in Nat : n = Cardinality(Classes)
      BY ClassesFinite, FS_CardinalityType
    <2>2. PICK R \in Nat : R = FullRound
      BY WeightsPositive, QueueAssumption DEF FullRound
    <2>3. PICK v \in Int : v = deficits[c]
      BY DEF LagBounded
    <2>4. PICK S \in SUBSET Classes : S = {c}
      OBVIOUS
    <2>5. PICK T \in SUBSET Classes : T = Classes \ {c}
      OBVIOUS
    <2>6. Cardinality(S) = 1 /\ Cardinality(T) = n - 1
      BY <2>1, <2>4, <2>5, ClassesFinite, FS_Singleton, FS_RemoveElement
    <2>7. SumOver(deficits, S) = v
      BY <2>3, <2>4, SumOne
    <2>8. SumOver(deficits, T) = -v
      <3>1. SumOver(deficits, Classes) = deficits[c] + SumOver(deficits, Classes \ {c})
        BY ClassesFinite, SumRemove DEF LagBounded
      <3>2. SumOver(deficits, Classes) = 0
        BY DEF LagBounded
      <3>3. SumOver(deficits, T) \in Int
        <4>1. IsFiniteSet(T) /\ \A a \in T : deficits[a] \in Int
          BY ClassesFinite, FS_Subset DEF LagBounded
        <4> QED  BY <4>1, SumInt
      <3> QED  BY <2>3, <2>5, <3>1, <3>2, <3>3
    <2>9. 2 * v <= R * (1 * (n - 1))
      BY <2>1, <2>2, <2>6, <2>7 DEF LagBounded
    <2>10. 2 * (-v) <= R * ((n - 1) * (n - (n - 1)))
      BY <2>1, <2>2, <2>6, <2>8 DEF LagBounded
    <2>11. PICK y \in Int : y = (n - 1) * R
      OBVIOUS
    <2>12. R * (1 * (n - 1)) = y /\ R * ((n - 1) * (n - (n - 1))) = y
      BY <2>11
    <2>13. -y <= 2 * v /\ 2 * v <= y
      BY <2>9, <2>10, <2>12
    <2> QED  BY <2>1, <2>2, <2>3, <2>11, <2>13
  <1> QED  BY <1>1, LagInvariant, PTL

=============================================================================
