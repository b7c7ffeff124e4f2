------------------------- MODULE UpgradeProxyProofs -------------------------
(***************************************************************************)
(* The safety of the upgradeable proxy for every set of implementations,   *)
(* every delay and TTL, and histories of any length: the storage version   *)
(* covers the running implementation, no implementation that once ran is   *)
(* forgotten, the index is complete until something is rolled back, and    *)
(* the timelock is enforced.                                               *)
(***************************************************************************)
EXTENDS UpgradeProxy, TLAPS

HistoryEntry ==
  [action : {"Scheduled", "Cancelled", "Executed", "RolledBack"},
   old : Impls, new : Impls]

ScheduledUpgrade ==
  [implementation : Impls \cup {NoImpl}, wait : Nat, ttl : Nat, age : Nat]

TypeOK ==
  /\ implementation \in Impls
  /\ version \in {1, 2}
  /\ scheduled \in ScheduledUpgrade
  /\ previous \in Seq(Impls)
  /\ history \in Seq(HistoryEntry)
  /\ subs \in Nat

\* A rollback keeps the version, so every implementation of the stack must be
\* covered by it, and not only the one that runs.
StackCovered == \A j \in 1..Len(previous) : VersionOf[previous[j]] <= version

\* The least time between scheduling implementation i and running it.
Timelock(i) ==
  IF IsRollback(i)
  THEN IF RollbackDelay < UpgradeDelay THEN RollbackDelay ELSE UpgradeDelay
  ELSE UpgradeDelay

\* The time left and the time gone since add up to at least the timelock.
WaitCovers ==
  IsScheduled =>
    scheduled.wait + scheduled.age >= Timelock(scheduled.implementation)

\* Until something is rolled back the version is that of the implementation,
\* so a migration runs exactly when the index has to be built.
VersionExact == ~RolledBackBefore => version = VersionOf[implementation]

ProxyInv ==
  /\ TypeOK
  /\ VersionCovers
  /\ StackCovered
  /\ WaitCovers
  /\ VersionExact
  /\ IndexCompleteUnlessRolledBack
  /\ RollForwardPossible

-----------------------------------------------------------------------------

\* The proxy as initialize leaves it.
LEMMA InitInv == Init => ProxyInv
<1> SUFFICES ASSUME Init PROVE ProxyInv
  OBVIOUS
<1> USE ProxyAssumption
<1>1. TypeOK
  BY DEF Init, TypeOK, NothingScheduled, ScheduledUpgrade
<1>2. VersionCovers /\ StackCovered /\ VersionExact
  BY DEF Init, VersionCovers, StackCovered, VersionExact
<1>3. WaitCovers
  BY DEF Init, WaitCovers, IsScheduled, NothingScheduled
<1>4. IndexCompleteUnlessRolledBack
  BY DEF Init, IndexCompleteUnlessRolledBack
<1>5. RollForwardPossible
  BY DEF Init, RollForwardPossible, Switches
<1> QED BY <1>1, <1>2, <1>3, <1>4, <1>5 DEF ProxyInv

\* An entry appended to the history that switches nothing changes neither
\* whether something was rolled back nor the implementations that ran.
LEMMA QuietEntry ==
  ASSUME ProxyInv, NEW a \in {"Scheduled", "Cancelled"}, NEW i \in Impls,
         AppendHistory(a, implementation, i),
         UNCHANGED <<implementation, version, previous, subs, indexed>>
  PROVE  /\ history' \in Seq(HistoryEntry)
         /\ VersionCovers' /\ StackCovered' /\ VersionExact'
         /\ IndexCompleteUnlessRolledBack' /\ RollForwardPossible'
<1> DEFINE e == [action |-> a, old |-> implementation, new |-> i]
<1>1. e \in HistoryEntry /\ history \in Seq(HistoryEntry)
  BY DEF ProxyInv, TypeOK, HistoryEntry
<1>2. history' = Append(history, e)
  BY DEF AppendHistory
<1> HIDE DEF e
<1>3. /\ history' \in Seq(HistoryEntry)
      /\ Len(history') = Len(history) + 1
      /\ \A k \in 1..Len(history) : history'[k] = history[k]
      /\ history'[Len(history) + 1] = e
      /\ Len(history) \in Nat
  BY <1>1, <1>2
<1>4. e.action = a
  BY DEF e
<1>5. RolledBackBefore' <=> RolledBackBefore
  BY <1>3, <1>4 DEF RolledBackBefore
<1>6. Switches' = Switches
  BY <1>3, <1>4 DEF Switches
<1>7. \A k \in Switches : history'[k] = history[k]
  BY <1>3 DEF Switches
<1>8. RollForwardPossible'
  BY <1>6, <1>7 DEF ProxyInv, RollForwardPossible
<1>9. VersionCovers' /\ StackCovered'
  BY DEF ProxyInv, VersionCovers, StackCovered
<1>10. VersionExact' /\ IndexCompleteUnlessRolledBack'
  BY <1>5 DEF ProxyInv, VersionExact, IndexCompleteUnlessRolledBack
<1> QED BY <1>3, <1>8, <1>9, <1>10

\* set_scheduled_upgrade with a delay that covers the timelock of its target.
LEMMA ScheduleStep ==
  ASSUME ProxyInv, NEW i \in Impls, NEW d \in Nat, d >= Timelock(i), Schedule(i, d)
  PROVE  ProxyInv'
<1> USE ProxyAssumption
<1>1. /\ scheduled' = [implementation |-> i, wait |-> d, ttl |-> TTL, age |-> 0]
      /\ AppendHistory("Scheduled", implementation, i)
      /\ UNCHANGED <<implementation, version, previous, subs, indexed>>
  BY DEF Schedule
<1>2. /\ history' \in Seq(HistoryEntry)
      /\ VersionCovers' /\ StackCovered' /\ VersionExact'
      /\ IndexCompleteUnlessRolledBack' /\ RollForwardPossible'
  BY <1>1, QuietEntry
<1>3. TypeOK'
  BY <1>1, <1>2 DEF ProxyInv, TypeOK, ScheduledUpgrade
<1>4. Timelock(i)' = Timelock(i)
  BY <1>1 DEF Timelock, IsRollback, HasPrevious, PreviousTop
<1>5. WaitCovers'
  BY <1>1, <1>4 DEF WaitCovers, Timelock, IsRollback, HasPrevious, PreviousTop
<1> QED BY <1>2, <1>3, <1>5 DEF ProxyInv

\* cancel_scheduled_upgrade.
LEMMA CancelStep ==
  ASSUME ProxyInv, CancelScheduledUpgrade
  PROVE  ProxyInv'
<1> USE ProxyAssumption
<1>1. /\ IsScheduled
      /\ scheduled' = NothingScheduled
      /\ AppendHistory("Cancelled", implementation, scheduled.implementation)
      /\ UNCHANGED <<implementation, version, previous, subs, indexed>>
  BY DEF CancelScheduledUpgrade
<1>2. scheduled.implementation \in Impls
  BY <1>1 DEF ProxyInv, TypeOK, ScheduledUpgrade, IsScheduled
<1>3. /\ history' \in Seq(HistoryEntry)
      /\ VersionCovers' /\ StackCovered' /\ VersionExact'
      /\ IndexCompleteUnlessRolledBack' /\ RollForwardPossible'
  BY <1>1, <1>2, QuietEntry
<1>4. TypeOK'
  BY <1>1, <1>3 DEF ProxyInv, TypeOK, NothingScheduled, ScheduledUpgrade
<1>5. WaitCovers'
  BY <1>1 DEF WaitCovers, IsScheduled, NothingScheduled
<1> QED BY <1>3, <1>4, <1>5 DEF ProxyInv

\* A ledger closes: what is taken off the time left is added to the time gone.
LEMMA TickStep ==
  ASSUME ProxyInv, Tick
  PROVE  ProxyInv'
<1> USE ProxyAssumption
<1>1. /\ scheduled' = Aged(scheduled)
      /\ UNCHANGED <<implementation, version, previous, history, subs, indexed>>
  BY DEF Tick
<1>2. scheduled \in ScheduledUpgrade
  BY DEF ProxyInv, TypeOK
<1>3. ASSUME scheduled.ttl = 0 PROVE scheduled' \in ScheduledUpgrade /\ WaitCovers'
  <2>1. scheduled' = NothingScheduled
    BY <1>1, <1>3 DEF Aged
  <2>2. scheduled' \in ScheduledUpgrade /\ WaitCovers'
    BY <2>1 DEF NothingScheduled, ScheduledUpgrade, WaitCovers, IsScheduled
  <2> QED BY <2>2
<1>4. ASSUME scheduled.ttl # 0 PROVE scheduled' \in ScheduledUpgrade /\ WaitCovers'
  <2>1. /\ scheduled'.implementation = scheduled.implementation
        /\ scheduled'.wait = IF scheduled.wait > 0 THEN scheduled.wait - 1 ELSE 0
        /\ scheduled'.age = scheduled.age + 1
        /\ scheduled' \in ScheduledUpgrade
    BY <1>1, <1>2, <1>4 DEF Aged, ScheduledUpgrade
  <2>2. scheduled'.wait + scheduled'.age >= scheduled.wait + scheduled.age
    BY <1>2, <2>1 DEF ScheduledUpgrade
  <2>3. Timelock(scheduled.implementation)' = Timelock(scheduled.implementation)
    BY <1>1, <2>1 DEF Timelock, IsRollback, HasPrevious, PreviousTop
  <2>4. IsScheduled' <=> IsScheduled
    BY <2>1 DEF IsScheduled
  <2>5. Timelock(scheduled.implementation) \in Nat
    BY DEF Timelock
  <2>6. WaitCovers'
    BY <1>2, <2>1, <2>2, <2>3, <2>4, <2>5 DEF ProxyInv, WaitCovers, ScheduledUpgrade
  <2> QED BY <2>1, <2>6
<1>5. TypeOK'
  BY <1>1, <1>3, <1>4 DEF ProxyInv, TypeOK
<1>6. VersionCovers' /\ StackCovered' /\ VersionExact' /\ IndexCompleteUnlessRolledBack'
  BY <1>1 DEF ProxyInv, VersionCovers, StackCovered, VersionExact,
              IndexCompleteUnlessRolledBack, RolledBackBefore
<1>7. RollForwardPossible'
  BY <1>1 DEF ProxyInv, RollForwardPossible, Switches
<1> QED BY <1>3, <1>4, <1>5, <1>6, <1>7 DEF ProxyInv

\* A subscription made through the proxy enters the index under version 2.
LEMMA SubscribeStep ==
  ASSUME ProxyInv, Subscribe
  PROVE  ProxyInv'
<1> USE ProxyAssumption
<1>1. /\ subs' = subs + 1
      /\ indexed' = IF VersionOf[implementation] = 2
                    THEN indexed \cup {subs + 1} ELSE indexed
      /\ UNCHANGED <<implementation, version, scheduled, previous, history>>
  BY DEF Subscribe
<1>2. TypeOK'
  BY <1>1 DEF ProxyInv, TypeOK
<1>3. VersionCovers' /\ StackCovered' /\ VersionExact'
  BY <1>1 DEF ProxyInv, VersionCovers, StackCovered, VersionExact, RolledBackBefore
<1>4. 1..(subs + 1) = (1..subs) \cup {subs + 1}
  BY DEF ProxyInv, TypeOK
<1>5. IndexCompleteUnlessRolledBack'
  BY <1>1, <1>4 DEF ProxyInv, IndexCompleteUnlessRolledBack, RolledBackBefore
<1>6. WaitCovers' /\ RollForwardPossible'
  BY <1>1 DEF ProxyInv, WaitCovers, IsScheduled, Timelock, IsRollback, HasPrevious,
              PreviousTop, RollForwardPossible, Switches
<1> QED BY <1>2, <1>3, <1>5, <1>6 DEF ProxyInv

\* What the switch of upgrade_to leaves in the history and on the stack.
LEMMA UpgradeFacts ==
  ASSUME ProxyInv, NEW i \in Impls, UpgradeTo(i)
  PROVE  /\ history' \in Seq(HistoryEntry)
         /\ Len(history') = Len(history) + 1 /\ Len(history) \in Nat
         /\ \A k \in 1..Len(history) : history'[k] = history[k]
         /\ history'[Len(history) + 1].old = implementation
         /\ IsRollback(i) => history'[Len(history) + 1].action = "RolledBack"
         /\ previous' \in Seq(Impls)
         /\ \A j \in 1..Len(previous') :
              \/ previous'[j] = implementation
              \/ \E m \in 1..Len(previous) : previous'[j] = previous[m]
         /\ \E j \in 1..Len(previous') : previous'[j] = implementation
         /\ \A m \in 1..Len(previous) :
              \/ previous[m] = i
              \/ \E j \in 1..Len(previous') : previous'[j] = previous[m]
<1> DEFINE a == IF IsRollback(i) THEN "RolledBack" ELSE "Executed"
           e == [action |-> a, old |-> implementation, new |-> i]
<1>1. e \in HistoryEntry /\ e.old = implementation /\ e.action = a
  BY DEF ProxyInv, TypeOK, HistoryEntry
<1>2. /\ history' = Append(history, e)
      /\ previous' = PreviousAfter(i)
  BY DEF UpgradeTo, AppendHistory
<1>3. /\ implementation \in Impls /\ previous \in Seq(Impls) /\ Len(previous) \in Nat
      /\ history \in Seq(HistoryEntry)
  BY DEF ProxyInv, TypeOK
<1>4. IsRollback(i) => a = "RolledBack"
  OBVIOUS
<1> HIDE DEF a, e
<1>5. /\ history' \in Seq(HistoryEntry)
      /\ Len(history') = Len(history) + 1 /\ Len(history) \in Nat
      /\ \A k \in 1..Len(history) : history'[k] = history[k]
      /\ history'[Len(history) + 1] = e
  BY <1>1, <1>2, <1>3
<1>6. CASE IsRollback(i)
  <2>1. previous # <<>> /\ previous[Len(previous)] = i
    BY <1>6 DEF IsRollback, HasPrevious, PreviousTop
  <2>2. previous' = [previous EXCEPT ![Len(previous)] = implementation]
    BY <1>2, <1>6 DEF PreviousAfter
  <2>3. Len(previous) \in 1..Len(previous)
    BY <1>3, <2>1
  <2>4. /\ previous' \in Seq(Impls) /\ Len(previous') = Len(previous)
        /\ previous'[Len(previous)] = implementation
        /\ \A m \in 1..Len(previous) : m # Len(previous) => previous'[m] = previous[m]
    BY <1>3, <2>2, <2>3
  <2> QED BY <1>1, <1>4, <1>5, <2>1, <2>3, <2>4
<1>7. CASE ~IsRollback(i)
  <2>1. previous' = Append(previous, implementation)
    BY <1>2, <1>7 DEF PreviousAfter
  <2>2. /\ previous' \in Seq(Impls) /\ Len(previous') = Len(previous) + 1
        /\ previous'[Len(previous) + 1] = implementation
        /\ \A m \in 1..Len(previous) : previous'[m] = previous[m]
    BY <1>3, <2>1
  <2>3. \A j \in 1..Len(previous') : j = Len(previous) + 1 \/ j \in 1..Len(previous)
    BY <1>3, <2>2
  <2>4. Len(previous) + 1 \in 1..Len(previous') /\ 1..Len(previous) \subseteq 1..Len(previous')
    BY <1>3, <2>2
  <2> QED BY <1>1, <1>5, <1>7, <2>2, <2>3, <2>4
<1> QED BY <1>6, <1>7

\* upgrade_to: the switch, with its migration, keeps the invariant.
LEMMA UpgradeStep ==
  ASSUME ProxyInv, NEW i \in Impls, UpgradeTo(i)
  PROVE  ProxyInv'
<1> USE ProxyAssumption
<1>1. /\ ~IsRollback(i) => VersionOf[i] >= version
      /\ implementation' = i
      /\ version' = VersionAfter(i)
      /\ indexed' = IndexedAfter(i)
      /\ scheduled' = NothingScheduled
      /\ subs' = subs
  BY DEF UpgradeTo
<1>2. /\ implementation \in Impls /\ version \in {1, 2} /\ previous \in Seq(Impls)
      /\ VersionOf[implementation] <= version
      /\ VersionOf[i] \in {1, 2}
  BY DEF ProxyInv, TypeOK, VersionCovers
<1>3. TypeOK'
  BY <1>1, <1>2, UpgradeFacts
     DEF ProxyInv, TypeOK, VersionAfter, NothingScheduled, ScheduledUpgrade
<1>4. IsRollback(i) => VersionOf[i] <= version
  BY <1>2 DEF IsRollback, HasPrevious, PreviousTop, ProxyInv, StackCovered
<1>5. version <= version' /\ VersionOf[i] <= version' /\ version' \in {1, 2}
  BY <1>1, <1>2, <1>4 DEF VersionAfter
<1>6. VersionCovers'
  BY <1>1, <1>5 DEF VersionCovers
<1>7. StackCovered'
  <2> SUFFICES ASSUME NEW j \in 1..Len(previous')
               PROVE  VersionOf[previous'[j]] <= version'
    BY DEF StackCovered
  <2>1. CASE previous'[j] = implementation
    BY <1>2, <1>5, <2>1
  <2>2. CASE \E m \in 1..Len(previous) : previous'[j] = previous[m]
    <3>1. PICK m \in 1..Len(previous) : previous'[j] = previous[m]
      BY <2>2
    <3>2. previous[m] \in Impls /\ VersionOf[previous[m]] <= version
      BY <1>2 DEF ProxyInv, StackCovered
    <3> QED BY <1>2, <1>5, <3>1, <3>2
  <2> QED BY <2>1, <2>2, UpgradeFacts
<1>8. WaitCovers'
  BY <1>1 DEF WaitCovers, IsScheduled, NothingScheduled
<1>9. ~RolledBackBefore' => ~RolledBackBefore /\ ~IsRollback(i)
  BY UpgradeFacts DEF RolledBackBefore
<1>10. VersionExact'
  BY <1>1, <1>9 DEF VersionExact, VersionAfter
<1>11. IndexCompleteUnlessRolledBack'
  BY <1>1, <1>2, <1>9
     DEF ProxyInv, VersionExact, IndexCompleteUnlessRolledBack, IndexedAfter
<1>12. RollForwardPossible'
  <2> SUFFICES ASSUME NEW k \in Switches'
               PROVE  \/ history'[k].old = implementation'
                      \/ \E j \in 1..Len(previous') : previous'[j] = history'[k].old
    BY DEF RollForwardPossible
  <2>1. CASE k = Len(history) + 1
    BY <2>1, UpgradeFacts
  <2>2. CASE k # Len(history) + 1
    <3>1. k \in 1..Len(history) /\ history'[k] = history[k]
      BY <2>2, UpgradeFacts DEF Switches
    <3>2. k \in Switches
      BY <3>1 DEF Switches
    <3>3. \/ history[k].old = implementation
          \/ \E m \in 1..Len(previous) : previous[m] = history[k].old
      BY <3>2 DEF ProxyInv, RollForwardPossible
    <3> QED BY <1>1, <3>1, <3>3, UpgradeFacts
  <2> QED BY <2>1, <2>2
<1> QED BY <1>3, <1>6, <1>7, <1>8, <1>10, <1>11, <1>12 DEF ProxyInv

\* The delays that schedule_upgrade and rollback ask for cover the timelock.
LEMMA DelayCovers ==
  /\ \A i \in Impls, extra \in Nat :
       UpgradeDelay + extra \in Nat /\ UpgradeDelay + extra >= Timelock(i)
  /\ HasPrevious => RollbackDelay >= Timelock(PreviousTop)
  BY ProxyAssumption DEF Timelock, IsRollback

\* Every step of the proxy and of the storage keeps the invariant.
LEMMA NextInv == ProxyInv /\ [Next]_vars => ProxyInv'
<1> SUFFICES ASSUME ProxyInv, [Next]_vars PROVE ProxyInv'
  OBVIOUS
<1> USE ProxyAssumption
<1>1. ASSUME NEW i \in Impls, NEW extra \in ExtraDelays, ScheduleUpgrade(i, extra)
      PROVE  ProxyInv'
  BY <1>1, ScheduleStep, DelayCovers DEF ScheduleUpgrade
<1>2. ASSUME NEW i \in Impls, AuthorizeUpgrade(i) PROVE ProxyInv'
  <2>1. Schedule(i, UpgradeDelay + 0)
    BY <1>2 DEF AuthorizeUpgrade, ScheduleUpgrade
  <2> QED BY <2>1, ScheduleStep, DelayCovers
<1>3. CASE CancelScheduledUpgrade
  BY <1>3, CancelStep
<1>4. ASSUME NEW i \in Impls, UpgradeTo(i) PROVE ProxyInv'
  BY <1>4, UpgradeStep
<1>5. CASE Rollback
  <2>1. HasPrevious /\ Schedule(PreviousTop, RollbackDelay)
    BY <1>5 DEF Rollback
  <2>2. PreviousTop \in Impls
    BY <2>1 DEF ProxyInv, TypeOK, HasPrevious, PreviousTop
  <2> QED BY <2>1, <2>2, ScheduleStep, DelayCovers
<1>6. ASSUME NEW i \in DirectTargets, SetImplementation(i) PROVE ProxyInv'
  <2>1. UNCHANGED <<implementation, version, scheduled, previous, history, subs, indexed>>
    BY <1>6 DEF SetImplementation
  <2> QED BY <2>1 DEF ProxyInv, TypeOK, VersionCovers, StackCovered, WaitCovers,
       IsScheduled, Timelock, IsRollback, HasPrevious, PreviousTop, VersionExact,
       IndexCompleteUnlessRolledBack, RolledBackBefore, RollForwardPossible, Switches
<1>7. CASE Subscribe
  BY <1>7, SubscribeStep
<1>8. CASE Tick
  BY <1>8, TickStep
<1>9. CASE UNCHANGED vars
  BY <1>9 DEF vars, ProxyInv, TypeOK, VersionCovers, StackCovered, WaitCovers,
       IsScheduled, Timelock, IsRollback, HasPrevious, PreviousTop, VersionExact,
       IndexCompleteUnlessRolledBack, RolledBackBefore, RollForwardPossible, Switches
<1> QED BY <1>1, <1>2, <1>3, <1>4, <1>5, <1>6, <1>7, <1>8, <1>9 DEF Next

\* The invariant of the proxy.
LEMMA ProxyInvariant == Spec => []ProxyInv
  BY InitInv, NextInv, PTL DEF Spec

\* The storage version covers the version of the running implementation after
\* any sequence of upgrades, rollbacks and roll-forwards.
THEOREM StorageNeverBehind == Spec => []VersionCovers
<1>1. ProxyInv => VersionCovers
  BY DEF ProxyInv
<1> QED BY <1>1, ProxyInvariant, PTL

\* The swap in upgrade_to keeps every implementation that once ran reachable:
\* it runs, or it is on the stack of previous implementations.
THEOREM NothingForgotten == Spec => []RollForwardPossible
<1>1. ProxyInv => RollForwardPossible
  BY DEF ProxyInv
<1> QED BY <1>1, ProxyInvariant, PTL

\* Until something is rolled back, a version 2 implementation finds every
\* subscription in UserPlanIndex, those made under version 1 included.
THEOREM IndexComplete == Spec => []IndexCompleteUnlessRolledBack
<1>1. ProxyInv => IndexCompleteUnlessRolledBack
  BY DEF ProxyInv
<1> QED BY <1>1, ProxyInvariant, PTL

\* upgrade_to, the only call that switches, finds the time left used up, so
\* the timelock of the target has passed since it was scheduled.
LEMMA SwitchesWaited ==
  ASSUME ProxyInv, [Next]_vars, implementation' # implementation
  PROVE  scheduled.age >= Timelock(implementation')
<1>1. PICK i \in Impls : UpgradeTo(i)
  BY DEF Next, vars, ScheduleUpgrade, AuthorizeUpgrade, Rollback, Schedule,
         CancelScheduledUpgrade, SetImplementation, Subscribe, Tick
<1>2. scheduled.implementation = i /\ scheduled.wait = 0 /\ implementation' = i
  BY <1>1 DEF UpgradeTo
<1>3. IsScheduled
  BY <1>2, ProxyAssumption DEF IsScheduled
<1>4. scheduled.wait + scheduled.age >= Timelock(i) /\ scheduled.age \in Nat
  BY <1>2, <1>3 DEF ProxyInv, WaitCovers, TypeOK, ScheduledUpgrade
<1> QED BY <1>2, <1>4

\* The timelock holds whatever was scheduled, cancelled or executed before.
THEOREM TimelockHolds == Spec => TimelockEnforced
<1>1. ProxyInv /\ [Next]_vars =>
        [implementation' # implementation =>
           scheduled.age >= IF IsRollback(implementation')
                            THEN IF RollbackDelay < UpgradeDelay
                                 THEN RollbackDelay ELSE UpgradeDelay
                            ELSE UpgradeDelay]_vars
  BY SwitchesWaited DEF Timelock
<1> QED BY <1>1, ProxyInvariant, PTL DEF Spec, TimelockEnforced

=============================================================================
