---------------------------- MODULE UpgradeProxy ----------------------------
(***************************************************************************)
(* The upgradeable proxy (contracts/proxy/src/lib.rs, storage.rs) together *)
(* with the storage contract (contracts/storage/src/lib.rs) whose writes   *)
(* it routes: timelocked upgrades, rollbacks, migrations.                  *)
(*                                                                         *)
(* Time is relative, so that it need not be bounded: a scheduled upgrade   *)
(* carries the time left until execute_after, the ledgers its temporary    *)
(* storage entry still lives, and (history) how long ago it was made.  One *)
(* ledger is the unit of both.                                             *)
(*                                                                         *)
(* Of the contract's data the model keeps what a migration is about: the   *)
(* subscriptions, and which of them UserPlanIndex knows.  A version 1      *)
(* implementation does not write the index, a version 2 one does.          *)
(***************************************************************************)
EXTENDS Integers, Sequences, FiniteSets

CONSTANTS
  Impls,         \* implementation contracts that answer get_version
  NoImpl,        \* "nothing scheduled"
  FirstImpl,     \* the implementation the proxy is initialised with
  VersionOf,     \* what get_version of an implementation answers
  BadImpls,      \* implementations whose validate_upgrade panics
  UpgradeDelay,  \* upgrade_delay_secs
  RollbackDelay, \* rollback_delay_secs
  ExtraDelays,   \* how much later than necessary schedule_upgrade asks for
  TTL,           \* UPGRADE_TTL_LEDGERS
  DirectTargets, \* implementations the admin sets in the storage directly
  MaxHistory,    \* bound on the length of the history
  MaxSubs        \* bound on the number of subscriptions

ASSUME ProxyAssumption ==
  /\ FirstImpl \in Impls /\ NoImpl \notin Impls
  /\ VersionOf \in [Impls -> {1, 2}]
  /\ BadImpls \subseteq Impls
  /\ DirectTargets \subseteq Impls
  /\ UpgradeDelay \in Nat /\ RollbackDelay \in Nat /\ TTL \in Nat
  /\ ExtraDelays \subseteq Nat
  /\ MaxHistory \in Nat /\ MaxSubs \in Nat

VARIABLES
  implementation, \* StorageKey::ProxyImplementation of the proxy
  authorized,     \* StorageKey::ProxyImplementation of the storage contract
  version,        \* StorageKey::ProxyVersion
  scheduled,      \* StorageKey::ProxyScheduledUpgrade, in temporary storage
  previous,       \* the stack StorageKey::ProxyPreviousImplementation
  history,        \* StorageKey::ProxyUpgradeHistoryEntry
  subs,           \* number of subscriptions
  indexed         \* the subscriptions UserPlanIndex knows

vars == <<implementation, authorized, version, scheduled, previous, history,
          subs, indexed>>

NothingScheduled ==
  [implementation |-> NoImpl, wait |-> 0, ttl |-> 0, age |-> 0]

IsScheduled == scheduled.implementation # NoImpl

HasPrevious == previous # <<>>
PreviousTop == previous[Len(previous)]

AppendHistory(action, old, new) ==
  /\ Len(history) < MaxHistory
  /\ history' = Append(history, [action |-> action, old |-> old, new |-> new])

Init ==
  /\ implementation = FirstImpl
  /\ authorized = FirstImpl
  /\ version = VersionOf[FirstImpl]
  /\ scheduled = NothingScheduled
  /\ previous = <<>>
  /\ history = <<>>
  /\ subs = 0
  /\ indexed = {}

-----------------------------------------------------------------------------

\* set_scheduled_upgrade with the delay an upgrade or a rollback asks for.
Schedule(i, delay) ==
  /\ scheduled' = [implementation |-> i, wait |-> delay, ttl |-> TTL, age |-> 0]
  /\ AppendHistory("Scheduled", implementation, i)
  /\ UNCHANGED <<implementation, authorized, version, previous, subs, indexed>>

\* Mutant: the minimum delay of a rollback is used for every upgrade.
ShortDelay(i, extra) ==
  /\ ~IsScheduled
  /\ i # implementation
  /\ Schedule(i, RollbackDelay + extra)

ScheduleUpgrade(i, extra) ==
  /\ ~IsScheduled
  /\ i # implementation
  /\ Schedule(i, UpgradeDelay + extra)

AuthorizeUpgrade(i) == ScheduleUpgrade(i, 0)

Rollback ==
  /\ ~IsScheduled
  /\ HasPrevious
  /\ Schedule(PreviousTop, RollbackDelay)

CancelScheduledUpgrade ==
  /\ IsScheduled
  /\ scheduled' = NothingScheduled
  /\ AppendHistory("Cancelled", implementation, scheduled.implementation)
  /\ UNCHANGED <<implementation, authorized, version, previous, subs, indexed>>

IsRollback(i) == HasPrevious /\ PreviousTop = i

\* validate_upgrade and migrate of the subscription contract, which knows the
\* one migration path from version 1.
ValidateUpgrade(i) == i \notin BadImpls /\ version > 0 /\ version <= VersionOf[i]
CanMigrate == version = 1

\* Mutant: a rollback pops the stack instead of swapping its top.
PopPrevious(i) ==
  IF IsRollback(i) THEN SubSeq(previous, 1, Len(previous) - 1)
  ELSE Append(previous, implementation)

\* push_previous, or swap_previous_top for a rollback.
PreviousAfter(i) ==
  IF IsRollback(i)
  THEN [previous EXCEPT ![Len(previous)] = implementation]
  ELSE Append(previous, implementation)

\* Mutant: migrate's loop stops before the last subscription.
IndexedShort(i) ==
  IF ~IsRollback(i) /\ VersionOf[i] > version THEN 1..(subs - 1) ELSE indexed

\* migrate of v1 -> v2 builds the index of every subscription.
IndexedAfter(i) ==
  IF ~IsRollback(i) /\ VersionOf[i] > version THEN 1..subs ELSE indexed

\* Mutant: set_version is forgotten.
VersionKept(i) == version

\* A rollback does not revert the storage, so it keeps the version.
VersionAfter(i) == IF IsRollback(i) THEN version ELSE VersionOf[i]

UpgradeTo(i) ==
  /\ scheduled.implementation = i
  /\ scheduled.wait = 0
  /\ authorized' = i
  /\ ~IsRollback(i) =>
       /\ VersionOf[i] >= version
       /\ ValidateUpgrade(i)
       /\ VersionOf[i] > version => CanMigrate
  /\ previous' = PreviousAfter(i)
  /\ implementation' = i
  /\ version' = VersionAfter(i)
  /\ indexed' = IndexedAfter(i)
  /\ scheduled' = NothingScheduled
  /\ AppendHistory(IF IsRollback(i) THEN "RolledBack" ELSE "Executed",
                   implementation, i)
  /\ UNCHANGED subs

\* set_implementation of the storage contract, called by the admin directly.
SetImplementation(i) ==
  /\ authorized' = i
  /\ UNCHANGED <<implementation, version, scheduled, previous, history, subs,
                 indexed>>

\* A subscription made through the proxy: the storage takes writes from the
\* authorized implementation only, and version 2 also writes the index.
Subscribe ==
  /\ subs < MaxSubs
  /\ authorized = implementation
  /\ subs' = subs + 1
  /\ indexed' = IF VersionOf[implementation] = 2
                THEN indexed \cup {subs + 1} ELSE indexed
  /\ UNCHANGED <<implementation, authorized, version, scheduled, previous,
                 history>>

\* Mutant: the temporary entry never expires.
AgedForEver(s) ==
  [s EXCEPT !.wait = IF @ > 0 THEN @ - 1 ELSE 0, !.age = IF @ < TTL THEN @ + 1 ELSE @]

\* One ledger later; a temporary entry is gone once its TTL is used up.
Aged(s) ==
  IF s.ttl = 0 THEN NothingScheduled
  ELSE [implementation |-> s.implementation,
        wait |-> IF s.wait > 0 THEN s.wait - 1 ELSE 0,
        ttl |-> s.ttl - 1, age |-> s.age + 1]

\* The next ledger closes; time matters only while an upgrade is scheduled.
Tick ==
  /\ IsScheduled
  /\ scheduled' = Aged(scheduled)
  /\ UNCHANGED <<implementation, authorized, version, previous, history, subs,
                 indexed>>

Next ==
  \/ \E i \in Impls, extra \in ExtraDelays : ScheduleUpgrade(i, extra)
  \/ \E i \in Impls : AuthorizeUpgrade(i)
  \/ CancelScheduledUpgrade
  \/ \E i \in Impls : UpgradeTo(i)
  \/ Rollback
  \/ \E i \in DirectTargets : SetImplementation(i)
  \/ Subscribe
  \/ Tick

Spec == Init /\ [][Next]_vars

\* Ledgers keep closing; nothing is assumed of the administrator.
FairSpec == Spec /\ WF_vars(Tick)

-----------------------------------------------------------------------------
(* Properties *)

\* The timelock: an implementation other than the one to roll back to is only
\* installed UpgradeDelay after it was scheduled, a rollback RollbackDelay
\* after, whatever was scheduled, cancelled or executed before.
TimelockEnforced ==
  [][implementation' # implementation =>
       scheduled.age >= IF IsRollback(implementation')
                        THEN IF RollbackDelay < UpgradeDelay
                             THEN RollbackDelay ELSE UpgradeDelay
                        ELSE UpgradeDelay]_vars

\* The entries of the history that changed the implementation.
Switches ==
  {k \in 1..Len(history) : history[k].action \in {"Executed", "RolledBack"}}

\* The swap of upgrade_to "to allow emergency roll-forward": no sequence of
\* upgrades and rollbacks forgets an implementation that once ran.
RollForwardPossible ==
  \A k \in Switches :
    \/ history[k].old = implementation
    \/ \E j \in 1..Len(previous) : previous[j] = history[k].old

\* The storage version is never behind the running implementation's, over any
\* sequence of upgrades, rollbacks (which keep it) and roll-forwards.
VersionCovers == VersionOf[implementation] <= version

\* A rollback has been executed at some time.
RolledBackBefore == \E k \in 1..Len(history) : history[k].action = "RolledBack"

\* As long as nothing was rolled back, a version 2 implementation finds every
\* subscription in the index it checks duplicates with (migrate fills it for
\* those made under version 1).
IndexCompleteUnlessRolledBack ==
  VersionOf[implementation] = 2 /\ ~RolledBackBefore => indexed = 1..subs

\* An abandoned schedule does not block upgrades for ever: the entry expires.
ScheduleSlotFreed == IsScheduled ~> ~IsScheduled

=============================================================================
