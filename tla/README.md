# SubTrackr: formal models, model checks and proofs

SubTrackr manages recurring payments on Stellar: merchants publish plans, users
subscribe and authorise recurring charges, and Soroban contracts keep the
subscriptions and move the tokens. Around the contracts there are a TypeScript
backend (billing, queues, webhooks, locking, idempotency, caching), a React
Native client and tooling. This directory holds TLA+ models of the parts that
carry the program's own logic, the TLC configurations that check them and the
TLAPS proofs about them.

    tlc -config billing.cfg MCSubscription      # one run
    tlapm SubscriptionProofs.tla                # the proofs of a module

Contents: 1 the system, 2 the models and the code, 3 the runs, 4 the proofs,
5 where code and documentation disagree, 6 what is not modelled, 7 the plan.

## 1. The system and its parts

### 1.1 Modelled

| Part | State it keeps | Operations that change it | What makes it correct |
| --- | --- | --- | --- |
| Subscription contract, `contracts/subscription/src/lib.rs` | plans, subscriptions, per-user lists and user/plan index, pending transfers, rate limits, MEV configuration, charge commitments | `create_plan`, `deactivate_plan`, `subscribe`, `cancel_…`, `pause_…` (two), `resume_…`, `charge_…`, `commit_charge`, `reveal_charge`, `request_/approve_/reject_refund`, `request_/accept_transfer`, configuration | nobody is billed twice for an interval; the caches (index, lists, counters) agree with the subscriptions; refunds stay within payments; cancellation is final; large charges are revealed commitments; a limit on pausing or charging holds for both entry points |
| Revenue recognition, `contracts/subscription/src/revenue.rs` | rule per plan, schedule per subscription, merchant balances and tracking list | called by every charge; `set_revenue_rule` | schedules cover the period paid for; snapshots conserve the amount; analytics count every entry once |
| Upgradeable proxy, `contracts/proxy/src/lib.rs`, `storage.rs` | implementation, version, scheduled upgrade (temporary storage), stack of previous implementations, history | `schedule_upgrade`, `authorize_upgrade`, `upgrade_to`, `rollback`, `cancel_scheduled_upgrade`; expiry | the timelock cannot be shortened; history and stack stay coherent; storage is migrated when new code runs; the slot is freed |
| Storage contract, `contracts/storage/src/lib.rs` | all keys of the implementation; the authorised implementation | `set_implementation`, the generic get/set bridge | only the authorised implementation writes |
| Idempotent requests, `backend/services/idempotencyService.ts`, `idempotencyMiddleware.ts` | a bounded in-memory map from key to record | `execute`, the Express middleware, `complete`, `delete`, `cleanup`, eviction | one operation per key at a time and in total; replays of the same key and hash; no key blocked but by a handler that ends past `res.json` |
| Advisory locks, `backend/services/shared/locking/`, with the lock integrations of billing and subscriptions | map of held locks | `acquire` (attempts with sleeps, deadline), `release`, `withLock` | one job at a time works on a subscription; every job ends |
| Circuit breaker of the API client, `backend/services/shared/circuitBreaker.ts`, `apiClient.ts` | closed / open / half-open, counters, end of the pause | `execute`, `reset`, the clock | opens and closes only for results recorded in the state it is in |
| Job queue of billing, `backend/shared/queue/`, `backend/billing/jobs/` | a queue in memory per priority class, its copy in Redis, deficits, paused classes | `enqueue` with backpressure, `add`, `scheduleNext`, `processNext`, `resumeAll`; restart | no class starves; memory and Redis agree; capacity; nothing stays closed unnoticed |
| Webhook delivery, `backend/services/notification/webhook.ts`, its worker and clean-up job | webhooks, deliveries, dead letters, delivered keys | `deliverEvent`, `testWebhook`, `retryWebhookDelivery`, `replayDeadLetter`, the worker's tick, clean-up, update, pause, delete, health check | no event dropped as a duplicate by mistake; every delivery delivered or dead-lettered |
| Client transaction queue, `src/store/transactionQueueStore.ts`, `src/hooks/useTransactionQueue.ts` | queued payments, their saved copy, connectivity | direct and queued payments, runs, replacement, removal, connectivity changes, restart | no payment made twice after a reported success; none left in the queue while the listener is called |

### 1.2 Inventoried, not modelled yet

| Part | State and operations | Hard behaviour |
| --- | --- | --- |
| Invoice contract, `contracts/invoice/src/lib.rs` | invoices Draft → Sent → Partial → Paid / Void, numbering, tax rates | numbering and status over any order of calls; called by every charge |
| Credit, metering, access control, batch contracts | balances with expiry; usage counters; roles with expiry and delegation; batches of calls | expiry boundaries; all-or-nothing against best-effort |
| Oracle, fraud, API, security, SLA, audit, group ledger, commission vault, currency oracle contracts | their own ledgers | arithmetic at limits; not called by a charge |
| Optimistic locking, `backend/services/shared/occ/` | entity versions | a read version that is stale at the write; no code calls it |
| Circuit breakers of the RPC layer | the same three states, per endpoint | late results |
| `backend/services/shared/jobQueue.ts`; retry policies, dead letters, limits and schedules of `backend/shared/queue/` | queues, sets, counters | not wired to the job queue of billing by any code |
| Batch charging, dunning, fallback payments, timeouts | state machines with retries | a timeout racing a late answer; retry of what succeeded |
| Block indexer, pools, caches, rate limiters, CRDT sync, lockout, key rotation | caches and counters | reorganisations, stale entries, merge order |
| Client stores (`src/store`), client engines (`src/services`) | view state, client-side billing rules | stale views |

### 1.3 How the parts interact

A user's call reaches the proxy, which forwards it with the address of the
storage contract to the current implementation. The implementation keeps no
state of its own: it reads and writes everything through the storage contract,
which accepts writes from the authorised implementation only. A charge calls the
token contract, builds a revenue schedule and, if one is configured, calls the
invoice contract. An upgrade changes the authorised implementation in the
storage, validates and migrates, and then switches the proxy. The backend
triggers charges and retries them; the idempotency service stands between a
client's retries and the payment operations, a lock per subscription between the
jobs that charge it, pause it or change its state, and a circuit breaker between
those jobs and the services they call. Background work goes through the job
queue; events for merchants through webhook delivery. The app queues payments it
cannot send and sends them when it is online again.

A contract call is atomic (a panic reverts it). What is hard there is not
interleaving inside a call but long sequences of calls by different parties:
holders change, configuration changes between a commit and its reveal, refunds
overlap with charges. In the backend an `await` splits a handler in two, and
anything may happen between the halves. PROJECT.json lists these points, each
with its line, under `hazards`.

## 2. The models and the code

| Module | Contents |
| --- | --- |
| `SubscriptionTypes` | enumerations and records of `contracts/types` and `revenue.rs` that several modules share |
| `RevenueSchedule` | how a charge becomes a schedule (both builders, `div_ceil`) |
| `Subscription` | the contract: one action per entry point |
| `Revenue` | recognition snapshots and analytics over stored schedules, against reference definitions |
| `UpgradeProxy` | proxy and storage gate, with migration and expiry |
| `Idempotency` | service and middleware |
| `ExclusiveUse` | abstract: users enter and leave resources, one user per resource |
| `AdvisoryLock` | the lock service |
| `CircuitBreaker` | the breaker's methods as functions of its fields |
| `ProtectedCharges` | composes the two: jobs that make a request under a lock; implements `ExclusiveUse` |
| `FairQueue` | the job queue of billing |
| `Webhook` | webhook delivery, worker and clean-up |
| `TransactionQueue` | the app's offline queue |
| `Sums` | sums over finite sets, with which the contract's ledgers and the scheduler's shares are stated |
| `SumProofs` | the laws of these sums, which the other proofs use |
| `SubscriptionProofs`, `UpgradeProxyProofs`, `IdempotencyProofs`, `ChargeProofs`, `FairQueueProofs`, `WebhookProofs`, `TransactionQueueProofs` | the theorems, section 4 |
| `MC…` | values of constants for TLC |

Definitions named `Mutant: …` in their comment are the plausible bugs each
property was tried against; nothing of the specifications uses them.

**`Subscription`.** One action is one call. Every assertion, panic and failing
sub-call is a conjunct of the guard, since it would revert the call. Variables
carry the name of the storage key. `require_auth` is an input: the caller is a
bound variable, and an address read from storage is taken to have signed.
`ChargeGuarded` is `charge_subscription_guarded` with the automatic resumption,
MEV checks, token transfer, schedule, balances, invoice call and rate limit;
`ChargeSubscription` and `RevealCharge` are its two callers. A list of ids is a
count of occurrences per id, which is what the properties tell apart. The
commitment hash is taken to be injective. Overflow of `i128` is a guard with the
constant `I128Max`, because the contract's checked arithmetic panics.
`InvoiceAccepts` says whether the configured invoice contract accepts the call;
as the repository stands it does not (section 5). `refunded` and `transferred`
are history variables.

**`Revenue`.** There is no concurrency: the initial states are all pairs of
schedules that charges within the bounds can have stored, with all windows of a
query, and the only action lets time pass. What the code adds up in loops is
`SumOver`. The names differ from those of `Subscription` (`clock`, `tracked`,
`RevenueSpec`), so that one module can extend both: `SubscriptionProofs` applies
the results on reading schedules to the schedules the contract stores. `method` is a
history variable: the rule a schedule was built under, which the schedule does not say.

**`UpgradeProxy`.** Time is kept relative to the scheduled entry, so that it
needs no bound. The entry lives in temporary storage: `Aged` removes it when its
TTL is used up. Version 1 of the implementation is not in the repository; that it
does not write `UserPlanIndex` is inferred from `migrate`, which builds it. The
delegating wrappers pass their arguments on and are represented by `Subscribe`.

**`Idempotency`.** An action is a stretch of code without an `await`: `Execute`
and `Middleware` from arrival to the operation, `Succeed` and `Fail` from its
end. `execute` keeps a reference to its record and completes that object,
wherever the map is by then (`owner` is the identity); `complete` looks the key
up again and fills in whatever is pending there; a failure deletes the key
whoever owns it. The map's insertion order is `position`. `evicted` and `lost`
are history variables. The middleware learns how a request ended only from the
`res.json` it has wrapped: `EndUnrecorded` is a handler that throws, or answers in
another way, and leaves the record pending. `hashRequest` is a constant function
from payloads to hashes, of which nothing is assumed: it drops nested properties and
has 32 bits, so that payloads may share a hash. `Outcome` compares hashes, as the
code does.

**`AdvisoryLock`, `CircuitBreaker`, `ProtectedCharges`.** `tryAcquire` and the
entry in `heldLocks` have no `await` between them and are one step (`Attempt`);
a sleep separates attempts. A job stands for the lock id it draws. Whether the
deadline has passed after a sleep is a choice. The function under the lock is
passed in by the caller; in the model it makes one request through the API
client: `Request` is `execute` up to the call (refused while open), `Answer` the
recording of its result in whatever state the breaker is by then, `EndCharge` the
`finally` of `withLock`. Errors below 500 count as successes of the breaker, as
in `request`. `streak` is a history variable that counts equal results in a row
since the breaker entered its state.

**`FairQueue`.** One step is the code between two awaits of Redis or of a handler:
`StartAdd` checks and calls Redis, `AddDone` appends; `ScheduleNext` chooses and
takes the job out of memory, `Removed` takes it out of Redis; `EnqueuePausing`
closes a queue, `PauseDone` tells the scheduler. Shares are integers in units of
1/`Scale`, with `Scale` a multiple of every sum of weights that can occur, so
that the code's division is exact. The loop by which other classes make up for
what the lowest one lacks is written in closed form: a donor gives what it has
above the minimum, up to what the donors before it leave to be given. Every call of
Redis may be rejected, before or after it took effect: an addition (`AddFails`,
`AddFailsStored`), a removal (`RemoveFails`), a pause (`PauseFails`) and a resumption
(`ResumeFails`); `MaxFaults` bounds the rejections that leave a trace. The history
variable `stranded` has the classes whose queue a rejected pause left closed without
the scheduler knowing. `Crash` empties the memory and leaves in Redis what had
reached it.

**`Webhook`.** A loop is one activation of `sendWithRetry`, of the call that
created the delivery, of a manual retry or of the worker. It keeps the delivery
and webhook it was started with, and writes whole records from these copies, as
the code's spreads do. `due` is the list a tick works on with the attempts of
that time. A webhook deleted under a running loop comes back from
`finalizeDelivery` as a record of statistics only (`leftover`); `updateWebhook`
turns that into one with a policy but without an id (`patched`). It may also change
the retry policy, and a loop that sleeps sees the new one: `maxRetries` is the most
retries any policy allows, that an attempt is the last one is a choice, and
`NoAttemptLeft` is the failure after the `while` loop, of a delivery taken up again
under a policy that allows no further attempt. Time is relative:
a retry is `later`, then `due`. Whether the rate limit is reached is a choice.
`overlapped` and `accepted` are history variables.

**`TransactionQueue`.** `run` is the activation of `processQueue` with what is
left of its copy of the queue; `GoOn` is one turn of its loop up to the next
await. A payment may take effect although the wallet reports an error (`WalletFails`)
or the app is killed: `createSuperfluidStream` and `createSablierStream` wait for the
receipt after the broadcast, and wrap whatever goes wrong then into "Stream creation
failed.", which the queue takes for an error of its own kind and not of the network.
`effects`, `uncertain` and `restored` are history variables. `disk` lags behind the
store; every `set` saves, the first ones as the screens mount, so that `Save` may
overwrite the saved queue with the empty one before it has been read. A start of the
app mounts the hook and reads the queue back (`loading`, or nothing when that fails)
in either order. Transactions with the same conflict key are
named in the order they are made, which loses nothing: they are alike otherwise.

## 3. The runs

| Run | Instance | What it shows |
| --- | --- | --- |
| `ownership` | 3 users, 1 plan, 3 subscriptions, no clock | `IndexOwner`, `UniqueUnlessTransferred`, `SubscriberCountExact`, `OwnershipLists` over cancellations, re-subscriptions and transfers back and forth. Three subscriptions are needed for a duplicate by transfer and a third that finds a stale entry. |
| `billing` | 1 subscription, interval 3, time to 6, two refund amounts, pauses of 0, 1 and 3, recognition periods none, 0 and 2 | `NoOverbilling`, `RefundBounded`, `LedgerAgrees`, `ScheduleCoversPeriod`, `CancelledIsFinal`, `PauseHonoured`, `OverwriteNearEnd`, `TypeOK`. Two charges fit, with a pause and a resumption between; the balance covers exactly two; the period 2 does not divide the interval. |
| `guards` | prices 0 and 2, time to 3, limits of 2 s on pausing and charging, two valid and one invalid MEV configuration | `LargeChargeRevealed`, and `LimitsCoverEveryPath`: under a limit on `pause_by_subscriber` or `charge_subscription` no pause or charge comes too early, by either entry point, while everything is reconfigured between the calls. Commitments can become ripe and expire within the clock. |
| `revenue` | 2 subscriptions, all rules with periods 0..3, windows within 0..7 | `SplitConserves`, `CloseToStraightLine`, `RecognitionMonotone`, `AnalyticsExact`. Totals 2 and 7 leave remainders; windows leave partial buckets. `CloseToStraightLine` is about straight-line rules and plans without a rule; the other three hold for usage-based ones as well. |
| `upgrade` | 4 implementations (one of version 1, two of version 2, a broken one), delays 2 and 1, TTL 3, history to 5 | `TimelockEnforced`, `RollForwardPossible`, `VersionCovers`, `IndexCompleteUnlessRolledBack`, and that a schedule is freed (`ScheduleSlotFreed`). Five entries allow upgrade, rollback and one more schedule. |
| `idempotency` | 4 requests, 2 keys, 3 payloads of which 2 have one hash, capacity 2, window 0, time to 1; 1,730,000 states | `PendingIsRunning`, `SingleFlight`, `AtMostOnce`, `ReplayFaithful`. Two keys fill the store, so eviction happens; four requests allow a late end to hit a third party's record. A record is stale one tick after it was made. |
| `charges` | 3 jobs, 2 subscriptions, 2 attempts, thresholds 2; 23,500 states | `ImplementsExclusiveUse` (the refinement), `ChargeEnds`, `TransitionsEarned`. A third job waits while two hold or hang; two requests overlap a change of the breaker. |
| `jobs` | 4 jobs, 3 classes of capacity 1, weights 50/25/25, 2 calls at once, 2 faults; 629,000 states | `BoundedLag` (here at most one round), `RedisAgrees`, `OvershootBounded`, `ClosedIsKnown`. Four jobs fill every class and overfill one, so that backpressure, two pauses and a concurrent resumption happen; with two faults a rejected pause meets a restart or a rejected resumption. |
| `webhook` | 1 webhook, 2 deliveries, 1 key, 1 retry, 1 management call besides deletions; 496,000 states | `SkippedOnlyIfAccepted`, `DeadLettersMatch`, `Settles`. Two deliveries are needed for a duplicate key and for a worker's list that grows old; one retry for every way through the loop. |
| `txqueue` | 3 requests (two with one conflict key) of which 2 are made, 2 attempts, 1 restart; 673,000 states | `SentOnceUnlessUncertain`, `ProcessingIsInHand`, `Drains`. A run has a second transaction to come while the first is replaced, removed or fails; the restart may fall into any payment. |
| `doc_unique`, `doc_resume` | small | two disagreements, section 5 |

Deadlock is checked in `charges`, where a job can always start. Elsewhere it is
not: the bounds on time, history, subscriptions, requests and calls end every
behaviour, and the system itself may rest. Symmetry is used in `idempotency` and
`jobs` only, where requests, keys, hashes and jobs are interchangeable and no
temporal property is checked.

**Fairness.**

- `upgrade`: `WF(Tick)`, ledgers keep closing. Nothing is assumed of the
  administrator, who may never execute or cancel.
- `charges`: weak fairness of what the event loop does by itself for each job
  (sleeps end, continuations run). `Answer` is not fair: `fetch` has no timeout, so
  that a request may hang for ever, and `ChargeEnds` says what is left then.
- `webhook`: requests and sleeps end (the platform's `fetch` fails in the end),
  the worker's `setInterval` keeps calling `tick`, time passes. Nothing is assumed
  of merchants and operators. `Settles` is claimed for behaviours in which no
  webhook is deleted: `processDueRetries` passes over deliveries of a deleted one.
- `txqueue`: notifications and the start of the app end, time passes. Nothing is
  assumed of the wallet or of connectivity; instead `Drains` says what it needs: if
  the connectivity listener keeps being called and no wallet call hangs for ever, no
  payment stays in the queue for ever. On a device that stays connected the listener
  is not called; section 5 says what happens then.
- `doc_resume`: worker, Redis and handlers go on; the counterexample needs that
  the class stays paused although everything that can happen by itself does.

## 4. The proofs

Every theorem holds for all values of the constants that satisfy the named
assumption of its module; these ask for types and signs only (`QueueAssumption`
also for the divisibility of `Scale`, which is a unit of the model), and TLC
evaluates them in the runs. Each safety theorem follows one pattern: an inductive invariant
that implies it, `Init => Inv`, `Inv /\ [Next]_vars => Inv'` with one lemma or step
per action, and a temporal step that combines them. `PROJECT.json` lists the
theorems with the property of the run each one generalises.

**`SubscriptionProofs`** (any number of users, plans and subscriptions, any
prices, intervals, configurations; `ConstantsAssumption`).

*Types.* `TypeCorrect`, `RefundSafe` and `IdsDense` rest on

    CoreInv == TypeOK /\ IdsAllocated /\ RefundBounded

None of its parts is inductive alone. `approve_refund` subtracts an amount that
an earlier call fixed, so that `total_paid` stays a natural number only by
`RefundBounded`; that `charge` and `transfer` keep `RefundBounded` needs the
types; and that `subs[id].plan_id` indexes a plan needs `IdsAllocated`, which in
turn says that `subscribe` always writes a fresh id.

*Six kinds of step.* Everything else is proved over `Kinds`: to billing and
ownership a step is quiet, or it opens, touches, charges, closes or moves one
subscription. `StepKinds` shows once that each of the twenty operations is of one
kind and keeps the terms of existing plans; an invariant then has six cases.

*Ownership.* `ListsExact`, `IndexSound`, `UniqueWithoutTransfers` and `CountsExact`
are parts of one invariant, `OwnershipInv`. They need each other: `subscribe`
trusts the index for its duplicate check, a cancellation clears an entry of the
index that must be its own, and a transfer moves an entry whose subscription the
lists must hold once. `CountsExact` relates a counter to the cardinality of the
live subscriptions, so that the guard of the counter's decrement hides no drift.

*Billing.* `BillingInv == CoreInv /\ AccountsOK /\ ChargedAreTracked` gives
`NeverOverbilled`, `PaidExact`, `TrackedExact` and `SchedulesCover`. `AccountOK`
strengthens what is wanted of one subscription by `last_charged_at + interval <=
next_charge_at` (a resumption only moves the next charge later) and by
where the last period of the schedule begins. `LedgersAgree` adds the sum: deferred
revenue of a merchant is all that was ever collected on its plans. A charge raises
one term of that sum or adds a term that was zero before; a refund moves an amount
between two addends of one term; nothing else touches it.

*Composition.* `StoredSplitExact`: whatever was charged when, a snapshot of a
charged subscription at any time splits the price of its last charge without loss.
It joins `BillingInv` and the invariant that no plan has an interval of 0 with
`SplitTotal`.

*Action properties.* `CancelIsFinal`, `PausesHold`, `LargeChargesCommitted`,
`OverwritesLate` and `LimitsHold` follow from these invariants and `StepKinds`. For
`LimitsHold` a step that pauses or charges carries the guard of `enforce_rate_limit`
under the key it is called with (`CallObeys`): dropping the check falsifies it.

*Reading schedules back* (`Revenue`; any number of subscriptions, any amounts,
periods, windows and times; `RevenueAssumption`): `SplitExact`, `NothingTakenBack`,
`StraightLineClose` and `AnalyticsAddUp`. The state is fixed but for the clock, and
`RevenueInv` is only that the schedules are well formed; the work is in sums and
division. The slices and the remainder of the last entry add up to the total; each
entry recognises the floor of its share, which bounds the lag by one unit per period
(claimed for rules that are not usage-based);
an entry is in the bucket of its quotient exactly if it is within the bucket's bounds
(`DivUnique`), there are enough buckets for the window (`BucketExists`), and a
subscription is counted in the bucket of its first entry, which is unique.

**`SumProofs`.** Sums are folds over sets, whose recursion no induction theorem
reaches here; the laws (`SumRemove`, `SumOfSums`, `SumPart`, `SumScaled`, `SumRows`,
`SumSizes`, …) are therefore proved by a least counterexample: of the sets that break
a law take a smallest one (`SmallestSet`, from well-foundedness of the naturals),
remove one element, and the rest obeys the law.

**`UpgradeProxyProofs`** (any implementations, delays and lifetimes;
`ProxyAssumption`). `StorageNeverBehind`, `NothingForgotten`, `IndexComplete` and the
action property `TimelockHolds`. `ProxyInv` adds to them that the storage version
covers every implementation on the stack (a rollback switches to one without a
migration), that the time left and the time gone of a scheduled upgrade add up to its
timelock (the entry is read only at execution), and that until a rollback the version
is exactly that of the implementation (so that the migration that builds the index is
not skipped).

**`IdempotencyProofs`** (any number of requests, keys and hashes, any capacity,
eviction count and window). `NoBlockedKey`, `ExclusiveUnlessLost`,
`OnceUnlessEvicted` and `ReplaysFaithful` rest on `IInv`: a running request owns
the pending record of its key as long as the key lost no pending record
(`RunningOwns`); a success is the response stored under its key as long as no
record of the key was dropped (`SuccessKept`); what is stored as completed, and
what was replayed, came from a success with that key and, but for the one
exception, hash; a record names the key and hash of its owner; an absent one has no
owner; a pending one belongs to a request that runs or has ended past `res.json`.
Of `hashRequest` only its domain and range are assumed, so that the theorems hold
with any collisions. `lost ⊆ evicted` ties the first two: a request that ends under
a key that was not evicted owns its record, so that it destroys nobody else's
success. `ArriveStep` is proved for an arbitrary set of evicted keys, hence the
theorems hold whatever the eviction policy.

**`ChargeProofs`** (any number of jobs, subscriptions and attempts, any
thresholds; `LockAssumption`, `BreakerAssumption`). `LocksAgree` is the inductive
invariant

    LockInv == LockTypeOK /\ HeldIsLocked

where `HeldIsLocked` says that a job has an entry in `heldLocks` exactly while it
works under its lock, for the subscription it asked for. `LockRefinement`, that
the service implements `ExclusiveUse`, needs it: `tryAcquire` looks at
`heldLocks`, the abstract state is about the jobs that work. An attempt that
succeeds maps to `Enter`, `EndCharge` to `Leave`, everything else, sleeps,
timeouts, requests and the breaker, to a stuttering step. `BreakerEarned` needs
`CountersEarned`: in a state that counts, the counter is below its threshold and is
accounted for by results recorded since the state was entered, so that late answers
of calls begun in an earlier state cannot tip it.

**`FairQueueProofs`** (any jobs, classes, capacities, weights and faults;
`QueueAssumption`). `RedisInStep`, `WaitsOnce`, `CapacityOvershoot` and
`NoClassForgotten` are parts of `QueueInv`. They hold with any number of
rejected calls, with or without effect: `stranded` names what a rejected pause leaves,
`lost` what a rejected addition or removal leaves. `QueuesExact` ties where a job is to the
one place in a queue that holds it, without which a removal says nothing about the
rest; `VisitedAreOpen` says that the classes a running `resumeAll` has opened are
still marked as paused, so that backpressure does not close one again before the set
is cleared.

`LagStaysBounded` (`BoundedLag`) is about the scheduler: with *n* classes, what a
class was promised and what it was served never differ by more than *(n - 1)/2*
rounds, for all positive weights: one and a half with the four classes of the code. A
bound on one class is not inductive, because a class that is passed over gains.
`LagBounded` bounds every set of classes at once: the deficits of *k* of *n* classes
add up to at most *k (n - k)/2* rounds, and all of them to 0. If the class that pays
is in the set, the sum does not grow. If it is not, and *m* of the set were active,
the payer had at least their average, so *m + 1* times the sum is at most the sum of
the inactive ones plus *m* times that of the set with the payer; the bounds of these
two sets give the bound of the first (`LagArithmetic`). `EffectiveIsRound` supplies
what the argument needs of the shares: they are not negative, idle classes get none,
and redistribution and starvation prevention keep their sum a full round. A weight of
zero is excluded, as the code would divide by zero for a class that is active alone.

**`WebhookProofs`** (any number of webhooks, deliveries, keys and loops).
`NoEventSwallowed` and `DeadLettersExact` rest on `WebhookInv == KeyInv /\ LetterInv`.
`KeyInv`: a recorded key was accepted, and a loop that reports success holds an
accepted delivery. `LetterInv`: unless loops overlapped, a delivery has one loop
(`SingleLoop`), and between the finalisation of a delivery and the return of its loop
its result and its dead letter agree (`ReturningMatch`), which is where the property
itself is silent. The failure after the loop (`NoAttemptLeftStep`) writes both at once.

**`TransactionQueueProofs`** (any requests, conflict keys, attempts and restarts).
`SentOnce` and `MarksInHand` rest on `SendInv`: what is queued, saved or under way was
asked for; a transaction that is paid directly is in no queue; what the run has still
to do and what is queued was not paid, or is uncertain (`Settled`); until the saved
queue is read back nothing is under way (`Booting`), and what it will bring was not
paid or is uncertain as well. `uncertain` holds what was paid in a call that ended in
an error, or read back after a restart, and nothing else: after a reported success a
payment is in no list.

**Only model-checked.**

- Liveness, which needs fairness and `ENABLED`: `ChargeEnds`, `Settles`, `Drains`,
  `ScheduleSlotFreed`.

## 5. Where code and documentation disagree

Each with a run that ends in a counterexample:

- `doc_unique`: the specification says a user has at most one live subscription
  per plan. `accept_transfer` does not look at what the recipient already has.
  What does hold is `UniqueUnlessTransferred`.
- `doc_resume`: `docs/job-queue.md` says a class paused by backpressure resumes
  when capacity is available. `resumeAll` is the only way out, and nothing calls
  it.

Seen while reading, without a run:

- `request_transfer` refuses a cancelled subscription, but a transfer requested
  before the cancellation can be accepted after it.
- `docs/API.md` says an approved refund transfers tokens; the code adjusts
  `total_paid` only.
- `docs/SUBSCRIPTION_PAUSE_RESUME.md` says a resumption shifts the schedule by the
  time paused; `resume_subscription` starts a whole new interval, and automatic
  resumption shifts nothing.
- A call while the original is in flight is documented to be refused
  (`idempotencyService.ts:67`); eviction and cleanup drop pending records too, after
  which it runs. What does hold is `SingleFlight` and `AtMostOnce`.
- `deliveryWorker.ts:6` says a tick dedupes against retries in flight through
  `nextRetryAt`. A loop that sleeps has set `nextRetryAt` itself, so that the worker
  takes up its delivery as soon as the sleep is over, or before: two loops send it.
  `DeadLettersMatch` excepts such deliveries.
- When a webhook is deleted under a running loop, `finalizeDelivery` brings back a
  record without a policy; a due retry for it makes `processDueRetries` throw, and
  the deliveries behind it wait, tick after tick, as long as it is there.
- A transaction that is replaced or removed while a run has it in its copy of the
  queue is sent nevertheless, although the notification says it was updated.
- A failed removal from Redis loses the job in memory, and what a restart leaves
  in Redis is never read back.
- A merchant cannot subscribe to an own plan, but can accept a transfer of a
  subscription to it.
- A charge passes 5 arguments to `generate_invoice`, the invoice contract takes
  8: with an invoice contract configured every charge reverts.
- A straight-line rule with recognition period 0 is accepted and makes every
  charge of the plan revert.
- `div_ceil` makes a straight-line schedule run past the billing period when the
  recognition period does not divide it, and the next charge overwrites what is
  left (`OverwriteNearEnd` bounds the loss to the last entry).
- The docs call charging permissionless; the code requires the subscriber's
  authorisation.
- A scheduled upgrade lives about 7 days in temporary storage, while the delay
  is not bounded: with a longer one no upgrade can be executed.
- A roll-forward to version 2 after a rollback runs no migration, so that
  subscriptions made under version 1 in between are not indexed;
  `IndexCompleteUnlessRolledBack` is what remains.
- `hashRequest` passes the top-level keys to `JSON.stringify` as the list of
  properties to keep, which drops nested properties with other names, and keeps 32
  bits: payloads it does not tell apart are answered with each other's response,
  where `idempotencyService.ts:66` promises a collision error. What does hold is
  `ReplayFaithful`, about hashes.
- The idempotency middleware, which the gateway mounts for charges, frees a key only
  in `res.json`: after a handler that throws, or ends with `send` or `end`, the key
  stays "in progress" until the record's 24 hours are over.
- A limit on `pause_subscription` is a key of its own. `pause_by_subscriber`, which
  does the same, does not consult it, so that the limit can be avoided; one on
  `pause_by_subscriber` cannot (`LimitsCoverEveryPath`).
- `revenue.rs:6` says usage-based revenue is deferred until usage is reported. The
  schedule of a usage-based rule is one entry over the interval and is recognised pro
  rata with time like any other; nothing reports usage.
- A pause that Redis rejects leaves the queue of the class closed while the scheduler
  does not know of it: `resumeAll` passes it over, until backpressure happens to pause
  the class again.
- An addition that fails after Redis stored the job leaves it in Redis, where nothing
  reads it back, while the caller is told that it failed.
- A payment whose confirmation fails is reported as "Stream creation failed.", and the
  queue sends it again, up to `MAX_ATTEMPTS` times; `SentOnceUnlessUncertain` is what
  remains.
- A network error sets `isOnline` to false, and only a call of the connectivity
  listener or a start of the app sets it back. On a device that stays connected no
  such call comes: payments wait, against `transactionQueueStore.ts:211` ("will run
  automatically once you are online"). The same holds of one left pending by an error of
  another kind.
- The first `set` after a start, as the screens mount, saves the empty queue over the
  stored one while that is still being read: an app killed right then loses it.
- A result of a call begun in an earlier state of the circuit breaker is counted in
  the present one; `TransitionsEarned` does not tell such results apart.

## 6. What is not modelled, and why

- Events, names, texts, gas accounting and alert contents: no guard reads them.
- `quota.rs`, `usage.rs` (`unimplemented!`), `trial.rs`, the gas profiler: no
  entry point changes state through them, save storing a plan's quotas.
- `charging.rs`, `billing.rs`, `event_store.rs`, `cancellation.rs` of the
  subscription contract: no `mod` declaration includes them in the build.
- Signatures and the token contract's own logic: external; a transfer fails if
  the payer cannot cover it.
- Optimistic locking, the retry, dead-letter, limit and schedule helpers of the
  queue, `services/shared/jobQueue.ts`: no code of the repository uses them.
- `batchChargeService.ts` and the replay worker of webhook events: they import
  modules that do not exist, so that they are in no build.
- Payloads, signatures, secrets and statistics of webhooks; metrics of locks and
  queues: no guard reads them.
- User interface, SDKs, the statistical services and the portals: no protocol
  state.
- The parts of 1.2: see the plan.

## 7. Plan

1. *Done:* the subscription contract with revenue, the proxy, idempotency; locks
   and breaker with the refinement of exclusive use; the job queue; webhooks; the
   client queue.
   The safety and action properties of every passing run are theorems.
2. Theorems: `LockRefinement`'s pattern for the abstract specifications of 4.
3. Payment timeouts and fallback payments, the block indexer, invoices and credits,
   each a module of its own, composed with `Subscription` where a charge calls it.
4. Abstract specifications: a timelock for `UpgradeProxy`, the life cycle of one
   subscription for `Subscription`, an at-most-once register for `Idempotency`
   without eviction.
