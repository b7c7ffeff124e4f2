-------------------------- MODULE TransactionQueue --------------------------
(***************************************************************************)
(* The offline queue of the app (src/store/transactionQueueStore.ts with   *)
(* src/hooks/useTransactionQueue.ts): payments asked for while the device  *)
(* is offline are kept, saved to the device, and sent when it is online.   *)
(*                                                                         *)
(* processQueue() works through a copy of the queue it took at its start,  *)
(* while payments are queued, replaced and removed, connectivity changes   *)
(* and the app may be killed.  Actions are the stretches of code between   *)
(* two awaits.  The saved copy lags behind the store; a restart reads it   *)
(* back some time after the screens are up, and may overwrite it before.   *)
(*                                                                         *)
(* `effects` counts what a payment did on the chain.  The wallet reports   *)
(* every failure in one way, those after the broadcast too: a payment may  *)
(* have been made although its call ended in an error.                     *)
(***************************************************************************)
EXTENDS Integers, Sequences, FiniteSets, SequencesExt, FiniteSetsExt

CONSTANTS
  Txs,           \* the requests a user makes, numbered
  conflictKey,   \* createConflictKey() of each: protocol, chain, token, recipient
  MAX_ATTEMPTS,
  MaxRequests,   \* bound on the requests made
  MaxRestarts    \* bound on the times the app is killed

ASSUME TransactionAssumption ==
  /\ Txs \subseteq Nat
  /\ MAX_ATTEMPTS \in Nat /\ MaxRequests \in Nat /\ MaxRestarts \in Nat

VARIABLES
  queue,      \* queuedTransactions: records [id, attempts, status], oldest first
  disk,       \* the queue as it was last saved
  loading,    \* the saved queue that the start of the app is reading back
  isOnline,
  network,    \* whether the device is connected
  run,        \* processQueue(): [pc, list], what is left of its copy of the queue;
              \* the transaction being sent is the first
  direct,     \* requests executeOrQueueTransaction() is sending
  asked,      \* requests that have been made
  stale,      \* requests queued more than STALE_TRANSACTION_TIMEOUT_MS ago
  boot,       \* the steps of the start of the app still to come
  restarts,
  effects,    \* history: times a payment was made, counted up to two
  uncertain,  \* history: made, and then reported as failed or read back from disk
  restored    \* history: the requests the last restart restored

history == <<effects, uncertain, restored>>
storage == <<disk, loading>>
vars == <<queue, storage, isOnline, network, run, direct, asked, stale, boot, restarts, history>>

IdleRun == [pc |-> "idle", list |-> <<>>]
BootSteps == {"hydrate", "mount"}

Init ==
  /\ queue = <<>>
  /\ disk = <<>>
  /\ loading = <<>>
  /\ isOnline = TRUE
  /\ network \in BOOLEAN
  /\ run = IdleRun
  /\ direct = {}
  /\ asked = {}
  /\ stale = {}
  /\ boot = BootSteps
  /\ restarts = 0
  /\ effects = [t \in Txs |-> 0]
  /\ uncertain = {}
  /\ restored = {}

Ids(q) == {q[i].id : i \in DOMAIN q}

\* The transactions not in S, in their order.
Without(q, S) ==
  LET kept[i \in 0..Len(q)] ==
        IF i = 0 THEN <<>>
        ELSE IF q[i].id \in S THEN kept[i - 1] ELSE Append(kept[i - 1], q[i])
  IN  kept[Len(q)]

SameKey(t) == {u \in Txs : conflictKey[u] = conflictKey[t]}

Made(t) == effects' = [effects EXCEPT ![t] = Min({@ + 1, 2})]

\* A wallet call ends in an error, before or after the payment was broadcast.
WalletFails(t) ==
  \/ Made(t) /\ uncertain' = uncertain \cup {t}
  \/ UNCHANGED <<effects, uncertain>>

-----------------------------------------------------------------------------
\* Requests

\* queueTransaction(): the latest request of a conflict key replaces others.
Queued(t) ==
  Append(Without(queue, SameKey(t)), [id |-> t, attempts |-> 0, status |-> "pending"])

\* Payments are asked for once the app has started; those with the same key
\* take their names in order.
Ready == boot = {}
Asks(t) ==
  /\ Ready
  /\ t \notin asked
  /\ Cardinality(asked) < MaxRequests
  /\ \A u \in SameKey(t) : u < t => u \in asked

ExecuteOffline(t) ==
  /\ Asks(t)
  /\ ~isOnline
  /\ asked' = asked \cup {t}
  /\ queue' = Queued(t)
  /\ UNCHANGED <<storage, isOnline, network, run, direct, stale, boot, restarts, history>>

ExecuteDirectly(t) ==
  /\ Asks(t)
  /\ isOnline
  /\ asked' = asked \cup {t}
  /\ direct' = direct \cup {t}
  /\ UNCHANGED <<queue, storage, isOnline, network, run, stale, boot, restarts, history>>

\* Sent, or failed in another way: the caller gets the error, nothing is queued.
DirectEnds(t) ==
  /\ t \in direct
  /\ direct' = direct \ {t}
  /\ Made(t) \/ UNCHANGED effects
  /\ UNCHANGED <<queue, storage, isOnline, network, run, asked, stale, boot, restarts, uncertain, restored>>

DirectNetworkError(t) ==
  /\ t \in direct
  /\ direct' = direct \ {t}
  /\ isOnline' = FALSE
  /\ queue' = Queued(t)
  /\ WalletFails(t)
  /\ UNCHANGED <<storage, network, run, asked, stale, boot, restarts, restored>>

\* removeTransaction() and clearQueue()
RemoveTransactions(S) ==
  /\ Ready
  /\ S \cap Ids(queue) # {}
  /\ queue' = Without(queue, S)
  /\ UNCHANGED <<storage, isOnline, network, run, direct, asked, stale, boot, restarts, history>>

-----------------------------------------------------------------------------
\* processQueue()

Current == Head(run.list).id
Marked(q, t, status, more) ==
  [i \in DOMAIN q |->
     IF q[i].id = t
     THEN [id |-> t, attempts |-> Min({q[i].attempts + more, MAX_ATTEMPTS}),
           status |-> status]
     ELSE q[i]]

\* The loop goes on with `list`, the queue being q, up to its next await: it
\* ends, or drops a stale transaction, or sends one, still queued or not.
\* Attempts beyond MAX_ATTEMPTS are not told apart.
GoOn(q, list, online) ==
  IF list = <<>> \/ ~online THEN queue' = q /\ run' = IdleRun
  ELSE IF Head(list).id \in stale
       THEN queue' = Without(q, {Head(list).id}) /\ run' = [pc |-> "dropped", list |-> Tail(list)]
       ELSE queue' = Marked(q, Head(list).id, "processing", 1) /\ run' = [pc |-> "sending", list |-> list]

\* What processQueue() uses of the transactions it copies.
Copy(q) == [i \in DOMAIN q |-> [id |-> q[i].id, attempts |-> q[i].attempts]]

\* The call of processQueue(): nothing if it runs already.
ProcessQueue(online) ==
  IF run.pc = "idle" /\ online
  THEN GoOn(queue, Copy(queue), online)
  ELSE UNCHANGED <<queue, run>>

Drop ==
  /\ queue' = Without(queue, {Current})
  /\ run' = [pc |-> "dropped", list |-> Tail(run.list)]

\* Mutant: the transaction goes back to the queue.
SentStaysQueued ==
  /\ run.pc = "sending"
  /\ Made(Current)
  /\ queue' = Marked(queue, Current, "pending", 0)
  /\ run' = [run EXCEPT !.pc = "sent"]
  /\ UNCHANGED <<storage, isOnline, network, direct, asked, stale, boot, restarts, uncertain, restored>>

Sent ==
  /\ run.pc = "sending"
  /\ Made(Current)
  /\ queue' = Without(queue, {Current})
  /\ run' = [run EXCEPT !.pc = "sent"]
  /\ UNCHANGED <<storage, isOnline, network, direct, asked, stale, boot, restarts, uncertain, restored>>

\* Mutant: the transaction keeps its status.
NetworkErrorKeepsStatus ==
  /\ run.pc = "sending"
  /\ isOnline' = FALSE
  /\ run' = IdleRun
  /\ WalletFails(Current)
  /\ UNCHANGED <<queue, storage, network, direct, asked, stale, boot, restarts, restored>>

\* The transaction waits for the next run; the payment may have been made.
NetworkError ==
  /\ run.pc = "sending"
  /\ isOnline' = FALSE
  /\ queue' = Marked(queue, Current, "pending", 0)
  /\ run' = IdleRun
  /\ WalletFails(Current)
  /\ UNCHANGED <<storage, network, direct, asked, stale, boot, restarts, restored>>

ConflictError ==
  /\ run.pc = "sending"
  /\ Drop
  /\ WalletFails(Current)
  /\ UNCHANGED <<storage, isOnline, network, direct, asked, stale, boot, restarts, restored>>

\* The attempts so far, of a transaction no longer queued those of the copy.
Attempts ==
  IF Current \in Ids(queue)
  THEN (CHOOSE tx \in ToSet(queue) : tx.id = Current).attempts
  ELSE Head(run.list).attempts + 1

\* Any other error, of the payment or of the notification after it: dropped
\* after MAX_ATTEMPTS, else left for a later run.  What the wallet throws when
\* it waits in vain for a payment it has broadcast is one of these.
OtherError ==
  /\ \/ run.pc = "sending" /\ WalletFails(Current)
     \/ run.pc = "sent" /\ UNCHANGED <<effects, uncertain>>
  /\ IF Attempts >= MAX_ATTEMPTS
     THEN Drop
     ELSE GoOn(Marked(queue, Current, "pending", 0), Tail(run.list), isOnline)
  /\ UNCHANGED <<storage, isOnline, network, direct, asked, stale, boot, restarts, restored>>

\* presentTransactionQueueNotification() returns.
Notified ==
  /\ \/ run.pc = "sent" /\ GoOn(queue, Tail(run.list), isOnline)
     \/ run.pc = "dropped" /\ GoOn(queue, run.list, isOnline)
  /\ UNCHANGED <<storage, isOnline, network, direct, asked, stale, boot, restarts, history>>

\* Mutant: isProcessing stays set when a notification throws.
NotifyThrowsUnreset ==
  /\ run.pc = "dropped"
  /\ run' = [run EXCEPT !.pc = "dead"]
  /\ UNCHANGED <<queue, storage, isOnline, network, direct, asked, stale, boot, restarts, history>>

\* It throws outside the catch of a payment, which ends the run.
NotifyThrows ==
  /\ run.pc = "dropped"
  /\ run' = IdleRun
  /\ UNCHANGED <<queue, storage, isOnline, network, direct, asked, stale, boot, restarts, history>>

-----------------------------------------------------------------------------
\* Connectivity, time, storage

\* The listener is told how the device is connected, which may be as before:
\* only coming back online starts a run.
ConnectivityChanges ==
  /\ "mount" \notin boot
  /\ network' \in BOOLEAN
  /\ isOnline' = network'
  /\ IF ~isOnline /\ network' THEN ProcessQueue(TRUE) ELSE UNCHANGED <<queue, run>>
  /\ UNCHANGED <<storage, direct, asked, stale, boot, restarts, history>>

GrowStale(t) ==
  /\ t \in Ids(queue) /\ t \notin stale
  /\ stale' = stale \cup {t}
  /\ UNCHANGED <<queue, storage, isOnline, network, run, direct, asked, boot, restarts, history>>

\* Every set() saves the queue, the first one as the screens mount: before the
\* saved queue has arrived this overwrites it with the empty one.
Save ==
  /\ "mount" \notin boot
  /\ disk # queue
  /\ disk' = queue
  /\ UNCHANGED <<queue, loading, isOnline, network, run, direct, asked, stale, boot, restarts, history>>

\* The app is killed, in the middle of payments, and started again.
Restart ==
  LET pending == direct \cup (IF run.pc = "sending" THEN {Current} ELSE {}) IN
  /\ restarts < MaxRestarts
  /\ restarts' = restarts + 1
  /\ \E made \in SUBSET pending :
        /\ effects' = [t \in Txs |-> IF t \in made THEN Min({effects[t] + 1, 2}) ELSE effects[t]]
        /\ uncertain' = uncertain \cup {t \in Ids(disk) : effects'[t] > 0}
  /\ restored' = Ids(disk)
  /\ loading' = disk
  /\ queue' = <<>>
  /\ run' = IdleRun
  /\ direct' = {}
  /\ isOnline' = TRUE
  /\ boot' = BootSteps
  /\ UNCHANGED <<disk, network, asked, stale>>

\* The hook: refreshConnectivity() and processQueue() as the screens mount.
Mount ==
  /\ "mount" \in boot
  /\ boot' = (boot \ {"mount"}) \cup {"refresh"}
  /\ ProcessQueue(isOnline)
  /\ UNCHANGED <<storage, isOnline, network, direct, asked, stale, restarts, history>>

\* The saved queue arrives, or could not be read; onRehydrateStorage calls
\* refreshConnectivity().
Hydrate ==
  /\ "hydrate" \in boot
  /\ boot' = (boot \ {"hydrate"}) \cup {"refresh"}
  /\ queue' \in {loading, <<>>}
  /\ loading' = <<>>
  /\ UNCHANGED <<disk, isOnline, network, run, direct, asked, stale, restarts, history>>

RefreshConnectivity ==
  /\ "refresh" \in boot
  /\ boot' = boot \ {"refresh"}
  /\ isOnline' = network
  /\ IF ~isOnline /\ network THEN ProcessQueue(TRUE) ELSE UNCHANGED <<queue, run>>
  /\ UNCHANGED <<storage, network, direct, asked, stale, restarts, history>>

-----------------------------------------------------------------------------
RunStep ==
  \/ Sent \/ NetworkError \/ ConflictError \/ OtherError
  \/ Notified \/ NotifyThrows
BootStep == Mount \/ Hydrate \/ RefreshConnectivity

Next ==
  \/ RunStep
  \/ BootStep
  \/ \E t \in Txs :
        \/ ExecuteOffline(t) \/ ExecuteDirectly(t) \/ DirectEnds(t) \/ DirectNetworkError(t)
        \/ RemoveTransactions({t}) \/ GrowStale(t)
  \/ RemoveTransactions(Txs)
  \/ ConnectivityChanges
  \/ Save
  \/ Restart

\* Notifications and the start of the app come to an end, and time passes.  No
\* fairness of wallet calls or of connectivity.
NotifyStep == Notified \/ NotifyThrows
Spec ==
  /\ Init /\ [][Next]_vars
  /\ WF_vars(NotifyStep) /\ WF_vars(BootStep)
  /\ \A t \in Txs : WF_vars(GrowStale(t))

-----------------------------------------------------------------------------
\* Properties

\* A payment is made twice only if it had been made when its call ended in an
\* error or when it was read back from disk: after a call that reported success
\* no order of direct calls, runs, replacements and removals sends it again.
SentOnceUnlessUncertain ==
  \A t \in Txs : effects[t] > 1 => t \in uncertain

\* A queued payment that is marked as processing is in hand, except when the
\* mark was read back from disk: every way out of processQueue() resets it.
ProcessingIsInHand ==
  \A i \in DOMAIN queue : queue[i].status = "processing" =>
     \/ run.pc = "sending" /\ queue[i].id = Current
     \/ queue[i].id \in restored

\* If the listener keeps being called and no wallet call hangs for ever, no
\* payment stays queued for ever, whatever the wallet answers: it is sent,
\* dropped or stale in the end.
Drains ==
  []<><<ConnectivityChanges>>_vars /\ []<>(run.pc # "sending") =>
    \A t \in Txs : t \in Ids(queue) ~> t \notin Ids(queue)

=============================================================================
