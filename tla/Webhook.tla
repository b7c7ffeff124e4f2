------------------------------ MODULE Webhook -------------------------------
(***************************************************************************)
(* Webhook delivery (backend/services/notification/webhook.ts) with its    *)
(* worker (jobs/deliveryWorker.ts) and its clean-up job                    *)
(* (jobs/dlqCleanupJob.ts).                                                *)
(*                                                                         *)
(* A delivery is sent by a loop that tries, sleeps and tries again.  Three *)
(* callers run loops: the call that created the delivery ("first"), a      *)
(* manual retry ("manual"), and the worker, which takes up deliveries that *)
(* are due.  Every loop keeps the delivery and the webhook it was started  *)
(* with, and writes the shared maps from those copies after each await.    *)
(* Actions are the stretches of code between two awaits.                   *)
(*                                                                         *)
(* Whether the rate limit is reached, when a retry is due and how old a    *)
(* dead letter is are choices: they depend on the clock.  Payloads,        *)
(* signatures, secrets and the statistics of a webhook are left out.       *)
(***************************************************************************)
EXTENDS Integers, FiniteSets

CONSTANTS
  Webhooks, Keys,
  Deliveries,  \* numbered in the order of their creation
  NoKey,       \* the key of a delivery whose key no other event can have
  Worker,      \* the delivery worker's loop
  maxRetries,  \* the most retries any retry policy allows
  MaxCalls     \* bound on tests, manual retries, updates, health checks, clean-ups

ASSUME WebhookAssumption ==
  /\ Deliveries \subseteq Nat \ {0}
  /\ NoKey \notin Keys
  /\ Worker \notin Deliveries \X {"first", "manual"}
  /\ maxRetries \in Nat /\ MaxCalls \in Nat

VARIABLES
  webhook,        \* what the map has for each webhook, see below
  delivery,       \* [status, attempts, nextRetryAt, webhook, key] of each delivery
  deadLetters,
  deliveredKeys,  \* the keys delivered within the window
  loop,           \* the sendWithRetry loops: [pc, delivery, attempt, intact, result]
  due,            \* the rest of the list processDueRetries() works on
  checking,       \* the copy of the webhook a health check will write back
  calls,          \* how many of the calls MaxCalls bounds there have been
  overlapped,     \* history: deliveries two loops have worked on at once
  accepted        \* history: keys of the deliveries an endpoint has accepted

service == <<webhook, deadLetters, deliveredKeys, due, checking>>
history == <<overlapped, accepted>>
vars == <<service, delivery, loop, calls, history>>

\* A webhook is "active", "paused" or "absent" from the map, or "leftover": only
\* the statistics a loop wrote after it was deleted, without a retry policy, or
\* "patched": a leftover to which updateWebhook() has given a policy, perhaps a URL.

Callers == {"first", "manual"}
Loops == (Deliveries \X Callers) \cup {Worker}
NoWebhook == "no webhook"
NoDelivery == 0
NewDelivery == [status |-> "none", attempts |-> 0, nextRetryAt |-> "unset",
                webhook |-> NoWebhook, key |-> NoKey]
IdleLoop == [pc |-> "idle", delivery |-> NoDelivery, attempt |-> 0,
             intact |-> TRUE, result |-> "none"]

maxAttempts == maxRetries + 1

Init ==
  /\ webhook = [w \in Webhooks |-> "active"]
  /\ delivery = [d \in Deliveries |-> NewDelivery]
  /\ deadLetters = {}
  /\ deliveredKeys = {}
  /\ loop = [l \in Loops |-> IdleLoop]
  /\ due = [d \in {} |-> 0]
  /\ calls = 0
  /\ checking = [w \in Webhooks |-> "absent"]
  /\ overlapped = {}
  /\ accepted = {}

-----------------------------------------------------------------------------
\* sendWithRetry().  A loop keeps the retry policy it was started with, which
\* updateWebhook() may change from one loop to the next: how many attempts up to
\* maxAttempts it has is a choice.

BusyOn(d) == {l \in Loops : loop[l].pc # "idle" /\ loop[l].delivery = d}
Exists(d) == delivery[d].status \notin {"none", "purged"}
HasPolicy(w) == webhook[w] \in {"active", "paused", "patched"}
Intact(w) == webhook[w] \in {"active", "paused"}

\* A delivery whose progress is written; its webhook and its key never change.
Written(rec, status, attempts, nextRetryAt) ==
  [status |-> status, attempts |-> attempts, nextRetryAt |-> nextRetryAt,
   webhook |-> rec.webhook, key |-> rec.key]

\* A loop writes the delivery it was started with.  Only the worker is started
\* with a time of retry, which has passed.
Record(l, rec, status, attempts) ==
  Written(rec, status, attempts, IF l = Worker THEN "due" ELSE "unset")

\* The next attempt of loop l, in the state it has after it.
Attempt(l, d, rec, attempt, intact) ==
  /\ delivery' = [delivery EXCEPT ![d] =
        Record(l, rec, IF attempt = 1 THEN "pending" ELSE "retrying", attempt)]
  /\ loop' = [loop EXCEPT ![l] =
        [pc |-> "fetching", delivery |-> d, attempt |-> attempt,
         intact |-> intact, result |-> "none"]]

\* The start of a loop for a delivery that has been tried `attempts` times.
SendWithRetry(l, d, rec, attempts) ==
  /\ Attempt(l, d, rec, attempts + 1, Intact(rec.webhook))
  /\ overlapped' = IF BusyOn(d) = {} THEN overlapped ELSE overlapped \cup {d}

\* ... or that has no attempt left under a policy lowered since: the failure
\* after the while loop.
NoAttemptLeft(d, attempts) ==
  /\ attempts > 0
  /\ delivery' = [delivery EXCEPT ![d] = Written(@, "failed", attempts, "due")]
  /\ deadLetters' = deadLetters \cup {d}
  /\ overlapped' = IF BusyOn(d) = {} THEN overlapped ELSE overlapped \cup {d}

\* A loop that is over, while the call that awaits it has not gone on yet.
Returning(lp, result) ==
  [pc |-> "returning", delivery |-> lp.delivery, attempt |-> lp.attempt,
   intact |-> lp.intact, result |-> result]

\* Mutant: a success leaves the dead letter.
FinalizeKeepingLetter(l, status, webhookAfter) ==
  LET d == loop[l].delivery
      w == delivery[d].webhook
      at == IF webhookAfter = "absent" /\ loop[l].intact THEN "leftover" ELSE webhookAfter
  IN /\ delivery' = [delivery EXCEPT ![d] = Record(l, @, status, loop[l].attempt)]
     /\ deadLetters' = IF status = "failed" THEN deadLetters \cup {d} ELSE deadLetters
     /\ webhook' = [webhook EXCEPT ![w] = at]
     /\ loop' = [loop EXCEPT ![l] = IF l = Worker THEN IdleLoop ELSE Returning(@, status)]

\* finalizeDelivery(): the loop is over; a caller that awaits it still has its
\* own writes to do.  The statistics written bring back part of a webhook that
\* has been deleted.
FinalizeDelivery(l, status, webhookAfter) ==
  LET d == loop[l].delivery
      w == delivery[d].webhook
      at == IF webhookAfter = "absent" /\ loop[l].intact THEN "leftover" ELSE webhookAfter
  IN /\ delivery' = [delivery EXCEPT ![d] = Record(l, @, status, loop[l].attempt)]
     /\ deadLetters' = IF status = "failed" THEN deadLetters \cup {d} ELSE deadLetters \ {d}
     /\ webhook' = [webhook EXCEPT ![w] = at]
     /\ loop' = [loop EXCEPT ![l] = IF l = Worker THEN IdleLoop ELSE Returning(@, status)]

\* The endpoint accepts the event.
AnswerOk(l) ==
  /\ loop[l].pc = "fetching"
  /\ FinalizeDelivery(l, "delivered", webhook[delivery[loop[l].delivery].webhook])
  /\ accepted' = accepted \cup ({delivery[loop[l].delivery].key} \ {NoKey})
  /\ UNCHANGED <<deliveredKeys, due, checking, overlapped>>

\* 410: the webhook the loop was started with is written back, disabled; a
\* patched leftover has no id to write it to.
AnswerGone(l) ==
  /\ loop[l].pc = "fetching"
  /\ FinalizeDelivery(l, "failed",
        IF loop[l].intact THEN "paused" ELSE webhook[delivery[loop[l].delivery].webhook])
  /\ UNCHANGED <<deliveredKeys, due, checking, history>>

\* Any other answer, or none: the last attempt fails the delivery.
LastAttemptFails(l) ==
  /\ loop[l].pc = "fetching"
  /\ FinalizeDelivery(l, "failed", webhook[delivery[loop[l].delivery].webhook])
  /\ UNCHANGED <<deliveredKeys, due, checking, history>>

AttemptFails(l) ==
  LET d == loop[l].delivery IN
  /\ loop[l].pc = "fetching"
  /\ loop[l].attempt < maxAttempts
  /\ delivery' = [delivery EXCEPT ![d] = Written(@, "retrying", loop[l].attempt, "later")]
  /\ loop' = [loop EXCEPT ![l].pc = "sleeping"]
  /\ UNCHANGED <<service, history>>

Wake(l) ==
  LET d == loop[l].delivery IN
  /\ loop[l].pc = "sleeping"
  /\ Attempt(l, d, delivery[d], loop[l].attempt + 1, loop[l].intact)
  /\ UNCHANGED <<service, history>>

\* Mutant: the key is recorded whatever the result.
ReturnAnyKey(l) ==
  LET d == loop[l].delivery IN
  /\ loop[l].pc = "returning"
  /\ delivery' = [delivery EXCEPT ![d] = Record(l, @, loop[l].result, loop[l].attempt)]
  /\ deliveredKeys' = deliveredKeys \cup ({delivery[d].key} \ {NoKey})
  /\ loop' = [loop EXCEPT ![l] = IdleLoop]
  /\ UNCHANGED <<webhook, deadLetters, due, checking, history>>

\* deliverEvent() and retryWebhookDelivery() after the await: the result is
\* written once more, and its key recorded.
Return(l) ==
  LET d == loop[l].delivery IN
  /\ loop[l].pc = "returning"
  /\ delivery' = [delivery EXCEPT ![d] = Record(l, @, loop[l].result, loop[l].attempt)]
  /\ deliveredKeys' = IF loop[l].result = "delivered"
                      THEN deliveredKeys \cup ({delivery[d].key} \ {NoKey})
                      ELSE deliveredKeys
  /\ loop' = [loop EXCEPT ![l] = IdleLoop]
  /\ UNCHANGED <<webhook, deadLetters, due, checking, history>>

-----------------------------------------------------------------------------
\* Events

\* createId(): deliveries take their names in order.
Fresh(d) == delivery[d].status = "none" /\ \A e \in Deliveries : e < d => delivery[e].status # "none"

Created(d, w, k, status, nextRetryAt) ==
  /\ Fresh(d)
  /\ delivery' = [delivery EXCEPT ![d] =
        [status |-> status, attempts |-> 0, nextRetryAt |-> nextRetryAt,
         webhook |-> w, key |-> k]]

\* deliverEvent() of an event whose key has been delivered.
SkipEvent(d, w, k) ==
  /\ webhook[w] = "active"
  /\ k \in deliveredKeys
  /\ Created(d, w, k, "skipped", "unset")
  /\ UNCHANGED <<service, loop, history>>

\* Mutant: no time of retry is set.
DeferWithoutTime(d, w, k) ==
  /\ webhook[w] = "active"
  /\ k \notin deliveredKeys
  /\ Created(d, w, k, "retrying", "unset")
  /\ UNCHANGED <<service, loop, history>>

\* deliverEvent() above the rate limit: left to the worker.
DeferEvent(d, w, k) ==
  /\ webhook[w] = "active"
  /\ k \notin deliveredKeys
  /\ Created(d, w, k, "retrying", "later")
  /\ UNCHANGED <<service, loop, history>>

FirstLoop(d, w, k) ==
  /\ Fresh(d)
  /\ SendWithRetry(<<d, "first">>, d, [webhook |-> w, key |-> k], 0)
  /\ UNCHANGED <<service, accepted>>

DeliverEvent(d, w, k) ==
  /\ webhook[w] = "active"
  /\ k \notin deliveredKeys
  /\ FirstLoop(d, w, k)

\* testWebhook(): neither the pause, the keys nor the rate limit are asked.
TestWebhook(d, w) ==
  /\ Intact(w)
  /\ FirstLoop(d, w, NoKey)

\* retryWebhookDelivery() of any delivery, whoever works on it.
RetryWebhookDelivery(d) ==
  /\ Exists(d)
  /\ HasPolicy(delivery[d].webhook)
  /\ loop[<<d, "manual">>].pc = "idle"
  /\ SendWithRetry(<<d, "manual">>, d, delivery[d], 0)
  /\ UNCHANGED <<service, accepted>>

\* ... for a leftover: it throws once the delivery has been restarted.
RetryThrows(d) ==
  /\ Exists(d)
  /\ webhook[delivery[d].webhook] = "leftover"
  /\ delivery' = [delivery EXCEPT ![d] = Written(@, "retrying", 0, "unset")]
  /\ UNCHANGED <<service, loop, history>>

ReplayDeadLetter(d) ==
  /\ d \in deadLetters
  /\ RetryWebhookDelivery(d) \/ RetryThrows(d)

-----------------------------------------------------------------------------
\* The worker

DueRetries == {d \in Deliveries : /\ delivery[d].status = "retrying"
                                  /\ d \notin deadLetters
                                  /\ delivery[d].nextRetryAt = "due"}

\* The deliveries of a list that processDueRetries() does not pass over.
Kept(S) == {d \in S : webhook[delivery[d].webhook] # "absent"}

\* processDueRetries() reaches d, tried `attempts` times when the list was
\* made, with `rest` still to come.  A leftover ends the whole tick.
Process(d, attempts, rest) ==
  \/ /\ HasPolicy(delivery[d].webhook)
     /\ due' = rest
     /\ SendWithRetry(Worker, d, delivery[d], attempts)
     /\ UNCHANGED <<webhook, deadLetters, deliveredKeys, checking, accepted>>
  \/ /\ HasPolicy(delivery[d].webhook)
     /\ due' = rest
     /\ NoAttemptLeft(d, attempts)
     /\ UNCHANGED <<webhook, deliveredKeys, loop, checking, accepted>>
  \/ /\ webhook[delivery[d].webhook] = "leftover"
     /\ due' = [x \in {} |-> 0]
     /\ UNCHANGED <<webhook, delivery, deadLetters, deliveredKeys, loop, checking, history>>

AttemptsOf(S) == [x \in S |-> delivery[x].attempts]

\* DeliveryWorker.tick(), which skips overlapping ticks.
Tick ==
  /\ loop[Worker].pc = "idle"
  /\ DOMAIN due = {}
  /\ \E d \in Kept(DueRetries) :
        Process(d, delivery[d].attempts, AttemptsOf(DueRetries \ {d}))

TickContinues ==
  /\ loop[Worker].pc = "idle"
  /\ \E d \in Kept(DOMAIN due) :
        Process(d, due[d], [x \in DOMAIN due \ {d} |-> due[x]])

TickEnds ==
  /\ loop[Worker].pc = "idle"
  /\ DOMAIN due # {} /\ Kept(DOMAIN due) = {}
  /\ due' = [x \in {} |-> 0]
  /\ UNCHANGED <<webhook, delivery, deadLetters, deliveredKeys, loop, checking, history>>

-----------------------------------------------------------------------------
\* The clock

RetryDue(d) ==
  /\ delivery[d].nextRetryAt = "later"
  /\ delivery' = [delivery EXCEPT ![d].nextRetryAt = "due"]
  /\ UNCHANGED <<service, loop, history>>

\* The window of a key ends: isWithinIdempotencyWindow() or the clean-up job
\* deletes it before it is used again.
KeyExpires(k) ==
  /\ k \in deliveredKeys
  /\ deliveredKeys' = deliveredKeys \ {k}
  /\ UNCHANGED <<webhook, delivery, deadLetters, loop, due, checking, history>>

\* cleanupDeadLetters(): a letter just written is not old enough.
PurgeDeadLetter(d) ==
  /\ d \in deadLetters
  /\ \A l \in BusyOn(d) : loop[l].pc # "returning"
  /\ deadLetters' = deadLetters \ {d}
  /\ delivery' = [delivery EXCEPT ![d] = Written(@, "purged", 0, "unset")]
  /\ UNCHANGED <<webhook, deliveredKeys, loop, due, checking, history>>

-----------------------------------------------------------------------------
\* Management of a webhook

SetWebhook(w, state) ==
  /\ webhook' = [webhook EXCEPT ![w] = state]
  /\ UNCHANGED <<delivery, deadLetters, deliveredKeys, loop, due, checking, history>>

UpdateWebhook(w, isPaused) ==
  /\ webhook[w] # "absent"
  /\ SetWebhook(w, IF ~Intact(w) THEN "patched" ELSE IF isPaused THEN "paused" ELSE "active")

ResumeWebhook(w) ==
  /\ Intact(w)
  /\ SetWebhook(w, "active")

DeleteWebhook(w) ==
  /\ webhook[w] # "absent"
  /\ SetWebhook(w, "absent")

\* checkWebhookHealth() writes back the webhook it read before its request.
StartHealthCheck(w) ==
  /\ webhook[w] # "absent"
  /\ checking[w] = "absent"
  /\ checking' = [checking EXCEPT ![w] = webhook[w]]
  /\ UNCHANGED <<webhook, delivery, deadLetters, deliveredKeys, loop, due, history>>

FinishHealthCheck(w) ==
  /\ checking[w] # "absent"
  /\ webhook' = [webhook EXCEPT ![w] = checking[w]]
  /\ checking' = [checking EXCEPT ![w] = "absent"]
  /\ UNCHANGED <<delivery, deadLetters, deliveredKeys, loop, due, history>>

-----------------------------------------------------------------------------
LoopStep(l) ==
  /\ AnswerOk(l) \/ AnswerGone(l) \/ LastAttemptFails(l) \/ AttemptFails(l) \/ Wake(l) \/ Return(l)
  /\ UNCHANGED calls

WorkerStep == (Tick \/ TickContinues \/ TickEnds) /\ UNCHANGED calls

Event ==
  /\ \E d \in Deliveries, w \in Webhooks, k \in Keys :
        SkipEvent(d, w, k) \/ DeferEvent(d, w, k) \/ DeliverEvent(d, w, k)
  /\ UNCHANGED calls

\* What merchants, operators and the clean-up job call.  (A webhook can be
\* deleted besides, so that what happens to its remains is within the bound.)
Call ==
  /\ calls < MaxCalls
  /\ calls' = calls + 1
  /\ \/ \E d \in Deliveries, w \in Webhooks : TestWebhook(d, w)
     \/ \E d \in Deliveries :
           RetryWebhookDelivery(d) \/ RetryThrows(d) \/ ReplayDeadLetter(d) \/ PurgeDeadLetter(d)
     \/ \E k \in Keys : KeyExpires(k)
     \/ \E w \in Webhooks :
           \/ \E isPaused \in BOOLEAN : UpdateWebhook(w, isPaused)
           \/ ResumeWebhook(w) \/ StartHealthCheck(w)

Next ==
  \/ \E l \in Loops : LoopStep(l)
  \/ WorkerStep
  \/ Event
  \/ Call
  \/ (\E d \in Deliveries : RetryDue(d)) /\ UNCHANGED calls
  \/ (\E w \in Webhooks : DeleteWebhook(w) \/ FinishHealthCheck(w)) /\ UNCHANGED calls

\* Requests and sleeps end, the interval of the worker calls it, time passes.
Spec ==
  /\ Init /\ [][Next]_vars
  /\ \A l \in Loops : WF_vars(LoopStep(l))
  /\ WF_vars(WorkerStep)
  /\ \A d \in Deliveries : WF_vars(RetryDue(d) /\ UNCHANGED calls)

-----------------------------------------------------------------------------
\* Properties

Resting(d) == BusyOn(d) = {}

\* Restarted by retryWebhookDelivery(), which then threw: never due again.
Stranded(d) == delivery[d].status = "retrying" /\ delivery[d].nextRetryAt = "unset"

\* An event is skipped as a duplicate only if a delivery with its key was
\* accepted: deliverEvent()'s check never swallows an event nobody received.
SkippedOnlyIfAccepted ==
  \A d \in Deliveries : delivery[d].status = "skipped" => delivery[d].key \in accepted

\* Unless two loops worked on a delivery at once, the dead letters are exactly
\* the failed deliveries once nobody works on them; the exception is a letter
\* stranded by a retry that threw.
DeadLettersMatch ==
  \A d \in Deliveries : Resting(d) /\ d \notin overlapped =>
     /\ delivery[d].status = "failed" => d \in deadLetters
     /\ d \in deadLetters => delivery[d].status = "failed" \/ Stranded(d)

Unsettled(d) == delivery[d].status \in {"pending", "retrying"}

\* While no webhook is deleted every delivery is delivered or dead-lettered in
\* the end, through sleeps, a worker that works on old lists, manual retries,
\* pauses and overlapping loops: sendWithRetry() and processDueRetries().
Settles ==
  [](\A w \in Webhooks : Intact(w)) =>
     \A d \in Deliveries : Unsettled(d) ~> ~Unsettled(d)

=============================================================================
