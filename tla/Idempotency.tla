---------------------------- MODULE Idempotency -----------------------------
(***************************************************************************)
(* Idempotent requests (backend/services/idempotencyService.ts and         *)
(* idempotencyMiddleware.ts).                                              *)
(*                                                                         *)
(* The service runs in one event loop: a request runs without interruption *)
(* from its arrival to the await of its operation (or to next()), and      *)
(* again from the end of the operation.  These two stretches are the       *)
(* actions; between them anything else may happen.                         *)
(*                                                                         *)
(* The response of an operation is represented by the request that ran it. *)
(* A Map keeps its keys in insertion order: a record carries the number of *)
(* its insertion.  The request that created a record stands for the object *)
(* identity by which execute() still reaches the record after the await.   *)
(*                                                                         *)
(* Requests carry payloads, records only hashes of them.  hashRequest      *)
(* serialises the top-level properties and those nested properties whose   *)
(* names also occur at the top, and folds the text into 32 bits: it is any *)
(* function, and payloads that differ may have one hash.                   *)
(***************************************************************************)
EXTENDS Integers, FiniteSets

CONSTANTS
  Requests,   \* the requests that arrive
  NoRequest,
  Keys,       \* idempotency keys
  Payloads,   \* request bodies
  Hashes,     \* their hashes
  hashRequest,\* the hash of every payload
  MAX_KEYS,
  EvictCount, \* Math.floor(MAX_KEYS * 0.1)
  WINDOW,     \* windowMs
  MaxTime     \* bound on the clock

ASSUME IdempotencyAssumption ==
  /\ NoRequest \notin Requests
  /\ hashRequest \in [Payloads -> Hashes]
  /\ MAX_KEYS \in Nat /\ EvictCount \in Nat
  /\ WINDOW \in Nat /\ MaxTime \in Nat

VARIABLES
  now,      \* Date.now()
  store,    \* the Map of the service
  inserted, \* number of insertions so far
  request,  \* what became of every request
  evicted,  \* history: keys a record of which was evicted or cleaned up
  lost      \* history: keys that lost a pending record that way

vars == <<now, store, inserted, request, evicted, lost>>

NoRecord == [hash |-> NoRequest, status |-> "absent", response |-> NoRequest,
             createdAt |-> 0, owner |-> NoRequest, position |-> 0]

NewRecord(r, h) ==
  [hash |-> h, status |-> "pending", response |-> NoRequest,
   createdAt |-> now, owner |-> r, position |-> inserted + 1]

NotArrived == [via |-> "none", key |-> NoRequest, payload |-> NoRequest,
               status |-> "waiting", response |-> NoRequest]

Present(k) == store[k].status # "absent"
Size == Cardinality({k \in Keys : Present(k)})

Init ==
  /\ now = 0
  /\ store = [k \in Keys |-> NoRecord]
  /\ inserted = 0
  /\ request = [r \in Requests |-> NotArrived]
  /\ evicted = {}
  /\ lost = {}

-----------------------------------------------------------------------------

\* enforceStorageLimit: the EvictCount oldest records, if the store is full.
Oldest ==
  {k \in Keys : Present(k) /\
     Cardinality({j \in Keys : Present(j) /\
                               store[j].position < store[k].position})
       < EvictCount}

Overflow == IF Size >= MAX_KEYS THEN Oldest ELSE {}

\* The store without the records of ks.
Without(ks) == [k \in Keys |-> IF k \in ks THEN NoRecord ELSE store[k]]

\* The history of records that were dropped without their request's doing.
Dropped(ks) ==
  /\ evicted' = evicted \cup ks
  /\ lost' = lost \cup {k \in ks : store[k].status = "pending"}

Arrived(via, k, p, status, response) ==
  [via |-> via, key |-> k, payload |-> p, status |-> status, response |-> response]

\* Mutant: the payload of an earlier request with the key is not compared.
OutcomeIgnoringHash(rec, h) ==
  IF rec.status = "pending" THEN "in_flight"
  ELSE IF rec.status = "completed" THEN "replayed" ELSE "running"

\* Mutant: a request under way does not stop another.
OutcomeIgnoringPending(rec, h) ==
  IF rec.status = "absent" \/ rec.status = "pending" THEN "running"
  ELSE IF rec.hash # h THEN "collision" ELSE "replayed"

\* What an arriving request meets under its key.
Outcome(rec, h) ==
  IF rec.status = "absent" THEN "running"
  ELSE IF rec.hash # h THEN "collision"
  ELSE IF rec.status = "pending" THEN "in_flight" ELSE "replayed"

\* A request with key k and payload p arrives; drop is evicted first.
Arrive(r, via, k, p, drop) ==
  LET kept == Without(drop)
      outcome == Outcome(kept[k], hashRequest[p])
  IN
  /\ request[r].status = "waiting"
  /\ request' = [request EXCEPT ![r] =
       Arrived(via, k, p, outcome,
               IF outcome = "replayed" THEN kept[k].response ELSE NoRequest)]
  /\ IF outcome = "running"
     THEN /\ store' = [kept EXCEPT ![k] = NewRecord(r, hashRequest[p])]
          /\ inserted' = inserted + 1
     ELSE store' = kept /\ UNCHANGED inserted
  /\ Dropped(drop)
  /\ UNCHANGED now

\* execute() makes room before it looks the key up.
Execute(r, k, p) == Arrive(r, "execute", k, p, Overflow)

\* The middleware looks the key up first, and registerPending makes room only
\* for a request that is let through.
Middleware(r, k, p) ==
  Arrive(r, "middleware", k, p, IF Present(k) THEN {} ELSE Overflow)

Ended(r, status, response) ==
  /\ request' = [request EXCEPT ![r] =
       [@ EXCEPT !.status = status, !.response = response]]
  /\ UNCHANGED <<now, inserted, evicted, lost>>

\* execute() completes the record it made, complete() the one under the key.
Completes(r) ==
  LET rec == store[request[r].key] IN
  IF request[r].via = "execute" THEN rec.owner = r ELSE rec.status = "pending"

\* The operation succeeds (the handler answers 2xx).
Succeed(r) ==
  LET k == request[r].key IN
  /\ request[r].status = "running"
  /\ store' = IF Completes(r)
              THEN [store EXCEPT ![k] =
                     [@ EXCEPT !.status = "completed", !.response = r]]
              ELSE store
  /\ Ended(r, "succeeded", r)

\* Mutant: the record of a failed request is kept.
KeepFailed(k) == store

\* this.store.delete(key)
Delete(k) == Without({k})

\* The operation of execute() throws, or the handler answers otherwise with
\* res.json: the key is freed.
Fail(r) ==
  /\ request[r].status = "running"
  /\ store' = Delete(request[r].key)
  /\ Ended(r, "failed", NoRequest)

\* A handler behind the middleware ends past the wrapped res.json: it throws
\* to Express, answers with send or end, or the connection is given up.  The
\* record is neither completed nor freed; the operation may have succeeded.
EndUnrecorded(r) ==
  /\ request[r].status = "running"
  /\ request[r].via = "middleware"
  /\ UNCHANGED store
  /\ Ended(r, "unrecorded", NoRequest)

\* cleanup(), on its timer.
Cleanup ==
  LET stale == {k \in Keys : Present(k) /\ store[k].createdAt < now - WINDOW}
  IN
  /\ stale # {}
  /\ store' = Without(stale)
  /\ Dropped(stale)
  /\ UNCHANGED <<now, inserted, request>>

Tick ==
  /\ now < MaxTime
  /\ now' = now + 1
  /\ UNCHANGED <<store, inserted, request, evicted, lost>>

Next ==
  \/ \E r \in Requests, k \in Keys, p \in Payloads : Execute(r, k, p)
  \/ \E r \in Requests, k \in Keys, p \in Payloads : Middleware(r, k, p)
  \/ \E r \in Requests : Succeed(r)
  \/ \E r \in Requests : Fail(r)
  \/ \E r \in Requests : EndUnrecorded(r)
  \/ Cleanup
  \/ Tick

Spec == Init /\ [][Next]_vars

-----------------------------------------------------------------------------
(* Properties *)

Running(r) == request[r].status = "running"
Succeeded(r) == request[r].status = "succeeded"

\* A handler that ended past res.json.
Unrecorded(r) == request[r].status = "unrecorded" /\ request[r].via = "middleware"

\* Every pending record belongs to a request with its key that is still
\* running, or whose handler ended past the middleware's res.json: whatever
\* execute() was asked for, and whatever was answered through res.json, leaves
\* no key blocked.
PendingIsRunning ==
  \A k \in Keys : store[k].status = "pending" =>
    /\ store[k].owner \in Requests
    /\ Running(store[k].owner) \/ Unrecorded(store[k].owner)
    /\ request[store[k].owner].key = k

\* Two operations run under one key at once only if the pending record of the
\* first was evicted or cleaned up.
SingleFlight ==
  \A r, s \in Requests :
    /\ Running(r) /\ Running(s) /\ r # s
    /\ request[r].key = request[s].key
    => request[r].key \in lost

\* A payment is made twice under one key, an unrecorded end counting as a
\* payment, only if a record of that key was evicted or cleaned up in between.
AtMostOnce ==
  \A r, s \in Requests :
    /\ Succeeded(r) \/ Unrecorded(r)
    /\ Succeeded(s) \/ Unrecorded(s)
    /\ r # s
    /\ request[r].key = request[s].key
    => request[r].key \in evicted

\* The hash the service knows request r by.
HashOf(r) == hashRequest[request[r].payload]

\* A replayed response is that of a successful request with the same key; and
\* with a payload of the same hash too, unless complete() filled in the record
\* of another request after the key had lost a pending one.  Payloads that
\* hashRequest does not tell apart are answered with each other's response.
ReplayFaithful ==
  \A r \in Requests : request[r].status = "replayed" =>
    LET s == request[r].response IN
    /\ s \in Requests
    /\ Succeeded(s)
    /\ request[s].key = request[r].key
    /\ \/ HashOf(s) = HashOf(r)
       \/ request[s].via = "middleware" /\ request[r].key \in lost

=============================================================================
