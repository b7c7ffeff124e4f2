------------------------- MODULE IdempotencyProofs --------------------------
(***************************************************************************)
(* The guarantees of the idempotency service, proved for any number of     *)
(* requests, keys and payloads, any capacity and any window.               *)
(***************************************************************************)
EXTENDS Idempotency, TLAPS

RecordType ==
  [hash : Hashes \cup {NoRequest}, status : {"absent", "pending", "completed"},
   response : Requests \cup {NoRequest}, createdAt : Int,
   owner : Requests \cup {NoRequest}, position : Int]

RequestType ==
  [via : {"none", "execute", "middleware"}, key : Keys \cup {NoRequest},
   payload : Payloads \cup {NoRequest},
   status : {"waiting", "running", "succeeded", "failed", "unrecorded",
             "collision", "in_flight", "replayed"},
   response : Requests \cup {NoRequest}]

IdempotencyType ==
  /\ now \in Nat /\ inserted \in Nat
  /\ store \in [Keys -> RecordType]
  /\ request \in [Requests -> RequestType]
  /\ lost \subseteq evicted

\* A request that runs, has succeeded or ended unrecorded has a key and came by one of the two
\* ways.
HasKey ==
  \A r \in Requests : Running(r) \/ Succeeded(r) \/ Unrecorded(r) =>
    request[r].key \in Keys /\ request[r].via \in {"execute", "middleware"}

\* A request in a state in which its record may be pending.
Pends(q) ==
  \/ q.status = "running"
  \/ q.status = "unrecorded" /\ q.via = "middleware"

\* A record is that of its owner's key and payload.
RecordOfOwner ==
  \A k \in Keys : Present(k) =>
    /\ store[k].owner \in Requests
    /\ request[store[k].owner].status # "waiting"
    /\ request[store[k].owner].key = k
    /\ HashOf(store[k].owner) = store[k].hash

\* No request is reached through a key that is not stored.
AbsentUnowned ==
  \A k \in Keys : ~Present(k) => store[k].owner = NoRequest

\* As long as its key lost nothing, a running request owns the pending record.
RunningOwns ==
  \A r \in Requests : Running(r) /\ request[r].key \notin lost =>
    /\ store[request[r].key].status = "pending"
    /\ store[request[r].key].owner = r

\* As long as its key was not evicted, a success is what is replayed.
SuccessKept ==
  \A r \in Requests : Succeeded(r) /\ request[r].key \notin evicted =>
    /\ store[request[r].key].status = "completed"
    /\ store[request[r].key].response = r

\* As long as its key was not evicted, an unrecorded end keeps its record.
UnrecordedKept ==
  \A r \in Requests : Unrecorded(r) /\ request[r].key \notin evicted =>
    /\ store[request[r].key].status = "pending"
    /\ store[request[r].key].owner = r

\* s may be replayed to a request with key k and a payload of hash h.
Replayable(s, k, h) ==
  /\ s \in Requests
  /\ Succeeded(s)
  /\ request[s].key = k
  /\ HashOf(s) = h \/ (request[s].via = "middleware" /\ k \in lost)

CompletedReplayable ==
  \A k \in Keys : store[k].status = "completed" =>
    Replayable(store[k].response, k, store[k].hash)

ReplayedReplayable ==
  \A r \in Requests : request[r].status = "replayed" =>
    Replayable(request[r].response, request[r].key, HashOf(r))

IInv ==
  /\ IdempotencyType
  /\ HasKey
  /\ PendingIsRunning
  /\ RecordOfOwner
  /\ AbsentUnowned
  /\ RunningOwns
  /\ SuccessKept
  /\ UnrecordedKept
  /\ CompletedReplayable
  /\ ReplayedReplayable

-----------------------------------------------------------------------------

\* Initially nothing is stored and nothing has arrived.
LEMMA InitIInv == Init => IInv
  BY IdempotencyAssumption
  DEF Init, IInv, IdempotencyType, RecordType, RequestType, HasKey,
      PendingIsRunning, RecordOfOwner, AbsentUnowned, RunningOwns, SuccessKept,
      UnrecordedKept, CompletedReplayable, ReplayedReplayable, Running,
      Succeeded, Unrecorded, Present, NoRecord, NotArrived

\* Dropping records keeps the store a store.
LEMMA WithoutType ==
  ASSUME store \in [Keys -> RecordType], NEW ks
  PROVE  /\ Without(ks) \in [Keys -> RecordType]
         /\ \A k \in Keys : Without(ks)[k] = IF k \in ks THEN NoRecord ELSE store[k]
  BY DEF Without, RecordType, NoRecord

\* An arriving request, whatever is evicted to make room for it.
LEMMA ArriveStep ==
  ASSUME IInv, NEW r \in Requests, NEW via \in {"execute", "middleware"},
         NEW k \in Keys, NEW p \in Payloads, NEW drop, Arrive(r, via, k, p, drop)
  PROVE  IInv'
<1> DEFINE kept == Without(drop)
           h == hashRequest[p]
           out == Outcome(kept[k], h)
<1>0. h \in Hashes
  BY IdempotencyAssumption
<1>1. /\ kept \in [Keys -> RecordType]
      /\ \A j \in Keys : kept[j] = IF j \in drop THEN NoRecord ELSE store[j]
  BY WithoutType DEF IInv, IdempotencyType
<1>2. /\ request[r].status = "waiting"
      /\ request' = [request EXCEPT ![r] =
           Arrived(via, k, p, out,
                   IF out = "replayed" THEN kept[k].response ELSE NoRequest)]
      /\ \/ /\ out = "running"
            /\ store' = [kept EXCEPT ![k] = NewRecord(r, h)]
            /\ inserted' = inserted + 1
         \/ out # "running" /\ store' = kept /\ inserted' = inserted
      /\ evicted' = evicted \cup drop
      /\ lost' = lost \cup {j \in drop : store[j].status = "pending"}
      /\ now' = now
  BY DEF Arrive, Dropped
<1>3. out \in {"running", "collision", "in_flight", "replayed"}
  BY DEF Outcome
<1>4. /\ out = "running" => kept[k].status = "absent"
      /\ out = "replayed" => kept[k].status = "completed" /\ kept[k].hash = h
  BY <1>1 DEF Outcome, RecordType
<1> HIDE DEF kept, out
<1>5. /\ IdempotencyType' /\ request'[r].status = out
      /\ request'[r].key = k /\ request'[r].payload = p /\ request'[r].via = via
      /\ request'[r].response = IF out = "replayed" THEN kept[k].response ELSE NoRequest
      /\ \A s \in Requests : s # r => request'[s] = request[s]
      /\ lost \subseteq lost' /\ evicted \subseteq evicted'
  <2>1. Arrived(via, k, p, out, IF out = "replayed" THEN kept[k].response ELSE NoRequest)
          \in RequestType
    BY <1>1, <1>3 DEF Arrived, RequestType, RecordType
  <2>2. request' \in [Requests -> RequestType]
    BY <1>2, <2>1 DEF IInv, IdempotencyType
  <2>3. NewRecord(r, h) \in RecordType
    BY <1>0 DEF NewRecord, RecordType, IInv, IdempotencyType
  <2>4. store' \in [Keys -> RecordType]
    BY <1>1, <1>2, <2>3
  <2>5. now' \in Nat /\ inserted' \in Nat
    BY <1>2 DEF IInv, IdempotencyType
  <2>6. lost' \subseteq evicted'
    BY <1>2 DEF IInv, IdempotencyType
  <2>7. IdempotencyType'
    BY <2>2, <2>4, <2>5, <2>6 DEF IdempotencyType
  <2> QED BY <1>2, <2>7 DEF Arrived, IInv, IdempotencyType
<1>6. \A j \in Keys :
        \/ j # k /\ store'[j] = kept[j]
        \/ j = k /\ out # "running" /\ store'[j] = kept[j]
        \/ /\ j = k /\ out = "running" /\ store'[j].status = "pending"
           /\ store'[j].owner = r /\ store'[j].hash = h
  BY <1>1, <1>2 DEF NewRecord
<1>7. \A j \in Keys :
        \/ kept[j] = store[j]
        \/ j \in drop /\ kept[j].status = "absent" /\ kept[j].owner = NoRequest
  BY <1>1 DEF NoRecord
<1>8. \A j \in drop : store[j].status = "pending" => j \in lost'
  BY <1>2
<1>9. drop \subseteq evicted'
  BY <1>2
<1>10. HasKey'
  BY <1>3, <1>5 DEF IInv, HasKey, Running, Succeeded, Unrecorded
<1>11. PendingIsRunning' /\ RecordOfOwner'
  <2> SUFFICES ASSUME NEW j \in Keys, store'[j].status # "absent"
               PROVE  /\ store'[j].owner \in Requests
                      /\ request'[store'[j].owner].status # "waiting"
                      /\ request'[store'[j].owner].key = j
                      /\ hashRequest[request'[store'[j].owner].payload] = store'[j].hash
                      /\ store'[j].status = "pending" => Pends(request'[store'[j].owner])
    BY DEF PendingIsRunning, RecordOfOwner, Present, Running, Unrecorded, HashOf, Pends
  <2>1. CASE j = k /\ out = "running"
    BY <2>1, <1>5, <1>6 DEF Pends
  <2>2. CASE ~(j = k /\ out = "running")
    <3>1. store'[j] = store[j] /\ Present(j)
      BY <2>2, <1>6, <1>7 DEF Present
    <3>2. /\ store[j].owner \in Requests
          /\ request[store[j].owner].status # "waiting"
          /\ request[store[j].owner].key = j
          /\ hashRequest[request[store[j].owner].payload] = store[j].hash
          /\ store[j].status = "pending" => Pends(request[store[j].owner])
      BY <3>1 DEF IInv, RecordOfOwner, PendingIsRunning, Running, Unrecorded, HashOf, Pends
    <3>3. store[j].owner # r
      BY <3>2, <1>2
    <3> QED BY <3>1, <3>2, <3>3, <1>5
  <2> QED BY <2>1, <2>2
<1>12. RunningOwns'
  <2> SUFFICES ASSUME NEW s \in Requests, request'[s].status = "running",
                      request'[s].key \notin lost'
               PROVE  /\ store'[request'[s].key].status = "pending"
                      /\ store'[request'[s].key].owner = s
    BY DEF RunningOwns, Running
  <2>1. CASE s = r
    BY <2>1, <1>5, <1>6
  <2>2. CASE s # r
    <3>1. /\ request'[s] = request[s] /\ request[s].key \in Keys
          /\ store[request[s].key].status = "pending"
          /\ store[request[s].key].owner = s
      BY <2>2, <1>5 DEF IInv, RunningOwns, HasKey, Running
    <3>2. request[s].key \notin drop
      BY <3>1, <1>8
    <3>3. kept[request[s].key] = store[request[s].key]
      BY <3>1, <3>2, <1>1
    <3>4. ~(request[s].key = k /\ out = "running")
      BY <3>1, <3>3, <1>4
    <3> QED BY <3>1, <3>3, <3>4, <1>6
  <2> QED BY <2>1, <2>2
<1>13. SuccessKept'
  <2> SUFFICES ASSUME NEW s \in Requests, request'[s].status = "succeeded",
                      request'[s].key \notin evicted'
               PROVE  /\ store'[request'[s].key].status = "completed"
                      /\ store'[request'[s].key].response = s
    BY DEF SuccessKept, Succeeded
  <2>1. s # r
    BY <1>3, <1>5
  <2>2. /\ request'[s] = request[s] /\ request[s].key \in Keys
        /\ store[request[s].key].status = "completed"
        /\ store[request[s].key].response = s
    BY <2>1, <1>5 DEF IInv, SuccessKept, HasKey, Succeeded
  <2>3. kept[request[s].key] = store[request[s].key]
    BY <2>2, <1>1, <1>9
  <2>4. ~(request[s].key = k /\ out = "running")
    BY <2>2, <2>3, <1>4
  <2> QED BY <2>2, <2>3, <2>4, <1>6
<1>17. UnrecordedKept'
  <2> SUFFICES ASSUME NEW s \in Requests, Unrecorded(s)', request'[s].key \notin evicted'
               PROVE  /\ store'[request'[s].key].status = "pending"
                      /\ store'[request'[s].key].owner = s
    BY DEF UnrecordedKept
  <2>1. s # r
    BY <1>3, <1>5 DEF Unrecorded
  <2>2. /\ request'[s] = request[s] /\ request[s].key \in Keys
        /\ store[request[s].key].status = "pending"
        /\ store[request[s].key].owner = s
    BY <2>1, <1>5 DEF IInv, UnrecordedKept, HasKey, Unrecorded
  <2>3. kept[request[s].key] = store[request[s].key]
    BY <2>2, <1>1, <1>9
  <2>4. ~(request[s].key = k /\ out = "running")
    BY <2>2, <2>3, <1>4
  <2> QED BY <2>2, <2>3, <2>4, <1>6
<1>14. CompletedReplayable'
  <2> SUFFICES ASSUME NEW j \in Keys, store'[j].status = "completed"
               PROVE  Replayable(store[j].response, j, store[j].hash)'
    BY DEF CompletedReplayable
  <2>1. store'[j] = store[j]
    BY <1>6, <1>7
  <2>2. Replayable(store[j].response, j, store[j].hash)
    BY <2>1 DEF IInv, CompletedReplayable
  <2> QED BY <2>1, <2>2, <1>2, <1>5 DEF Replayable, Succeeded, HashOf
<1>15. ReplayedReplayable'
  <2> SUFFICES ASSUME NEW s \in Requests, request'[s].status = "replayed"
               PROVE  Replayable(request[s].response, request[s].key, HashOf(s))'
    BY DEF ReplayedReplayable
  <2>1. CASE s = r
    <3>1. out = "replayed" /\ request'[s].response = kept[k].response
      BY <2>1, <1>5
    <3>2. kept[k] = store[k] /\ store[k].status = "completed" /\ store[k].hash = h
      BY <3>1, <1>4, <1>7
    <3>3. Replayable(store[k].response, k, h)
      BY <3>2 DEF IInv, CompletedReplayable
    <3> QED BY <2>1, <3>1, <3>2, <3>3, <1>2, <1>5 DEF Replayable, Succeeded, HashOf
  <2>2. CASE s # r
    <3>1. Replayable(request[s].response, request[s].key, HashOf(s))
      BY <2>2, <1>5 DEF IInv, ReplayedReplayable
    <3> QED BY <2>2, <3>1, <1>2, <1>5 DEF Replayable, Succeeded, HashOf
  <2> QED BY <2>1, <2>2
<1>16. AbsentUnowned'
  BY <1>6, <1>7 DEF IInv, AbsentUnowned, Present
<1> QED BY <1>5, <1>10, <1>11, <1>12, <1>13, <1>14, <1>15, <1>16, <1>17 DEF IInv

\* What the end of a request leaves alone.
LEMMA EndedFacts ==
  ASSUME IInv, NEW r \in Requests, NEW status, NEW response \in Requests \cup {NoRequest},
         status \in {"succeeded", "failed", "unrecorded"}, Running(r), Ended(r, status, response)
  PROVE  /\ request' \in [Requests -> RequestType]
         /\ request'[r].status = status /\ request'[r].key = request[r].key
         /\ request'[r].payload = request[r].payload /\ request'[r].via = request[r].via
         /\ \A s \in Requests : s # r => request'[s] = request[s]
         /\ request[r].key \in Keys
         /\ now' = now /\ inserted' = inserted /\ evicted' = evicted /\ lost' = lost
<1> DEFINE end == [request[r] EXCEPT !.status = status, !.response = response]
<1>1. /\ request \in [Requests -> RequestType]
      /\ request[r] \in RequestType
      /\ request[r].key \in Keys
  BY DEF IInv, IdempotencyType, HasKey
<1>2. /\ end \in RequestType /\ end.status = status
      /\ end.key = request[r].key /\ end.payload = request[r].payload
      /\ end.via = request[r].via
  BY <1>1 DEF RequestType
<1>3. request' = [request EXCEPT ![r] = end]
  BY DEF Ended
<1> HIDE DEF end
<1>4. /\ request' \in [Requests -> RequestType] /\ request'[r] = end
      /\ \A s \in Requests : s # r => request'[s] = request[s]
  BY <1>1, <1>2, <1>3
<1> QED BY <1>1, <1>2, <1>4 DEF Ended

\* While no key lost a pending record, two requests do not run under one.
LEMMA RunsAlone ==
  ASSUME IInv, NEW r \in Requests, NEW s \in Requests, Running(r), Running(s),
         request[r].key = request[s].key, request[r].key \notin lost
  PROVE  r = s
  BY DEF IInv, RunningOwns

\* A request succeeds.
LEMMA SucceedStep ==
  ASSUME IInv, NEW r \in Requests, Succeed(r)
  PROVE  IInv'
<1> DEFINE k == request[r].key
           done == [store[k] EXCEPT !.status = "completed", !.response = r]
<1>1. Running(r) /\ Ended(r, "succeeded", r)
  BY DEF Succeed, Running
<1>2. /\ request' \in [Requests -> RequestType]
      /\ request'[r].status = "succeeded" /\ request'[r].key = k
      /\ request'[r].payload = request[r].payload /\ request'[r].via = request[r].via
      /\ \A s \in Requests : s # r => request'[s] = request[s]
      /\ k \in Keys
      /\ now' = now /\ inserted' = inserted /\ evicted' = evicted /\ lost' = lost
  BY <1>1, EndedFacts
<1>3. store \in [Keys -> RecordType] /\ store[k] \in RecordType
  BY <1>2 DEF IInv, IdempotencyType
<1>4. /\ done \in RecordType /\ done.status = "completed" /\ done.response = r
      /\ done.hash = store[k].hash /\ done.owner = store[k].owner
  BY <1>3 DEF RecordType
<1>5. \/ Completes(r) /\ store' = [store EXCEPT ![k] = done]
      \/ ~Completes(r) /\ store' = store
  BY DEF Succeed
<1> HIDE DEF done
<1>6. /\ IdempotencyType'
      /\ \A j \in Keys : j # k => store'[j] = store[j]
      /\ Completes(r) => store'[k] = done
      /\ ~Completes(r) => store'[k] = store[k]
  BY <1>2, <1>3, <1>4, <1>5 DEF IInv, IdempotencyType
<1>7. k \notin lost => /\ Completes(r)
                       /\ store[k].status = "pending" /\ store[k].owner = r
  BY <1>1, <1>2 DEF IInv, RunningOwns, Completes, HasKey, Running
<1>8. Completes(r) => Present(k)
  <2>1. CASE request[r].via = "execute"
    BY <2>1, <1>2, IdempotencyAssumption DEF IInv, Completes, AbsentUnowned
  <2>2. CASE request[r].via # "execute"
    BY <2>2 DEF Completes, Present
  <2> QED BY <2>1, <2>2
<1>9. Completes(r) => store[k].owner = r \/ request[r].via = "middleware"
  BY <1>1 DEF IInv, HasKey, Completes
<1>10. HasKey'
  BY <1>2, <1>1 DEF IInv, HasKey, Running, Succeeded, Unrecorded
<1>11. PendingIsRunning' /\ RecordOfOwner'
  <2> SUFFICES ASSUME NEW j \in Keys, store'[j].status # "absent"
               PROVE  /\ store'[j].owner \in Requests
                      /\ request'[store'[j].owner].status # "waiting"
                      /\ request'[store'[j].owner].key = j
                      /\ hashRequest[request'[store'[j].owner].payload] = store'[j].hash
                      /\ store'[j].status = "pending" => Pends(request'[store'[j].owner])
    BY DEF PendingIsRunning, RecordOfOwner, Present, Running, Unrecorded, HashOf, Pends
  <2>1. Present(j) /\ store'[j].owner = store[j].owner /\ store'[j].hash = store[j].hash
    BY <1>4, <1>6, <1>8 DEF Present
  <2>2. /\ store[j].owner \in Requests
        /\ request[store[j].owner].status # "waiting"
        /\ request[store[j].owner].key = j
        /\ hashRequest[request[store[j].owner].payload] = store[j].hash
    BY <2>1 DEF IInv, RecordOfOwner, HashOf
  <2>3. /\ request'[store'[j].owner].status # "waiting"
        /\ request'[store'[j].owner].key = j
        /\ hashRequest[request'[store'[j].owner].payload] = store'[j].hash
    BY <2>1, <2>2, <1>2
  <2>4. ASSUME store'[j].status = "pending"
        PROVE  Pends(request'[store'[j].owner])
    <3>1. store'[j] = store[j]
      BY <2>4, <1>4, <1>6
    <3>2. Pends(request[store[j].owner])
      BY <3>1, <2>4 DEF IInv, PendingIsRunning, Running, Unrecorded, Pends
    <3>3. store[j].owner # r
      <4> SUFFICES ASSUME store[j].owner = r PROVE FALSE
        OBVIOUS
      <4>1. j = k /\ store[k].status = "pending" /\ store[k].owner = r
        BY <2>2, <2>4, <3>1
      <4>2. Completes(r)
        BY <4>1 DEF Completes
      <4> QED BY <4>1, <4>2, <3>1, <1>4, <1>6
    <3> QED BY <3>2, <3>3, <2>1, <2>2, <1>2
  <2> QED BY <2>1, <2>2, <2>3, <2>4
<1>12. AbsentUnowned'
  BY <1>4, <1>6 DEF IInv, AbsentUnowned, Present
<1>13. RunningOwns'
  <2> SUFFICES ASSUME NEW s \in Requests, request'[s].status = "running",
                      request'[s].key \notin lost'
               PROVE  /\ store'[request'[s].key].status = "pending"
                      /\ store'[request'[s].key].owner = s
    BY DEF RunningOwns, Running
  <2>1. s # r /\ request'[s] = request[s] /\ Running(s)
    BY <1>2 DEF Running
  <2>2. request[s].key # k
    BY <2>1, <1>1, <1>2, RunsAlone
  <2>3. /\ request[s].key \in Keys
        /\ store[request[s].key].status = "pending"
        /\ store[request[s].key].owner = s
    BY <2>1, <1>2 DEF IInv, RunningOwns, HasKey
  <2> QED BY <2>1, <2>2, <2>3, <1>6
<1>14. SuccessKept'
  <2> SUFFICES ASSUME NEW s \in Requests, request'[s].status = "succeeded",
                      request'[s].key \notin evicted'
               PROVE  /\ store'[request'[s].key].status = "completed"
                      /\ store'[request'[s].key].response = s
    BY DEF SuccessKept, Succeeded
  <2>1. request'[s].key \notin lost
    BY <1>2 DEF IInv, IdempotencyType
  <2>2. CASE s = r
    BY <2>1, <2>2, <1>2, <1>4, <1>6, <1>7
  <2>3. CASE s # r
    <3>1. /\ request'[s] = request[s] /\ request[s].key \in Keys
          /\ store[request[s].key].status = "completed"
          /\ store[request[s].key].response = s
      BY <2>3, <1>2 DEF IInv, SuccessKept, HasKey, Succeeded
    <3>2. request[s].key # k
      BY <3>1, <2>1, <1>7
    <3> QED BY <3>1, <3>2, <1>6
  <2> QED BY <2>2, <2>3
<1>15. \A s \in Requests : Succeeded(s) =>
         /\ request'[s].status = "succeeded" /\ request'[s].key = request[s].key
         /\ request'[s].payload = request[s].payload /\ request'[s].via = request[s].via
  BY <1>2, <1>1 DEF Running, Succeeded
<1>18. UnrecordedKept'
  <2> SUFFICES ASSUME NEW s \in Requests, Unrecorded(s)', request'[s].key \notin evicted'
               PROVE  /\ store'[request'[s].key].status = "pending"
                      /\ store'[request'[s].key].owner = s
    BY DEF UnrecordedKept
  <2>1. s # r
    BY <1>2 DEF Unrecorded
  <2>2. /\ request'[s] = request[s] /\ request[s].key \in Keys
        /\ store[request[s].key].status = "pending"
        /\ store[request[s].key].owner = s
        /\ request[s].key \notin lost
    BY <2>1, <1>2 DEF IInv, IdempotencyType, UnrecordedKept, HasKey, Unrecorded
  <2>3. request[s].key # k
    BY <2>1, <2>2, <1>7
  <2> QED BY <2>2, <2>3, <1>6
<1>16. CompletedReplayable'
  <2> SUFFICES ASSUME NEW j \in Keys, store'[j].status = "completed"
               PROVE  Replayable(store[j].response, j, store[j].hash)'
    BY DEF CompletedReplayable
  <2>1. CASE j = k /\ Completes(r)
    <3>1. store'[j].response = r /\ store'[j].hash = store[k].hash
      BY <2>1, <1>4, <1>6
    <3>2. \/ HashOf(r) = store[k].hash
          \/ request[r].via = "middleware" /\ k \in lost
      <4>1. CASE store[k].owner = r
        BY <4>1, <2>1, <1>8, <1>2 DEF IInv, RecordOfOwner
      <4>2. CASE store[k].owner # r
        BY <4>2, <2>1, <1>7, <1>9
      <4> QED BY <4>1, <4>2
    <3> QED BY <2>1, <3>1, <3>2, <1>2 DEF Replayable, Succeeded, HashOf
  <2>2. CASE ~(j = k /\ Completes(r))
    <3>1. store'[j] = store[j]
      BY <2>2, <1>6
    <3>2. Replayable(store[j].response, j, store[j].hash)
      BY <3>1 DEF IInv, CompletedReplayable
    <3> QED BY <3>1, <3>2, <1>2, <1>15 DEF Replayable, Succeeded, HashOf
  <2> QED BY <2>1, <2>2
<1>17. ReplayedReplayable'
  <2> SUFFICES ASSUME NEW s \in Requests, request'[s].status = "replayed"
               PROVE  Replayable(request[s].response, request[s].key, HashOf(s))'
    BY DEF ReplayedReplayable
  <2>1. s # r /\ request'[s] = request[s]
    BY <1>2
  <2>2. Replayable(request[s].response, request[s].key, HashOf(s))
    BY <2>1 DEF IInv, ReplayedReplayable
  <2> QED BY <2>1, <2>2, <1>2, <1>15 DEF Replayable, Succeeded, HashOf
<1> QED BY <1>6, <1>10, <1>11, <1>12, <1>13, <1>14, <1>16, <1>17, <1>18 DEF IInv

\* A request fails and its key is freed.
LEMMA FailStep ==
  ASSUME IInv, NEW r \in Requests, Fail(r)
  PROVE  IInv'
<1> DEFINE k == request[r].key
<1>1. Running(r) /\ Ended(r, "failed", NoRequest)
  BY DEF Fail, Running
<1>2. /\ request' \in [Requests -> RequestType]
      /\ request'[r].status = "failed" /\ request'[r].key = k
      /\ request'[r].payload = request[r].payload /\ request'[r].via = request[r].via
      /\ \A s \in Requests : s # r => request'[s] = request[s]
      /\ k \in Keys
      /\ now' = now /\ inserted' = inserted /\ evicted' = evicted /\ lost' = lost
  BY <1>1, EndedFacts
<1>3. store' = Without({k})
  BY DEF Fail, Delete
<1>4. /\ store' \in [Keys -> RecordType]
      /\ \A j \in Keys : j # k => store'[j] = store[j]
      /\ store'[k].status = "absent" /\ store'[k].owner = NoRequest
  BY <1>2, <1>3, WithoutType DEF IInv, IdempotencyType, NoRecord
<1>5. IdempotencyType'
  BY <1>2, <1>4 DEF IInv, IdempotencyType
<1>6. k \notin lost => store[k].status = "pending" /\ store[k].owner = r
  BY <1>1 DEF IInv, RunningOwns
<1>7. HasKey'
  BY <1>2 DEF IInv, HasKey, Running, Succeeded, Unrecorded
<1>8. PendingIsRunning' /\ RecordOfOwner'
  <2> SUFFICES ASSUME NEW j \in Keys, store'[j].status # "absent"
               PROVE  /\ store'[j].owner \in Requests
                      /\ request'[store'[j].owner].status # "waiting"
                      /\ request'[store'[j].owner].key = j
                      /\ hashRequest[request'[store'[j].owner].payload] = store'[j].hash
                      /\ store'[j].status = "pending" => Pends(request'[store'[j].owner])
    BY DEF PendingIsRunning, RecordOfOwner, Present, Running, Unrecorded, HashOf, Pends
  <2>1. j # k /\ store'[j] = store[j]
    BY <1>4
  <2>2. /\ store[j].owner \in Requests
        /\ request[store[j].owner].status # "waiting"
        /\ request[store[j].owner].key = j
        /\ hashRequest[request[store[j].owner].payload] = store[j].hash
        /\ store[j].status = "pending" => Pends(request[store[j].owner])
    BY <2>1 DEF IInv, RecordOfOwner, PendingIsRunning, Present, Running, Unrecorded, HashOf, Pends
  <2>3. store[j].owner # r
    BY <2>1, <2>2
  <2> QED BY <2>1, <2>2, <2>3, <1>2
<1>9. AbsentUnowned'
  BY <1>4 DEF IInv, AbsentUnowned, Present
<1>10. RunningOwns'
  <2> SUFFICES ASSUME NEW s \in Requests, request'[s].status = "running",
                      request'[s].key \notin lost'
               PROVE  /\ store'[request'[s].key].status = "pending"
                      /\ store'[request'[s].key].owner = s
    BY DEF RunningOwns, Running
  <2>1. s # r /\ request'[s] = request[s] /\ Running(s)
    BY <1>2 DEF Running
  <2>2. request[s].key # k
    BY <2>1, <1>1, <1>2, RunsAlone
  <2>3. /\ request[s].key \in Keys
        /\ store[request[s].key].status = "pending"
        /\ store[request[s].key].owner = s
    BY <2>1, <1>2 DEF IInv, RunningOwns, HasKey
  <2> QED BY <2>1, <2>2, <2>3, <1>4
<1>11. SuccessKept'
  <2> SUFFICES ASSUME NEW s \in Requests, request'[s].status = "succeeded",
                      request'[s].key \notin evicted'
               PROVE  /\ store'[request'[s].key].status = "completed"
                      /\ store'[request'[s].key].response = s
    BY DEF SuccessKept, Succeeded
  <2>1. /\ request'[s] = request[s] /\ request[s].key \in Keys
        /\ store[request[s].key].status = "completed"
        /\ store[request[s].key].response = s
    BY <1>2 DEF IInv, SuccessKept, HasKey, Succeeded
  <2>2. request[s].key \notin lost
    BY <2>1, <1>2 DEF IInv, IdempotencyType
  <2>3. request[s].key # k
    BY <2>1, <2>2, <1>6
  <2> QED BY <2>1, <2>3, <1>4
<1>15. UnrecordedKept'
  <2> SUFFICES ASSUME NEW s \in Requests, Unrecorded(s)', request'[s].key \notin evicted'
               PROVE  /\ store'[request'[s].key].status = "pending"
                      /\ store'[request'[s].key].owner = s
    BY DEF UnrecordedKept
  <2>1. s # r
    BY <1>2 DEF Unrecorded
  <2>2. /\ request'[s] = request[s] /\ request[s].key \in Keys
        /\ store[request[s].key].status = "pending"
        /\ store[request[s].key].owner = s
        /\ request[s].key \notin lost
    BY <2>1, <1>2 DEF IInv, IdempotencyType, UnrecordedKept, HasKey, Unrecorded
  <2>3. request[s].key # k
    BY <2>1, <2>2, <1>6
  <2> QED BY <2>2, <2>3, <1>4
<1>12. \A s \in Requests : Succeeded(s) => request'[s] = request[s]
  BY <1>1, <1>2 DEF Running, Succeeded
<1>13. CompletedReplayable'
  <2> SUFFICES ASSUME NEW j \in Keys, store'[j].status = "completed"
               PROVE  Replayable(store[j].response, j, store[j].hash)'
    BY DEF CompletedReplayable
  <2>1. store'[j] = store[j]
    BY <1>4
  <2>2. Replayable(store[j].response, j, store[j].hash)
    BY <2>1 DEF IInv, CompletedReplayable
  <2> QED BY <2>1, <2>2, <1>2, <1>12 DEF Replayable, Succeeded, HashOf
<1>14. ReplayedReplayable'
  <2> SUFFICES ASSUME NEW s \in Requests, request'[s].status = "replayed"
               PROVE  Replayable(request[s].response, request[s].key, HashOf(s))'
    BY DEF ReplayedReplayable
  <2>1. s # r /\ request'[s] = request[s]
    BY <1>2
  <2>2. Replayable(request[s].response, request[s].key, HashOf(s))
    BY <2>1 DEF IInv, ReplayedReplayable
  <2> QED BY <2>1, <2>2, <1>2, <1>12 DEF Replayable, Succeeded, HashOf
<1> QED BY <1>5, <1>7, <1>8, <1>9, <1>10, <1>11, <1>13, <1>14, <1>15 DEF IInv

\* A handler ends past res.json: its record stays.
LEMMA UnrecordedStep ==
  ASSUME IInv, NEW r \in Requests, EndUnrecorded(r)
  PROVE  IInv'
<1> DEFINE k == request[r].key
<1>1. /\ Running(r) /\ Ended(r, "unrecorded", NoRequest)
      /\ request[r].via = "middleware" /\ store' = store
  BY DEF EndUnrecorded, Running
<1>2. /\ request' \in [Requests -> RequestType]
      /\ request'[r].status = "unrecorded" /\ request'[r].key = k
      /\ request'[r].payload = request[r].payload /\ request'[r].via = request[r].via
      /\ \A s \in Requests : s # r => request'[s] = request[s]
      /\ k \in Keys
      /\ now' = now /\ inserted' = inserted /\ evicted' = evicted /\ lost' = lost
  BY <1>1, EndedFacts
<1>3. IdempotencyType' /\ HasKey'
  BY <1>1, <1>2 DEF IInv, IdempotencyType, HasKey, Running, Succeeded, Unrecorded
<1>4. PendingIsRunning' /\ RecordOfOwner' /\ AbsentUnowned'
  <2> SUFFICES ASSUME NEW j \in Keys, store'[j].status # "absent"
               PROVE  /\ store'[j].owner \in Requests
                      /\ request'[store'[j].owner].status # "waiting"
                      /\ request'[store'[j].owner].key = j
                      /\ hashRequest[request'[store'[j].owner].payload] = store'[j].hash
                      /\ store'[j].status = "pending" => Pends(request'[store'[j].owner])
    BY <1>1 DEF IInv, PendingIsRunning, RecordOfOwner, AbsentUnowned, Present,
                Running, Unrecorded, HashOf, Pends
  <2>1. /\ store[j].owner \in Requests
        /\ request[store[j].owner].status # "waiting"
        /\ request[store[j].owner].key = j
        /\ hashRequest[request[store[j].owner].payload] = store[j].hash
        /\ store[j].status = "pending" => Pends(request[store[j].owner])
    BY <1>1 DEF IInv, RecordOfOwner, PendingIsRunning, Present, Running, Unrecorded, HashOf, Pends
  <2>2. CASE store[j].owner = r
    BY <2>1, <2>2, <1>1, <1>2 DEF Pends
  <2>3. CASE store[j].owner # r
    BY <2>1, <2>3, <1>1, <1>2
  <2> QED BY <2>2, <2>3
<1>5. RunningOwns' /\ SuccessKept'
  BY <1>1, <1>2 DEF IInv, RunningOwns, SuccessKept, Running, Succeeded
<1>6. UnrecordedKept'
  BY <1>1, <1>2 DEF IInv, IdempotencyType, UnrecordedKept, RunningOwns, Running, Unrecorded
<1>7. \A s \in Requests :
        /\ Succeeded(s) => request'[s] = request[s]
        /\ request'[s].status = "replayed" => request'[s] = request[s]
  BY <1>1, <1>2 DEF Running, Succeeded
<1>8. CompletedReplayable' /\ ReplayedReplayable'
  BY <1>1, <1>2, <1>7
  DEF IInv, CompletedReplayable, ReplayedReplayable, Replayable, Succeeded, HashOf
<1> QED BY <1>3, <1>4, <1>5, <1>6, <1>8 DEF IInv

\* cleanup() drops records and enters their keys in the histories.
LEMMA CleanupStep == ASSUME IInv, Cleanup PROVE IInv'
<1> DEFINE stale == {k \in Keys : Present(k) /\ store[k].createdAt < now - WINDOW}
<1>1. /\ store' = Without(stale) /\ evicted' = evicted \cup stale
      /\ lost' = lost \cup {k \in stale : store[k].status = "pending"}
      /\ now' = now /\ inserted' = inserted /\ request' = request
  BY DEF Cleanup, Dropped
<1> HIDE DEF stale
<1>2. /\ store' \in [Keys -> RecordType]
      /\ \A j \in Keys :
           \/ j \notin stale /\ store'[j] = store[j]
           \/ j \in stale /\ store'[j].status = "absent" /\ store'[j].owner = NoRequest
  BY <1>1, WithoutType DEF IInv, IdempotencyType, NoRecord
<1>3. IdempotencyType'
  BY <1>1, <1>2 DEF IInv, IdempotencyType
<1>4. HasKey'
  BY <1>1 DEF IInv, HasKey, Running, Succeeded, Unrecorded
<1>5. PendingIsRunning' /\ RecordOfOwner' /\ AbsentUnowned'
  BY <1>1, <1>2 DEF IInv, PendingIsRunning, RecordOfOwner, AbsentUnowned, Present, Running,
                     Unrecorded, HashOf
<1>6. RunningOwns'
  BY <1>1, <1>2 DEF IInv, RunningOwns, HasKey, Running
<1>7. SuccessKept'
  BY <1>1, <1>2 DEF IInv, SuccessKept, HasKey, Succeeded
<1>9. UnrecordedKept'
  BY <1>1, <1>2 DEF IInv, UnrecordedKept, HasKey, Unrecorded
<1>8. CompletedReplayable' /\ ReplayedReplayable'
  BY <1>1, <1>2 DEF IInv, CompletedReplayable, ReplayedReplayable, Replayable, Succeeded, HashOf
<1> QED BY <1>3, <1>4, <1>5, <1>6, <1>7, <1>8, <1>9 DEF IInv

\* Every step keeps the invariant.
LEMMA NextIInv == IInv /\ [Next]_vars => IInv'
<1> SUFFICES ASSUME IInv, [Next]_vars PROVE IInv'
  OBVIOUS
<1>1. ASSUME NEW r \in Requests, NEW k \in Keys, NEW p \in Payloads, Execute(r, k, p)
      PROVE  IInv'
  BY <1>1, ArriveStep DEF Execute
<1>2. ASSUME NEW r \in Requests, NEW k \in Keys, NEW p \in Payloads, Middleware(r, k, p)
      PROVE  IInv'
  BY <1>2, ArriveStep DEF Middleware
<1>3. ASSUME NEW r \in Requests, Succeed(r) PROVE IInv'
  BY <1>3, SucceedStep
<1>4. ASSUME NEW r \in Requests, Fail(r) PROVE IInv'
  BY <1>4, FailStep
<1>7. ASSUME NEW r \in Requests, EndUnrecorded(r) PROVE IInv'
  BY <1>7, UnrecordedStep
<1>5. CASE Cleanup
  BY <1>5, CleanupStep
<1>6. CASE Tick \/ UNCHANGED vars
  <2>1. /\ now' \in Nat
        /\ UNCHANGED <<store, inserted, request, evicted, lost>>
    BY <1>6 DEF Tick, vars, IInv, IdempotencyType
  <2> QED BY <2>1
    DEF IInv, IdempotencyType, HasKey, PendingIsRunning, RecordOfOwner,
        AbsentUnowned, RunningOwns, SuccessKept, UnrecordedKept, CompletedReplayable,
        ReplayedReplayable, Replayable, Running, Succeeded, Unrecorded, Present, HashOf
<1> QED BY <1>1, <1>2, <1>3, <1>4, <1>5, <1>6, <1>7 DEF Next

\* The inductive invariant holds in every reachable state.
THEOREM Inductive == Spec => []IInv
  BY InitIInv, NextIInv, PTL DEF Spec

\* A pending record always belongs to a request that is still running or whose
\* handler ended past res.json: neither eviction, cleanup, a failure of
\* execute() nor the late end of another request leaves a key blocked.
THEOREM NoBlockedKey == Spec => []PendingIsRunning
<1>1. IInv => PendingIsRunning
  BY DEF IInv
<1> QED BY Inductive, <1>1, PTL

\* Only the loss of a pending record lets two operations run under one key.
THEOREM ExclusiveUnlessLost == Spec => []SingleFlight
<1>1. IInv => SingleFlight
  BY RunsAlone DEF SingleFlight
<1> QED BY Inductive, <1>1, PTL

\* Only eviction or expiry lets two requests with one key both take effect,
\* those that ended unrecorded included.
THEOREM OnceUnlessEvicted == Spec => []AtMostOnce
<1>1. IInv => AtMostOnce
  BY DEF IInv, SuccessKept, UnrecordedKept, AtMostOnce
<1> QED BY Inductive, <1>1, PTL

\* A replayed answer is that of a successful request with the same key, and
\* with a payload of the same hash unless the middleware completed a foreign
\* record.
THEOREM ReplaysFaithful == Spec => []ReplayFaithful
<1>1. IInv => ReplayFaithful
  BY DEF IInv, ReplayedReplayable, Replayable, ReplayFaithful
<1> QED BY Inductive, <1>1, PTL

=============================================================================
