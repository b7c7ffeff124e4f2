--------------------------- MODULE WebhookProofs ----------------------------
(***************************************************************************)
(* The safety of webhook delivery for every set of webhooks, deliveries    *)
(* and keys, every retry policy and every number of calls: events are only *)
(* skipped when their key was accepted, and the dead letters are the       *)
(* failed deliveries unless loops have overlapped.                         *)
(***************************************************************************)
EXTENDS Webhook, TLAPS

DeliveryRecord ==
  [status : {"none", "pending", "retrying", "delivered", "failed", "skipped", "purged"},
   attempts : Nat, nextRetryAt : {"unset", "later", "due"},
   webhook : Webhooks \cup {NoWebhook}, key : Keys \cup {NoKey}]

LoopRecord ==
  [pc : {"idle", "fetching", "sleeping", "returning"},
   delivery : Deliveries \cup {NoDelivery}, attempt : Nat, intact : BOOLEAN,
   result : {"none", "delivered", "failed"}]

TypeOK ==
  /\ delivery \in [Deliveries -> DeliveryRecord]
  /\ loop \in [Loops -> LoopRecord]
  /\ DOMAIN due \subseteq Deliveries
  /\ \A d \in DOMAIN due : due[d] \in Nat

\* A loop at work has a delivery, which has been created, so that neither its
\* key nor its webhook changes any more.
BusyLoopsHaveDeliveries ==
  \A l \in Loops : loop[l].pc # "idle" =>
     /\ loop[l].delivery \in Deliveries
     /\ delivery[loop[l].delivery].status # "none"

\* The loops of a delivery's callers work on that delivery only.
OwnLoops ==
  \A d \in Deliveries, c \in Callers :
     loop[<<d, c>>].pc # "idle" => loop[<<d, c>>].delivery = d

\* The keys of the window were accepted, and so was the key that a returning
\* loop is about to add to them.
KeysAccepted ==
  /\ deliveredKeys \subseteq accepted
  /\ \A l \in Loops : loop[l].pc = "returning" /\ loop[l].result = "delivered" =>
        delivery[loop[l].delivery].key \in accepted \cup {NoKey}

\* At most one loop works on a delivery that is not counted as overlapped.
SingleLoop ==
  \A l, m \in Loops :
     /\ loop[l].pc # "idle" /\ loop[m].pc # "idle"
     /\ loop[l].delivery = loop[m].delivery
     /\ loop[l].delivery \notin overlapped
     => l = m

\* Between the end of a loop and the last write of its caller the dead letters
\* already have the result.
ReturningMatch ==
  \A l \in Loops : loop[l].pc = "returning" =>
     /\ loop[l].result \in {"delivered", "failed"}
     /\ loop[l].delivery \notin overlapped =>
           (loop[l].result = "failed" <=> loop[l].delivery \in deadLetters)

\* Only a delivery that was created is a dead letter.
LettersCreated ==
  \A d \in Deliveries : d \in deadLetters => delivery[d].status # "none"

KeyInv ==
  /\ TypeOK /\ BusyLoopsHaveDeliveries /\ OwnLoops
  /\ KeysAccepted /\ SkippedOnlyIfAccepted

LetterInv == SingleLoop /\ ReturningMatch /\ LettersCreated /\ DeadLettersMatch

WebhookInv == KeyInv /\ LetterInv

-----------------------------------------------------------------------------

\* Nothing has been created, sent or accepted at first.
LEMMA InitInv == Init => WebhookInv
<1> SUFFICES ASSUME Init PROVE WebhookInv
  OBVIOUS
<1>1. NewDelivery \in DeliveryRecord /\ IdleLoop \in LoopRecord
  BY DEF NewDelivery, DeliveryRecord, IdleLoop, LoopRecord
<1>2. /\ \A d \in Deliveries : delivery[d] = NewDelivery
      /\ \A l \in Loops : loop[l] = IdleLoop
      /\ DOMAIN due = {} /\ deliveredKeys = {} /\ deadLetters = {}
  BY DEF Init
<1>3. TypeOK
  BY <1>1, <1>2 DEF Init, TypeOK
<1>4. BusyLoopsHaveDeliveries /\ KeysAccepted /\ SingleLoop /\ ReturningMatch
  BY <1>2 DEF BusyLoopsHaveDeliveries, KeysAccepted, SingleLoop, ReturningMatch, IdleLoop
<1>5. SkippedOnlyIfAccepted /\ LettersCreated /\ DeadLettersMatch
  BY <1>2 DEF SkippedOnlyIfAccepted, LettersCreated, DeadLettersMatch, NewDelivery
<1>6. OwnLoops
  BY <1>2 DEF OwnLoops, Loops, IdleLoop
<1> QED BY <1>3, <1>4, <1>5, <1>6 DEF WebhookInv, KeyInv, LetterInv

\* The fields of what a loop or a call writes to a delivery.
LEMMA WrittenFacts ==
  ASSUME NEW rec, rec.webhook \in Webhooks \cup {NoWebhook}, rec.key \in Keys \cup {NoKey},
         NEW st \in {"pending", "retrying", "delivered", "failed", "purged"},
         NEW n \in Nat, NEW at \in {"unset", "later", "due"}
  PROVE  /\ Written(rec, st, n, at) \in DeliveryRecord
         /\ Written(rec, st, n, at).status = st
         /\ Written(rec, st, n, at).key = rec.key
         /\ Written(rec, st, n, at).webhook = rec.webhook
         /\ Written(rec, st, n, at).nextRetryAt = at
  BY DEF Written, DeliveryRecord

\* ... and of what a loop writes, the worker or another.
LEMMA RecordFacts ==
  ASSUME NEW rec, rec.webhook \in Webhooks \cup {NoWebhook}, rec.key \in Keys \cup {NoKey},
         NEW st \in {"pending", "retrying", "delivered", "failed"}, NEW n \in Nat, NEW l
  PROVE  /\ Record(l, rec, st, n) \in DeliveryRecord
         /\ Record(l, rec, st, n).status = st
         /\ Record(l, rec, st, n).key = rec.key
<1>1. CASE l = Worker
  BY <1>1, WrittenFacts DEF Record
<1>2. CASE l # Worker
  BY <1>2, WrittenFacts DEF Record
<1> QED BY <1>1, <1>2

\* A loop that goes on, or starts, with delivery d: whatever it writes that is
\* not a result keeps the invariant, if it is the only one or d counts as
\* overlapped.
LEMMA LoopOnStep ==
  ASSUME WebhookInv, NEW l \in Loops, NEW d \in Deliveries, NEW lp \in LoopRecord,
         NEW rec \in DeliveryRecord,
         lp.pc \in {"fetching", "sleeping"}, lp.delivery = d,
         rec.status \in {"pending", "retrying"},
         delivery[d].status = "none" \/ rec.key = delivery[d].key,
         delivery' = [delivery EXCEPT ![d] = rec],
         loop' = [loop EXCEPT ![l] = lp],
         loop[l].pc = "idle" \/ loop[l].delivery = d,
         \A c \in Callers : \A e \in Deliveries : l = <<e, c>> => e = d,
         overlapped \subseteq overlapped',
         d \notin overlapped' => \A m \in Loops \ {l} : loop[m].pc # "idle" => loop[m].delivery # d,
         UNCHANGED <<deadLetters, deliveredKeys, accepted>>,
         DOMAIN due' \subseteq Deliveries, \A e \in DOMAIN due' : due'[e] \in Nat
  PROVE  WebhookInv'
<1>1. /\ delivery \in [Deliveries -> DeliveryRecord]
      /\ loop \in [Loops -> LoopRecord]
  BY DEF WebhookInv, KeyInv, TypeOK
<1>2. /\ delivery' \in [Deliveries -> DeliveryRecord]
      /\ delivery'[d] = rec
      /\ \A e \in Deliveries : e # d => delivery'[e] = delivery[e]
      /\ \A e \in Deliveries : delivery[e].status # "none" =>
            delivery'[e].status # "none" /\ delivery'[e].key = delivery[e].key
  BY <1>1
<1>3. /\ loop' \in [Loops -> LoopRecord]
      /\ loop'[l] = lp
      /\ \A m \in Loops : m # l => loop'[m] = loop[m]
  BY <1>1
<1>4. TypeOK'
  BY <1>2, <1>3 DEF TypeOK
<1>5. BusyLoopsHaveDeliveries'
  BY <1>2, <1>3 DEF WebhookInv, KeyInv, BusyLoopsHaveDeliveries
<1>6. OwnLoops'
  BY <1>3 DEF WebhookInv, KeyInv, OwnLoops, Loops
<1>7. KeysAccepted'
  BY <1>2, <1>3 DEF WebhookInv, KeyInv, BusyLoopsHaveDeliveries, KeysAccepted
<1>8. SkippedOnlyIfAccepted'
  BY <1>2 DEF WebhookInv, KeyInv, SkippedOnlyIfAccepted
<1>9. SingleLoop'
  BY <1>3 DEF WebhookInv, LetterInv, SingleLoop
<1>10. ReturningMatch'
  BY <1>3 DEF WebhookInv, LetterInv, ReturningMatch
<1>11. LettersCreated'
  BY <1>2 DEF WebhookInv, LetterInv, LettersCreated
<1>12. DeadLettersMatch'
  <2>1. ASSUME NEW e \in Deliveries, Resting(e)'
        PROVE  e # d /\ Resting(e)
    BY <1>3, <2>1 DEF Resting, BusyOn
  <2> QED BY <1>2, <2>1 DEF WebhookInv, LetterInv, DeadLettersMatch, Stranded
<1> QED BY <1>4, <1>5, <1>6, <1>7, <1>8, <1>9, <1>10, <1>11, <1>12
        DEF WebhookInv, KeyInv, LetterInv

\* finalizeDelivery(): the dead letters follow the result, which the worker
\* has written at once and any other loop's caller writes again on its return.
LEMMA FinalizeStep ==
  ASSUME WebhookInv, NEW l \in Loops, NEW w, NEW st \in {"delivered", "failed"},
         loop[l].pc = "fetching", FinalizeDelivery(l, st, w),
         accepted \subseteq accepted',
         st = "delivered" => delivery[loop[l].delivery].key \in accepted' \cup {NoKey},
         UNCHANGED <<deliveredKeys, due, overlapped>>
  PROVE  WebhookInv'
<1> DEFINE d == loop[l].delivery
           rec == Record(l, delivery[d], st, loop[l].attempt)
           lp == IF l = Worker THEN IdleLoop ELSE Returning(loop[l], st)
<1>1. /\ delivery \in [Deliveries -> DeliveryRecord]
      /\ loop \in [Loops -> LoopRecord]
  BY DEF WebhookInv, KeyInv, TypeOK
<1>2. d \in Deliveries /\ delivery[d].status # "none"
  BY DEF WebhookInv, KeyInv, BusyLoopsHaveDeliveries
<1>3. rec \in DeliveryRecord /\ rec.status = st /\ rec.key = delivery[d].key
  <2>1. /\ delivery[d].webhook \in Webhooks \cup {NoWebhook}
        /\ delivery[d].key \in Keys \cup {NoKey} /\ loop[l].attempt \in Nat
    BY <1>1, <1>2 DEF DeliveryRecord, LoopRecord
  <2> HIDE DEF d
  <2> QED BY <2>1, RecordFacts
<1>4. /\ lp \in LoopRecord
      /\ lp.pc = "idle" \/ (lp.pc = "returning" /\ lp.result = st /\ lp.delivery = d)
  BY <1>1 DEF IdleLoop, Returning, LoopRecord
<1>5. /\ delivery' = [delivery EXCEPT ![d] = rec]
      /\ loop' = [loop EXCEPT ![l] = lp]
      /\ deadLetters' = IF st = "failed" THEN deadLetters \cup {d} ELSE deadLetters \ {d}
  BY DEF FinalizeDelivery
<1>6. \A m \in Loops \ {l} : loop[m].pc # "idle" /\ loop[m].delivery = d => d \in overlapped
  BY DEF WebhookInv, LetterInv, SingleLoop
<1> HIDE DEF d, rec, lp
<1>7. /\ delivery' \in [Deliveries -> DeliveryRecord]
      /\ delivery'[d] = rec
      /\ \A e \in Deliveries : e # d => delivery'[e] = delivery[e]
      /\ \A e \in Deliveries : delivery[e].status # "none" =>
            delivery'[e].status # "none" /\ delivery'[e].key = delivery[e].key
  BY <1>1, <1>2, <1>3, <1>5
<1>8. /\ loop' \in [Loops -> LoopRecord]
      /\ loop'[l] = lp
      /\ \A m \in Loops : m # l => loop'[m] = loop[m]
  BY <1>1, <1>4, <1>5
<1>9. loop[l].delivery = d
  BY DEF d
<1>10. TypeOK'
  BY <1>7, <1>8 DEF WebhookInv, KeyInv, TypeOK
<1>11. BusyLoopsHaveDeliveries'
  BY <1>2, <1>4, <1>7, <1>8 DEF WebhookInv, KeyInv, BusyLoopsHaveDeliveries
<1>12. OwnLoops'
  BY <1>4, <1>8, <1>9 DEF WebhookInv, KeyInv, OwnLoops, Loops
<1>13. KeysAccepted'
  BY <1>2, <1>4, <1>7, <1>8, <1>9
     DEF WebhookInv, KeyInv, BusyLoopsHaveDeliveries, KeysAccepted
<1>14. SkippedOnlyIfAccepted'
  BY <1>2, <1>3, <1>7 DEF WebhookInv, KeyInv, SkippedOnlyIfAccepted
<1>15. SingleLoop'
  BY <1>4, <1>8, <1>9 DEF WebhookInv, LetterInv, SingleLoop
<1>16. ReturningMatch'
  BY <1>4, <1>5, <1>6, <1>8 DEF WebhookInv, LetterInv, ReturningMatch
<1>17. LettersCreated'
  BY <1>2, <1>3, <1>5, <1>7 DEF WebhookInv, LetterInv, LettersCreated
<1>18. DeadLettersMatch'
  <2>1. ASSUME NEW e \in Deliveries, e # d, Resting(e)' PROVE Resting(e)
    BY <1>8, <1>9, <2>1 DEF Resting, BusyOn
  <2>2. ASSUME NEW e \in Deliveries, e # d
        PROVE  (e \in deadLetters' <=> e \in deadLetters) /\ delivery'[e] = delivery[e]
    BY <1>5, <1>7, <2>2
  <2>3. (delivery'[d].status = "failed" <=> d \in deadLetters') /\ overlapped' = overlapped
    BY <1>3, <1>5, <1>7
  <2> QED BY <2>1, <2>2, <2>3 DEF WebhookInv, LetterInv, DeadLettersMatch, Stranded
<1> QED BY <1>10, <1>11, <1>12, <1>13, <1>14, <1>15, <1>16, <1>17, <1>18
        DEF WebhookInv, KeyInv, LetterInv

\* The caller goes on after the await: it writes the result that the dead
\* letters already have, and records a key that was accepted.
LEMMA ReturnStep ==
  ASSUME WebhookInv, NEW l \in Loops, Return(l)
  PROVE  WebhookInv'
<1> DEFINE d == loop[l].delivery
           rec == Record(l, delivery[d], loop[l].result, loop[l].attempt)
<1>1. /\ delivery \in [Deliveries -> DeliveryRecord]
      /\ loop \in [Loops -> LoopRecord]
  BY DEF WebhookInv, KeyInv, TypeOK
<1>2. loop[l].pc = "returning"
  BY DEF Return
<1>3. /\ d \in Deliveries /\ delivery[d].status # "none"
      /\ loop[l].result \in {"delivered", "failed"}
      /\ d \notin overlapped => (loop[l].result = "failed" <=> d \in deadLetters)
  BY <1>2 DEF WebhookInv, KeyInv, LetterInv, BusyLoopsHaveDeliveries, ReturningMatch
<1>4. rec \in DeliveryRecord /\ rec.status = loop[l].result /\ rec.key = delivery[d].key
  <2>1. /\ delivery[d].webhook \in Webhooks \cup {NoWebhook}
        /\ delivery[d].key \in Keys \cup {NoKey} /\ loop[l].attempt \in Nat
    BY <1>1, <1>3 DEF DeliveryRecord, LoopRecord
  <2> HIDE DEF d
  <2> QED BY <1>3, <2>1, RecordFacts
<1>5. /\ delivery' = [delivery EXCEPT ![d] = rec]
      /\ loop' = [loop EXCEPT ![l] = IdleLoop]
      /\ UNCHANGED <<deadLetters, due, overlapped, accepted>>
  BY DEF Return, history
<1>6. deliveredKeys' \subseteq accepted
  BY <1>2, <1>3 DEF Return, WebhookInv, KeyInv, KeysAccepted
<1> HIDE DEF rec
<1>7. IdleLoop \in LoopRecord /\ IdleLoop.pc = "idle"
  BY DEF IdleLoop, LoopRecord
<1>8. /\ delivery' \in [Deliveries -> DeliveryRecord]
      /\ delivery'[d] = rec
      /\ \A e \in Deliveries : e # d => delivery'[e] = delivery[e]
      /\ \A e \in Deliveries : delivery[e].status # "none" =>
            delivery'[e].status # "none" /\ delivery'[e].key = delivery[e].key
  BY <1>1, <1>3, <1>4, <1>5
<1>9. /\ loop' \in [Loops -> LoopRecord]
      /\ loop'[l] = IdleLoop
      /\ \A m \in Loops : m # l => loop'[m] = loop[m]
  BY <1>1, <1>5, <1>7
<1> HIDE DEF d
<1>10. TypeOK'
  BY <1>5, <1>8, <1>9 DEF WebhookInv, KeyInv, TypeOK
<1>11. BusyLoopsHaveDeliveries' /\ OwnLoops'
  BY <1>7, <1>8, <1>9 DEF WebhookInv, KeyInv, BusyLoopsHaveDeliveries, OwnLoops, Loops
<1>12. KeysAccepted'
  BY <1>5, <1>6, <1>7, <1>8, <1>9 DEF WebhookInv, KeyInv, BusyLoopsHaveDeliveries, KeysAccepted
<1>13. SkippedOnlyIfAccepted'
  BY <1>3, <1>4, <1>5, <1>8 DEF WebhookInv, KeyInv, SkippedOnlyIfAccepted
<1>14. SingleLoop' /\ ReturningMatch'
  BY <1>5, <1>7, <1>9 DEF WebhookInv, LetterInv, SingleLoop, ReturningMatch
<1>15. LettersCreated'
  BY <1>5, <1>8 DEF WebhookInv, LetterInv, LettersCreated
<1>16. DeadLettersMatch'
  <2>1. ASSUME NEW e \in Deliveries, e # d, Resting(e)' PROVE Resting(e)
    BY <1>9, <2>1 DEF Resting, BusyOn, d
  <2> QED BY <1>3, <1>4, <1>5, <1>8, <2>1 DEF WebhookInv, LetterInv, DeadLettersMatch, Stranded
<1> QED BY <1>10, <1>11, <1>12, <1>13, <1>14, <1>15, <1>16
        DEF WebhookInv, KeyInv, LetterInv

\* A call, or the clock, that writes one delivery beside the loops, and may
\* take its dead letter away while no caller is about to write a result.
LEMMA WriteStep ==
  ASSUME WebhookInv, NEW d \in Deliveries, NEW rec \in DeliveryRecord,
         delivery' = [delivery EXCEPT ![d] = rec],
         delivery[d].status # "none" => rec.status # "none" /\ rec.key = delivery[d].key,
         rec.status = "skipped" => rec.key \in accepted,
         \/ deadLetters' = deadLetters
         \/ /\ deadLetters' = deadLetters \ {d}
            /\ \A l \in Loops : loop[l].delivery = d => loop[l].pc # "returning",
         Resting(d) /\ d \notin overlapped =>
            /\ rec.status = "failed" => d \in deadLetters'
            /\ d \in deadLetters' =>
                  \/ rec.status = "failed"
                  \/ rec.status = "retrying" /\ rec.nextRetryAt = "unset",
         UNCHANGED <<loop, overlapped, accepted, deliveredKeys, due>>
  PROVE  WebhookInv'
<1>1. /\ delivery' \in [Deliveries -> DeliveryRecord]
      /\ delivery'[d] = rec
      /\ \A e \in Deliveries : e # d => delivery'[e] = delivery[e]
      /\ \A e \in Deliveries : delivery[e].status # "none" =>
            delivery'[e].status # "none" /\ delivery'[e].key = delivery[e].key
  BY DEF WebhookInv, KeyInv, TypeOK
<1>2. \A e \in Deliveries : e # d => (e \in deadLetters' <=> e \in deadLetters)
  OBVIOUS
<1>3. TypeOK'
  BY <1>1 DEF WebhookInv, KeyInv, TypeOK
<1>4. BusyLoopsHaveDeliveries'
  BY <1>1 DEF WebhookInv, KeyInv, BusyLoopsHaveDeliveries
<1>5. OwnLoops'
  BY DEF WebhookInv, KeyInv, OwnLoops
<1>6. KeysAccepted'
  BY <1>1 DEF WebhookInv, KeyInv, BusyLoopsHaveDeliveries, KeysAccepted
<1>7. SkippedOnlyIfAccepted'
  BY <1>1 DEF WebhookInv, KeyInv, SkippedOnlyIfAccepted
<1>8. SingleLoop'
  BY DEF WebhookInv, LetterInv, SingleLoop
<1>9. ReturningMatch'
  BY <1>2 DEF WebhookInv, KeyInv, LetterInv, BusyLoopsHaveDeliveries, ReturningMatch
<1>10. LettersCreated'
  BY <1>1 DEF WebhookInv, LetterInv, LettersCreated
<1>11. DeadLettersMatch'
  <2>1. \A e \in Deliveries : Resting(e)' => Resting(e)
    BY DEF Resting, BusyOn
  <2> QED BY <1>1, <1>2, <2>1 DEF WebhookInv, LetterInv, DeadLettersMatch, Stranded
<1> QED BY <1>3, <1>4, <1>5, <1>6, <1>7, <1>8, <1>9, <1>10, <1>11
        DEF WebhookInv, KeyInv, LetterInv

\* A step that writes neither deliveries, loops nor dead letters.
LEMMA QuietStep ==
  ASSUME WebhookInv, deliveredKeys' \subseteq deliveredKeys,
         UNCHANGED <<delivery, loop, deadLetters, overlapped, accepted>>,
         DOMAIN due' \subseteq Deliveries, \A e \in DOMAIN due' : due'[e] \in Nat
  PROVE  WebhookInv'
<1>1. TypeOK' /\ BusyLoopsHaveDeliveries' /\ OwnLoops'
  BY DEF WebhookInv, KeyInv, TypeOK, BusyLoopsHaveDeliveries, OwnLoops
<1>2. KeysAccepted' /\ SkippedOnlyIfAccepted'
  BY DEF WebhookInv, KeyInv, KeysAccepted, SkippedOnlyIfAccepted
<1>3. SingleLoop' /\ ReturningMatch' /\ LettersCreated'
  BY DEF WebhookInv, LetterInv, SingleLoop, ReturningMatch, LettersCreated
<1>4. DeadLettersMatch'
  BY DEF WebhookInv, LetterInv, DeadLettersMatch, Resting, BusyOn, Stranded
<1> QED BY <1>1, <1>2, <1>3, <1>4 DEF WebhookInv, KeyInv, LetterInv

\* The start of a loop, by a caller or the worker, that is idle.
LEMMA StartStep ==
  ASSUME WebhookInv, NEW l \in Loops, NEW d \in Deliveries, NEW rec, NEW n \in Nat,
         rec.webhook \in Webhooks \cup {NoWebhook}, rec.key \in Keys \cup {NoKey},
         delivery[d].status = "none" \/ rec.key = delivery[d].key,
         loop[l].pc = "idle",
         \A c \in Callers : \A e \in Deliveries : l = <<e, c>> => e = d,
         SendWithRetry(l, d, rec, n),
         UNCHANGED <<deadLetters, deliveredKeys, accepted>>,
         DOMAIN due' \subseteq Deliveries, \A e \in DOMAIN due' : due'[e] \in Nat
  PROVE  WebhookInv'
<1> DEFINE st == IF n + 1 = 1 THEN "pending" ELSE "retrying"
           new == Record(l, rec, st, n + 1)
           lp == [pc |-> "fetching", delivery |-> d, attempt |-> n + 1,
                  intact |-> Intact(rec.webhook), result |-> "none"]
<1>1. /\ delivery' = [delivery EXCEPT ![d] = new]
      /\ loop' = [loop EXCEPT ![l] = lp]
      /\ overlapped' = IF BusyOn(d) = {} THEN overlapped ELSE overlapped \cup {d}
  BY DEF SendWithRetry, Attempt
<1>2. Intact(rec.webhook) \in BOOLEAN
  BY DEF Intact
<1>3. lp \in LoopRecord /\ lp.pc = "fetching" /\ lp.delivery = d
  BY <1>2 DEF LoopRecord
<1>4. st \in {"pending", "retrying"} /\ n + 1 \in Nat
  OBVIOUS
<1> HIDE DEF st, lp
<1>5. new \in DeliveryRecord /\ new.status \in {"pending", "retrying"} /\ new.key = rec.key
  BY <1>4, RecordFacts
<1>6. overlapped \subseteq overlapped'
  BY <1>1
<1>7. d \notin overlapped' => \A m \in Loops \ {l} : loop[m].pc # "idle" => loop[m].delivery # d
  BY <1>1 DEF BusyOn
<1> HIDE DEF new
<1> QED BY <1>1, <1>3, <1>5, <1>6, <1>7, LoopOnStep

\* What the invariant says of a delivery and of a loop at work.
LEMMA Typing ==
  ASSUME WebhookInv
  PROVE  /\ \A d \in Deliveries :
              /\ delivery[d] \in DeliveryRecord /\ delivery[d].attempts \in Nat
              /\ delivery[d].webhook \in Webhooks \cup {NoWebhook}
              /\ delivery[d].key \in Keys \cup {NoKey}
         /\ \A l \in Loops :
              /\ loop[l] \in LoopRecord /\ loop[l].attempt \in Nat
              /\ loop[l].intact \in BOOLEAN
              /\ loop[l].pc # "idle" => loop[l].delivery \in Deliveries
         /\ DOMAIN due \subseteq Deliveries /\ \A d \in DOMAIN due : due[d] \in Nat
  BY DEF WebhookInv, KeyInv, TypeOK, BusyLoopsHaveDeliveries, DeliveryRecord, LoopRecord

\* A step of a sendWithRetry() loop.
LEMMA LoopStepInv ==
  ASSUME WebhookInv, NEW l \in Loops, LoopStep(l)
  PROVE  WebhookInv'
<1> DEFINE d == loop[l].delivery
<1>1. CASE AnswerOk(l)
  BY <1>1, FinalizeStep DEF AnswerOk
<1>2. CASE AnswerGone(l)
  BY <1>2, FinalizeStep DEF AnswerGone, history
<1>3. CASE LastAttemptFails(l)
  BY <1>3, FinalizeStep DEF LastAttemptFails, history
<1>4. ASSUME loop[l].pc # "idle"
      PROVE  /\ d \in Deliveries
             /\ \A c \in Callers : \A e \in Deliveries : l = <<e, c>> => e = d
             /\ d \notin overlapped => \A m \in Loops \ {l} :
                                          loop[m].pc # "idle" => loop[m].delivery # d
  BY <1>4, Typing DEF WebhookInv, KeyInv, OwnLoops, LetterInv, SingleLoop
<1>5. CASE AttemptFails(l)
  <2> DEFINE rec == Written(delivery[d], "retrying", loop[l].attempt, "later")
             lp == [loop[l] EXCEPT !.pc = "sleeping"]
  <2>1. /\ loop[l].pc = "fetching"
        /\ delivery' = [delivery EXCEPT ![d] = rec]
        /\ loop' = [loop EXCEPT ![l] = lp]
        /\ UNCHANGED <<deadLetters, deliveredKeys, accepted, due, overlapped>>
    BY <1>5 DEF AttemptFails, service, history
  <2>2. lp \in LoopRecord /\ lp.pc = "sleeping" /\ lp.delivery = d
    BY Typing DEF LoopRecord
  <2>3. d \in Deliveries
    BY <1>4, <2>1
  <2> HIDE DEF lp, d
  <2>4. rec \in DeliveryRecord /\ rec.status = "retrying" /\ rec.key = delivery[d].key
    BY <2>3, WrittenFacts, Typing
  <2> HIDE DEF rec
  <2> QED BY <1>4, <2>1, <2>2, <2>3, <2>4, LoopOnStep, Typing DEF d
<1>6. CASE Wake(l)
  <2> DEFINE n == loop[l].attempt + 1
             st == IF n = 1 THEN "pending" ELSE "retrying"
             rec == Record(l, delivery[d], st, n)
             lp == [pc |-> "fetching", delivery |-> d, attempt |-> n,
                    intact |-> loop[l].intact, result |-> "none"]
  <2>1. /\ loop[l].pc = "sleeping"
        /\ delivery' = [delivery EXCEPT ![d] = rec]
        /\ loop' = [loop EXCEPT ![l] = lp]
        /\ UNCHANGED <<deadLetters, deliveredKeys, accepted, due, overlapped>>
    BY <1>6 DEF Wake, Attempt, service, history
  <2>2. d \in Deliveries
    BY <1>4, <2>1
  <2>3. lp \in LoopRecord /\ lp.pc = "fetching" /\ lp.delivery = d
    BY <2>2, Typing DEF LoopRecord
  <2>4. st \in {"pending", "retrying"} /\ n \in Nat
    BY Typing
  <2> HIDE DEF lp, d, st, n
  <2>5. rec \in DeliveryRecord /\ rec.status = st /\ rec.key = delivery[d].key
    BY <2>2, <2>4, RecordFacts, Typing
  <2> HIDE DEF rec
  <2> QED BY <1>4, <2>1, <2>2, <2>3, <2>4, <2>5, LoopOnStep, Typing DEF d
<1>7. CASE Return(l)
  BY <1>7, ReturnStep
<1> QED BY <1>1, <1>2, <1>3, <1>5, <1>6, <1>7 DEF LoopStep

\* The worker fails a delivery that has no attempt left.
LEMMA NoAttemptLeftStep ==
  ASSUME WebhookInv, NEW d \in Deliveries, NEW n \in Nat,
         NoAttemptLeft(d, n),
         UNCHANGED <<loop, deliveredKeys, accepted>>,
         DOMAIN due' \subseteq Deliveries, \A e \in DOMAIN due' : due'[e] \in Nat
  PROVE  WebhookInv'
<1> DEFINE rec == Written(delivery[d], "failed", n, "due")
<1>1. /\ delivery' = [delivery EXCEPT ![d] = rec]
      /\ deadLetters' = deadLetters \cup {d}
      /\ overlapped' = IF BusyOn(d) = {} THEN overlapped ELSE overlapped \cup {d}
  BY DEF NoAttemptLeft
<1>2. rec \in DeliveryRecord /\ rec.status = "failed" /\ rec.key = delivery[d].key
  BY WrittenFacts, Typing
<1> HIDE DEF rec
<1>3. /\ delivery' \in [Deliveries -> DeliveryRecord]
      /\ delivery'[d] = rec
      /\ \A e \in Deliveries : e # d => delivery'[e] = delivery[e]
      /\ \A e \in Deliveries : delivery[e].status # "none" =>
            delivery'[e].status # "none" /\ delivery'[e].key = delivery[e].key
  BY <1>1, <1>2 DEF WebhookInv, KeyInv, TypeOK
<1>4. overlapped \subseteq overlapped' /\ (BusyOn(d) # {} => d \in overlapped')
  BY <1>1
<1>5. TypeOK'
  BY <1>1, <1>3 DEF WebhookInv, KeyInv, TypeOK
<1>6. BusyLoopsHaveDeliveries' /\ OwnLoops'
  BY <1>3 DEF WebhookInv, KeyInv, BusyLoopsHaveDeliveries, OwnLoops
<1>7. KeysAccepted'
  BY <1>3 DEF WebhookInv, KeyInv, BusyLoopsHaveDeliveries, KeysAccepted
<1>8. SkippedOnlyIfAccepted'
  BY <1>2, <1>3 DEF WebhookInv, KeyInv, SkippedOnlyIfAccepted
<1>9. SingleLoop'
  BY <1>4 DEF WebhookInv, LetterInv, SingleLoop
<1>10. ReturningMatch'
  <2>1. \A l \in Loops : loop[l].pc = "returning" /\ loop[l].delivery = d => d \in overlapped'
    BY <1>4 DEF BusyOn
  <2> QED BY <1>1, <1>4, <2>1 DEF WebhookInv, LetterInv, ReturningMatch
<1>11. LettersCreated'
  BY <1>1, <1>2, <1>3 DEF WebhookInv, LetterInv, LettersCreated
<1>12. DeadLettersMatch'
  <2>1. \A e \in Deliveries : Resting(e)' => Resting(e)
    BY DEF Resting, BusyOn
  <2> QED BY <1>1, <1>2, <1>3, <1>4, <2>1 DEF WebhookInv, LetterInv, DeadLettersMatch, Stranded
<1> QED BY <1>5, <1>6, <1>7, <1>8, <1>9, <1>10, <1>11, <1>12
        DEF WebhookInv, KeyInv, LetterInv

\* The worker takes up a delivery, fails it, or gives up its list.
LEMMA ProcessInv ==
  ASSUME WebhookInv, loop[Worker].pc = "idle", NEW d \in Deliveries, NEW n \in Nat, NEW rest,
         DOMAIN rest \subseteq Deliveries, \A e \in DOMAIN rest : rest[e] \in Nat,
         Process(d, n, rest)
  PROVE  WebhookInv'
<1>1. CASE due' = rest /\ SendWithRetry(Worker, d, delivery[d], n)
           /\ UNCHANGED <<webhook, deadLetters, deliveredKeys, checking, accepted>>
  <2>1. /\ Worker \in Loops
        /\ \A c \in Callers : \A e \in Deliveries : Worker = <<e, c>> => e = d
    BY WebhookAssumption DEF Loops, Callers
  <2> QED BY <1>1, <2>1, StartStep, Typing
<1>2. CASE due' = [x \in {} |-> 0] /\ UNCHANGED <<webhook, delivery, deadLetters,
             deliveredKeys, loop, checking, history>>
  <2>1. DOMAIN due' = {}
    BY <1>2
  <2> QED BY <1>2, <2>1, QuietStep DEF history
<1>3. CASE due' = rest /\ NoAttemptLeft(d, n)
           /\ UNCHANGED <<webhook, deliveredKeys, loop, checking, accepted>>
  BY <1>3, NoAttemptLeftStep
<1> QED BY <1>1, <1>2, <1>3 DEF Process

\* A step of the delivery worker.
LEMMA WorkerStepInv ==
  ASSUME WebhookInv, WorkerStep
  PROVE  WebhookInv'
<1>1. ASSUME NEW S, S \subseteq Deliveries
      PROVE  DOMAIN AttemptsOf(S) \subseteq Deliveries
             /\ \A e \in DOMAIN AttemptsOf(S) : AttemptsOf(S)[e] \in Nat
  BY <1>1, Typing DEF AttemptsOf
<1>2. CASE Tick
  <2>1. PICK d \in Kept(DueRetries) :
           Process(d, delivery[d].attempts, AttemptsOf(DueRetries \ {d}))
    BY <1>2 DEF Tick
  <2>2. d \in Deliveries /\ DueRetries \ {d} \subseteq Deliveries
    BY <2>1 DEF Kept, DueRetries
  <2>3. loop[Worker].pc = "idle" /\ delivery[d].attempts \in Nat
    BY <1>2, <2>2, Typing DEF Tick
  <2>4. /\ DOMAIN AttemptsOf(DueRetries \ {d}) \subseteq Deliveries
        /\ \A e \in DOMAIN AttemptsOf(DueRetries \ {d}) : AttemptsOf(DueRetries \ {d})[e] \in Nat
    BY <1>1, <2>2
  <2> QED BY <2>1, <2>2, <2>3, <2>4, ProcessInv
<1>3. CASE TickContinues
  <2>1. PICK d \in Kept(DOMAIN due) :
           Process(d, due[d], [x \in DOMAIN due \ {d} |-> due[x]])
    BY <1>3 DEF TickContinues
  <2> DEFINE rest == [x \in DOMAIN due \ {d} |-> due[x]]
  <2>2. d \in Deliveries /\ due[d] \in Nat /\ loop[Worker].pc = "idle"
    BY <1>3, <2>1, Typing DEF Kept, TickContinues
  <2>3. DOMAIN rest \subseteq Deliveries /\ \A e \in DOMAIN rest : rest[e] \in Nat
    BY Typing
  <2>4. Process(d, due[d], rest)
    BY <2>1
  <2> HIDE DEF rest
  <2> QED BY <2>2, <2>3, <2>4, ProcessInv
<1>4. CASE TickEnds
  <2>1. DOMAIN due' = {}
    BY <1>4 DEF TickEnds
  <2> QED BY <1>4, <2>1, QuietStep DEF TickEnds, history
<1> QED BY <1>2, <1>3, <1>4 DEF WorkerStep

\* The first loop of a delivery that was just created.
LEMMA FirstLoopInv ==
  ASSUME WebhookInv, NEW d \in Deliveries, NEW w \in Webhooks, NEW k \in Keys \cup {NoKey},
         FirstLoop(d, w, k)
  PROVE  WebhookInv'
<1> DEFINE l == <<d, "first">>
           rec == [webhook |-> w, key |-> k]
<1>1. l \in Loops /\ \A c \in Callers : \A e \in Deliveries : l = <<e, c>> => e = d
  BY DEF Loops, Callers
<1>2. /\ delivery[d].status = "none" /\ SendWithRetry(l, d, rec, 0)
      /\ UNCHANGED <<deadLetters, deliveredKeys, accepted, due>>
  BY DEF FirstLoop, Fresh, service
<1>3. loop[l].pc = "idle"
  BY <1>1, <1>2 DEF WebhookInv, KeyInv, OwnLoops, BusyLoopsHaveDeliveries, Callers
<1>4. rec.webhook \in Webhooks \cup {NoWebhook} /\ rec.key \in Keys \cup {NoKey}
  OBVIOUS
<1> HIDE DEF l, rec
<1> QED BY <1>1, <1>2, <1>3, <1>4, StartStep, Typing

\* deliverEvent() that skips or defers the event.
LEMMA CreatedInv ==
  ASSUME WebhookInv, NEW d \in Deliveries, NEW w \in Webhooks, NEW k \in Keys,
         NEW st \in {"skipped", "retrying"}, NEW at \in {"unset", "later"},
         Created(d, w, k, st, at), st = "skipped" => k \in deliveredKeys,
         UNCHANGED <<service, loop, history>>
  PROVE  WebhookInv'
<1> DEFINE rec == [status |-> st, attempts |-> 0, nextRetryAt |-> at,
                   webhook |-> w, key |-> k]
<1>1. delivery[d].status = "none" /\ delivery' = [delivery EXCEPT ![d] = rec]
  BY DEF Created, Fresh
<1>2. rec \in DeliveryRecord /\ rec.status = st /\ rec.key = k
  BY DEF DeliveryRecord
<1> HIDE DEF rec
<1>3. d \notin deadLetters
  BY <1>1 DEF WebhookInv, LetterInv, LettersCreated
<1>4. rec.status = "skipped" => rec.key \in accepted
  BY <1>2 DEF WebhookInv, KeyInv, KeysAccepted
<1>5. UNCHANGED <<loop, deadLetters, overlapped, accepted, deliveredKeys, due>>
  BY DEF service, history
<1> QED BY <1>1, <1>2, <1>3, <1>4, <1>5, WriteStep

\* An event: skipped, deferred or sent.
LEMMA EventInv ==
  ASSUME WebhookInv, Event
  PROVE  WebhookInv'
<1>1. PICK d \in Deliveries, w \in Webhooks, k \in Keys :
         SkipEvent(d, w, k) \/ DeferEvent(d, w, k) \/ DeliverEvent(d, w, k)
  BY DEF Event
<1>2. CASE SkipEvent(d, w, k)
  BY <1>2, CreatedInv DEF SkipEvent
<1>3. CASE DeferEvent(d, w, k)
  BY <1>3, CreatedInv DEF DeferEvent
<1>4. CASE DeliverEvent(d, w, k)
  BY <1>4, FirstLoopInv DEF DeliverEvent
<1> QED BY <1>1, <1>2, <1>3, <1>4

\* retryWebhookDelivery() that starts a loop.
LEMMA RetryInv ==
  ASSUME WebhookInv, NEW d \in Deliveries, RetryWebhookDelivery(d)
  PROVE  WebhookInv'
<1> DEFINE l == <<d, "manual">>
<1>1. l \in Loops /\ \A c \in Callers : \A e \in Deliveries : l = <<e, c>> => e = d
  BY DEF Loops, Callers
<1>2. /\ loop[l].pc = "idle" /\ SendWithRetry(l, d, delivery[d], 0)
      /\ UNCHANGED <<deadLetters, deliveredKeys, accepted, due>>
  BY DEF RetryWebhookDelivery, service
<1> HIDE DEF l
<1> QED BY <1>1, <1>2, StartStep, Typing

\* retryWebhookDelivery() that throws: the delivery is stranded.
LEMMA RetryThrowsInv ==
  ASSUME WebhookInv, NEW d \in Deliveries, RetryThrows(d)
  PROVE  WebhookInv'
<1> DEFINE rec == Written(delivery[d], "retrying", 0, "unset")
<1>1. /\ delivery' = [delivery EXCEPT ![d] = rec]
      /\ UNCHANGED <<loop, deadLetters, overlapped, accepted, deliveredKeys, due>>
  BY DEF RetryThrows, service, history
<1>2. /\ rec \in DeliveryRecord /\ rec.status = "retrying" /\ rec.nextRetryAt = "unset"
      /\ rec.key = delivery[d].key
  BY WrittenFacts, Typing
<1> HIDE DEF rec
<1> QED BY <1>1, <1>2, WriteStep

\* The clean-up job takes a dead letter away together with its delivery.
LEMMA PurgeInv ==
  ASSUME WebhookInv, NEW d \in Deliveries, PurgeDeadLetter(d)
  PROVE  WebhookInv'
<1> DEFINE rec == Written(delivery[d], "purged", 0, "unset")
<1>1. /\ delivery' = [delivery EXCEPT ![d] = rec]
      /\ deadLetters' = deadLetters \ {d}
      /\ UNCHANGED <<loop, overlapped, accepted, deliveredKeys, due>>
  BY DEF PurgeDeadLetter, history
<1>2. /\ rec \in DeliveryRecord /\ rec.status = "purged"
      /\ rec.key = delivery[d].key
  BY WrittenFacts, Typing
<1>3. \A l \in Loops : loop[l].delivery = d => loop[l].pc # "returning"
  BY DEF PurgeDeadLetter, BusyOn
<1> HIDE DEF rec
<1> QED BY <1>1, <1>2, <1>3, WriteStep

\* The time of a retry comes: a stranded delivery has none.
LEMMA RetryDueInv ==
  ASSUME WebhookInv, NEW d \in Deliveries, RetryDue(d)
  PROVE  WebhookInv'
<1> DEFINE rec == [delivery[d] EXCEPT !.nextRetryAt = "due"]
<1>1. /\ delivery[d].nextRetryAt = "later"
      /\ delivery' = [delivery EXCEPT ![d] = rec]
      /\ UNCHANGED <<loop, deadLetters, overlapped, accepted, deliveredKeys, due>>
  BY DEF RetryDue, service, history
<1>2. /\ rec \in DeliveryRecord /\ rec.status = delivery[d].status
      /\ rec.key = delivery[d].key
  BY Typing DEF DeliveryRecord
<1> HIDE DEF rec
<1>3. rec.status = "skipped" => rec.key \in accepted
  BY <1>2 DEF WebhookInv, KeyInv, SkippedOnlyIfAccepted
<1>4. Resting(d) /\ d \notin overlapped => (rec.status = "failed" <=> d \in deadLetters)
  BY <1>1, <1>2 DEF WebhookInv, LetterInv, DeadLettersMatch, Stranded
<1> QED BY <1>1, <1>2, <1>3, <1>4, WriteStep

\* Calls on webhooks, health checks and expiring keys write no delivery.
LEMMA ManagementInv ==
  ASSUME WebhookInv,
         \/ \E k \in Keys : KeyExpires(k)
         \/ \E w \in Webhooks :
               \/ \E isPaused \in BOOLEAN : UpdateWebhook(w, isPaused)
               \/ ResumeWebhook(w) \/ StartHealthCheck(w)
               \/ DeleteWebhook(w) \/ FinishHealthCheck(w)
  PROVE  WebhookInv'
<1>1. /\ UNCHANGED <<delivery, loop, deadLetters, overlapped, accepted, due>>
      /\ deliveredKeys' \subseteq deliveredKeys
  BY DEF KeyExpires, UpdateWebhook, ResumeWebhook, StartHealthCheck, DeleteWebhook,
         FinishHealthCheck, SetWebhook, history
<1> QED BY <1>1, QuietStep, Typing

\* What merchants, operators and the clean-up job call.
LEMMA CallInv ==
  ASSUME WebhookInv, Call
  PROVE  WebhookInv'
<1>1. ASSUME NEW d \in Deliveries, NEW w \in Webhooks, TestWebhook(d, w) PROVE WebhookInv'
  BY <1>1, FirstLoopInv DEF TestWebhook
<1>2. ASSUME NEW d \in Deliveries,
             \/ RetryWebhookDelivery(d) \/ RetryThrows(d)
             \/ ReplayDeadLetter(d) \/ PurgeDeadLetter(d)
      PROVE  WebhookInv'
  BY <1>2, RetryInv, RetryThrowsInv, PurgeInv DEF ReplayDeadLetter
<1> QED BY <1>1, <1>2, ManagementInv DEF Call

\* Every step keeps the invariant.
LEMMA NextInv == WebhookInv /\ [Next]_vars => WebhookInv'
<1> SUFFICES ASSUME WebhookInv, [Next]_vars PROVE WebhookInv'
  OBVIOUS
<1>1. CASE \E l \in Loops : LoopStep(l)
  BY <1>1, LoopStepInv
<1>2. CASE WorkerStep
  BY <1>2, WorkerStepInv
<1>3. CASE Event
  BY <1>3, EventInv
<1>4. CASE Call
  BY <1>4, CallInv
<1>5. CASE \E d \in Deliveries : RetryDue(d)
  BY <1>5, RetryDueInv
<1>6. CASE \E w \in Webhooks : DeleteWebhook(w) \/ FinishHealthCheck(w)
  BY <1>6, ManagementInv
<1>7. CASE UNCHANGED vars
  BY <1>7, QuietStep, Typing DEF vars, service, history
<1> QED BY <1>1, <1>2, <1>3, <1>4, <1>5, <1>6, <1>7 DEF Next

\* The invariant of the delivery service; fairness plays no part.
LEMMA WebhookInvariant == Spec => []WebhookInv
  BY InitInv, NextInv, PTL DEF Spec

\* deliverEvent() skips an event as a duplicate only if an endpoint accepted a
\* delivery with its key.
THEOREM NoEventSwallowed == Spec => []SkippedOnlyIfAccepted
<1>1. WebhookInv => SkippedOnlyIfAccepted
  BY DEF WebhookInv, KeyInv
<1> QED BY <1>1, WebhookInvariant, PTL

\* Unless loops have overlapped on it, a delivery at rest is a dead letter
\* exactly if it failed, but for one stranded by a retry that threw.
THEOREM DeadLettersExact == Spec => []DeadLettersMatch
<1>1. WebhookInv => DeadLettersMatch
  BY DEF WebhookInv, LetterInv
<1> QED BY <1>1, WebhookInvariant, PTL

=============================================================================
