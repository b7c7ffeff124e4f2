------------------------ MODULE SubscriptionProofs --------------------------
(***************************************************************************)
(* What holds of the subscription contract for every number of users,      *)
(* plans and subscriptions and for every input.                            *)
(*                                                                         *)
(* Types come first: CoreInv is inductive over the twenty operations.  To  *)
(* billing and ownership a step is one of six: nothing happens, a          *)
(* subscription is opened, touched (its pause or its refund request        *)
(* changes), charged, closed or moved.  The lemma StepKinds establishes    *)
(* that once; each invariant is then proved over the six kinds of step.    *)
(* Before that come the results on reading revenue schedules back, which   *)
(* in the end apply to the schedules this contract stores.                 *)
(***************************************************************************)
EXTENDS Subscription, Revenue, SumProofs

-----------------------------------------------------------------------------
(* Schedules and their entries *)

\* A schedule a charge can have stored.
ScheduleOK(s) ==
  s \in [total_amount : Nat, start : Nat, period_secs : Nat \ {0},
         num_periods : Nat \ {0}]

Slice(s) == s.total_amount \div s.num_periods
Share(s, i) == Entry(s, i).recognised_amount

\* The amount of an entry but the last is a rounded quotient.
LEMMA SliceFacts ==
  ASSUME NEW s, ScheduleOK(s)
  PROVE  /\ Slice(s) \in Nat
         /\ s.num_periods * Slice(s) <= s.total_amount
         /\ s.total_amount < s.num_periods * Slice(s) + s.num_periods
  <1>1. s.total_amount \in Nat /\ s.num_periods \in Nat \ {0}
    BY DEF ScheduleOK
  <1> QED  BY <1>1 DEF Slice

\* The entries follow one another without a gap, and none is negative.
LEMMA EntryFacts ==
  ASSUME NEW s, ScheduleOK(s), NEW i \in EntryIds(s)
  PROVE  /\ i \in Nat /\ i < s.num_periods
         /\ i * s.period_secs \in Nat
         /\ Entry(s, i).period_start = s.start + i * s.period_secs
         /\ Entry(s, i).period_end = Entry(s, i).period_start + s.period_secs
         /\ Share(s, i) = IF i = s.num_periods - 1
                          THEN s.total_amount - Slice(s) * (s.num_periods - 1)
                          ELSE Slice(s)
         /\ Share(s, i) \in Nat
  <1>1. /\ s.total_amount \in Nat /\ s.num_periods \in Nat \ {0}
        /\ s.period_secs \in Nat \ {0} /\ s.start \in Nat
    BY DEF ScheduleOK
  <1>2. i \in Nat /\ i < s.num_periods
    BY <1>1 DEF EntryIds
  <1>3. i * s.period_secs \in Nat /\ (i + 1) * s.period_secs = i * s.period_secs + s.period_secs
    BY <1>1, <1>2
  <1>4. /\ Entry(s, i).period_start = s.start + i * s.period_secs
        /\ Entry(s, i).period_end = s.start + (i + 1) * s.period_secs
        /\ Share(s, i) = IF i = s.num_periods - 1
                         THEN s.total_amount - Slice(s) * (s.num_periods - 1)
                         ELSE Slice(s)
    BY DEF Entry, Share, Slice
  <1>5. Entry(s, i).period_end = Entry(s, i).period_start + s.period_secs
    BY <1>1, <1>3, <1>4
  <1>6. Share(s, i) \in Nat
    <2>1. PICK d \in Nat : d = Slice(s)
      BY SliceFacts
    <2>2. PICK n \in Nat : n = s.num_periods
      BY <1>1
    <2>3. n * d <= s.total_amount
      BY <2>1, <2>2, SliceFacts
    <2>4. d * (n - 1) = n * d - d
      BY <2>1, <2>2
    <2> QED  BY <1>1, <1>4, <2>1, <2>2, <2>3, <2>4
  <1> QED  BY <1>2, <1>3, <1>4, <1>5, <1>6

\* The part of an entry recognised so far.
LEMMA PartialFacts ==
  ASSUME NEW s, ScheduleOK(s), NEW i \in EntryIds(s), NEW t \in Nat
  PROVE  LET e == Entry(s, i)
             elapsed == t - e.period_start IN
         /\ Partial(e, t) = (Share(s, i) * elapsed) \div s.period_secs
         /\ Partial(e, t) \in Int
         /\ s.period_secs * Partial(e, t) <= Share(s, i) * elapsed
         /\ Share(s, i) * elapsed < s.period_secs * Partial(e, t) + s.period_secs
  <1>1. PICK a \in Nat : a = Share(s, i)
    BY EntryFacts
  <1>2. PICK b \in Int : b = Entry(s, i).period_start
    BY EntryFacts DEF ScheduleOK
  <1>3. PICK p \in Nat \ {0} : p = s.period_secs
    BY DEF ScheduleOK
  <1>4. Entry(s, i).period_end - b = p
    BY <1>2, <1>3, EntryFacts
  <1>5. Partial(Entry(s, i), t) = (a * (t - b)) \div p
    BY <1>1, <1>2, <1>4 DEF Partial, Share
  <1>6. a * (t - b) \in Int
    OBVIOUS
  <1> QED  BY <1>1, <1>2, <1>3, <1>5, <1>6, DivBounds

\* An entry is split without remainder at every time.
LEMMA EntrySplit ==
  ASSUME NEW s, ScheduleOK(s), NEW i \in EntryIds(s), NEW t \in Nat
  PROVE  /\ EntryRecognised(Entry(s, i), t) \in Int
         /\ EntryDeferred(Entry(s, i), t) \in Int
         /\ Share(s, i) = EntryRecognised(Entry(s, i), t) + EntryDeferred(Entry(s, i), t)
  <1>1. PICK a \in Nat : a = Share(s, i)
    BY EntryFacts
  <1>2. PICK x \in Int : x = Partial(Entry(s, i), t)
    BY PartialFacts
  <1>3. a = Entry(s, i).recognised_amount
    BY <1>1 DEF Share
  <1> QED  BY <1>1, <1>2, <1>3 DEF EntryRecognised, EntryDeferred

\* The entries of a schedule add up to its total: the last one takes what the
\* division leaves over.
LEMMA EntriesAddUp ==
  ASSUME NEW s, ScheduleOK(s), NEW f, \A i \in EntryIds(s) : f[i] = Share(s, i)
  PROVE  SumOver(f, EntryIds(s)) = s.total_amount
  <1>1. PICK n \in Nat \ {0} : n = s.num_periods
    BY DEF ScheduleOK
  <1>2. PICK d \in Nat : d = Slice(s)
    BY SliceFacts
  <1>3. PICK S : S = EntryIds(s)
    OBVIOUS
  <1>4. S = 0..(n - 1) /\ IsFiniteSet(S) /\ n - 1 \in S
    <2>1. S = 0..(n - 1) /\ n - 1 \in Nat
      BY <1>1, <1>3 DEF EntryIds
    <2>2. IsFiniteSet(0..(n - 1))
      BY <2>1, FS_Interval
    <2> QED  BY <2>1, <2>2
  <1>5. \A i \in S : f[i] \in Int
    BY <1>3, EntryFacts
  <1>6. SumOver(f, S) = f[n - 1] + SumOver(f, S \ {n - 1})
    BY <1>4, <1>5, SumRemove
  <1>7. f[n - 1] = s.total_amount - d * (n - 1)
    BY <1>1, <1>2, <1>3, <1>4, EntryFacts
  <1>8. SumOver(f, S \ {n - 1}) = (n - 1) * d
    <2>1. S \ {n - 1} = 0..(n - 2)
      BY <1>4
    <2>2. \A i \in 0..(n - 2) : f[i] = d
      <3> SUFFICES ASSUME NEW i \in 0..(n - 2) PROVE f[i] = d
        OBVIOUS
      <3>1. i \in EntryIds(s) /\ i # s.num_periods - 1
        BY <1>1, <1>3, <1>4
      <3> QED  BY <1>2, <3>1, EntryFacts
    <2>3. PICK T : T = 0..(n - 2)
      OBVIOUS
    <2>4. IsFiniteSet(T) /\ Cardinality(T) = n - 1
      BY <2>3, FS_Interval
    <2>5. SumOver(f, T) = Cardinality(T) * d
      BY <2>2, <2>3, <2>4, SumConstant
    <2> QED  BY <2>1, <2>3, <2>4, <2>5
  <1>9. s.total_amount \in Nat /\ d * (n - 1) = (n - 1) * d /\ (n - 1) * d \in Int
    BY DEF ScheduleOK
  <1> QED  BY <1>3, <1>6, <1>7, <1>8, <1>9

\* So nothing is lost or counted twice in a split.
LEMMA SplitTotal ==
  ASSUME NEW s, ScheduleOK(s), NEW t \in Nat
  PROVE  Recognised(s, t) + Deferred(s, t) = s.total_amount
  <1>1. PICK S : S = EntryIds(s)
    OBVIOUS
  <1>2. PICK r : r = [i \in S |-> EntryRecognised(Entry(s, i), t)]
    OBVIOUS
  <1>3. PICK d : d = [i \in S |-> EntryDeferred(Entry(s, i), t)]
    OBVIOUS
  <1>4. PICK f : f = [i \in S |-> Share(s, i)]
    OBVIOUS
  <1>5. \A i \in S : r[i] \in Int /\ d[i] \in Int /\ f[i] = r[i] + d[i]
    BY <1>1, <1>2, <1>3, <1>4, EntrySplit
  <1>6. IsFiniteSet(S)
    BY <1>1, FS_Interval DEF EntryIds, ScheduleOK
  <1>7. SumOver(f, S) = SumOver(r, S) + SumOver(d, S)
    BY <1>5, <1>6, SumOfSums
  <1>8. SumOver(f, S) = s.total_amount
    BY <1>1, <1>4, EntriesAddUp
  <1> QED  BY <1>1, <1>2, <1>3, <1>7, <1>8 DEF Recognised, Deferred

\* Within its period an entry is recognised in part, and more as time passes.
LEMMA PartialGrows ==
  ASSUME NEW s, ScheduleOK(s), NEW i \in EntryIds(s), NEW t \in Nat, NEW u \in Nat,
         t <= u, Entry(s, i).period_start <= t, u <= Entry(s, i).period_end
  PROVE  LET e == Entry(s, i) IN
         0 <= Partial(e, t) /\ Partial(e, t) <= Partial(e, u) /\ Partial(e, u) <= Share(s, i)
  <1>1. PICK a \in Nat : a = Share(s, i)
    BY EntryFacts
  <1>2. PICK b \in Int : b = Entry(s, i).period_start
    BY EntryFacts DEF ScheduleOK
  <1>3. PICK p \in Nat \ {0} : p = s.period_secs
    BY DEF ScheduleOK
  <1>4. PICK x \in Int : x = Partial(Entry(s, i), t)
    BY PartialFacts
  <1>5. PICK y \in Int : y = Partial(Entry(s, i), u)
    BY PartialFacts
  <1>6. /\ p * x <= a * (t - b) /\ a * (t - b) < p * x + p
        /\ p * y <= a * (u - b) /\ a * (u - b) < p * y + p
    BY <1>1, <1>2, <1>3, <1>4, <1>5, PartialFacts
  <1>7. 0 <= t - b /\ t - b <= u - b /\ u - b <= p
    BY <1>2, <1>3, EntryFacts
  <1>8. a * (t - b) <= a * (u - b) /\ a * (u - b) <= a * p /\ a * 0 <= a * (t - b)
    BY <1>7, Scaling
  <1>9. a * p = p * a /\ a * 0 = 0 /\ p * 0 = 0 /\ p * x \in Int /\ p * y \in Int /\ p * a \in Int
        /\ a * (t - b) \in Int /\ a * (u - b) \in Int
    OBVIOUS
  <1>10. x <= y
    <2>1. p * x < p * y + p
      BY <1>6, <1>8, <1>9
    <2> QED  BY <2>1, Cancel
  <1>11. y <= a
    <2>1. p * y < p * a + p
      BY <1>6, <1>8, <1>9
    <2> QED  BY <2>1, Cancel
  <1>12. 0 <= x
    <2>1. p * 0 < p * x + p
      BY <1>6, <1>8, <1>9
    <2> QED  BY <2>1, Cancel
  <1> QED  BY <1>1, <1>4, <1>5, <1>10, <1>11, <1>12

\* What is recognised of an entry grows with time.
LEMMA EntryGrows ==
  ASSUME NEW s, ScheduleOK(s), NEW i \in EntryIds(s), NEW t \in Nat, NEW u \in Nat,
         t <= u
  PROVE  EntryRecognised(Entry(s, i), t) <= EntryRecognised(Entry(s, i), u)
  <1>1. PICK a \in Nat : a = Share(s, i) /\ a = Entry(s, i).recognised_amount
    BY EntryFacts DEF Share
  <1>2. PICK b \in Int : b = Entry(s, i).period_start
    BY EntryFacts DEF ScheduleOK
  <1>3. PICK c \in Int : c = Entry(s, i).period_end /\ b < c
    BY <1>2, EntryFacts DEF ScheduleOK
  <1>4. CASE t >= c
    BY <1>1, <1>3, <1>4 DEF EntryRecognised
  <1>5. CASE b <= t /\ t < c /\ u <= c
    <2>1. 0 <= Partial(Entry(s, i), t) /\ Partial(Entry(s, i), t) <= Partial(Entry(s, i), u)
          /\ Partial(Entry(s, i), u) <= a
      BY <1>1, <1>2, <1>3, <1>5, PartialGrows
    <2>2. Partial(Entry(s, i), t) \in Int /\ Partial(Entry(s, i), u) \in Int
      BY PartialFacts
    <2> QED  BY <1>1, <1>2, <1>3, <1>5, <2>1, <2>2 DEF EntryRecognised
  <1>6. CASE b <= t /\ t < c /\ u > c
    <2>1. t <= t /\ Entry(s, i).period_start <= t /\ t <= Entry(s, i).period_end
      BY <1>2, <1>3, <1>6
    <2>2. Partial(Entry(s, i), t) <= Share(s, i)
      BY <2>1, PartialGrows
    <2> QED  BY <1>1, <1>2, <1>3, <1>6, <2>2 DEF EntryRecognised
  <1>7. CASE t < b
    <2>1. EntryRecognised(Entry(s, i), t) = 0
      BY <1>2, <1>3, <1>7 DEF EntryRecognised
    <2>2. CASE u >= c \/ u < b
      BY <1>1, <1>2, <1>3, <2>1, <2>2 DEF EntryRecognised
    <2>3. CASE b <= u /\ u < c
      <3>1. u <= u /\ Entry(s, i).period_start <= u /\ u <= Entry(s, i).period_end
        BY <1>2, <1>3, <2>3
      <3>2. 0 <= Partial(Entry(s, i), u)
        BY <3>1, PartialGrows
      <3> QED  BY <1>2, <1>3, <2>1, <2>3, <3>2 DEF EntryRecognised
    <2> QED  BY <2>2, <2>3
  <1> QED  BY <1>4, <1>5, <1>6, <1>7

\* What is recognised of a schedule grows with time.
LEMMA RecognisedGrows ==
  ASSUME NEW s, ScheduleOK(s), NEW t \in Nat, NEW u \in Nat, t <= u
  PROVE  Recognised(s, t) <= Recognised(s, u)
  <1>1. PICK S : S = EntryIds(s)
    OBVIOUS
  <1>2. PICK f : f = [i \in S |-> EntryRecognised(Entry(s, i), t)]
    OBVIOUS
  <1>3. PICK g : g = [i \in S |-> EntryRecognised(Entry(s, i), u)]
    OBVIOUS
  <1>4. \A i \in S : f[i] \in Int /\ g[i] \in Int /\ f[i] <= g[i]
    BY <1>1, <1>2, <1>3, EntrySplit, EntryGrows
  <1>5. IsFiniteSet(S)
    BY <1>1, FS_Interval DEF EntryIds, ScheduleOK
  <1>6. SumOver(f, S) <= SumOver(g, S)
    BY <1>4, <1>5, SumMonotone
  <1> QED  BY <1>1, <1>2, <1>3, <1>6 DEF Recognised

-----------------------------------------------------------------------------
(* How far recognition is from a straight line *)

\* Recognition in period k, after r of its p seconds: k slices d and the part x
\* of the share a.  It does not run ahead of the line.
LEMMA NotAhead ==
  ASSUME NEW n \in Nat \ {0}, NEW p \in Nat \ {0}, NEW d \in Nat, NEW total \in Nat,
         NEW k \in Nat, k < n, NEW r \in Nat, r < p, NEW a \in Nat, NEW x \in Int,
         n * d <= total,
         a = IF k = n - 1 THEN total - d * (n - 1) ELSE d,
         p * x <= a * r
  PROVE  (k * d + x) * (n * p) <= total * (k * p + r)
  <1>1. PICK rem \in Nat : total = n * d + rem
    <2>1. total - n * d \in Nat
      OBVIOUS
    <2> QED  BY <2>1
  <1>2. PICK el \in Nat : el = k * p + r
    OBVIOUS
  <1>3. n * (p * x) <= n * (a * r)
    <2>1. p * x \in Int /\ a * r \in Int
      OBVIOUS
    <2> QED  BY <2>1, Scaling
  <1>4. (k * d + x) * (n * p) = n * (p * (k * d)) + n * (p * x)
    OBVIOUS
  <1>5. total * el = (n * d) * el + rem * el
    BY <1>1
  <1>6. CASE k # n - 1
    <2>1. a = d
      BY <1>6
    <2>2. n * (p * (k * d)) + n * (d * r) = (n * d) * el
      BY <1>2
    <2>3. rem * el \in Nat /\ (n * d) * el \in Nat
      OBVIOUS
    <2> QED  BY <1>2, <1>3, <1>4, <1>5, <2>1, <2>2, <2>3
  <1>7. CASE k = n - 1
    <2>1. a = d + rem
      <3>1. d * (n - 1) = n * d - d
        OBVIOUS
      <3> QED  BY <1>1, <1>7, <3>1
    <2>2. n * (a * r) = n * (d * r) + n * (rem * r)
      BY <2>1
    <2>3. n * (p * (k * d)) + n * (d * r) = (n * d) * el
      BY <1>2
    <2>4. n * (rem * r) <= rem * el
      <3>1. (rem * k) * r <= (rem * k) * p
        BY Scaling
      <3>2. n * (rem * r) = (rem * k) * r + rem * r
        BY <1>7
      <3>3. rem * el = (rem * k) * p + rem * r
        BY <1>2
      <3>4. (rem * k) * r \in Int /\ (rem * k) * p \in Int /\ rem * r \in Int
        OBVIOUS
      <3> QED  BY <3>1, <3>2, <3>3, <3>4
    <2>5. /\ rem * el \in Nat /\ (n * d) * el \in Nat /\ n * (rem * r) \in Nat
          /\ n * (d * r) \in Nat /\ n * (p * (k * d)) \in Nat /\ n * (p * x) \in Int
      OBVIOUS
    <2> QED  BY <1>2, <1>3, <1>4, <1>5, <2>2, <2>3, <2>4, <2>5
  <1> QED  BY <1>6, <1>7

\* And it lags by less than one unit per period.
LEMMA NotFarBehind ==
  ASSUME NEW n \in Nat \ {0}, NEW p \in Nat \ {0}, NEW d \in Nat, NEW total \in Nat,
         NEW k \in Nat, k < n, NEW r \in Nat, r < p, NEW a \in Nat, NEW x \in Int,
         n * d <= total, total < n * d + n, d <= a,
         a * r < p * x + p
  PROVE  total * (k * p + r) < (k * d + x + n) * (n * p)
  <1>1. PICK rem \in Nat : total = n * d + rem
    <2>1. total - n * d \in Nat
      OBVIOUS
    <2> QED  BY <2>1
  <1>2. PICK el \in Nat : el = k * p + r
    OBVIOUS
  <1>3. rem <= n - 1
    BY <1>1
  <1>4. el <= n * p
    <2>1. p * (k + 1) <= p * n
      BY Scaling
    <2>2. p * (k + 1) = k * p + p /\ p * n = n * p /\ k * p \in Int /\ n * p \in Int
      OBVIOUS
    <2> QED  BY <1>2, <2>1, <2>2
  <1>5. rem * el <= (n - 1) * (n * p)
    <2>1. rem * el <= rem * (n * p)
      BY <1>4, Scaling
    <2>2. (n * p) * rem <= (n * p) * (n - 1)
      BY <1>3, Scaling
    <2>3. /\ rem * (n * p) = (n * p) * rem /\ (n - 1) * (n * p) = (n * p) * (n - 1)
          /\ rem * el \in Int /\ (n * p) * rem \in Int /\ (n * p) * (n - 1) \in Int
      OBVIOUS
    <2> QED  BY <2>1, <2>2, <2>3
  <1>6. n * (a * r) < n * (p * x) + n * p
    <2>1. a * r + 1 <= p * x + p /\ a * r + 1 \in Int /\ p * x + p \in Int
      OBVIOUS
    <2>2. n * (a * r + 1) <= n * (p * x + p)
      BY <2>1, Scaling
    <2>3. /\ n * (a * r + 1) = n * (a * r) + n
          /\ n * (p * x + p) = n * (p * x) + n * p
          /\ n * (a * r) \in Int /\ n * (p * x) \in Int /\ n * p \in Int
      OBVIOUS
    <2> QED  BY <2>2, <2>3
  <1>7. n * (d * r) <= n * (a * r)
    <2>1. r * d <= r * a
      BY Scaling
    <2>2. r * d = d * r /\ r * a = a * r /\ d * r \in Int /\ a * r \in Int
      OBVIOUS
    <2> QED  BY <2>1, <2>2, Scaling
  <1>8. (k * d + x + n) * (n * p) =
          n * (p * (k * d)) + n * (p * x) + n * p + (n - 1) * (n * p)
    OBVIOUS
  <1>9. total * el = n * (p * (k * d)) + n * (d * r) + rem * el
    BY <1>1, <1>2
  <1>10. /\ n * (p * (k * d)) \in Int /\ n * (p * x) \in Int /\ n * p \in Int
         /\ (n - 1) * (n * p) \in Int /\ n * (d * r) \in Int /\ n * (a * r) \in Int
         /\ rem * el \in Int
    OBVIOUS
  <1> QED  BY <1>2, <1>5, <1>6, <1>7, <1>8, <1>9, <1>10

\* Within the schedule, the periods before k are recognised in full, period k in
\* part and those after it not at all.
LEMMA RecognisedIn ==
  ASSUME NEW s, ScheduleOK(s), NEW t \in Nat,
         s.start <= t, t < s.start + s.num_periods * s.period_secs
  PROVE  \E k \in EntryIds(s), r \in Nat, x \in Int :
           /\ r < s.period_secs /\ t - s.start = k * s.period_secs + r
           /\ Recognised(s, t) = k * Slice(s) + x
           /\ s.period_secs * x <= Share(s, k) * r
           /\ Share(s, k) * r < s.period_secs * x + s.period_secs
  <1>1. PICK n \in Nat \ {0}, p \in Nat \ {0}, b \in Nat :
          n = s.num_periods /\ p = s.period_secs /\ b = s.start
    BY DEF ScheduleOK
  <1>2. PICK d \in Nat : d = Slice(s)
    BY SliceFacts
  <1>3. PICK y \in Int : y = t - b
    OBVIOUS
  <1>3a. PICK k \in Int : k = y \div p
    BY DivBounds
  <1>4. p * k <= t - b /\ t - b < p * k + p
    BY <1>3, <1>3a, DivBounds
  <1>5. 0 <= k /\ k <= n - 1
    <2>1. p * 0 < p * k + p
      BY <1>1, <1>4
    <2>2. p * (n - 1) = n * p - p /\ n * p \in Int /\ p * k \in Int
      OBVIOUS
    <2>3. p * k < p * (n - 1) + p
      BY <1>1, <1>4, <2>2
    <2> QED  BY <2>1, <2>3, Cancel
  <1>6. k \in EntryIds(s)
    BY <1>1, <1>5 DEF EntryIds
  <1>7. PICK r \in Nat : r = t - b - k * p
    <2>1. k * p = p * k /\ k * p \in Int
      OBVIOUS
    <2> QED  BY <1>4, <2>1
  <1>8. r < p /\ t - b = k * p + r
    <2>1. k * p = p * k /\ k * p \in Int
      OBVIOUS
    <2> QED  BY <1>4, <1>7, <2>1
  <1>9. PICK x \in Int : x = Partial(Entry(s, k), t)
    BY <1>6, PartialFacts
  <1>10. p * x <= Share(s, k) * r /\ Share(s, k) * r < p * x + p
    <2>1. t - Entry(s, k).period_start = r
      BY <1>1, <1>6, <1>7, EntryFacts
    <2> QED  BY <1>1, <1>6, <1>9, <2>1, PartialFacts
  <1>11. PICK S : S = EntryIds(s)
    OBVIOUS
  <1>12. PICK f : f = [i \in S |-> EntryRecognised(Entry(s, i), t)]
    OBVIOUS
  <1>13. /\ \A i \in S : f[i] \in Int
         /\ f[k] = x
         /\ \A i \in S : i < k => f[i] = d
         /\ \A i \in S : k < i => f[i] = 0
    <2>1. \A i \in S : f[i] \in Int
      BY <1>11, <1>12, EntrySplit
    <2>2. f[k] = x
      <3>1. Entry(s, k).period_start = b + k * p /\ Entry(s, k).period_end = b + k * p + p
        BY <1>1, <1>6, EntryFacts
      <3>2. Entry(s, k).period_start <= t /\ ~(t >= Entry(s, k).period_end)
        BY <1>8, <3>1
      <3> QED  BY <1>6, <1>9, <1>11, <1>12, <3>2 DEF EntryRecognised
    <2>3. ASSUME NEW i \in S, i < k PROVE f[i] = d
      <3>1. i \in EntryIds(s) /\ i \in Nat /\ i # s.num_periods - 1
        BY <1>1, <1>5, <1>11, <2>3 DEF EntryIds
      <3>2. Entry(s, i).period_end = b + i * p + p /\ Share(s, i) = d
        BY <1>1, <1>2, <3>1, EntryFacts
      <3>3. p * (i + 1) <= p * k /\ p * (i + 1) = i * p + p /\ i * p \in Int /\ p * k \in Int
        BY <2>3, <3>1, Scaling
      <3>4. t >= Entry(s, i).period_end
        BY <1>4, <3>2, <3>3
      <3> QED  BY <1>11, <1>12, <3>2, <3>4 DEF EntryRecognised, Share
    <2>4. ASSUME NEW i \in S, k < i PROVE f[i] = 0
      <3>1. i \in EntryIds(s) /\ i \in Nat
        BY <1>1, <1>11 DEF EntryIds
      <3>2. /\ Entry(s, i).period_start = b + i * p
            /\ Entry(s, i).period_end = b + i * p + p
        BY <1>1, <3>1, EntryFacts
      <3>3. p * (k + 1) <= p * i /\ p * (k + 1) = p * k + p /\ p * i = i * p
            /\ i * p \in Int /\ p * k \in Int
        BY <2>4, <3>1, Scaling
      <3>4. ~(t >= Entry(s, i).period_start) /\ ~(t >= Entry(s, i).period_end)
        BY <1>4, <3>2, <3>3
      <3> QED  BY <1>11, <1>12, <3>2, <3>4 DEF EntryRecognised
    <2> QED  BY <2>1, <2>2, <2>3, <2>4
  <1>14. PICK T : T = 0..k
    OBVIOUS
  <1>15. S = 0..(n - 1) /\ IsFiniteSet(S) /\ T \in SUBSET S /\ k \in T /\ IsFiniteSet(T)
    <2>1. S = 0..(n - 1) /\ n - 1 \in Int
      BY <1>1, <1>11 DEF EntryIds
    <2>2. IsFiniteSet(0..(n - 1)) /\ IsFiniteSet(0..k)
      BY <2>1, FS_Interval
    <2> QED  BY <1>5, <1>14, <2>1, <2>2
  <1>16. SumOver(f, S) = SumOver(f, T)
    <2>1. \A i \in S \ T : f[i] = 0
      BY <1>13, <1>14, <1>15
    <2> QED  BY <1>13, <1>15, <2>1, SumPart
  <1>17. SumOver(f, T) = x + SumOver(f, T \ {k})
    BY <1>13, <1>15, SumRemove
  <1>18. SumOver(f, T \ {k}) = k * d
    <2>1. PICK U : U = 0..(k - 1)
      OBVIOUS
    <2>2. IsFiniteSet(U) /\ Cardinality(U) = k
      BY <1>5, <2>1, FS_Interval
    <2>3. \A i \in U : f[i] = d
      BY <1>5, <1>13, <1>15, <2>1
    <2>4. SumOver(f, U) = Cardinality(U) * d
      <3>1. d \in Int /\ IsFiniteSet(U) /\ \A i \in U : f[i] = d
        BY <2>2, <2>3
      <3> QED  BY <3>1, SumConstant, ZenonT(30)
    <2>5. T \ {k} = U
      BY <1>5, <1>14, <2>1
    <2> QED  BY <2>2, <2>4, <2>5
  <1>19. Recognised(s, t) = k * Slice(s) + x
    <2>1. k * d \in Int
      OBVIOUS
    <2> QED
      BY <1>2, <1>11, <1>12, <1>16, <1>17, <1>18, <2>1 DEF Recognised
  <1> QED  BY <1>1, <1>6, <1>8, <1>10, <1>19

\* Before its start nothing of a schedule is recognised, after its end all.
LEMMA RecognisedOutside ==
  ASSUME NEW s, ScheduleOK(s), NEW t \in Nat
  PROVE  /\ t < s.start => Recognised(s, t) = 0
         /\ s.start + s.num_periods * s.period_secs <= t =>
              Recognised(s, t) = s.total_amount
  <1>1. PICK S : S = EntryIds(s)
    OBVIOUS
  <1>2. PICK f : f = [i \in S |-> EntryRecognised(Entry(s, i), t)]
    OBVIOUS
  <1>3. Recognised(s, t) = SumOver(f, S)
    BY <1>1, <1>2 DEF Recognised
  <1>4. PICK n \in Nat \ {0}, p \in Nat \ {0}, b \in Nat :
          n = s.num_periods /\ p = s.period_secs /\ b = s.start
    BY DEF ScheduleOK
  <1>5. IsFiniteSet(S) /\ Cardinality(S) \in Nat
    BY <1>1, FS_Interval, FS_CardinalityType DEF EntryIds, ScheduleOK
  <1>6. ASSUME t < b PROVE SumOver(f, S) = 0
    <2>1. ASSUME NEW i \in S PROVE f[i] = 0
      <3>1. i \in EntryIds(s) /\ i * p \in Nat
        BY <1>1, <1>4, EntryFacts
      <3>2. Entry(s, i).period_start = b + i * p /\ Entry(s, i).period_end = b + i * p + p
        BY <1>4, <3>1, EntryFacts
      <3>3. ~(t >= Entry(s, i).period_start) /\ ~(t >= Entry(s, i).period_end)
        BY <1>6, <3>1, <3>2
      <3> QED  BY <1>2, <3>2, <3>3 DEF EntryRecognised
    <2>2. SumOver(f, S) = Cardinality(S) * 0
      BY <1>5, <2>1, SumConstant
    <2> QED  BY <1>5, <2>2
  <1>7. ASSUME b + n * p <= t PROVE SumOver(f, S) = s.total_amount
    <2>1. ASSUME NEW i \in S PROVE f[i] = Share(s, i)
      <3>1. i \in EntryIds(s) /\ i \in Nat /\ i < n
        BY <1>1, <1>4, EntryFacts
      <3>2. Entry(s, i).period_end = b + i * p + p
        BY <1>4, <3>1, EntryFacts
      <3>3. p * (i + 1) <= p * n /\ p * (i + 1) = i * p + p /\ p * n = n * p
            /\ i * p \in Int /\ n * p \in Int
        BY <3>1, Scaling
      <3>4. t >= Entry(s, i).period_end
        BY <1>7, <3>2, <3>3
      <3> QED  BY <1>2, <3>4 DEF EntryRecognised, Share
    <2> QED  BY <1>1, <2>1, EntriesAddUp
  <1> QED  BY <1>3, <1>4, <1>6, <1>7

\* The share of a period is at least a slice.
LEMMA ShareAtLeast ==
  ASSUME NEW s, ScheduleOK(s), NEW i \in EntryIds(s)
  PROVE  Slice(s) <= Share(s, i)
  <1>1. PICK d \in Nat : d = Slice(s)
    BY SliceFacts
  <1>2. PICK n \in Nat : n = s.num_periods
    BY DEF ScheduleOK
  <1>3. n * d <= s.total_amount /\ d * (n - 1) = n * d - d /\ s.total_amount \in Nat
        /\ n * d \in Nat
    BY <1>1, <1>2, SliceFacts DEF ScheduleOK
  <1> QED  BY <1>1, <1>2, <1>3, EntryFacts

\* The two bounds at every time.
LEMMA NearTheLine ==
  ASSUME NEW s, ScheduleOK(s), NEW t \in Nat
  PROVE  LET due == s.total_amount * Elapsed(s, t) IN
         /\ Recognised(s, t) * ScheduleLength(s) <= due
         /\ due < (Recognised(s, t) + s.num_periods) * ScheduleLength(s)
  <1>1. PICK n \in Nat \ {0}, p \in Nat \ {0}, b \in Nat, total \in Nat :
          /\ n = s.num_periods /\ p = s.period_secs /\ b = s.start
          /\ total = s.total_amount
    BY DEF ScheduleOK
  <1>2. ScheduleLength(s) = n * p /\ n * p \in Nat /\ n * p > 0
    BY <1>1 DEF ScheduleLength
  <1>3. CASE t < b
    <2>1. Recognised(s, t) = 0 /\ Elapsed(s, t) = 0
      BY <1>1, <1>3, RecognisedOutside DEF Elapsed
    <2>2. total * 0 = 0 /\ 0 * (n * p) = 0 /\ n * (n * p) > 0
      BY <1>2
    <2> QED  BY <1>1, <1>2, <2>1, <2>2
  <1>4. CASE b + n * p <= t
    <2>1. Recognised(s, t) = total
      BY <1>1, <1>4, RecognisedOutside
    <2>2. Elapsed(s, t) = n * p
      BY <1>1, <1>2, <1>4 DEF Elapsed
    <2>3. (total + n) * (n * p) = total * (n * p) + n * (n * p) /\ n * (n * p) > 0
          /\ total * (n * p) \in Int /\ n * (n * p) \in Int
      BY <1>2
    <2> QED  BY <1>1, <1>2, <2>1, <2>2, <2>3
  <1>5. CASE b <= t /\ t < b + n * p
    <2>1. PICK k \in EntryIds(s), r \in Nat, x \in Int :
            /\ r < p /\ t - b = k * p + r
            /\ Recognised(s, t) = k * Slice(s) + x
            /\ p * x <= Share(s, k) * r
            /\ Share(s, k) * r < p * x + p
      BY <1>1, <1>5, RecognisedIn
    <2>2. PICK d \in Nat : d = Slice(s) /\ n * d <= total /\ total < n * d + n
      BY <1>1, SliceFacts
    <2>3. PICK a \in Nat : /\ a = Share(s, k) /\ d <= a
                           /\ a = IF k = n - 1 THEN total - d * (n - 1) ELSE d
      BY <1>1, <2>2, EntryFacts, ShareAtLeast
    <2>4. k \in Nat /\ k < n
      BY <1>1, EntryFacts
    <2>5. Elapsed(s, t) = k * p + r
      BY <1>1, <1>2, <1>5, <2>1 DEF Elapsed
    <2>6. (k * d + x) * (n * p) <= total * (k * p + r)
      BY <2>1, <2>2, <2>3, <2>4, NotAhead
    <2>7. total * (k * p + r) < (k * d + x + n) * (n * p)
      BY <2>1, <2>2, <2>3, <2>4, NotFarBehind
    <2> QED  BY <1>1, <1>2, <2>1, <2>2, <2>5, <2>6, <2>7
  <1> QED  BY <1>3, <1>4, <1>5

-----------------------------------------------------------------------------
(* Reading schedules back: the theorems *)

\* The number of periods is a positive number.
LEMMA PeriodsPositive ==
  ASSUME NEW a \in Nat \ {0}, NEW p \in Nat \ {0}
  PROVE  DivCeil(a, p) \in Nat \ {0}
  <1>1. PICK q \in Int : q = (a + p - 1) \div p
    OBVIOUS
  <1>2. a + p - 1 < p * q + p
    BY <1>1
  <1>3. p * 1 < p * q + p
    BY <1>2
  <1>4. 1 <= q
    BY <1>3, Cancel
  <1> QED  BY <1>1, <1>4 DEF DivCeil

\* Every schedule of a charge is one.
LEMMA SchedulesOK ==
  ASSUME NEW rule \in RevenueRule \cup {NoRule}, ScheduleBuildable(rule),
         NEW total \in Nat, NEW t \in Nat, NEW interval \in Nat \ {0}
  PROVE  ScheduleOK(ScheduleFor(rule, total, t, interval))
  <1>1. CASE rule.method = "StraightLine"
    <2>1. PICK p \in Nat \ {0} : p = rule.recognition_period
      BY <1>1 DEF RevenueRule, NoRule, ScheduleBuildable
    <2>2. PICK n \in Nat \ {0} : n = DivCeil(interval, p)
      BY PeriodsPositive
    <2>3. ScheduleFor(rule, total, t, interval) = RevenueScheduleOf(total, t, p, n)
      BY <1>1, <2>1, <2>2 DEF ScheduleFor
    <2> QED  BY <2>3 DEF RevenueScheduleOf, ScheduleOK
  <1>2. CASE rule.method # "StraightLine"
    BY <1>2 DEF ScheduleFor, RevenueScheduleOf, ScheduleOK
  <1> QED  BY <1>1, <1>2

RevenueInv ==
  /\ clock \in Nat
  /\ window \in Windows
  /\ DOMAIN tracked = Subs
  /\ \A id \in Subs : ScheduleOK(tracked[id])

\* The invariant holds throughout.
LEMMA AlwaysRevenue == RevenueSpec => []RevenueInv
  <1>1. RevenueInit => RevenueInv
    <2> SUFFICES ASSUME RevenueInit PROVE RevenueInv
      OBVIOUS
    <2> DEFINE Charges == {<<r.method, ScheduleFor(r, total, t, i)>> :
                             r \in {q \in Rules : ScheduleBuildable(q)},
                             total \in Totals, t \in Times, i \in Lengths}
    <2>0. PICK charged \in [Subs -> Charges] :
            tracked = [id \in Subs |-> charged[id][2]]
      BY DEF RevenueInit
    <2>1. DOMAIN tracked = Subs
      BY <2>0
    <2>2. ASSUME NEW id \in Subs PROVE ScheduleOK(tracked[id])
      <3>0. charged[id] \in Charges
        BY <2>0
      <3>1. PICK rule \in {q \in Rules : ScheduleBuildable(q)}, total \in Totals,
                 t \in Times, i \in Lengths :
              tracked[id] = ScheduleFor(rule, total, t, i)
        BY <2>0, <3>0
      <3>2. /\ rule \in RevenueRule \cup {NoRule} /\ ScheduleBuildable(rule)
            /\ total \in Nat /\ t \in Nat /\ i \in Nat \ {0}
        BY RevenueAssumption
      <3> QED  BY <3>1, <3>2, SchedulesOK
    <2> QED  BY <2>1, <2>2 DEF RevenueInit, RevenueInv
  <1>2. RevenueInv /\ [PassTime]_revenueState => RevenueInv'
    BY DEF RevenueInv, PassTime, revenueState, Windows
  <1> QED  BY <1>1, <1>2, PTL DEF RevenueSpec

\* split_recognised_deferred accounts for the whole amount of every schedule
\* at every time: nothing is lost to rounding or at the ends of periods.
THEOREM SplitExact == RevenueSpec => []SplitConserves
  <1>1. RevenueInv => SplitConserves
    BY SplitTotal DEF RevenueInv, SplitConserves
  <1> QED  BY <1>1, AlwaysRevenue, PTL

\* Recognised revenue only grows with time.
THEOREM NothingTakenBack == RevenueSpec => RecognitionMonotone
  <1> DEFINE Grows == \A id \in Subs :
               Recognised(tracked[id], clock) <= Recognised(tracked[id], clock')
  <1>1. RevenueInv /\ [PassTime]_revenueState => [Grows]_clock
    <2> SUFFICES ASSUME RevenueInv, PassTime PROVE Grows
      BY DEF revenueState
    <2>1. clock \in Nat /\ clock' \in Nat /\ clock <= clock'
      BY DEF RevenueInv, PassTime
    <2> QED  BY <2>1, RecognisedGrows DEF RevenueInv
  <1> QED  BY <1>1, AlwaysRevenue, PTL DEF RevenueSpec, RecognitionMonotone

\* Under a straight-line rule, or none, recognition never runs ahead of the
\* elapsed time and lags by less than one unit per period, for every amount,
\* period and time.
THEOREM StraightLineClose == RevenueSpec => []CloseToStraightLine
  <1>1. RevenueInv => CloseToStraightLine
    BY NearTheLine DEF RevenueInv, CloseToStraightLine
  <1> QED  BY <1>1, AlwaysRevenue, PTL


-----------------------------------------------------------------------------
(* Analytics *)

\* The fields of a query.
LEMMA WindowFacts ==
  ASSUME NEW w \in Windows
  PROVE  w.from \in Nat /\ w.to \in Nat /\ w.period \in Nat \ {0}
  <1>1. w \in [from : 0..Horizon, to : 0..Horizon, period : Periods]
    BY DEF Windows
  <1>2. 0..Horizon \subseteq Nat /\ Periods \subseteq Nat \ {0}
    BY RevenueAssumption
  <1> QED  BY <1>1, <1>2

\* The bucket the loop computes for an entry is the one whose bounds it is in.
LEMMA BucketIsBounds ==
  ASSUME NEW w \in Windows, NEW e, e.period_start \in Nat, NEW b \in Nat
  PROVE  InWindow(e, w) /\ BucketOf(e, w) = b <=> InBounds(e, w, b)
  <1>1. PICK f \in Nat, t \in Nat, p \in Nat \ {0} :
          f = w.from /\ t = w.to /\ p = w.period
    BY WindowFacts
  <1>2. PICK x \in Nat : x = e.period_start
    OBVIOUS
  <1>3. PICK m \in Nat : m = b * p
    BY <1>1
  <1>4. (b + 1) * p = m + p /\ p * b = m
    BY <1>1, <1>3
  <1>5. (x - f) \div p = b <=> m <= x - f /\ x - f < m + p
    <2>1. x - f \in Int /\ b \in Int
      BY <1>1, <1>2
    <2> QED  BY <1>1, <1>4, <2>1, DivUnique
  <1>6. InWindow(e, w) /\ BucketOf(e, w) = b <=> f <= x /\ x < t /\ (x - f) \div p = b
    BY <1>1, <1>2 DEF InWindow, BucketOf
  <1>7. InBounds(e, w, b) <=> f + m <= x /\ x < f + (m + p) /\ x < t
    BY <1>1, <1>2, <1>3, <1>4 DEF InBounds
  <1> QED  BY <1>1, <1>2, <1>3, <1>5, <1>6, <1>7

\* Every entry in the window has a bucket: there are enough of them.
LEMMA BucketExists ==
  ASSUME NEW w \in Windows, NEW e, e.period_start \in Nat, InWindow(e, w)
  PROVE  BucketOf(e, w) \in 0..(NumBuckets(w) - 1) /\ NumBuckets(w) \in Nat
  <1>1. PICK f \in Nat, t \in Nat, p \in Nat \ {0} :
          f = w.from /\ t = w.to /\ p = w.period
    BY WindowFacts
  <1>2. PICK x \in Nat : x = e.period_start
    OBVIOUS
  <1>3. f <= x /\ x < t
    BY <1>1, <1>2 DEF InWindow
  <1>4. PICK d \in Int : d = (x - f) \div p
    BY <1>1
  <1>5. PICK n \in Int : n = (t - f + p - 1) \div p
    BY <1>1
  <1>6. p * d <= x - f /\ x - f < p * d + p
    <2>1. x - f \in Int
      BY <1>1, <1>2
    <2> QED  BY <1>1, <1>4, <2>1, DivBounds
  <1>7. p * n <= t - f + p - 1 /\ t - f + p - 1 < p * n + p
    <2>1. t - f + p - 1 \in Int
      BY <1>1
    <2> QED  BY <1>1, <1>5, <2>1, DivBounds
  <1>8. d >= 0
    <2>1. SUFFICES ASSUME d <= -1 PROVE FALSE
      OBVIOUS
    <2>2. p * d + p <= 0
      BY <2>1
    <2> QED  BY <1>3, <1>6, <2>2, <1>1, <1>2
  <1>9. d < n
    <2>1. SUFFICES ASSUME n <= d PROVE FALSE
      OBVIOUS
    <2>2. p * n <= p * d
      BY <2>1
    <2> QED  BY <1>1, <1>2, <1>3, <1>6, <1>7, <2>2
  <1>10. BucketOf(e, w) = d /\ NumBuckets(w) = n
    BY <1>1, <1>2, <1>4, <1>5 DEF BucketOf, NumBuckets, DivCeil
  <1> QED  BY <1>8, <1>9, <1>10

\* The entries of the subscription within the bounds of a bucket.
EntriesWithin(s, w, b) == {i \in EntryIds(s) : InBounds(Entry(s, i), w, b)}

\* An entry starts at some time and has an amount.
LEMMA EntryStart ==
  ASSUME NEW s, ScheduleOK(s), NEW i \in EntryIds(s)
  PROVE  Entry(s, i).period_start \in Nat /\ Entry(s, i).recognised_amount \in Nat
  <1>1. s.start \in Nat
    BY DEF ScheduleOK
  <1> QED  BY <1>1, EntryFacts DEF Share

\* A schedule has finitely many entries.
LEMMA EntryIdsFinite ==
  ASSUME NEW s, ScheduleOK(s)
  PROVE  IsFiniteSet(EntryIds(s))
  <1>1. 0 \in Int /\ s.num_periods - 1 \in Int
    BY DEF ScheduleOK
  <1> QED  BY <1>1, FS_Interval DEF EntryIds

\* What the loop adds to a bucket is, row by row, what lies within its bounds.
LEMMA BucketRows ==
  ASSUME NEW S, \A id \in DOMAIN S : ScheduleOK(S[id]),
         NEW w \in Windows, NEW b \in 0..(NumBuckets(w) - 1)
  PROVE  BucketEntries(S, w, b) =
           Rows([id \in DOMAIN S |-> EntriesWithin(S[id], w, b)], DOMAIN S)
  <1>1. b \in Nat /\ b < NumBuckets(w)
    <2>1. PICK f \in Nat, t \in Nat, p \in Nat \ {0} :
            f = w.from /\ t = w.to /\ p = w.period
      BY WindowFacts
    <2>2. NumBuckets(w) \in Int
      BY <2>1 DEF NumBuckets, DivCeil
    <2> QED  BY <2>2
  <1>2. ASSUME NEW id \in DOMAIN S, NEW i \in EntryIds(S[id])
        PROVE  /\ EntryAt(S, <<id, i>>) = Entry(S[id], i)
               /\ InWindow(Entry(S[id], i), w) /\ BucketOf(Entry(S[id], i), w) = b
                    <=> InBounds(Entry(S[id], i), w, b)
    <2>1. PICK e : e = Entry(S[id], i)
      OBVIOUS
    <2>2. e.period_start \in Nat
      BY <2>1, EntryStart
    <2> QED  BY <1>1, <2>1, <2>2, BucketIsBounds DEF EntryAt
  <1>3. ASSUME NEW x \in BucketEntries(S, w, b)
        PROVE  x \in Rows([id \in DOMAIN S |-> EntriesWithin(S[id], w, b)], DOMAIN S)
    <2>1. PICK id \in DOMAIN S : \E i \in EntryIds(S[id]) : x = <<id, i>>
      BY <1>3 DEF BucketEntries, AllEntries
    <2>2. PICK i \in EntryIds(S[id]) : x = <<id, i>>
      BY <2>1
    <2>3. InBounds(Entry(S[id], i), w, b)
      BY <1>2, <1>3, <2>2 DEF BucketEntries
    <2>4. i \in EntriesWithin(S[id], w, b)
      BY <2>3 DEF EntriesWithin
    <2> QED  BY <2>2, <2>4 DEF Rows
  <1>4. ASSUME NEW x \in Rows([id \in DOMAIN S |-> EntriesWithin(S[id], w, b)], DOMAIN S)
        PROVE  x \in BucketEntries(S, w, b)
    <2>1. PICK id \in DOMAIN S : \E i \in EntriesWithin(S[id], w, b) : x = <<id, i>>
      BY <1>4 DEF Rows
    <2>2. PICK i \in EntriesWithin(S[id], w, b) : x = <<id, i>>
      BY <2>1
    <2>3. i \in EntryIds(S[id]) /\ InBounds(Entry(S[id], i), w, b)
      BY <2>2 DEF EntriesWithin
    <2>4. x \in AllEntries(S)
      BY <2>2, <2>3 DEF AllEntries
    <2> QED  BY <1>1, <1>2, <2>2, <2>3, <2>4 DEF BucketEntries
  <1> QED  BY <1>3, <1>4

\* A bucket holds the sum of what lies within its bounds.
LEMMA BucketAdds ==
  ASSUME NEW S, IsFiniteSet(DOMAIN S), \A id \in DOMAIN S : ScheduleOK(S[id]),
         NEW w \in Windows, NEW b \in 0..(NumBuckets(w) - 1)
  PROVE  BucketAmount(S, w, b) =
           SumOver([id \in DOMAIN S |-> AmountWithin(S[id], w, b)], DOMAIN S)
  <1>1. PICK I : I = [id \in DOMAIN S |-> EntriesWithin(S[id], w, b)]
    OBVIOUS
  <1>2. PICK added : added = BucketEntries(S, w, b)
    OBVIOUS
  <1>3. PICK f : f = [x \in added |-> EntryAt(S, x).recognised_amount]
    OBVIOUS
  <1>4. PICK h : h = [id \in DOMAIN S |-> AmountWithin(S[id], w, b)]
    OBVIOUS
  <1>5. added = Rows(I, DOMAIN S)
    BY <1>1, <1>2, BucketRows
  <1>6. ASSUME NEW a \in DOMAIN S, NEW i \in I[a]
        PROVE  /\ i \in EntryIds(S[a]) /\ InBounds(Entry(S[a], i), w, b)
               /\ f[<<a, i>>] = Entry(S[a], i).recognised_amount
               /\ f[<<a, i>>] \in Int
    <2>1. i \in EntryIds(S[a]) /\ InBounds(Entry(S[a], i), w, b)
      BY <1>1 DEF EntriesWithin
    <2>2. <<a, i>> \in added
      BY <1>5 DEF Rows
    <2>3. f[<<a, i>>] = Entry(S[a], i).recognised_amount
      BY <1>3, <2>2 DEF EntryAt
    <2> QED  BY <2>1, <2>3, EntryStart
  <1>7. ASSUME NEW a \in DOMAIN S
        PROVE  /\ IsFiniteSet({a} \X I[a])
               /\ h[a] = SumOver(f, {a} \X I[a])
    <2>1. PICK ids : ids = EntryIds(S[a])
      OBVIOUS
    <2>2. PICK g : g = [i \in ids |-> IF InBounds(Entry(S[a], i), w, b)
                                      THEN Entry(S[a], i).recognised_amount ELSE 0]
      OBVIOUS
    <2>3. h[a] = SumOver(g, ids)
      BY <1>4, <2>1, <2>2 DEF AmountWithin
    <2>4. IsFiniteSet(ids) /\ I[a] \in SUBSET ids /\ IsFiniteSet(I[a])
      BY <1>1, <2>1, EntryIdsFinite, FS_Subset DEF EntriesWithin
    <2>5. \A i \in ids : g[i] \in Int
      BY <2>1, <2>2, EntryStart
    <2>6. \A i \in ids \ I[a] : g[i] = 0
      BY <1>1, <2>1, <2>2 DEF EntriesWithin
    <2>7. SumOver(g, ids) = SumOver(g, I[a])
      BY <2>4, <2>5, <2>6, SumPart
    <2>8. \A i \in I[a] : g[i] \in Int /\ f[<<a, i>>] = g[i]
      BY <1>6, <2>1, <2>2, <2>5
    <2>9. IsFiniteSet({a} \X I[a]) /\ SumOver(f, {a} \X I[a]) = SumOver(g, I[a])
      <3>1. RowAgrees(f, a, g, I[a])
        BY <2>4, <2>8 DEF RowAgrees
      <3> QED  BY <3>1, SumRow
    <2> QED  BY <2>3, <2>7, <2>9
  <1>8. SumOver(f, Rows(I, DOMAIN S)) = SumOver(h, DOMAIN S)
    <2>1. RowSums(f, h, I, DOMAIN S)
      BY <1>6, <1>7 DEF RowSums
    <2> QED  BY <2>1, SumRows
  <1>9. BucketAmount(S, w, b) = SumOver(f, added)
    BY <1>2, <1>3 DEF BucketAmount
  <1> QED  BY <1>4, <1>5, <1>8, <1>9

\* The first entry of a schedule in the window, the one the loop counts.
FirstInWindow(s, w, i) ==
  /\ i \in EntryIds(s)
  /\ InWindow(Entry(s, i), w)
  /\ \A j \in 0..(i - 1) : ~InWindow(Entry(s, j), w)

\* A schedule has one first entry in the window.
LEMMA FirstIsUnique ==
  ASSUME NEW s, NEW w, NEW i, NEW j, FirstInWindow(s, w, i), FirstInWindow(s, w, j)
  PROVE  i = j
  <1>1. i \in Int /\ j \in Int /\ i >= 0 /\ j >= 0
    BY DEF FirstInWindow, EntryIds
  <1>2. ~(i < j)
    BY <1>1 DEF FirstInWindow
  <1>3. ~(j < i)
    BY <1>1 DEF FirstInWindow
  <1> QED  BY <1>1, <1>2, <1>3

\* A schedule with an entry in the window has a first one.
LEMMA FirstExists ==
  ASSUME NEW s, ScheduleOK(s), NEW w, NEW k \in EntryIds(s), InWindow(Entry(s, k), w)
  PROVE  \E i \in EntryIds(s) : FirstInWindow(s, w, i)
  <1>1. EntryIds(s) \subseteq Nat
    BY DEF EntryIds
  <1>2. PICK T : T = {i \in EntryIds(s) : InWindow(Entry(s, i), w)}
    OBVIOUS
  <1>3. T \in SUBSET Nat /\ T # {}
    BY <1>1, <1>2
  <1>4. PICK i \in T : \A y \in T : ~(y < i)
    BY <1>3, LeastNumber
  <1>5. ASSUME NEW j \in 0..(i - 1) PROVE ~InWindow(Entry(s, j), w)
    <2>1. i \in Nat /\ i < s.num_periods /\ s.num_periods \in Nat
      BY <1>1, <1>2, <1>4, EntryFacts DEF ScheduleOK
    <2>2. j \in EntryIds(s) /\ j < i
      BY <2>1 DEF EntryIds
    <2> QED  BY <1>2, <1>4, <2>2
  <1> QED  BY <1>2, <1>4, <1>5 DEF FirstInWindow

\* The subscriptions counted in bucket b, and those with an entry in the window.
Counted(S, w, b) ==
  {id \in DOMAIN S : \E i \in EntryIds(S[id]) :
     /\ <<id, i>> \in BucketEntries(S, w, b)
     /\ \A j \in 0..(i - 1) : ~InWindow(Entry(S[id], j), w)}
Active(S, w) ==
  {id \in DOMAIN S : \E i \in EntryIds(S[id]) : InWindow(Entry(S[id], i), w)}

\* A subscription counts in the bucket of its first entry.
LEMMA CountedIn ==
  ASSUME NEW S, \A id \in DOMAIN S : ScheduleOK(S[id]), NEW w \in Windows,
         NEW b, NEW id \in Counted(S, w, b)
  PROVE  \E i \in EntryIds(S[id]) :
           FirstInWindow(S[id], w, i) /\ BucketOf(Entry(S[id], i), w) = b
  <1>1. PICK i \in EntryIds(S[id]) :
          /\ <<id, i>> \in BucketEntries(S, w, b)
          /\ \A j \in 0..(i - 1) : ~InWindow(Entry(S[id], j), w)
    BY DEF Counted
  <1>2. EntryAt(S, <<id, i>>) = Entry(S[id], i)
    BY DEF EntryAt
  <1>3. InWindow(Entry(S[id], i), w) /\ BucketOf(Entry(S[id], i), w) = b
    BY <1>1, <1>2 DEF BucketEntries
  <1> QED  BY <1>1, <1>3 DEF FirstInWindow

\* A subscription with an entry in the window counts in some bucket.
LEMMA ActiveIsCounted ==
  ASSUME NEW S, \A id \in DOMAIN S : ScheduleOK(S[id]), NEW w \in Windows,
         NEW id \in Active(S, w)
  PROVE  \E b \in 0..(NumBuckets(w) - 1) : id \in Counted(S, w, b)
  <1>1. PICK k \in EntryIds(S[id]) : InWindow(Entry(S[id], k), w)
    BY DEF Active
  <1>2. id \in DOMAIN S /\ ScheduleOK(S[id])
    BY DEF Active
  <1>3. PICK i \in EntryIds(S[id]) : FirstInWindow(S[id], w, i)
    BY <1>1, <1>2, FirstExists
  <1>4. PICK e : e = Entry(S[id], i)
    OBVIOUS
  <1>5. e.period_start \in Nat /\ InWindow(e, w)
    BY <1>2, <1>3, <1>4, EntryStart DEF FirstInWindow
  <1>6. BucketOf(e, w) \in 0..(NumBuckets(w) - 1) /\ NumBuckets(w) \in Nat
    BY <1>5, BucketExists
  <1>7. PICK b \in 0..(NumBuckets(w) - 1) : b = BucketOf(e, w) /\ b < NumBuckets(w)
    BY <1>6
  <1>8. <<id, i>> \in AllEntries(S)
    BY <1>2, <1>3 DEF AllEntries
  <1>9. EntryAt(S, <<id, i>>) = e
    BY <1>4 DEF EntryAt
  <1>10. <<id, i>> \in BucketEntries(S, w, b)
    BY <1>5, <1>7, <1>8, <1>9 DEF BucketEntries
  <1> QED  BY <1>2, <1>3, <1>7, <1>10 DEF Counted, FirstInWindow

\* The counts of the buckets add up to the subscriptions in the window.
LEMMA CountsAddUp ==
  ASSUME NEW S, IsFiniteSet(DOMAIN S), \A id \in DOMAIN S : ScheduleOK(S[id]),
         NEW w \in Windows, NEW buckets, buckets = 0..(NumBuckets(w) - 1)
  PROVE  SumOver([b \in buckets |-> BucketSubscriptions(S, w, b)], buckets) =
           Cardinality(Active(S, w))
  <1>1. PICK A : A = [b \in buckets |-> Counted(S, w, b)]
    OBVIOUS
  <1>2. PICK h : h = [b \in buckets |-> BucketSubscriptions(S, w, b)]
    OBVIOUS
  <1>3. IsFiniteSet(buckets)
    <2>1. PICK f \in Nat, t \in Nat, p \in Nat \ {0} :
            f = w.from /\ t = w.to /\ p = w.period
      BY WindowFacts
    <2>2. 0 \in Int /\ NumBuckets(w) - 1 \in Int
      BY <2>1 DEF NumBuckets, DivCeil
    <2> QED  BY <2>2, FS_Interval
  <1>4. ASSUME NEW b \in buckets
        PROVE  IsFiniteSet(A[b]) /\ h[b] = Cardinality(A[b])
    <2>1. A[b] = Counted(S, w, b) /\ h[b] = BucketSubscriptions(S, w, b)
      BY <1>1, <1>2
    <2>2. A[b] \in SUBSET DOMAIN S
      BY <2>1 DEF Counted
    <2>3. h[b] = Cardinality(A[b])
      BY <2>1 DEF BucketSubscriptions, Counted
    <2> QED  BY <2>2, <2>3, FS_Subset
  <1>5. ASSUME NEW b \in buckets, NEW c \in buckets, b # c
        PROVE  A[b] \cap A[c] = {}
    <2>1. SUFFICES ASSUME NEW id \in A[b], id \in A[c] PROVE FALSE
      OBVIOUS
    <2>2. id \in Counted(S, w, b) /\ id \in Counted(S, w, c)
      BY <1>1, <2>1
    <2>3. PICK i \in EntryIds(S[id]) :
            FirstInWindow(S[id], w, i) /\ BucketOf(Entry(S[id], i), w) = b
      BY <2>2, CountedIn
    <2>4. PICK j \in EntryIds(S[id]) :
            FirstInWindow(S[id], w, j) /\ BucketOf(Entry(S[id], j), w) = c
      BY <2>2, CountedIn
    <2>5. i = j
      BY <2>3, <2>4, FirstIsUnique
    <2> QED  BY <1>5, <2>3, <2>4, <2>5
  <1>6. UnionOver(A, buckets) = Active(S, w)
    <2>1. ASSUME NEW id \in UnionOver(A, buckets) PROVE id \in Active(S, w)
      <3>1. PICK b \in buckets : id \in Counted(S, w, b)
        BY <1>1 DEF UnionOver
      <3>2. \E i \in EntryIds(S[id]) : FirstInWindow(S[id], w, i)
        BY <3>1, CountedIn
      <3>3. id \in DOMAIN S
        BY <3>1 DEF Counted
      <3> QED  BY <3>2, <3>3 DEF Active, FirstInWindow
    <2>2. ASSUME NEW id \in Active(S, w) PROVE id \in UnionOver(A, buckets)
      BY <1>1, ActiveIsCounted DEF UnionOver
    <2> QED  BY <2>1, <2>2
  <1>7. SumOver(h, buckets) = Cardinality(UnionOver(A, buckets))
    <2>1. Sizes(h, A, buckets)
      BY <1>3, <1>4, <1>5 DEF Sizes
    <2> QED  BY <2>1, SumSizes
  <1> QED  BY <1>2, <1>6, <1>7

\* Every bucket of an analytics query holds exactly the entries within its
\* bounds, and every subscription with an entry in the window is counted in
\* exactly one bucket, for every merchant, window and period.
THEOREM AnalyticsAddUp == RevenueSpec => []AnalyticsExact
  <1>1. RevenueInv => AnalyticsExact
    <2> SUFFICES ASSUME RevenueInv PROVE AnalyticsExact
      OBVIOUS
    <2>1. /\ DOMAIN tracked = Subs /\ IsFiniteSet(DOMAIN tracked)
          /\ \A id \in DOMAIN tracked : ScheduleOK(tracked[id])
          /\ window \in Windows
      BY RevenueAssumption DEF RevenueInv
    <2>2. BucketAmountsExact
      BY <2>1, BucketAdds DEF BucketAmountsExact
    <2>3. CountsOnce
      <3>1. PICK buckets : buckets = 0..(NumBuckets(window) - 1)
        OBVIOUS
      <3>2. Active(tracked, window) =
              {id \in Subs : \E i \in EntryIds(tracked[id]) :
                 LET start == Entry(tracked[id], i).period_start
                 IN  window.from <= start /\ start < window.to}
        BY <2>1 DEF Active, InWindow
      <3>3. SumOver([b \in buckets |-> BucketSubscriptions(tracked, window, b)], buckets) =
              Cardinality(Active(tracked, window))
        BY <2>1, <3>1, CountsAddUp
      <3> QED  BY <3>1, <3>2, <3>3 DEF CountsOnce
    <2> QED  BY <2>2, <2>3 DEF AnalyticsExact
  <1> QED  BY <1>1, AlwaysRevenue, PTL

-----------------------------------------------------------------------------
(* The contract: types *)


\* The inductive core: the types need the bound on refunds (approve_refund
\* subtracts) and that the plans of existing subscriptions exist.
CoreInv == TypeOK /\ IdsAllocated /\ RefundBounded

\* Rounding up a quotient of naturals gives a natural.
LEMMA DivCeilNat ==
  ASSUME NEW a \in Nat, NEW b \in Nat, b > 0
  PROVE  DivCeil(a, b) \in Nat
  BY DEF DivCeil

\* Recording a call keeps the type of LastCall.
LEMMA RecordCallsType ==
  ASSUME TypeOK, NEW u \in Users, NEW fs, RecordCalls(u, fs)
  PROVE  last_call' \in [Users -> [LimitedFunctions -> Nat \cup {NoCall}]]
  BY DEF TypeOK, RecordCalls

\* A schedule built for a charge is well typed.
LEMMA ScheduleForType ==
  ASSUME NEW rule \in RevenueRule \cup {NoRule}, ScheduleBuildable(rule),
         NEW total \in Nat, NEW t \in Nat, NEW interval \in Nat
  PROVE  ScheduleFor(rule, total, t, interval) \in ScheduleType
  <1>1. CASE rule.method = "StraightLine"
    <2>1. /\ rule.recognition_period \in Nat
          /\ rule.recognition_period > 0
      BY <1>1 DEF RevenueRule, NoRule, ScheduleBuildable
    <2> QED
      BY <1>1, <2>1, DivCeilNat DEF ScheduleFor, ScheduleType, RevenueScheduleOf
  <1>2. CASE rule.method # "StraightLine"
    BY <1>2 DEF ScheduleFor, ScheduleType, RevenueScheduleOf
  <1> QED  BY <1>1, <1>2

-----------------------------------------------------------------------------

\* The fields a charge assigns.
LEMMA ChargedSubType ==
  ASSUME NEW s \in SubType, NEW last \in Nat, NEW next \in Nat,
         NEW paid \in Nat, NEW count \in Nat
  PROVE  [s EXCEPT !.last_charged_at = last, !.next_charge_at = next,
                   !.total_paid = paid, !.charge_count = count] \in SubType
  BY DEF SubType

\* Balances stay non-negative when the payer covers the amount.
LEMMA TransferType ==
  ASSUME NEW b \in [Users -> Nat], NEW x \in Users, NEW y \in Users,
         NEW amount \in Nat, b[x] >= amount
  PROVE  [b EXCEPT ![x] = @ - amount, ![y] = @ + amount] \in [Users -> Nat]
  OBVIOUS

\* The freshly initialised contract satisfies the core invariant.
LEMMA InitCore == Init => CoreInv
  <1> SUFFICES ASSUME Init PROVE CoreInv
    OBVIOUS
  <1>1. TypeOK
    <2>1. NoPlan \in PlanType
      BY ConstantsAssumption DEF NoPlan, PlanType
    <2>2. NoSub \in SubType
      BY ConstantsAssumption DEF NoSub, SubType, SubscriptionStatus
    <2>3. NoCommitment \in CommitmentType
      BY ConstantsAssumption DEF NoCommitment, CommitmentType
    <2>4. NoSchedule \in ScheduleType
      BY DEF NoSchedule, RevenueScheduleOf, ScheduleType
    <2>5. /\ plan_count \in 0..MaxPlans
          /\ subscription_count \in 0..MaxSubs
          /\ user_subs \in [Users -> [SubIds -> Nat]]
          /\ user_plan_index \in [Users -> [PlanIds -> 0..MaxSubs]]
      BY ConstantsAssumption DEF Init
    <2>6. /\ pending_transfer \in [SubIds -> Users \cup {NoUser}]
          /\ rate_limit \in [LimitedFunctions -> Nat]
          /\ last_call \in [Users -> [LimitedFunctions -> Nat \cup {NoCall}]]
          /\ mev_config \in MevConfig
      BY ConstantsAssumption DEF Init
    <2>7. /\ revenue_rules \in [PlanIds -> RevenueRule \cup {NoRule}]
          /\ deferred \in [Users -> Nat]
          /\ merchant_subs \in [Users -> SUBSET SubIds]
          /\ balance \in [Users -> Nat]
          /\ refunded \in [SubIds -> Nat]
          /\ transferred \in SUBSET PlanIds
      BY ConstantsAssumption DEF Init
    <2>8. /\ plans \in [PlanIds -> PlanType]
          /\ subs \in [SubIds -> SubType]
          /\ commitments \in [SubIds -> CommitmentType]
          /\ schedules \in [SubIds -> ScheduleType]
      BY <2>1, <2>2, <2>3, <2>4 DEF Init
    <2> QED
      BY <2>5, <2>6, <2>7, <2>8 DEF Init, TypeOK
  <1>2. IdsAllocated /\ RefundBounded
    BY DEF Init, IdsAllocated, RefundBounded, SubExists, NoSub, SubIds
  <1> QED  BY <1>1, <1>2 DEF CoreInv

\* Charging keeps the types; shared by charge_subscription and reveal_charge.
LEMMA ChargeType ==
  ASSUME CoreInv, NEW id \in SubIds, NEW max, NEW gas \in Nat,
         NEW private \in BOOLEAN, NEW revealed \in BOOLEAN,
         ChargeGuarded(id, max, gas, private, revealed)
  PROVE  /\ subs' \in [SubIds -> SubType]
         /\ last_call' \in [Users -> [LimitedFunctions -> Nat \cup {NoCall}]]
         /\ mev_alert_count' \in Nat
         /\ schedules' \in [SubIds -> ScheduleType]
         /\ deferred' \in [Users -> Nat]
         /\ merchant_subs' \in [Users -> SUBSET SubIds]
         /\ balance' \in [Users -> Nat]
  <1> DEFINE s == CheckAndResume(subs[id])
             plan == plans[s.plan_id]
  <1>0. TypeOK /\ IdsAllocated
    BY DEF CoreInv
  <1>1. subs[id] \in SubType
    BY <1>0 DEF TypeOK
  <1>2. s \in SubType /\ s.plan_id = subs[id].plan_id
    BY <1>1 DEF CheckAndResume, SubType, SubscriptionStatus
  <1>3. s.plan_id \in PlanIds
    <2>1. SubExists(id)
      BY DEF ChargeGuarded
    <2>2. subs[id].plan_id \in 1..plan_count
      BY <1>0, <2>1 DEF IdsAllocated
    <2> QED  BY <1>0, <1>2, <2>2, ConstantsAssumption DEF PlanIds, TypeOK
  <1>4. plan \in PlanType /\ revenue_rules[s.plan_id] \in RevenueRule \cup {NoRule}
    BY <1>0, <1>3 DEF TypeOK
  <1>5. s.subscriber \in Users /\ plan.merchant \in Users
    BY <1>2, <1>4 DEF SubType, PlanType
  <1>6. plan.price \in Nat /\ plan.interval \in Nat /\ now \in Nat
    BY <1>0, <1>4 DEF PlanType, TypeOK
  <1>7. subs' \in [SubIds -> SubType]
    <2> DEFINE t == [s EXCEPT !.last_charged_at = now,
                              !.next_charge_at = now + plan.interval,
                              !.total_paid = @ + plan.price,
                              !.charge_count = @ + 1]
    <2>1. subs' = [subs EXCEPT ![id] = t]
      BY DEF ChargeGuarded, Charged
    <2>2. t \in SubType
      <3>1. /\ now + plan.interval \in Nat
            /\ s.total_paid + plan.price \in Nat
            /\ s.charge_count + 1 \in Nat
        <4> HIDE DEF s, plan
        <4> QED  BY <1>2, <1>6 DEF SubType
      <3> HIDE DEF s, plan
      <3> QED  BY <1>2, <1>6, <3>1, ChargedSubType
    <2> HIDE DEF t
    <2> QED  BY <1>0, <2>1, <2>2 DEF TypeOK
  <1>8. last_call' \in [Users -> [LimitedFunctions -> Nat \cup {NoCall}]]
    BY <1>0, <1>5, RecordCallsType DEF ChargeGuarded
  <1>9. mev_alert_count' \in Nat
    BY <1>0 DEF TypeOK, ChargeGuarded
  <1>10. schedules' \in [SubIds -> ScheduleType]
    BY <1>0, <1>4, <1>6, ScheduleForType DEF TypeOK, ChargeGuarded, RecordRevenue
  <1>11. deferred' \in [Users -> Nat] /\ merchant_subs' \in [Users -> SUBSET SubIds]
    <2>1. /\ deferred' = [deferred EXCEPT ![plan.merchant] = @ + plan.price]
          /\ merchant_subs' =
               [merchant_subs EXCEPT ![plan.merchant] = @ \cup {id}]
      BY DEF ChargeGuarded, RecordRevenue
    <2> HIDE DEF plan
    <2> QED  BY <1>0, <1>5, <1>6, <2>1 DEF TypeOK
  <1>12. balance' \in [Users -> Nat]
    <2>1. /\ balance[s.subscriber] >= plan.price
          /\ balance' = [balance EXCEPT ![s.subscriber] = @ - plan.price,
                                        ![plan.merchant] = @ + plan.price]
      BY DEF ChargeGuarded, TokenTransfer
    <2> HIDE DEF s, plan
    <2> QED  BY <1>0, <1>5, <1>6, <2>1, TransferType DEF TypeOK
  <1> QED  BY <1>7, <1>8, <1>9, <1>10, <1>11, <1>12

-----------------------------------------------------------------------------

\* An existing subscription may be replaced by any well-typed record on the
\* same plan whose refund request is covered by what was paid.
LEMMA SubUpdate ==
  ASSUME CoreInv, NEW id \in SubIds, SubExists(id),
         NEW t \in SubType, subs' = [subs EXCEPT ![id] = t],
         t.status # "Absent", t.plan_id = subs[id].plan_id,
         t.refund_requested_amount <= t.total_paid,
         UNCHANGED <<plan_count, subscription_count>>
  PROVE  subs' \in [SubIds -> SubType] /\ IdsAllocated' /\ RefundBounded'
  <1>0. subs \in [SubIds -> SubType]
    BY DEF CoreInv, TypeOK
  <1>1. \A i \in SubIds : subs'[i] = IF i = id THEN t ELSE subs[i]
    BY <1>0
  <1>2. IdsAllocated'
    BY <1>1 DEF CoreInv, IdsAllocated, SubExists
  <1>3. RefundBounded'
    BY <1>1 DEF CoreInv, RefundBounded
  <1> QED  BY <1>0, <1>2, <1>3

\* A step that leaves the subscriptions and the two counters alone.
LEMMA SubsUnchanged ==
  ASSUME CoreInv, UNCHANGED <<plan_count, subVars>>
  PROVE  IdsAllocated' /\ RefundBounded'
  BY DEF CoreInv, IdsAllocated, RefundBounded, SubExists, subVars

\* The fields of a plan that change after its creation.
LEMMA PlanUpdateType ==
  ASSUME NEW plan \in PlanType, NEW b \in BOOLEAN, NEW n \in Nat
  PROVE  /\ [plan EXCEPT !.active = b] \in PlanType
         /\ [plan EXCEPT !.subscriber_count = n] \in PlanType
  BY DEF PlanType

\* create_plan, deactivate_plan and set_revenue_rule keep the core invariant.
LEMMA PlanStepCore == CoreInv /\ PlanNext => CoreInv'
  <1> SUFFICES ASSUME CoreInv, PlanNext PROVE CoreInv'
    OBVIOUS
  <1> USE DEF planVars, subVars, ownerVars, configVars, revenueVars, historyVars
  <1>0. TypeOK
    BY DEF CoreInv
  <1>1. ASSUME NEW m \in Merchants, NEW price \in Prices, NEW i \in Intervals,
               CreatePlan(m, price, i)
        PROVE  CoreInv'
    <2>1. m \in Users /\ price \in Nat /\ i \in Nat
      BY <1>1, ConstantsAssumption DEF CreatePlan
    <2>2. last_call' \in [Users -> [LimitedFunctions -> Nat \cup {NoCall}]]
      BY <1>0, <1>1, <2>1, RecordCallsType DEF CreatePlan
    <2>3. plan_count' \in 0..MaxPlans /\ plans' \in [PlanIds -> PlanType]
      BY <1>0, <1>1, <2>1, ConstantsAssumption
         DEF CreatePlan, TypeOK, PlanType, PlanIds
    <2>4. TypeOK'
      BY <1>0, <1>1, <2>2, <2>3 DEF CreatePlan, TypeOK
    <2>5. IdsAllocated' /\ RefundBounded'
      BY <1>0, <1>1 DEF CreatePlan, CoreInv, IdsAllocated, RefundBounded,
                        SubExists, TypeOK
    <2> QED  BY <2>4, <2>5 DEF CoreInv
  <1>2. ASSUME NEW p \in PlanIds, DeactivatePlan(p)
        PROVE  CoreInv'
    <2>1. plans[p].merchant \in Users
      BY <1>0 DEF TypeOK, PlanType
    <2>2. last_call' \in [Users -> [LimitedFunctions -> Nat \cup {NoCall}]]
      BY <1>0, <1>2, <2>1, RecordCallsType DEF DeactivatePlan
    <2>3. plans' \in [PlanIds -> PlanType]
      <3>1. [plans[p] EXCEPT !.active = FALSE] \in PlanType
        BY <1>0, PlanUpdateType DEF TypeOK
      <3>2. plans' = [plans EXCEPT ![p] = [plans[p] EXCEPT !.active = FALSE]]
        BY <1>2 DEF DeactivatePlan
      <3> QED  BY <1>0, <3>1, <3>2 DEF TypeOK
    <2>4. TypeOK'
      BY <1>0, <1>2, <2>2, <2>3 DEF DeactivatePlan, TypeOK
    <2> QED  BY <1>2, <2>4, SubsUnchanged DEF DeactivatePlan, CoreInv
  <1>3. ASSUME NEW p \in PlanIds, NEW r \in RevenueRules, SetRevenueRule(p, r)
        PROVE  CoreInv'
    <2>1. TypeOK'
      BY <1>0, <1>3, ConstantsAssumption DEF SetRevenueRule, TypeOK
    <2> QED  BY <1>3, <2>1, SubsUnchanged DEF SetRevenueRule, CoreInv
  <1> QED  BY <1>1, <1>2, <1>3 DEF PlanNext

\* Replacing the count of a plan keeps the plans' type.
LEMMA CountType ==
  ASSUME TypeOK, NEW p \in PlanIds, NEW n \in Nat,
         plans' = [plans EXCEPT ![p] = [plans[p] EXCEPT !.subscriber_count = n]]
  PROVE  plans' \in [PlanIds -> PlanType]
  <1>1. [plans[p] EXCEPT !.subscriber_count = n] \in PlanType
    BY PlanUpdateType DEF TypeOK
  <1> QED  BY <1>1 DEF TypeOK

\* What the core says of one subscription.
LEMMA SubFacts ==
  ASSUME CoreInv, NEW id \in SubIds
  PROVE  /\ subs[id] \in SubType
         /\ subs[id].subscriber \in Users
         /\ subs[id].refund_requested_amount <= subs[id].total_paid
         /\ SubExists(id) => subs[id].plan_id \in PlanIds
  <1>1. subs[id] \in SubType
    BY DEF CoreInv, TypeOK
  <1>2. SubExists(id) => subs[id].plan_id \in PlanIds
    BY ConstantsAssumption DEF CoreInv, IdsAllocated, TypeOK, PlanIds
  <1> QED  BY <1>1, <1>2 DEF CoreInv, SubType, RefundBounded

\* subscribe, cancel, pause and resume keep the core invariant.
LEMMA LifecycleStepCore == CoreInv /\ LifecycleNext => CoreInv'
  <1> SUFFICES ASSUME CoreInv, LifecycleNext PROVE CoreInv'
    OBVIOUS
  <1> USE DEF planVars, subVars, ownerVars, configVars, revenueVars, historyVars
  <1>0. TypeOK /\ IdsAllocated /\ RefundBounded
    BY DEF CoreInv
  <1>1. ASSUME NEW u \in Users, NEW p \in PlanIds, Subscribe(u, p)
        PROVE  CoreInv'
    <2> DEFINE id == subscription_count + 1
               t == [NoSub EXCEPT !.plan_id = p, !.subscriber = u,
                       !.status = "Active", !.started_at = now,
                       !.last_charged_at = now,
                       !.next_charge_at = now + plans[p].interval]
    <2>1. id \in SubIds /\ subscription_count' \in 0..MaxSubs /\ p \in 1..plan_count
      <3>1. subscription_count < MaxSubs /\ subscription_count' = id
        BY <1>1 DEF Subscribe
      <3>2. p <= plan_count
        BY <1>1 DEF Subscribe, PlanExists
      <3> QED
        BY <1>0, <3>1, <3>2, ConstantsAssumption DEF TypeOK, SubIds, PlanIds
    <2>2. now \in Nat /\ plans[p].interval \in Nat /\ plans[p].subscriber_count \in Nat
      BY <1>0 DEF TypeOK, PlanType
    <2>3. /\ t \in SubType
          /\ t.status = "Active" /\ t.plan_id = p
          /\ t.refund_requested_amount = 0 /\ t.total_paid = 0
      <3>1. now + plans[p].interval \in Nat
        BY <2>2
      <3>2. p \in 0..MaxPlans
        BY ConstantsAssumption DEF PlanIds
      <3> QED  BY <2>2, <3>1, <3>2 DEF SubType, NoSub, SubscriptionStatus
    <2>4. subs' = [subs EXCEPT ![id] = t]
      BY <1>1 DEF Subscribe
    <2> HIDE DEF t
    <2>5. subs' \in [SubIds -> SubType]
      BY <1>0, <2>1, <2>3, <2>4 DEF TypeOK
    <2>6. last_call' \in [Users -> [LimitedFunctions -> Nat \cup {NoCall}]]
      BY <1>0, <1>1, RecordCallsType DEF Subscribe
    <2>7. plans' \in [PlanIds -> PlanType]
      <3>1. plans' = [plans EXCEPT ![p] =
              [plans[p] EXCEPT !.subscriber_count = plans[p].subscriber_count + 1]]
        BY <1>1 DEF Subscribe
      <3>2. plans[p].subscriber_count + 1 \in Nat
        BY <2>2
      <3> QED  BY <1>0, <3>1, <3>2, CountType
    <2>8. /\ user_subs' \in [Users -> [SubIds -> Nat]]
          /\ user_plan_index' \in [Users -> [PlanIds -> 0..MaxSubs]]
      BY <1>0, <1>1, <2>1 DEF Subscribe, SetUserPlanIndex, TypeOK
    <2>9. TypeOK'
      BY <1>0, <1>1, <2>1, <2>5, <2>6, <2>7, <2>8 DEF Subscribe, TypeOK
    <2>10. \A i \in SubIds : subs'[i] = IF i = id THEN t ELSE subs[i]
      BY <1>0, <2>4 DEF TypeOK
    <2>11. subscription_count' = id /\ plan_count' = plan_count
      BY <1>1 DEF Subscribe
    <2>12. IdsAllocated'
      BY <1>0, <2>1, <2>3, <2>10, <2>11
         DEF IdsAllocated, SubExists, SubIds, TypeOK
    <2>13. RefundBounded'
      BY <1>0, <2>3, <2>10 DEF RefundBounded
    <2> QED  BY <2>9, <2>12, <2>13 DEF CoreInv
  <1>2. ASSUME NEW id \in SubIds, CancelSubscription(id)
        PROVE  CoreInv'
    <2> DEFINE s == subs[id]
               t == [s EXCEPT !.status = "Cancelled"]
    <2>1. SubExists(id) /\ subs' = [subs EXCEPT ![id] = t]
      BY <1>2 DEF CancelSubscription, SubExists
    <2>2. /\ t \in SubType /\ t.status # "Absent" /\ t.plan_id = subs[id].plan_id
          /\ t.refund_requested_amount <= t.total_paid
      BY SubFacts DEF SubType, SubscriptionStatus
    <2>3. subs' \in [SubIds -> SubType] /\ IdsAllocated' /\ RefundBounded'
      <3> HIDE DEF t
      <3> QED  BY <1>2, <2>1, <2>2, SubUpdate DEF CancelSubscription
    <2>4. s.subscriber \in Users /\ s.plan_id \in PlanIds
      BY SubFacts, <2>1
    <2>5. last_call' \in [Users -> [LimitedFunctions -> Nat \cup {NoCall}]]
      BY <1>0, <1>2, <2>4, RecordCallsType DEF CancelSubscription
    <2>6. plans' \in [PlanIds -> PlanType]
      <3> DEFINE n == IF plans[s.plan_id].subscriber_count > 0
                      THEN plans[s.plan_id].subscriber_count - 1
                      ELSE plans[s.plan_id].subscriber_count
      <3>1. n \in Nat
        BY <1>0, <2>4 DEF TypeOK, PlanType
      <3>2. plans' = [plans EXCEPT ![s.plan_id] =
                        [plans[s.plan_id] EXCEPT !.subscriber_count = n]]
        BY <1>2 DEF CancelSubscription, CountAfterCancel
      <3> HIDE DEF n
      <3> QED  BY <1>0, <2>4, <3>1, <3>2, CountType
    <2>7. user_plan_index' \in [Users -> [PlanIds -> 0..MaxSubs]]
      BY <1>0, <1>2, <2>4, ConstantsAssumption
         DEF CancelSubscription, RemoveUserPlanIndex, TypeOK
    <2>8. TypeOK'
      BY <1>0, <1>2, <2>3, <2>5, <2>6, <2>7 DEF CancelSubscription, TypeOK
    <2> QED  BY <2>3, <2>8 DEF CoreInv
  <1>3. ASSUME NEW id \in SubIds, NEW d \in Nat, NEW calls, Pause(id, d, calls)
        PROVE  CoreInv'
    <2> DEFINE s == subs[id]
               t == [s EXCEPT !.status = "Paused", !.paused_at = now,
                              !.pause_duration = d]
    <2>1. SubExists(id) /\ subs' = [subs EXCEPT ![id] = t]
      BY <1>3 DEF Pause, SubExists
    <2>2. /\ t \in SubType /\ t.status # "Absent" /\ t.plan_id = subs[id].plan_id
          /\ t.refund_requested_amount <= t.total_paid
      BY <1>0, SubFacts DEF SubType, SubscriptionStatus, TypeOK
    <2>3. subs' \in [SubIds -> SubType] /\ IdsAllocated' /\ RefundBounded'
      <3> HIDE DEF t
      <3> QED  BY <1>3, <2>1, <2>2, SubUpdate DEF Pause
    <2>4. last_call' \in [Users -> [LimitedFunctions -> Nat \cup {NoCall}]]
      BY <1>0, <1>3, SubFacts, RecordCallsType DEF Pause
    <2>5. TypeOK'
      BY <1>0, <1>3, <2>3, <2>4 DEF Pause, TypeOK
    <2> QED  BY <2>3, <2>5 DEF CoreInv
  <1>4. ASSUME NEW id \in SubIds, ResumeSubscription(id)
        PROVE  CoreInv'
    <2> DEFINE s == subs[id]
               t == [s EXCEPT !.status = "Active", !.paused_at = 0,
                              !.pause_duration = 0,
                              !.next_charge_at = now + plans[s.plan_id].interval]
    <2>1. SubExists(id) /\ subs' = [subs EXCEPT ![id] = t]
      BY <1>4 DEF ResumeSubscription, SubExists
    <2>2. now + plans[s.plan_id].interval \in Nat
      BY <1>0, SubFacts, <2>1 DEF TypeOK, PlanType
    <2>3. /\ t \in SubType /\ t.status # "Absent" /\ t.plan_id = subs[id].plan_id
          /\ t.refund_requested_amount <= t.total_paid
      BY SubFacts, <2>2 DEF SubType, SubscriptionStatus
    <2>4. subs' \in [SubIds -> SubType] /\ IdsAllocated' /\ RefundBounded'
      <3> HIDE DEF t
      <3> QED  BY <1>4, <2>1, <2>3, SubUpdate DEF ResumeSubscription
    <2>5. last_call' \in [Users -> [LimitedFunctions -> Nat \cup {NoCall}]]
      BY <1>0, <1>4, SubFacts, RecordCallsType DEF ResumeSubscription
    <2>6. TypeOK'
      BY <1>0, <1>4, <2>4, <2>5 DEF ResumeSubscription, TypeOK
    <2> QED  BY <2>4, <2>6 DEF CoreInv
  <1> QED
    BY <1>1, <1>2, <1>3, <1>4, ConstantsAssumption
       DEF LifecycleNext, PauseSubscription, PauseBySubscriber

\* Charging keeps the core, whatever happens to the commitments.
LEMMA ChargeCore ==
  ASSUME CoreInv, NEW id \in SubIds, NEW max, NEW gas \in Nat,
         NEW private \in BOOLEAN, NEW revealed \in BOOLEAN,
         ChargeGuarded(id, max, gas, private, revealed),
         commitments' \in [SubIds -> CommitmentType]
  PROVE  CoreInv'
  <1> USE DEF planVars, subVars, ownerVars, configVars, historyVars
  <1> DEFINE s == CheckAndResume(subs[id])
             plan == plans[s.plan_id]
             t == [s EXCEPT !.last_charged_at = now,
                            !.next_charge_at = now + plan.interval,
                            !.total_paid = @ + plan.price,
                            !.charge_count = @ + 1]
  <1>1. SubExists(id) /\ subs' = [subs EXCEPT ![id] = t] /\ s.status = "Active"
    BY DEF ChargeGuarded, Charged
  <1>2. /\ s.plan_id = subs[id].plan_id
        /\ s.total_paid = subs[id].total_paid
        /\ s.refund_requested_amount = subs[id].refund_requested_amount
        /\ s \in SubType
    BY SubFacts DEF CheckAndResume, SubType, SubscriptionStatus
  <1>3. plan.price \in Nat /\ subs[id].total_paid \in Nat
        /\ subs[id].refund_requested_amount \in Nat
    BY <1>1, <1>2, SubFacts DEF CoreInv, TypeOK, PlanType, SubType
  <1>4. /\ t.status = "Active" /\ t.plan_id = subs[id].plan_id
        /\ t.refund_requested_amount <= t.total_paid
    <2> HIDE DEF s, plan
    <2> QED  BY <1>1, <1>2, <1>3, SubFacts DEF SubType
  <1>5. subs' \in [SubIds -> SubType]
    BY ChargeType
  <1>6. subs'[id] = t /\ t \in SubType
    <2> HIDE DEF t
    <2> QED  BY <1>1, <1>5 DEF CoreInv, TypeOK
  <1>7. UNCHANGED <<plan_count, subscription_count>>
    BY DEF ChargeGuarded
  <1>8. IdsAllocated' /\ RefundBounded'
    <2> HIDE DEF t
    <2> QED  BY <1>1, <1>4, <1>6, <1>7, SubUpdate
  <1>9. TypeOK'
    BY ChargeType DEF ChargeGuarded, CoreInv, TypeOK
  <1> QED  BY <1>8, <1>9 DEF CoreInv

\* The record commit_charge stores is well typed.
LEMMA CommitmentRecordType ==
  ASSUME NEW u \in Users, NEW c \in Nat \X Int \X (Salts \cup {0}),
         NEW i \in Nat, NEW j \in Nat, NEW k \in Nat
  PROVE  [pending |-> TRUE, subscriber |-> u, commitment |-> c,
          committed_at |-> i, min_reveal_at |-> j, expires_at |-> k]
           \in CommitmentType
  BY DEF CommitmentType

\* Charges, commitments and revelations keep the core invariant.
LEMMA PaymentStepCore == CoreInv /\ PaymentNext => CoreInv'
  <1> SUFFICES ASSUME CoreInv, PaymentNext PROVE CoreInv'
    OBVIOUS
  <1> USE DEF planVars, subVars, ownerVars, configVars, revenueVars, historyVars
  <1>0. TypeOK
    BY DEF CoreInv
  <1>1. ASSUME NEW id \in SubIds, ChargeSubscription(id)
        PROVE  CoreInv'
    <2>1. commitments' \in [SubIds -> CommitmentType]
      BY <1>0, <1>1 DEF TypeOK, ChargeSubscription
    <2> QED  BY <1>1, <2>1, ChargeCore DEF ChargeSubscription
  <1>2. ASSUME NEW id \in SubIds, NEW other \in SubIds, NEW salt \in Salts,
               NEW max \in MaxCharges,
               CommitCharge(id, BuildChargeCommitment(other, max, salt))
        PROVE  CoreInv'
    <2> DEFINE c == BuildChargeCommitment(other, max, salt)
               d == [pending |-> TRUE, subscriber |-> subs[id].subscriber,
                     commitment |-> c, committed_at |-> now,
                     min_reveal_at |-> now + mev_config.reveal_delay_secs,
                     expires_at |-> now + mev_config.commit_ttl_secs]
    <2>1. c \in Nat \X Int \X (Salts \cup {0})
      BY ConstantsAssumption DEF BuildChargeCommitment, SubIds
    <2>2. /\ now \in Nat
          /\ mev_config.reveal_delay_secs \in Nat
          /\ mev_config.commit_ttl_secs \in Nat
      BY <1>0 DEF TypeOK, MevConfig
    <2>3. commitments' = [commitments EXCEPT ![id] = d]
      BY <1>2 DEF CommitCharge
    <2>4. d \in CommitmentType
      <3>1. /\ subs[id].subscriber \in Users
            /\ now + mev_config.reveal_delay_secs \in Nat
            /\ now + mev_config.commit_ttl_secs \in Nat
        BY <2>2, SubFacts
      <3> HIDE DEF c
      <3> QED  BY <2>1, <2>2, <3>1, CommitmentRecordType
    <2>5. commitments' \in [SubIds -> CommitmentType]
      <3> HIDE DEF d
      <3> QED  BY <1>0, <2>3, <2>4 DEF TypeOK
    <2>6. TypeOK'
      BY <1>0, <1>2, <2>5 DEF TypeOK, CommitCharge
    <2> QED  BY <1>2, <2>6, SubsUnchanged DEF CommitCharge, CoreInv
  <1>3. ASSUME NEW id \in SubIds, NEW salt \in Salts, NEW max \in MaxCharges,
               NEW gas \in GasPrices, NEW private \in BOOLEAN,
               RevealCharge(id, salt, max, gas, private)
        PROVE  CoreInv'
    <2>1. NoCommitment \in CommitmentType
      BY ConstantsAssumption DEF NoCommitment, CommitmentType
    <2>2. commitments' \in [SubIds -> CommitmentType]
      BY <1>0, <1>3, <2>1 DEF TypeOK, RevealCharge
    <2>3. gas \in Nat /\ ChargeGuarded(id, max, gas, private, TRUE)
      BY <1>3, ConstantsAssumption DEF RevealCharge
    <2> QED  BY <2>2, <2>3, ChargeCore
  <1> QED  BY <1>1, <1>2, <1>3 DEF PaymentNext

\* approve_refund changes two fields of a subscription and no others.
LEMMA RefundedSubType ==
  ASSUME NEW s \in SubType, NEW paid \in Nat
  PROVE  /\ [s EXCEPT !.total_paid = paid, !.refund_requested_amount = 0]
              \in SubType
         /\ [s EXCEPT !.total_paid = paid,
                      !.refund_requested_amount = 0].status = s.status
         /\ [s EXCEPT !.total_paid = paid,
                      !.refund_requested_amount = 0].plan_id = s.plan_id
         /\ [s EXCEPT !.total_paid = paid,
                      !.refund_requested_amount = 0].total_paid = paid
         /\ [s EXCEPT !.total_paid = paid, !.refund_requested_amount = 0]
              .refund_requested_amount = 0
  BY DEF SubType

\* Refund requests and decisions keep the core invariant.
LEMMA RefundStepCore == CoreInv /\ RefundNext => CoreInv'
  <1> SUFFICES ASSUME CoreInv, RefundNext PROVE CoreInv'
    OBVIOUS
  <1> USE DEF planVars, subVars, ownerVars, configVars, revenueVars, historyVars
  <1>0. TypeOK
    BY DEF CoreInv
  <1>1. ASSUME NEW id \in SubIds, NEW amount \in Refunds, RequestRefund(id, amount)
        PROVE  CoreInv'
    <2> DEFINE s == subs[id]
               t == [s EXCEPT !.refund_requested_amount = amount]
    <2>1. /\ SubExists(id) /\ subs' = [subs EXCEPT ![id] = t]
          /\ amount > 0 /\ amount <= s.total_paid
      BY <1>1 DEF RequestRefund, RefundAllowed
    <2>2. amount \in Nat
      BY <2>1, ConstantsAssumption
    <2>3. /\ t \in SubType /\ t.status # "Absent" /\ t.plan_id = subs[id].plan_id
          /\ t.refund_requested_amount <= t.total_paid
      BY <2>1, <2>2, SubFacts DEF SubType, SubExists
    <2>4. subs' \in [SubIds -> SubType] /\ IdsAllocated' /\ RefundBounded'
      <3> HIDE DEF t
      <3> QED  BY <1>1, <2>1, <2>3, SubUpdate DEF RequestRefund
    <2>5. last_call' \in [Users -> [LimitedFunctions -> Nat \cup {NoCall}]]
      BY <1>0, <1>1, SubFacts, RecordCallsType DEF RequestRefund
    <2>6. TypeOK'
      BY <1>0, <1>1, <2>4, <2>5 DEF RequestRefund, TypeOK
    <2> QED  BY <2>4, <2>6 DEF CoreInv
  <1>2. ASSUME NEW id \in SubIds, ApproveRefund(id)
        PROVE  CoreInv'
    <2> DEFINE s == subs[id]
               left == s.total_paid - s.refund_requested_amount
               t == [s EXCEPT !.total_paid = left, !.refund_requested_amount = 0]
    <2>1. SubExists(id) /\ subs' = [subs EXCEPT ![id] = t]
      BY <1>2 DEF ApproveRefund, AfterRefund
    <2>2. left \in Nat /\ s.refund_requested_amount \in Nat
      BY SubFacts DEF SubType
    <2>3. /\ t \in SubType /\ t.status # "Absent" /\ t.plan_id = subs[id].plan_id
          /\ t.refund_requested_amount <= t.total_paid
      <3> HIDE DEF left
      <3>1. s \in SubType /\ s.status # "Absent"
        BY <2>1, SubFacts DEF SubExists
      <3>2. 0 <= left
        BY <2>2
      <3> QED  BY <2>2, <3>1, <3>2, RefundedSubType
    <2>4. subs' \in [SubIds -> SubType] /\ IdsAllocated' /\ RefundBounded'
      <3> HIDE DEF t
      <3> QED  BY <1>2, <2>1, <2>3, SubUpdate DEF ApproveRefund
    <2>5. refunded' \in [SubIds -> Nat]
      BY <1>0, <1>2, <2>2 DEF ApproveRefund, TypeOK
    <2>6. TypeOK'
      BY <1>0, <1>2, <2>4, <2>5 DEF ApproveRefund, TypeOK
    <2> QED  BY <2>4, <2>6 DEF CoreInv
  <1>3. ASSUME NEW id \in SubIds, RejectRefund(id)
        PROVE  CoreInv'
    <2> DEFINE s == subs[id]
               t == [s EXCEPT !.refund_requested_amount = 0]
    <2>1. SubExists(id) /\ subs' = [subs EXCEPT ![id] = t]
      BY <1>3 DEF RejectRefund
    <2>2. /\ t \in SubType /\ t.status # "Absent" /\ t.plan_id = subs[id].plan_id
          /\ t.refund_requested_amount <= t.total_paid
      BY <2>1, SubFacts DEF SubType, SubExists
    <2>3. subs' \in [SubIds -> SubType] /\ IdsAllocated' /\ RefundBounded'
      <3> HIDE DEF t
      <3> QED  BY <1>3, <2>1, <2>2, SubUpdate DEF RejectRefund
    <2>4. TypeOK'
      BY <1>0, <1>3, <2>3 DEF RejectRefund, TypeOK
    <2> QED  BY <2>3, <2>4 DEF CoreInv
  <1> QED  BY <1>1, <1>2, <1>3 DEF RefundNext

\* A table of the form [A -> [B -> C]] keeps its type when one cell changes.
LEMMA CellUpdated ==
  ASSUME NEW A, NEW B, NEW C, NEW f \in [A -> [B -> C]],
         NEW x \in A, NEW b \in B, NEW v \in C
  PROVE  [f EXCEPT ![x][b] = v] \in [A -> [B -> C]]
  OBVIOUS

\* Transfer requests and acceptances keep the core invariant.
LEMMA TransferStepCore == CoreInv /\ TransferNext => CoreInv'
  <1> SUFFICES ASSUME CoreInv, TransferNext PROVE CoreInv'
    OBVIOUS
  <1> USE DEF planVars, subVars, ownerVars, configVars, revenueVars, historyVars
  <1>0. TypeOK
    BY DEF CoreInv
  <1>1. ASSUME NEW id \in SubIds, NEW u \in Recipients, RequestTransfer(id, u)
        PROVE  CoreInv'
    <2>1. last_call' \in [Users -> [LimitedFunctions -> Nat \cup {NoCall}]]
      BY <1>0, <1>1, SubFacts, RecordCallsType DEF RequestTransfer
    <2>2. pending_transfer' \in [SubIds -> Users \cup {NoUser}]
      BY <1>0, <1>1, ConstantsAssumption DEF RequestTransfer, TypeOK
    <2>3. TypeOK'
      BY <1>0, <1>1, <2>1, <2>2 DEF RequestTransfer, TypeOK
    <2> QED  BY <1>1, <2>3, SubsUnchanged DEF RequestTransfer, CoreInv
  <1>2. ASSUME NEW id \in SubIds, NEW u \in Recipients, AcceptTransfer(id, u)
        PROVE  CoreInv'
    <2> DEFINE s == subs[id]
               t == [s EXCEPT !.subscriber = u]
    <2>1. SubExists(id) /\ subs' = [subs EXCEPT ![id] = t]
      BY <1>2 DEF AcceptTransfer
    <2>2. u \in Users /\ s.subscriber \in Users /\ s.plan_id \in PlanIds
      BY <2>1, SubFacts, ConstantsAssumption
    <2>3. /\ t \in SubType /\ t.status # "Absent" /\ t.plan_id = subs[id].plan_id
          /\ t.refund_requested_amount <= t.total_paid
      BY <2>1, <2>2, SubFacts DEF SubType, SubExists
    <2>4. subs' \in [SubIds -> SubType] /\ IdsAllocated' /\ RefundBounded'
      <3> HIDE DEF t
      <3> QED  BY <1>2, <2>1, <2>3, SubUpdate DEF AcceptTransfer
    <2>5. last_call' \in [Users -> [LimitedFunctions -> Nat \cup {NoCall}]]
      BY <1>0, <1>2, <2>2, RecordCallsType DEF AcceptTransfer
    <2>6. user_subs' \in [Users -> [SubIds -> Nat]]
      <3> DEFINE g == [user_subs EXCEPT ![s.subscriber][id] = 0]
      <3>1. g \in [Users -> [SubIds -> Nat]]
        BY <1>0, <2>2, CellUpdated DEF TypeOK
      <3>2. user_subs' = [g EXCEPT ![u][id] = g[u][id] + 1]
        BY <1>2 DEF AcceptTransfer, RemoveFromList
      <3> HIDE DEF g
      <3>3. g[u][id] + 1 \in Nat
        BY <2>2, <3>1
      <3> QED  BY <2>2, <3>1, <3>2, <3>3, CellUpdated
    <2>7. user_plan_index' \in [Users -> [PlanIds -> 0..MaxSubs]]
      <3>1. id \in 0..MaxSubs /\ 0 \in 0..MaxSubs
        BY ConstantsAssumption DEF SubIds
      <3> DEFINE g == [user_plan_index EXCEPT ![s.subscriber][s.plan_id] = 0]
      <3>2. g \in [Users -> [PlanIds -> 0..MaxSubs]]
        BY <1>0, <2>2, <3>1, CellUpdated DEF TypeOK
      <3>3. user_plan_index' = [g EXCEPT ![u][s.plan_id] = id]
        BY <1>2 DEF AcceptTransfer, RemoveUserPlanIndex, SetUserPlanIndex
      <3> HIDE DEF g
      <3> QED  BY <2>2, <3>1, <3>2, <3>3, CellUpdated
    <2>8. /\ pending_transfer' \in [SubIds -> Users \cup {NoUser}]
          /\ transferred' \in SUBSET PlanIds
      BY <1>0, <1>2, <2>2 DEF AcceptTransfer, TypeOK
    <2>9. TypeOK'
      BY <1>0, <1>2, <2>4, <2>5, <2>6, <2>7, <2>8 DEF AcceptTransfer, TypeOK
    <2> QED  BY <2>4, <2>9 DEF CoreInv
  <1> QED  BY <1>1, <1>2 DEF TransferNext

\* Configuration changes keep the core invariant.
LEMMA AdminStepCore == CoreInv /\ AdminNext => CoreInv'
  <1> SUFFICES ASSUME CoreInv, AdminNext PROVE CoreInv'
    OBVIOUS
  <1> USE DEF planVars, subVars, ownerVars, configVars, revenueVars, historyVars
  <1>0. TypeOK
    BY DEF CoreInv
  <1>1. ASSUME NEW f \in LimitedFunctions, NEW secs \in Nat, SetRateLimit(f, secs)
        PROVE  CoreInv'
    <2>1. TypeOK'
      BY <1>0, <1>1 DEF SetRateLimit, TypeOK
    <2> QED  BY <1>1, <2>1, SubsUnchanged DEF SetRateLimit, CoreInv
  <1>2. ASSUME NEW config \in MevConfigs, ConfigureMevProtection(config)
        PROVE  CoreInv'
    <2>1. TypeOK'
      BY <1>0, <1>2, ConstantsAssumption DEF ConfigureMevProtection, TypeOK
    <2> QED  BY <1>2, <2>1, SubsUnchanged DEF ConfigureMevProtection, CoreInv
  <1>3. ASSUME NEW b \in InvoiceSettings, SetInvoiceContract(b)
        PROVE  CoreInv'
    <2>1. TypeOK'
      BY <1>0, <1>3, ConstantsAssumption DEF SetInvoiceContract, TypeOK
    <2> QED  BY <1>3, <2>1, SubsUnchanged DEF SetInvoiceContract, CoreInv
  <1>4. \A l \in RateLimits : l[1] \in LimitedFunctions /\ l[2] \in Nat
    BY ConstantsAssumption
  <1> QED  BY <1>1, <1>2, <1>3, <1>4 DEF AdminNext, RemoveRateLimit

\* Every step of the contract keeps the core invariant.
LEMMA NextCore == CoreInv /\ [Next]_vars => CoreInv'
  <1> SUFFICES ASSUME CoreInv, [Next]_vars PROVE CoreInv'
    OBVIOUS
  <1> USE DEF planVars, subVars, ownerVars, configVars, revenueVars, historyVars
  <1>1. CASE Tick
    <2>1. TypeOK'
      BY <1>1 DEF Tick, CoreInv, TypeOK
    <2> QED  BY <1>1, <2>1, SubsUnchanged DEF Tick, CoreInv
  <1>2. CASE UNCHANGED vars
    <2>1. TypeOK'
      BY <1>2 DEF vars, CoreInv, TypeOK
    <2> QED  BY <1>2, <2>1, SubsUnchanged DEF vars, CoreInv
  <1> QED
    BY <1>1, <1>2, PlanStepCore, LifecycleStepCore, PaymentStepCore,
       RefundStepCore, TransferStepCore, AdminStepCore DEF Next

\* Type correctness of the contract's storage for every number of users, plans
\* and subscriptions; with it, that total_paid, every balance and every
\* subscriber count stay non-negative.
THEOREM TypeCorrect == Spec => []TypeOK
  <1>1. CoreInv => TypeOK
    BY DEF CoreInv
  <1> QED  BY <1>1, InitCore, NextCore, PTL DEF Spec

\* A refund request never exceeds what the subscription shows as paid.
THEOREM RefundSafe == Spec => []RefundBounded
  <1>1. CoreInv => RefundBounded
    BY DEF CoreInv
  <1> QED  BY <1>1, InitCore, NextCore, PTL DEF Spec

\* Subscription ids are handed out densely, each on an existing plan.
THEOREM IdsDense == Spec => []IdsAllocated
  <1>1. CoreInv => IdsAllocated
    BY DEF CoreInv
  <1> QED  BY <1>1, InitCore, NextCore, PTL DEF Spec

-----------------------------------------------------------------------------
(* The kinds of step *)


\* No other subscription changes.
OthersKept(id) == \A i \in SubIds \ {id} : subs'[i] = subs[i]

\* No step but a transfer changes who holds a subscription, and none changes
\* what it is of or since when.
SameContract(id) ==
  /\ subs'[id].plan_id = subs[id].plan_id
  /\ subs'[id].started_at = subs[id].started_at

SamePayments(id) ==
  /\ subs'[id].last_charged_at = subs[id].last_charged_at
  /\ subs'[id].charge_count = subs[id].charge_count

\* The terms of an existing plan never change.
TermsKept ==
  \A p \in PlanIds : p <= plan_count =>
    /\ plans'[p].merchant = plans[p].merchant
    /\ plans'[p].price = plans[p].price
    /\ plans'[p].interval = plans[p].interval

CountsKept ==
  \A p \in PlanIds :
    IF p <= plan_count
    THEN plans'[p].subscriber_count = plans[p].subscriber_count
    ELSE plans'[p].subscriber_count \in {plans[p].subscriber_count, 0}

Quiet ==
  /\ CountsKept
  /\ UNCHANGED <<subVars, ownerVars, revenueVars, historyVars>>

Touched(id) ==
  /\ SubExists(id)
  /\ OthersKept(id) /\ SameContract(id) /\ SamePayments(id)
  /\ subs'[id].subscriber = subs[id].subscriber
  /\ subs'[id].status # "Absent"
  /\ Live(subs'[id]) <=> Live(subs[id])
  /\ subs'[id].next_charge_at \in
       {subs[id].next_charge_at, now + plans[subs[id].plan_id].interval}
  /\ subs[id].status = "Active" /\ subs'[id].status = "Paused" =>
       \E fs : /\ "pause_by_subscriber" \in fs
               /\ \A f \in fs : RateLimitOK(subs[id].subscriber, f)
               /\ RecordCalls(subs[id].subscriber, fs)
  /\ subs'[id].total_paid + refunded'[id] = subs[id].total_paid + refunded[id]
  /\ \A i \in SubIds \ {id} : refunded'[i] = refunded[i]
  /\ UNCHANGED <<now, plans, subscription_count, ownerVars, revenueVars,
                 transferred>>

Billed(id) ==
  LET plan == plans[subs[id].plan_id] IN
  /\ subs[id].status \in {"Active", "Paused"}
  /\ subs[id].status = "Paused" =>
       now >= subs[id].paused_at + subs[id].pause_duration
  /\ now >= subs[id].next_charge_at
  /\ OthersKept(id) /\ SameContract(id)
  /\ subs'[id].subscriber = subs[id].subscriber
  /\ subs'[id].status = "Active"
  /\ subs'[id].last_charged_at = now
  /\ subs'[id].next_charge_at = now + plan.interval
  /\ subs'[id].total_paid = subs[id].total_paid + plan.price
  /\ subs'[id].charge_count = subs[id].charge_count + 1
  /\ RecordRevenue(id, subs[id].plan_id)
  /\ RateLimitOK(subs[id].subscriber, "charge_subscription")
  /\ RecordCalls(subs[id].subscriber, {"charge_subscription"})
  /\ UNCHANGED <<now, plans, subscription_count, ownerVars, historyVars>>

\* What a charge of a large price has consumed.
Revealed(id) ==
  LET c == commitments[id] IN
  /\ c.pending /\ ~commitments'[id].pending
  /\ c.min_reveal_at <= now /\ now <= c.expires_at
  /\ c.commitment[1] = id
  /\ plans[subs[id].plan_id].price <= c.commitment[2]

Closed(id) ==
  LET s == subs[id] IN
  /\ s.status \in {"Active", "Paused"}
  /\ OthersKept(id) /\ SameContract(id) /\ SamePayments(id)
  /\ subs'[id].subscriber = s.subscriber
  /\ subs'[id].status = "Cancelled"
  /\ subs'[id].next_charge_at = s.next_charge_at
  /\ subs'[id].total_paid = s.total_paid
  /\ user_plan_index' =
       [user_plan_index EXCEPT ![s.subscriber][s.plan_id] = 0]
  /\ \A p \in PlanIds : plans'[p].subscriber_count =
       IF p = s.plan_id THEN CountAfterCancel(plans[p].subscriber_count)
                        ELSE plans[p].subscriber_count
  /\ UNCHANGED <<now, subscription_count, user_subs, revenueVars, historyVars>>

Opened(u, p, id) ==
  /\ id = subscription_count + 1
  /\ p <= plan_count
  /\ ~AlreadySubscribed(u, p)
  /\ OthersKept(id)
  /\ subs'[id].plan_id = p /\ subs'[id].subscriber = u
  /\ subs'[id].status = "Active"
  /\ subs'[id].started_at = now /\ subs'[id].last_charged_at = now
  /\ subs'[id].next_charge_at = now + plans[p].interval
  /\ subs'[id].total_paid = 0 /\ subs'[id].charge_count = 0
  /\ user_subs' = [user_subs EXCEPT ![u][id] = @ + 1]
  /\ user_plan_index' = [user_plan_index EXCEPT ![u][p] = id]
  /\ \A q \in PlanIds : plans'[q].subscriber_count =
       IF q = p THEN plans[q].subscriber_count + 1
                ELSE plans[q].subscriber_count
  /\ subscription_count' = id
  /\ UNCHANGED <<now, revenueVars, historyVars>>

Moved(id, u) ==
  LET s == subs[id] IN
  /\ SubExists(id)
  /\ OthersKept(id) /\ SameContract(id) /\ SamePayments(id)
  /\ subs'[id].status = s.status
  /\ subs'[id].subscriber = u
  /\ subs'[id].next_charge_at = s.next_charge_at
  /\ subs'[id].total_paid = s.total_paid
  /\ user_subs' =
       [[user_subs EXCEPT ![s.subscriber][id] = 0] EXCEPT ![u][id] = @ + 1]
  /\ user_plan_index' =
       [[user_plan_index EXCEPT ![s.subscriber][s.plan_id] = 0]
          EXCEPT ![u][s.plan_id] = id]
  /\ transferred' = transferred \cup {s.plan_id}
  /\ UNCHANGED <<now, plans, subscription_count, revenueVars, refunded>>

-----------------------------------------------------------------------------

\* What a step does is one of the six kinds.
Kinds ==
  \/ Quiet
  \/ \E id \in SubIds : Touched(id)
  \/ \E id \in SubIds :
       /\ Billed(id)
       /\ plans[subs[id].plan_id].price >= mev_config.large_charge_threshold =>
            Revealed(id)
  \/ \E id \in SubIds : Closed(id)
  \/ \E u \in Users, p \in PlanIds, id \in SubIds : Opened(u, p, id)
  \/ \E id \in SubIds, u \in Users : Moved(id, u)

\* Replacing one record of a function.
LEMMA OneRecord ==
  ASSUME CoreInv, NEW id \in SubIds, NEW t, subs' = [subs EXCEPT ![id] = t]
  PROVE  subs'[id] = t /\ OthersKept(id)
  BY DEF CoreInv, TypeOK, OthersKept

\* A step that leaves the plans alone.
LEMMA PlansSame ==
  ASSUME CoreInv, plans' = plans
  PROVE  TermsKept /\ CountsKept
  BY DEF TermsKept, CountsKept

\* Replacing one plan.
LEMMA OnePlan ==
  ASSUME CoreInv, NEW p \in PlanIds, NEW r, plans' = [plans EXCEPT ![p] = r]
  PROVE  \A q \in PlanIds : plans'[q] = IF q = p THEN r ELSE plans[q]
  BY DEF CoreInv, TypeOK

\* The plan operations are quiet.
LEMMA PlanKinds ==
  ASSUME CoreInv, PlanNext
  PROVE  Quiet /\ TermsKept /\ now' = now
  <1> USE DEF planVars, subVars, ownerVars, configVars, revenueVars, historyVars
  <1>0. plans \in [PlanIds -> PlanType] /\ plan_count \in 0..MaxPlans
    BY DEF CoreInv, TypeOK
  <1>1. ASSUME NEW m \in Merchants, NEW price \in Prices, NEW i \in Intervals,
               CreatePlan(m, price, i)
        PROVE  Quiet /\ TermsKept /\ now' = now
    <2>1. PICK r : r = [merchant |-> m, price |-> price, interval |-> i,
                        active |-> TRUE, subscriber_count |-> 0]
      OBVIOUS
    <2>2. r.subscriber_count = 0
      BY <2>1
    <2>3. plans' = [plans EXCEPT ![plan_count + 1] = r]
      BY <1>1, <2>1 DEF CreatePlan
    <2>4. \A q \in PlanIds : plans'[q] = IF q = plan_count + 1 THEN r ELSE plans[q]
      BY <1>0, <2>3
    <2>5. TermsKept /\ CountsKept
      BY <1>0, <2>2, <2>4, ConstantsAssumption
         DEF TermsKept, CountsKept, PlanIds
    <2> QED  BY <1>1, <2>5 DEF CreatePlan, Quiet
  <1>2. ASSUME NEW p \in PlanIds, DeactivatePlan(p)
        PROVE  Quiet /\ TermsKept /\ now' = now
    <2>1. PICK r : r = [plans[p] EXCEPT !.active = FALSE]
      OBVIOUS
    <2>2. /\ r.subscriber_count = plans[p].subscriber_count
          /\ r.merchant = plans[p].merchant
          /\ r.price = plans[p].price
          /\ r.interval = plans[p].interval
      BY <1>0, <2>1 DEF PlanType
    <2>3. plans' = [plans EXCEPT ![p] = r]
      BY <1>2, <2>1 DEF DeactivatePlan
    <2>4. \A q \in PlanIds : plans'[q] = IF q = p THEN r ELSE plans[q]
      BY <2>3, OnePlan
    <2>5. TermsKept /\ CountsKept
      BY <2>2, <2>4 DEF TermsKept, CountsKept
    <2> QED  BY <1>2, <2>5 DEF DeactivatePlan, Quiet
  <1>3. ASSUME NEW p \in PlanIds, NEW r \in RevenueRules, SetRevenueRule(p, r)
        PROVE  Quiet /\ TermsKept /\ now' = now
    BY <1>3, PlansSame DEF SetRevenueRule, Quiet
  <1> QED  BY <1>1, <1>2, <1>3 DEF PlanNext

\* subscribe, cancel, pause and resume: opened, closed or touched.
LEMMA LifecycleKinds ==
  ASSUME CoreInv, LifecycleNext
  PROVE  Kinds /\ TermsKept /\ now' = now
  <1> USE DEF planVars, subVars, ownerVars, configVars, revenueVars, historyVars
  <1>0. TypeOK
    BY DEF CoreInv
  <1>1. ASSUME NEW u \in Users, NEW p \in PlanIds, Subscribe(u, p)
        PROVE  Kinds /\ TermsKept /\ now' = now
    <2> DEFINE id == subscription_count + 1
               t == [NoSub EXCEPT !.plan_id = p, !.subscriber = u,
                       !.status = "Active", !.started_at = now,
                       !.last_charged_at = now,
                       !.next_charge_at = now + plans[p].interval]
    <2>1. id \in SubIds
      <3>1. subscription_count < MaxSubs
        BY <1>1 DEF Subscribe
      <3> QED  BY <1>0, <3>1, ConstantsAssumption DEF TypeOK, SubIds
    <2>2. /\ t.plan_id = p /\ t.subscriber = u /\ t.status = "Active"
          /\ t.started_at = now /\ t.last_charged_at = now
          /\ t.next_charge_at = now + plans[p].interval
          /\ t.total_paid = 0 /\ t.charge_count = 0
      BY DEF NoSub
    <2>3. subs' = [subs EXCEPT ![id] = t]
      BY <1>1 DEF Subscribe
    <2>4. subs'[id] = t /\ OthersKept(id)
      <3> HIDE DEF t, id
      <3> QED  BY <2>1, <2>3, OneRecord
    <2>0. PICK r : r = [plans[p] EXCEPT !.subscriber_count = @ + 1]
      OBVIOUS
    <2>5. /\ plans' = [plans EXCEPT ![p] = r]
          /\ r.merchant = plans[p].merchant /\ r.price = plans[p].price
          /\ r.interval = plans[p].interval
          /\ r.subscriber_count = plans[p].subscriber_count + 1
      BY <1>0, <1>1, <2>0 DEF Subscribe, TypeOK, PlanType
    <2>6. /\ TermsKept
          /\ \A q \in PlanIds : plans'[q].subscriber_count =
               IF q = p THEN plans[q].subscriber_count + 1
                        ELSE plans[q].subscriber_count
      <3>1. \A q \in PlanIds : plans'[q] = IF q = p THEN r ELSE plans[q]
        BY <2>5, OnePlan
      <3> QED  BY <2>5, <3>1 DEF TermsKept
    <2> HIDE DEF t
    <2>7. Opened(u, p, id)
      BY <1>1, <2>2, <2>4, <2>6
         DEF Subscribe, Opened, PlanExists, SetUserPlanIndex
    <2>8. now' = now
      BY <1>1 DEF Subscribe
    <2> QED  BY <2>1, <2>6, <2>7, <2>8 DEF Kinds
  <1>2. ASSUME NEW id \in SubIds, CancelSubscription(id)
        PROVE  Kinds /\ TermsKept /\ now' = now
    <2> DEFINE s == subs[id]
               t == [s EXCEPT !.status = "Cancelled"]
    <2>0. PICK r : r = [plans[s.plan_id] EXCEPT !.subscriber_count =
                          CountAfterCancel(@)]
      OBVIOUS
    <2>1. SubExists(id) /\ subs' = [subs EXCEPT ![id] = t]
      BY <1>2 DEF CancelSubscription, SubExists
    <2>2. /\ t.plan_id = s.plan_id /\ t.subscriber = s.subscriber
          /\ t.status = "Cancelled" /\ t.started_at = s.started_at
          /\ t.last_charged_at = s.last_charged_at
          /\ t.next_charge_at = s.next_charge_at
          /\ t.total_paid = s.total_paid /\ t.charge_count = s.charge_count
      BY SubFacts DEF SubType
    <2>3. subs'[id] = t /\ OthersKept(id)
      <3> HIDE DEF t
      <3> QED  BY <2>1, OneRecord
    <2>4. s.plan_id \in PlanIds
      BY <2>1, SubFacts
    <2>5. /\ plans' = [plans EXCEPT ![s.plan_id] = r]
          /\ r.merchant = plans[s.plan_id].merchant
          /\ r.price = plans[s.plan_id].price
          /\ r.interval = plans[s.plan_id].interval
          /\ r.subscriber_count =
               CountAfterCancel(plans[s.plan_id].subscriber_count)
      BY <1>0, <1>2, <2>0, <2>4 DEF CancelSubscription, TypeOK, PlanType
    <2>6. /\ TermsKept
          /\ \A q \in PlanIds : plans'[q].subscriber_count =
               IF q = s.plan_id THEN CountAfterCancel(plans[q].subscriber_count)
                                ELSE plans[q].subscriber_count
      <3>1. \A q \in PlanIds : plans'[q] = IF q = s.plan_id THEN r ELSE plans[q]
        BY <2>4, <2>5, OnePlan
      <3> QED  BY <2>5, <3>1 DEF TermsKept
    <2> HIDE DEF t
    <2>7. Closed(id)
      BY <1>2, <2>2, <2>3, <2>6 DEF CancelSubscription, Closed,
           RemoveUserPlanIndex, SameContract, SamePayments
    <2>8. now' = now
      BY <1>2 DEF CancelSubscription
    <2> QED  BY <2>6, <2>7, <2>8 DEF Kinds
  <1>3. ASSUME NEW id \in SubIds, NEW d \in Nat, NEW calls,
               "pause_by_subscriber" \in calls, Pause(id, d, calls)
        PROVE  Kinds /\ TermsKept /\ now' = now
    <2> DEFINE s == subs[id]
               t == [s EXCEPT !.status = "Paused", !.paused_at = now,
                              !.pause_duration = d]
    <2>1. s.status = "Active" /\ subs' = [subs EXCEPT ![id] = t]
      BY <1>3 DEF Pause
    <2>2. /\ t.plan_id = s.plan_id /\ t.subscriber = s.subscriber
          /\ t.status = "Paused" /\ t.started_at = s.started_at
          /\ t.last_charged_at = s.last_charged_at
          /\ t.next_charge_at = s.next_charge_at
          /\ t.total_paid = s.total_paid /\ t.charge_count = s.charge_count
      BY SubFacts DEF SubType
    <2>3. subs'[id] = t /\ OthersKept(id)
      <3> HIDE DEF t
      <3> QED  BY <2>1, OneRecord
    <2> HIDE DEF t
    <2>4. Touched(id)
      BY <1>3, <2>1, <2>2, <2>3 DEF Pause, Touched, SameContract, SamePayments,
           SubExists, Live
    <2> QED  BY <1>3, <2>4, PlansSame DEF Kinds, Pause
  <1>4. ASSUME NEW id \in SubIds, ResumeSubscription(id)
        PROVE  Kinds /\ TermsKept /\ now' = now
    <2> DEFINE s == subs[id]
               t == [s EXCEPT !.status = "Active", !.paused_at = 0,
                              !.pause_duration = 0,
                              !.next_charge_at = now + plans[s.plan_id].interval]
    <2>1. s.status = "Paused" /\ subs' = [subs EXCEPT ![id] = t]
      BY <1>4 DEF ResumeSubscription
    <2>2. /\ t.plan_id = s.plan_id /\ t.subscriber = s.subscriber
          /\ t.status = "Active" /\ t.started_at = s.started_at
          /\ t.last_charged_at = s.last_charged_at
          /\ t.next_charge_at = now + plans[s.plan_id].interval
          /\ t.total_paid = s.total_paid /\ t.charge_count = s.charge_count
      BY SubFacts DEF SubType
    <2>3. subs'[id] = t /\ OthersKept(id)
      <3> HIDE DEF t
      <3> QED  BY <2>1, OneRecord
    <2> HIDE DEF t
    <2>4. Touched(id)
      BY <1>4, <2>1, <2>2, <2>3 DEF ResumeSubscription, Touched, SameContract,
           SamePayments, SubExists, Live
    <2> QED  BY <1>4, <2>4, PlansSame DEF Kinds, ResumeSubscription
  <1> QED
    BY <1>1, <1>2, <1>3, <1>4, ConstantsAssumption
       DEF LifecycleNext, PauseSubscription, PauseBySubscriber

\* The fields a charge sets and those it leaves alone.
LEMMA ChargedFields ==
  ASSUME NEW s \in SubType, NEW plan
  PROVE  /\ Charged(s, plan).plan_id = s.plan_id
         /\ Charged(s, plan).subscriber = s.subscriber
         /\ Charged(s, plan).status = s.status
         /\ Charged(s, plan).started_at = s.started_at
         /\ Charged(s, plan).last_charged_at = now
         /\ Charged(s, plan).next_charge_at = now + plan.interval
         /\ Charged(s, plan).total_paid = s.total_paid + plan.price
         /\ Charged(s, plan).charge_count = s.charge_count + 1
  BY DEF Charged, SubType

\* An automatic resumption changes nothing but the pause.
LEMMA ResumedFields ==
  ASSUME NEW s \in SubType
  PROVE  /\ CheckAndResume(s) \in SubType
         /\ CheckAndResume(s).plan_id = s.plan_id
         /\ CheckAndResume(s).subscriber = s.subscriber
         /\ CheckAndResume(s).started_at = s.started_at
         /\ CheckAndResume(s).next_charge_at = s.next_charge_at
         /\ CheckAndResume(s).total_paid = s.total_paid
         /\ CheckAndResume(s).charge_count = s.charge_count
         /\ CheckAndResume(s).status = "Active" =>
              /\ s.status \in {"Active", "Paused"}
              /\ s.status = "Paused" => now >= s.paused_at + s.pause_duration
  BY DEF CheckAndResume, SubType, SubscriptionStatus

\* A charge, by either of its two paths.
LEMMA ChargeKind ==
  ASSUME CoreInv, NEW id \in SubIds, NEW max, NEW gas, NEW private, NEW revealed,
         ChargeGuarded(id, max, gas, private, revealed)
  PROVE  Billed(id) /\ TermsKept
  <1> USE DEF planVars, subVars, ownerVars, configVars, revenueVars, historyVars
  <1>1. PICK s : s = CheckAndResume(subs[id])
    OBVIOUS
  <1>2. PICK plan : plan = plans[subs[id].plan_id]
    OBVIOUS
  <1>3. subs[id] \in SubType
    BY SubFacts
  <1>4. /\ s \in SubType
        /\ s.plan_id = subs[id].plan_id
        /\ s.subscriber = subs[id].subscriber
        /\ s.started_at = subs[id].started_at
        /\ s.next_charge_at = subs[id].next_charge_at
        /\ s.total_paid = subs[id].total_paid
        /\ s.charge_count = subs[id].charge_count
        /\ s.status = "Active" =>
             /\ subs[id].status \in {"Active", "Paused"}
             /\ subs[id].status = "Paused" =>
                  now >= subs[id].paused_at + subs[id].pause_duration
    BY <1>1, <1>3, ResumedFields
  <1>5. /\ s.status = "Active"
        /\ now >= s.next_charge_at
        /\ subs' = [subs EXCEPT ![id] = Charged(s, plan)]
        /\ RecordRevenue(id, subs[id].plan_id)
        /\ RateLimitOK(subs[id].subscriber, "charge_subscription")
        /\ RecordCalls(subs[id].subscriber, {"charge_subscription"})
        /\ UNCHANGED <<now, planVars, subscription_count, ownerVars, historyVars>>
    BY <1>1, <1>2, <1>4 DEF ChargeGuarded, PaymentDue
  <1>6. PICK t : t = Charged(s, plan)
    OBVIOUS
  <1>7. /\ t.plan_id = s.plan_id /\ t.subscriber = s.subscriber
        /\ t.status = s.status /\ t.started_at = s.started_at
        /\ t.last_charged_at = now
        /\ t.next_charge_at = now + plan.interval
        /\ t.total_paid = s.total_paid + plan.price
        /\ t.charge_count = s.charge_count + 1
    BY <1>4, <1>6, ChargedFields
  <1>8. subs'[id] = t /\ OthersKept(id)
    BY <1>5, <1>6, OneRecord
  <1>9. Billed(id)
    BY <1>2, <1>4, <1>5, <1>7, <1>8 DEF Billed, SameContract
  <1> QED  BY <1>5, <1>9, PlansSame

\* Charges, commitments and revelations.
LEMMA PaymentKinds ==
  ASSUME CoreInv, PaymentNext
  PROVE  Kinds /\ TermsKept /\ now' = now
  <1> USE DEF planVars, subVars, ownerVars, configVars, revenueVars, historyVars
  <1>0. TypeOK
    BY DEF CoreInv
  <1>1. ASSUME NEW id \in SubIds, ChargeSubscription(id)
        PROVE  Kinds /\ TermsKept /\ now' = now
    <2>1. Billed(id) /\ TermsKept
      BY <1>1, ChargeKind DEF ChargeSubscription
    <2>2. plans[subs[id].plan_id].price < mev_config.large_charge_threshold
      BY <1>1, SubFacts, ResumedFields DEF ChargeSubscription, ChargeGuarded
    <2>3. /\ plans[subs[id].plan_id].price \in Nat
          /\ mev_config.large_charge_threshold \in Int
      BY <1>0, <2>1, SubFacts DEF Billed, SubExists, TypeOK, PlanType, MevConfig
    <2>4. ~(plans[subs[id].plan_id].price >= mev_config.large_charge_threshold)
      BY <2>2, <2>3
    <2> QED  BY <2>1, <2>4 DEF Kinds, Billed
  <1>2. ASSUME NEW id \in SubIds, NEW c, CommitCharge(id, c)
        PROVE  Kinds /\ TermsKept /\ now' = now
    BY <1>2, PlansSame DEF CommitCharge, Quiet, Kinds
  <1>3. ASSUME NEW id \in SubIds, NEW salt \in Salts, NEW max \in MaxCharges,
               NEW gas \in GasPrices, NEW private \in BOOLEAN,
               RevealCharge(id, salt, max, gas, private)
        PROVE  Kinds /\ TermsKept /\ now' = now
    <2> DEFINE c == commitments[id]
               plan == plans[subs[id].plan_id]
    <2>1. Billed(id) /\ TermsKept
      BY <1>3, ChargeKind DEF RevealCharge
    <2>2. plan.price \in Nat /\ max \in Int /\ subs[id].total_paid \in Nat
      BY <1>0, <2>1, SubFacts, ConstantsAssumption
         DEF Billed, SubExists, TypeOK, PlanType, SubType
    <2>3. /\ WithinFeeBound(plan.price, max)
          /\ subs[id].total_paid + plan.price <= I128Max
      BY <1>3, SubFacts, ResumedFields DEF RevealCharge, ChargeGuarded
    <2>4. plan.price <= max
      BY <2>2, <2>3, ConstantsAssumption DEF WithinFeeBound
    <2>5. /\ c.commitment = <<id, max, salt>>
          /\ c.pending /\ now >= c.min_reveal_at /\ now <= c.expires_at
      BY <1>3 DEF RevealCharge, InRevealWindow, BuildChargeCommitment
    <2>6. ~commitments'[id].pending
      <3>1. commitments'[id] = NoCommitment
        BY <1>0, <1>3 DEF RevealCharge, TypeOK
      <3> QED  BY <3>1 DEF NoCommitment
    <2>7. c.min_reveal_at <= now
      BY <1>0, <2>5 DEF TypeOK, CommitmentType
    <2>8. Revealed(id)
      BY <2>4, <2>5, <2>6, <2>7 DEF Revealed
    <2> QED  BY <2>1, <2>8 DEF Kinds, Billed
  <1> QED  BY <1>1, <1>2, <1>3 DEF PaymentNext

\* Refund requests and decisions touch a subscription.
LEMMA RefundKinds ==
  ASSUME CoreInv, RefundNext
  PROVE  Kinds /\ TermsKept /\ now' = now
  <1> USE DEF planVars, subVars, ownerVars, configVars, revenueVars, historyVars
  <1>0. TypeOK
    BY DEF CoreInv
  <1>1. ASSUME NEW id \in SubIds, NEW amount,
               SubExists(id), refunded' = refunded, plans' = plans, now' = now,
               subs' = [subs EXCEPT ![id] =
                         [subs[id] EXCEPT !.refund_requested_amount = amount]],
               UNCHANGED <<subscription_count, ownerVars, revenueVars,
                           transferred>>
        PROVE  Kinds /\ TermsKept
    <2> DEFINE s == subs[id]
               t == [s EXCEPT !.refund_requested_amount = amount]
    <2>1. /\ t.plan_id = s.plan_id /\ t.subscriber = s.subscriber
          /\ t.status = s.status /\ t.started_at = s.started_at
          /\ t.last_charged_at = s.last_charged_at
          /\ t.next_charge_at = s.next_charge_at
          /\ t.total_paid = s.total_paid /\ t.charge_count = s.charge_count
      BY SubFacts DEF SubType
    <2>2. subs'[id] = t /\ OthersKept(id)
      <3>1. subs' = [subs EXCEPT ![id] = t]
        BY <1>1
      <3> HIDE DEF t
      <3> QED  BY <3>1, OneRecord
    <2> HIDE DEF t
    <2>3. Touched(id)
      BY <1>1, <2>1, <2>2 DEF Touched, SameContract, SamePayments, SubExists, Live
    <2> QED  BY <1>1, <2>3, PlansSame DEF Kinds
  <1>2. ASSUME NEW id \in SubIds, NEW amount \in Refunds, RequestRefund(id, amount)
        PROVE  Kinds /\ TermsKept /\ now' = now
    BY <1>1, <1>2 DEF RequestRefund
  <1>3. ASSUME NEW id \in SubIds, RejectRefund(id)
        PROVE  Kinds /\ TermsKept /\ now' = now
    BY <1>1, <1>3 DEF RejectRefund
  <1>4. ASSUME NEW id \in SubIds, ApproveRefund(id)
        PROVE  Kinds /\ TermsKept /\ now' = now
    <2> DEFINE s == subs[id]
               t == [s EXCEPT !.total_paid = @ - s.refund_requested_amount,
                              !.refund_requested_amount = 0]
    <2>1. SubExists(id) /\ subs' = [subs EXCEPT ![id] = t]
      BY <1>4 DEF ApproveRefund, AfterRefund
    <2>2. /\ t.plan_id = s.plan_id /\ t.subscriber = s.subscriber
          /\ t.status = s.status /\ t.started_at = s.started_at
          /\ t.last_charged_at = s.last_charged_at
          /\ t.next_charge_at = s.next_charge_at
          /\ t.total_paid = s.total_paid - s.refund_requested_amount
          /\ t.charge_count = s.charge_count
      BY SubFacts DEF SubType
    <2>3. subs'[id] = t /\ OthersKept(id)
      <3> HIDE DEF t
      <3> QED  BY <2>1, OneRecord
    <2> HIDE DEF t
    <2>4. /\ refunded'[id] = refunded[id] + s.refund_requested_amount
          /\ \A i \in SubIds \ {id} : refunded'[i] = refunded[i]
      BY <1>0, <1>4 DEF ApproveRefund, TypeOK
    <2>5. /\ refunded[id] \in Nat /\ s.total_paid \in Nat
          /\ s.refund_requested_amount \in Nat
      BY <1>0, SubFacts DEF TypeOK, SubType
    <2>6. subs'[id].total_paid + refunded'[id] = subs[id].total_paid + refunded[id]
      BY <2>2, <2>3, <2>4, <2>5
    <2>7. Touched(id)
      BY <1>4, <2>1, <2>2, <2>3, <2>4, <2>6
         DEF ApproveRefund, Touched, SameContract, SamePayments, SubExists, Live
    <2> QED  BY <1>4, <2>7, PlansSame DEF Kinds, ApproveRefund
  <1> QED  BY <1>2, <1>3, <1>4 DEF RefundNext

\* Requesting a transfer is quiet, accepting it moves the subscription.
LEMMA TransferKinds ==
  ASSUME CoreInv, TransferNext
  PROVE  Kinds /\ TermsKept /\ now' = now
  <1> USE DEF planVars, subVars, ownerVars, configVars, revenueVars, historyVars
  <1>1. ASSUME NEW id \in SubIds, NEW u \in Recipients, RequestTransfer(id, u)
        PROVE  Kinds /\ TermsKept /\ now' = now
    BY <1>1, PlansSame DEF RequestTransfer, Quiet, Kinds
  <1>2. ASSUME NEW id \in SubIds, NEW u \in Recipients, AcceptTransfer(id, u)
        PROVE  Kinds /\ TermsKept /\ now' = now
    <2> DEFINE s == subs[id]
               t == [s EXCEPT !.subscriber = u]
    <2>1. SubExists(id) /\ subs' = [subs EXCEPT ![id] = t]
      BY <1>2 DEF AcceptTransfer
    <2>2. /\ t.plan_id = s.plan_id /\ t.subscriber = u
          /\ t.status = s.status /\ t.started_at = s.started_at
          /\ t.last_charged_at = s.last_charged_at
          /\ t.next_charge_at = s.next_charge_at
          /\ t.total_paid = s.total_paid /\ t.charge_count = s.charge_count
      BY SubFacts DEF SubType
    <2>3. subs'[id] = t /\ OthersKept(id)
      <3> HIDE DEF t
      <3> QED  BY <2>1, OneRecord
    <2> HIDE DEF t
    <2>4. Moved(id, u)
      BY <1>2, <2>1, <2>2, <2>3 DEF AcceptTransfer, Moved, SameContract,
           SamePayments, RemoveFromList, RemoveUserPlanIndex, SetUserPlanIndex
    <2>5. u \in Users
      BY ConstantsAssumption
    <2> QED  BY <1>2, <2>4, <2>5, PlansSame DEF Kinds, AcceptTransfer
  <1> QED  BY <1>1, <1>2 DEF TransferNext

\* Every step of the contract is one of the six kinds, keeps the terms of the
\* existing plans and never turns the clock back.
LEMMA StepKinds ==
  ASSUME CoreInv, [Next]_vars
  PROVE  Kinds /\ TermsKept /\ now' \in Nat /\ now' >= now
  <1> USE DEF planVars, subVars, ownerVars, configVars, revenueVars, historyVars
  <1>0. now \in Nat
    BY DEF CoreInv, TypeOK
  <1>1. CASE Tick
    <2>1. Kinds /\ TermsKept
      BY <1>1, PlansSame DEF Tick, Quiet, Kinds
    <2>2. now' = now + 1
      BY <1>1 DEF Tick
    <2> QED  BY <1>0, <2>1, <2>2
  <1>2. CASE UNCHANGED vars
    BY <1>0, <1>2, PlansSame DEF vars, Quiet, Kinds
  <1>3. CASE AdminNext
    BY <1>0, <1>3, PlansSame
       DEF AdminNext, SetRateLimit, RemoveRateLimit, ConfigureMevProtection,
           SetInvoiceContract, Quiet, Kinds
  <1>4. CASE PlanNext
    BY <1>0, <1>4, PlanKinds DEF Kinds
  <1> QED
    BY <1>0, <1>1, <1>2, <1>3, <1>4, LifecycleKinds, PaymentKinds, RefundKinds,
       TransferKinds DEF Next

-----------------------------------------------------------------------------
(* Ownership *)

\* Every step keeps each subscription in its subscriber's list exactly once.
LEMMA ListsStep ==
  ASSUME CoreInv, CoreInv', OwnershipLists, Kinds
  PROVE  OwnershipLists'
  <1> USE DEF subVars, ownerVars, historyVars
  <1>0. /\ user_subs \in [Users -> [SubIds -> Nat]]
        /\ user_plan_index \in [Users -> [PlanIds -> 0..MaxSubs]]
    BY DEF CoreInv, TypeOK
  <1>1. ASSUME user_subs' = user_subs,
               NEW id \in SubIds, OthersKept(id), SubExists(id),
               subs'[id].status # "Absent",
               subs'[id].subscriber = subs[id].subscriber
        PROVE  OwnershipLists'
    BY <1>1 DEF OwnershipLists, OthersKept, SubExists
  <1>2. CASE Quiet
    BY <1>2 DEF Quiet, OwnershipLists, SubExists
  <1>3. ASSUME NEW id \in SubIds, Touched(id)
        PROVE  OwnershipLists'
    BY <1>1, <1>3 DEF Touched
  <1>4. ASSUME NEW id \in SubIds, Billed(id)
        PROVE  OwnershipLists'
    BY <1>1, <1>4 DEF Billed, SubExists
  <1>5. ASSUME NEW id \in SubIds, Closed(id)
        PROVE  OwnershipLists'
    BY <1>1, <1>5 DEF Closed, SubExists
  <1>6. ASSUME NEW u \in Users, NEW p \in PlanIds, NEW id \in SubIds,
               Opened(u, p, id)
        PROVE  OwnershipLists'
    <2>1. ~SubExists(id)
      BY <1>6 DEF Opened, CoreInv, IdsAllocated, TypeOK, SubIds
    <2>2. \A v \in Users, i \in SubIds :
            user_subs'[v][i] = IF v = u /\ i = id THEN user_subs[u][id] + 1
                                                 ELSE user_subs[v][i]
      BY <1>0, <1>6 DEF Opened
    <2>3. \A v \in Users : user_subs[v][id] = 0
      BY <2>1 DEF OwnershipLists
    <2>4. SubExists(id)' /\ subs'[id].subscriber = u
      BY <1>6 DEF Opened, SubExists
    <2>5. \A i \in SubIds \ {id} : subs'[i] = subs[i]
      BY <1>6 DEF Opened, OthersKept
    <2> QED  BY <2>2, <2>3, <2>4, <2>5 DEF OwnershipLists, SubExists
  <1>7. ASSUME NEW id \in SubIds, NEW u \in Users, Moved(id, u)
        PROVE  OwnershipLists'
    <2> DEFINE old == subs[id].subscriber
    <2>1. PICK g : g = [user_subs EXCEPT ![old][id] = 0]
      OBVIOUS
    <2>2. old \in Users
      BY SubFacts
    <2>3. /\ g \in [Users -> [SubIds -> Nat]]
          /\ \A v \in Users, i \in SubIds :
               g[v][i] = IF v = old /\ i = id THEN 0 ELSE user_subs[v][i]
      BY <1>0, <2>1, <2>2
    <2>4. user_subs' = [g EXCEPT ![u][id] = g[u][id] + 1]
      BY <1>7, <2>1 DEF Moved
    <2>5. \A v \in Users, i \in SubIds :
            user_subs'[v][i] = IF v = u /\ i = id THEN g[u][id] + 1 ELSE g[v][i]
      BY <2>3, <2>4
    <2>6. \A v \in Users : g[v][id] = 0
      BY <1>7, <2>3 DEF Moved, OwnershipLists
    <2>7. SubExists(id)' /\ SubExists(id) /\ subs'[id].subscriber = u
      BY <1>7 DEF Moved, SubExists
    <2>8. \A i \in SubIds \ {id} : subs'[i] = subs[i]
      BY <1>7 DEF Moved, OthersKept
    <2> QED  BY <2>3, <2>5, <2>6, <2>7, <2>8 DEF OwnershipLists, SubExists
  <1> QED  BY <1>2, <1>3, <1>4, <1>5, <1>6, <1>7 DEF Kinds

\* Every step keeps the index leading to the holder's own subscriptions.
LEMMA IndexStep ==
  ASSUME CoreInv, CoreInv', IndexOwner, Kinds
  PROVE  IndexOwner'
  <1> USE DEF subVars, ownerVars, historyVars
  <1>0. /\ user_plan_index \in [Users -> [PlanIds -> 0..MaxSubs]]
        /\ \A u \in Users, p \in PlanIds :
             user_plan_index[u][p] # 0 => user_plan_index[u][p] \in SubIds
    <2>1. user_plan_index \in [Users -> [PlanIds -> 0..MaxSubs]]
      BY DEF CoreInv, TypeOK
    <2> QED  BY <2>1, ConstantsAssumption DEF SubIds
  <1>1. ASSUME NEW id \in SubIds, OthersKept(id), SameContract(id),
               subs'[id].status # "Absent",
               subs'[id].subscriber = subs[id].subscriber,
               \A u \in Users, p \in PlanIds :
                 user_plan_index'[u][p] \in {user_plan_index[u][p], 0}
        PROVE  IndexOwner'
    BY <1>0, <1>1 DEF IndexOwner, OthersKept, SameContract, SubExists
  <1>2. CASE Quiet
    BY <1>2 DEF Quiet, IndexOwner, SubExists
  <1>3. ASSUME NEW id \in SubIds, Touched(id)
        PROVE  IndexOwner'
    BY <1>1, <1>3 DEF Touched
  <1>4. ASSUME NEW id \in SubIds, Billed(id)
        PROVE  IndexOwner'
    BY <1>1, <1>4 DEF Billed
  <1>5. ASSUME NEW id \in SubIds, Closed(id)
        PROVE  IndexOwner'
    <2>1. SubExists(id)
      BY <1>5 DEF Closed, SubExists
    <2>2. \A u \in Users, p \in PlanIds :
            user_plan_index'[u][p] \in {user_plan_index[u][p], 0}
      BY <1>0, <1>5, <2>1, SubFacts DEF Closed
    <2> QED  BY <1>1, <1>5, <2>2 DEF Closed
  <1>6. ASSUME NEW u \in Users, NEW p \in PlanIds, NEW id \in SubIds,
               Opened(u, p, id)
        PROVE  IndexOwner'
    <2>1. ~SubExists(id)
      BY <1>6 DEF Opened, CoreInv, IdsAllocated, TypeOK, SubIds
    <2>2. \A v \in Users, q \in PlanIds :
            user_plan_index'[v][q] = IF v = u /\ q = p THEN id
                                                      ELSE user_plan_index[v][q]
      BY <1>0, <1>6 DEF Opened
    <2>3. /\ SubExists(id)'
          /\ subs'[id].subscriber = u /\ subs'[id].plan_id = p
          /\ \A i \in SubIds \ {id} : subs'[i] = subs[i]
      BY <1>6 DEF Opened, SubExists, OthersKept
    <2> QED  BY <1>0, <2>1, <2>2, <2>3 DEF IndexOwner, SubExists
  <1>7. ASSUME NEW id \in SubIds, NEW u \in Users, Moved(id, u)
        PROVE  IndexOwner'
    <2> DEFINE old == subs[id].subscriber
               p == subs[id].plan_id
    <2>1. PICK g : g = [user_plan_index EXCEPT ![old][p] = 0]
      OBVIOUS
    <2>2. old \in Users /\ p \in PlanIds
      BY <1>7, SubFacts DEF Moved
    <2>3. 0 \in 0..MaxSubs
      BY ConstantsAssumption
    <2>4. /\ g \in [Users -> [PlanIds -> 0..MaxSubs]]
          /\ \A v \in Users, q \in PlanIds :
               g[v][q] = IF v = old /\ q = p THEN 0 ELSE user_plan_index[v][q]
      BY <1>0, <2>1, <2>2, <2>3
    <2>5. user_plan_index' = [g EXCEPT ![u][p] = id]
      BY <1>7, <2>1 DEF Moved
    <2>6. \A v \in Users, q \in PlanIds :
            user_plan_index'[v][q] = IF v = u /\ q = p THEN id ELSE g[v][q]
      BY <2>2, <2>4, <2>5
    <2>7. /\ SubExists(id)' /\ SubExists(id)
          /\ subs'[id].subscriber = u /\ subs'[id].plan_id = subs[id].plan_id
          /\ \A i \in SubIds \ {id} : subs'[i] = subs[i]
      BY <1>7 DEF Moved, SubExists, OthersKept, SameContract
    <2> QED  BY <1>0, <2>4, <2>6, <2>7 DEF IndexOwner, SubExists
  <1> QED  BY <1>2, <1>3, <1>4, <1>5, <1>6, <1>7 DEF Kinds

\* On a plan without transfers every live subscription is the one the index
\* names; uniqueness follows.
LEMMA UniqueStep ==
  ASSUME CoreInv, CoreInv', UniqueUnlessTransferred, Kinds
  PROVE  UniqueUnlessTransferred'
  <1> USE DEF subVars, ownerVars, historyVars
  <1> DEFINE Found(p, id) ==
               Live(subs[id]) /\ subs[id].plan_id = p =>
                 user_plan_index[subs[id].subscriber][p] = id
  <1>0. /\ user_plan_index \in [Users -> [PlanIds -> 0..MaxSubs]]
        /\ \A i \in SubIds : i # 0 /\ subs[i].subscriber \in Users
        /\ \A i \in SubIds : Live(subs[i]) => subs[i].plan_id \in PlanIds
    BY SubFacts DEF CoreInv, TypeOK, SubIds, Live, SubExists
  <1>1. \A p \in PlanIds \ transferred, i \in SubIds : Found(p, i)
    BY DEF UniqueUnlessTransferred
  <1>2. SUFFICES ASSUME NEW p \in PlanIds, p \notin transferred', NEW i \in SubIds,
                        Live(subs'[i]), subs'[i].plan_id = p
                 PROVE  user_plan_index'[subs'[i].subscriber][p] = i
    BY DEF UniqueUnlessTransferred, UniqueLive
  <1>3. ASSUME NEW id \in SubIds, OthersKept(id), SameContract(id),
               Live(subs'[id]) <=> Live(subs[id]),
               subs'[id].subscriber = subs[id].subscriber,
               UNCHANGED <<user_plan_index, transferred>>
        PROVE  user_plan_index'[subs'[i].subscriber][p] = i
    BY <1>1, <1>2, <1>3 DEF OthersKept, SameContract
  <1>4. CASE Quiet
    BY <1>1, <1>2, <1>4 DEF Quiet
  <1>5. ASSUME NEW id \in SubIds, Touched(id)
        PROVE  user_plan_index'[subs'[i].subscriber][p] = i
    BY <1>3, <1>5 DEF Touched
  <1>6. ASSUME NEW id \in SubIds, Billed(id)
        PROVE  user_plan_index'[subs'[i].subscriber][p] = i
    BY <1>3, <1>6 DEF Billed, Live
  <1>7. ASSUME NEW id \in SubIds, Closed(id)
        PROVE  user_plan_index'[subs'[i].subscriber][p] = i
    <2>1. i # id /\ subs'[i] = subs[i] /\ p \notin transferred
      BY <1>2, <1>7 DEF Closed, Live, OthersKept
    <2>2. Live(subs[id])
      BY <1>7 DEF Closed, Live
    <2>3. user_plan_index[subs[i].subscriber][p] = i
      BY <1>1, <1>2, <2>1
    <2>4. ~(subs[i].subscriber = subs[id].subscriber /\ p = subs[id].plan_id)
      BY <1>1, <2>1, <2>2, <2>3
    <2>5. user_plan_index' = [user_plan_index EXCEPT
                                ![subs[id].subscriber][subs[id].plan_id] = 0]
      BY <1>7 DEF Closed
    <2> QED  BY <1>0, <2>1, <2>2, <2>3, <2>4, <2>5
  <1>8. ASSUME NEW u \in Users, NEW q \in PlanIds, NEW id \in SubIds,
               Opened(u, q, id)
        PROVE  user_plan_index'[subs'[i].subscriber][p] = i
    <2>1. \A v \in Users, r \in PlanIds :
            user_plan_index'[v][r] = IF v = u /\ r = q THEN id
                                                      ELSE user_plan_index[v][r]
      BY <1>0, <1>8 DEF Opened
    <2>2. CASE i = id
      BY <1>2, <1>8, <2>1, <2>2 DEF Opened
    <2>3. CASE i # id
      <3>1. subs'[i] = subs[i] /\ p \notin transferred
        BY <1>2, <1>8, <2>3 DEF Opened, OthersKept
      <3>2. user_plan_index[subs[i].subscriber][p] = i
        BY <1>1, <1>2, <3>1
      <3>3. ~(subs[i].subscriber = u /\ p = q)
        BY <1>0, <1>2, <1>8, <3>1, <3>2 DEF Opened, AlreadySubscribed, Live
      <3> QED  BY <1>0, <2>1, <3>1, <3>2, <3>3
    <2> QED  BY <2>2, <2>3
  <1>9. ASSUME NEW id \in SubIds, NEW u \in Users, Moved(id, u)
        PROVE  user_plan_index'[subs'[i].subscriber][p] = i
    <2> DEFINE old == subs[id].subscriber
               q == subs[id].plan_id
    <2>1. p # q /\ p \notin transferred
      BY <1>2, <1>9 DEF Moved
    <2>2. i # id /\ subs'[i] = subs[i]
      BY <1>2, <1>9, <2>1 DEF Moved, OthersKept, SameContract
    <2>3. user_plan_index[subs[i].subscriber][p] = i
      BY <1>1, <1>2, <2>1, <2>2
    <2>4. old \in Users /\ q \in PlanIds /\ 0 \in 0..MaxSubs
      BY <1>9, SubFacts, ConstantsAssumption DEF Moved
    <2>5. PICK g : g = [user_plan_index EXCEPT ![old][q] = 0]
      OBVIOUS
    <2>6. /\ g \in [Users -> [PlanIds -> 0..MaxSubs]]
          /\ \A v \in Users : g[v][p] = user_plan_index[v][p]
      BY <1>0, <2>1, <2>4, <2>5
    <2>7. user_plan_index' = [g EXCEPT ![u][q] = id]
      BY <1>9, <2>5 DEF Moved
    <2>8. \A v \in Users : user_plan_index'[v][p] = g[v][p]
      BY <2>1, <2>4, <2>6, <2>7
    <2> QED  BY <1>0, <2>2, <2>3, <2>6, <2>8
  <1> QED  BY <1>4, <1>5, <1>6, <1>7, <1>8, <1>9 DEF Kinds

\* The live subscriptions of a plan.
LiveOn(p) == {id \in SubIds : Live(subs[id]) /\ subs[id].plan_id = p}

\* They are finitely many.
LEMMA LiveOnFinite ==
  ASSUME NEW p
  PROVE  IsFiniteSet(LiveOn(p)) /\ IsFiniteSet(LiveOn(p))'
  <1>1. IsFiniteSet(SubIds)
    BY FS_Interval, ConstantsAssumption DEF SubIds
  <1>2. LiveOn(p) \subseteq SubIds /\ LiveOn(p)' \subseteq SubIds
    BY DEF LiveOn
  <1> QED  BY <1>1, <1>2, FS_Subset

\* Every step keeps the counts equal to the number of live subscriptions.
LEMMA CountStep ==
  ASSUME CoreInv, CoreInv', SubscriberCountExact, Kinds
  PROVE  SubscriberCountExact'
  <1> USE DEF subVars, ownerVars, historyVars
  <1>1. \A p \in PlanIds : plans[p].subscriber_count = Cardinality(LiveOn(p))
    BY DEF SubscriberCountExact, LiveOn
  <1>2. SUFFICES ASSUME NEW p \in PlanIds
                 PROVE  plans'[p].subscriber_count = Cardinality(LiveOn(p)')
    BY DEF SubscriberCountExact, LiveOn
  <1>3. ASSUME NEW id \in SubIds, OthersKept(id), SameContract(id),
               Live(subs'[id]) <=> Live(subs[id]), plans' = plans
        PROVE  plans'[p].subscriber_count = Cardinality(LiveOn(p)')
    <2>1. LiveOn(p)' = LiveOn(p)
      BY <1>3 DEF LiveOn, OthersKept, SameContract
    <2> QED  BY <1>1, <1>3, <2>1
  <1>4. CASE Quiet
    <2>1. LiveOn(p)' = LiveOn(p)
      BY <1>4 DEF LiveOn, Quiet
    <2>2. CASE p <= plan_count
      BY <1>1, <1>4, <2>1, <2>2 DEF Quiet, CountsKept
    <2>3. CASE ~(p <= plan_count)
      <3>1. LiveOn(p) = {}
        BY <2>3 DEF LiveOn, Live, CoreInv, IdsAllocated, SubExists, TypeOK
      <3>2. Cardinality(LiveOn(p)) = 0
        BY <3>1, FS_EmptySet
      <3> QED  BY <1>1, <1>4, <2>1, <2>3, <3>2 DEF Quiet, CountsKept
    <2> QED  BY <2>2, <2>3
  <1>5. ASSUME NEW id \in SubIds, Touched(id)
        PROVE  plans'[p].subscriber_count = Cardinality(LiveOn(p)')
    BY <1>3, <1>5 DEF Touched
  <1>6. ASSUME NEW id \in SubIds, Billed(id)
        PROVE  plans'[p].subscriber_count = Cardinality(LiveOn(p)')
    BY <1>3, <1>6 DEF Billed, Live
  <1>7. ASSUME NEW id \in SubIds, Closed(id)
        PROVE  plans'[p].subscriber_count = Cardinality(LiveOn(p)')
    <2>1. CASE p # subs[id].plan_id
      <3>1. LiveOn(p)' = LiveOn(p)
        BY <1>7, <2>1 DEF LiveOn, Closed, OthersKept, SameContract
      <3> QED  BY <1>1, <1>7, <2>1, <3>1 DEF Closed
    <2>2. CASE p = subs[id].plan_id
      <3>1. id \in LiveOn(p) /\ LiveOn(p)' = LiveOn(p) \ {id}
        BY <1>7, <2>2 DEF LiveOn, Live, Closed, OthersKept, SameContract
      <3>2. Cardinality(LiveOn(p)') = Cardinality(LiveOn(p)) - 1
        BY <3>1, LiveOnFinite, FS_RemoveElement
      <3>3. Cardinality(LiveOn(p)) \in Nat /\ Cardinality(LiveOn(p)) # 0
        BY <3>1, LiveOnFinite, FS_CardinalityType, FS_EmptySet
      <3>4. plans'[p].subscriber_count = CountAfterCancel(Cardinality(LiveOn(p)))
        BY <1>1, <1>7, <2>2 DEF Closed
      <3> QED  BY <3>2, <3>3, <3>4 DEF CountAfterCancel
    <2> QED  BY <2>1, <2>2
  <1>8. ASSUME NEW u \in Users, NEW q \in PlanIds, NEW id \in SubIds,
               Opened(u, q, id)
        PROVE  plans'[p].subscriber_count = Cardinality(LiveOn(p)')
    <2>1. ~SubExists(id)
      BY <1>8 DEF Opened, CoreInv, IdsAllocated, TypeOK, SubIds
    <2>2. CASE p # q
      <3>1. LiveOn(p)' = LiveOn(p)
        BY <1>8, <2>1, <2>2 DEF LiveOn, Live, SubExists, Opened, OthersKept
      <3> QED  BY <1>1, <1>8, <2>2, <3>1 DEF Opened
    <2>3. CASE p = q
      <3>1. id \notin LiveOn(p) /\ LiveOn(p)' = LiveOn(p) \cup {id}
        BY <1>8, <2>1, <2>3 DEF LiveOn, Live, SubExists, Opened, OthersKept
      <3>2. Cardinality(LiveOn(p)') = Cardinality(LiveOn(p)) + 1
        BY <3>1, LiveOnFinite, FS_AddElement
      <3> QED  BY <1>1, <1>8, <2>3, <3>2 DEF Opened
    <2> QED  BY <2>2, <2>3
  <1>9. ASSUME NEW id \in SubIds, NEW u \in Users, Moved(id, u)
        PROVE  plans'[p].subscriber_count = Cardinality(LiveOn(p)')
    BY <1>3, <1>9 DEF Moved, Live
  <1> QED  BY <1>4, <1>5, <1>6, <1>7, <1>8, <1>9 DEF Kinds

\* The inductive invariant of ownership; only the numbering of subscriptions
\* has to be added to what the runs check.
OwnershipInv ==
  /\ CoreInv
  /\ OwnershipLists
  /\ IndexOwner
  /\ UniqueUnlessTransferred
  /\ SubscriberCountExact

\* A fresh contract has no subscriptions to disagree about.
LEMMA InitOwnership == Init => OwnershipInv
  <1> SUFFICES ASSUME Init PROVE OwnershipInv
    OBVIOUS
  <1>1. CoreInv
    BY InitCore
  <1>2. \A id \in SubIds : subs[id].status = "Absent"
    BY DEF Init, NoSub
  <1>3. OwnershipLists /\ IndexOwner /\ UniqueUnlessTransferred
    BY <1>2 DEF Init, OwnershipLists, IndexOwner, UniqueUnlessTransferred,
                UniqueLive, SubExists, Live
  <1>4. SubscriberCountExact
    <2>1. \A p \in PlanIds :
            {id \in SubIds : Live(subs[id]) /\ subs[id].plan_id = p} = {}
      BY <1>2 DEF Live
    <2>2. \A p \in PlanIds : plans[p].subscriber_count = 0
      BY DEF Init, NoPlan
    <2> QED  BY <2>1, <2>2, FS_EmptySet DEF SubscriberCountExact
  <1> QED  BY <1>1, <1>3, <1>4 DEF OwnershipInv

\* Every step of the contract keeps the ownership invariant.
LEMMA NextOwnership == OwnershipInv /\ [Next]_vars => OwnershipInv'
  <1> SUFFICES ASSUME OwnershipInv, [Next]_vars PROVE OwnershipInv'
    OBVIOUS
  <1>1. CoreInv /\ CoreInv'
    BY NextCore DEF OwnershipInv
  <1>2. Kinds
    BY <1>1, StepKinds
  <1> QED
    BY <1>1, <1>2, ListsStep, IndexStep, UniqueStep, CountStep DEF OwnershipInv

\* subscribe, cancel_subscription and accept_transfer keep the per-user lists
\* exact, for any number of users and transfers back and forth.
THEOREM ListsExact == Spec => []OwnershipLists
  <1>1. OwnershipInv => OwnershipLists
    BY DEF OwnershipInv
  <1> QED  BY <1>1, InitOwnership, NextOwnership, PTL DEF Spec

\* An entry of the user/plan index never leads to somebody else's subscription
\* or to one of another plan.
THEOREM IndexSound == Spec => []IndexOwner
  <1>1. OwnershipInv => IndexOwner
    BY DEF OwnershipInv
  <1> QED  BY <1>1, InitOwnership, NextOwnership, PTL DEF Spec

\* The index makes the duplicate check of subscribe complete on every plan of
\* which no subscription was ever transferred.
THEOREM UniqueWithoutTransfers == Spec => []UniqueUnlessTransferred
  <1>1. OwnershipInv => UniqueUnlessTransferred
    BY DEF OwnershipInv
  <1> QED  BY <1>1, InitOwnership, NextOwnership, PTL DEF Spec

\* Plan.subscriber_count counts the live subscriptions of the plan exactly.
THEOREM CountsExact == Spec => []SubscriberCountExact
  <1>1. OwnershipInv => SubscriberCountExact
    BY DEF OwnershipInv
  <1> QED  BY <1>1, InitOwnership, NextOwnership, PTL DEF Spec

-----------------------------------------------------------------------------
(* Billing *)

\* A schedule for a charge at time t: it starts there, is for the price,
\* covers the interval, and its last period begins within the interval.
ForInterval(sch, total, t, interval) ==
  /\ sch.total_amount = total
  /\ sch.start = t
  /\ t + interval <= ScheduleEnd(sch)
  /\ (sch.num_periods - 1) * sch.period_secs <= interval

\* The account of one subscription: what NoOverbilling, PaidMatchesCharges and
\* ScheduleCoversPeriod say of it, and that the last period of its schedule
\* begins within the interval the schedule pays for.
AccountOK(id) ==
  LET s == subs[id]
      plan == plans[s.plan_id]
      sch == schedules[id]
  IN
  /\ s.charge_count * plan.interval <= s.last_charged_at - s.started_at
  /\ s.last_charged_at + plan.interval <= s.next_charge_at
  /\ s.last_charged_at <= now
  /\ s.total_paid + refunded[id] = s.charge_count * plan.price
  /\ IF s.charge_count = 0
     THEN sch.num_periods = 0
     ELSE ForInterval(sch, plan.price, s.last_charged_at, plan.interval)

\* What was never opened was never charged or refunded.
FreshAccount(id) ==
  subs[id].charge_count = 0 /\ refunded[id] = 0 /\ schedules[id].num_periods = 0

AccountsOK ==
  \A id \in SubIds : IF SubExists(id) THEN AccountOK(id) ELSE FreshAccount(id)

\* One more charge is one more interval, or price.
LEMMA OneMore ==
  ASSUME NEW n \in Nat, NEW x \in Nat
  PROVE  (n + 1) * x = n * x + x /\ n * x \in Nat
  OBVIOUS

\* Rounding up covers the dividend and overshoots by less than one divisor.
LEMMA DivCeilCovers ==
  ASSUME NEW a \in Nat, NEW b \in Nat, b > 0
  PROVE  /\ a <= DivCeil(a, b) * b
         /\ (DivCeil(a, b) - 1) * b <= a
  <1>1. PICK x \in Nat : x = a + b - 1
    OBVIOUS
  <1>2. PICK q \in Nat : q = x \div b
    OBVIOUS
  <1>3. b * q <= x /\ x < b * q + b
    BY <1>2
  <1>4. q * b = b * q /\ (q - 1) * b = b * q - b
    OBVIOUS
  <1> QED  BY <1>1, <1>2, <1>3, <1>4 DEF DivCeil

\* The schedule generate_revenue_schedule builds is one, under every rule.
LEMMA ScheduleForCovers ==
  ASSUME NEW rule \in RevenueRule \cup {NoRule}, ScheduleBuildable(rule),
         NEW total \in Nat, NEW t \in Nat, NEW interval \in Nat
  PROVE  ForInterval(ScheduleFor(rule, total, t, interval), total, t, interval)
  <1>0. SUFFICES ASSUME NEW sch, sch = ScheduleFor(rule, total, t, interval)
                 PROVE  ForInterval(sch, total, t, interval)
    OBVIOUS
  <1>1. CASE rule.method = "StraightLine"
    <2> DEFINE period == rule.recognition_period
               n == DivCeil(interval, period)
    <2>1. period \in Nat /\ period > 0
      BY <1>1 DEF RevenueRule, NoRule, ScheduleBuildable
    <2>2. interval <= n * period /\ (n - 1) * period <= interval /\ n \in Nat
      BY <2>1, DivCeilCovers, DivCeilNat
    <2>3. /\ sch.total_amount = total /\ sch.start = t
          /\ sch.period_secs = period /\ sch.num_periods = n
      BY <1>0, <1>1 DEF ScheduleFor, RevenueScheduleOf
    <2>4. n * period \in Int
      BY <2>1, <2>2
    <2> HIDE DEF n, period
    <2> QED  BY <2>1, <2>2, <2>3, <2>4 DEF ScheduleEnd, ForInterval
  <1>2. CASE rule.method # "StraightLine"
    <2>1. /\ sch.total_amount = total /\ sch.start = t
          /\ sch.period_secs = interval /\ sch.num_periods = 1
      BY <1>0, <1>2 DEF ScheduleFor, RevenueScheduleOf
    <2> QED  BY <2>1 DEF ScheduleEnd, ForInterval
  <1> QED  BY <1>1, <1>2

\* The terms an existing subscription is billed on do not change.
LEMMA SameTerms ==
  ASSUME CoreInv, TermsKept, NEW id \in SubIds, SubExists(id)
  PROVE  LET p == subs[id].plan_id IN
         /\ p \in PlanIds
         /\ plans[p].price \in Nat /\ plans[p].interval \in Nat
         /\ plans[p].merchant \in Users
         /\ plans'[p].price = plans[p].price
         /\ plans'[p].interval = plans[p].interval
         /\ plans'[p].merchant = plans[p].merchant
  <1>1. subs[id].plan_id \in PlanIds /\ subs[id].plan_id \in 1..plan_count
    BY SubFacts DEF CoreInv, IdsAllocated
  <1>2. subs[id].plan_id <= plan_count
    BY <1>1 DEF CoreInv, TypeOK
  <1>3. plans[subs[id].plan_id] \in PlanType
    BY <1>1 DEF CoreInv, TypeOK
  <1> QED  BY <1>1, <1>2, <1>3 DEF TermsKept, PlanType

\* A step that leaves an account's sums alone and does not bring its next
\* charge closer than an interval after the last.
LEMMA SteadyAccount ==
  ASSUME CoreInv, TermsKept, now' \in Nat, now' >= now,
         NEW id \in SubIds, SubExists(id), AccountOK(id),
         SameContract(id), SamePayments(id), schedules'[id] = schedules[id],
         subs'[id].next_charge_at \in
           {subs[id].next_charge_at, now + plans[subs[id].plan_id].interval},
         subs'[id].total_paid + refunded'[id] = subs[id].total_paid + refunded[id]
  PROVE  AccountOK(id)'
  <1> DEFINE s == subs[id]
             p == subs[id].plan_id
  <1>1. /\ p \in PlanIds
        /\ plans[p].price \in Nat /\ plans[p].interval \in Nat
        /\ plans'[p].price = plans[p].price
        /\ plans'[p].interval = plans[p].interval
    BY SameTerms
  <1>2. /\ s.last_charged_at \in Nat /\ s.next_charge_at \in Nat /\ now \in Nat
    BY SubFacts DEF CoreInv, TypeOK, SubType
  <1>3. /\ subs'[id].plan_id = p
        /\ subs'[id].started_at = s.started_at
        /\ subs'[id].last_charged_at = s.last_charged_at
        /\ subs'[id].charge_count = s.charge_count
    BY DEF SameContract, SamePayments
  <1>4. s.last_charged_at + plans[p].interval <= subs'[id].next_charge_at
    BY <1>1, <1>2 DEF AccountOK
  <1>5. s.last_charged_at <= now'
    BY <1>2 DEF AccountOK
  <1> QED  BY <1>1, <1>3, <1>4, <1>5 DEF AccountOK, ForInterval, ScheduleEnd

\* A charge adds one interval, one price and a schedule that covers it.
LEMMA BilledAccount ==
  ASSUME CoreInv, TermsKept, NEW id \in SubIds, AccountOK(id), Billed(id)
  PROVE  AccountOK(id)'
  <1> USE DEF historyVars
  <1>0. SubExists(id)
    BY DEF Billed, SubExists
  <1>1. PICK p \in PlanIds : p = subs[id].plan_id
    BY <1>0, SubFacts
  <1>2. /\ plans[p].price \in Nat /\ plans[p].interval \in Nat
        /\ plans' = plans /\ now' = now /\ refunded' = refunded
    BY <1>0, <1>1, SameTerms DEF Billed
  <1>3. PICK s \in SubType : s = subs[id]
    BY SubFacts
  <1>4. /\ s.last_charged_at \in Nat /\ s.next_charge_at \in Nat /\ now \in Nat
        /\ s.started_at \in Nat /\ s.charge_count \in Nat
        /\ s.total_paid \in Nat /\ refunded[id] \in Nat
    BY DEF CoreInv, TypeOK, SubType
  <1>5. /\ s.charge_count * plans[p].interval <= s.last_charged_at - s.started_at
        /\ s.last_charged_at + plans[p].interval <= s.next_charge_at
        /\ s.total_paid + refunded[id] = s.charge_count * plans[p].price
    BY <1>1, <1>3 DEF AccountOK
  <1>6. /\ now >= s.next_charge_at
        /\ subs'[id].plan_id = p
        /\ subs'[id].started_at = s.started_at
        /\ subs'[id].last_charged_at = now
        /\ subs'[id].next_charge_at = now + plans[p].interval
        /\ subs'[id].total_paid = s.total_paid + plans[p].price
        /\ subs'[id].charge_count = s.charge_count + 1
    BY <1>1, <1>3 DEF Billed, SameContract
  <1>7. (s.charge_count + 1) * plans[p].interval <= now - s.started_at
    <2>1. PICK x \in Nat : x = s.charge_count * plans[p].interval
      BY <1>2, <1>4, OneMore
    <2>2. (s.charge_count + 1) * plans[p].interval = x + plans[p].interval
      BY <1>2, <1>4, <2>1, OneMore
    <2> QED  BY <1>2, <1>4, <1>5, <1>6, <2>1, <2>2
  <1>8. s.total_paid + plans[p].price + refunded[id]
          = (s.charge_count + 1) * plans[p].price
    <2>1. PICK x \in Nat : x = s.charge_count * plans[p].price
      BY <1>2, <1>4, OneMore
    <2>2. (s.charge_count + 1) * plans[p].price = x + plans[p].price
      BY <1>2, <1>4, <2>1, OneMore
    <2> QED  BY <1>2, <1>4, <1>5, <2>1, <2>2
  <1>9. PICK sch : sch = schedules'[id]
    OBVIOUS
  <1>10. PICK rule \in RevenueRule \cup {NoRule} : rule = revenue_rules[p]
    BY DEF CoreInv, TypeOK
  <1>11. PICK price \in Nat, interval \in Nat, t \in Nat :
           price = plans[p].price /\ interval = plans[p].interval /\ t = now
    BY <1>2, <1>4
  <1>12. ForInterval(sch, plans[p].price, now, plans[p].interval)
    <2>1. sch = ScheduleFor(rule, price, t, interval) /\ ScheduleBuildable(rule)
      BY <1>1, <1>9, <1>10, <1>11 DEF Billed, RecordRevenue, CoreInv, TypeOK
    <2>2. ForInterval(sch, price, t, interval)
      BY <2>1, ScheduleForCovers
    <2> QED  BY <1>11, <2>2
  <1>13. now <= now /\ now + plans[p].interval <= now + plans[p].interval
         /\ s.charge_count + 1 # 0
    BY <1>2, <1>4
  <1> QED
    BY <1>2, <1>6, <1>7, <1>8, <1>9, <1>12, <1>13
       DEF AccountOK, ForInterval, ScheduleEnd

\* Every step keeps every account in order.
LEMMA AccountsStep ==
  ASSUME CoreInv, CoreInv', AccountsOK, Kinds, TermsKept, now' \in Nat, now' >= now
  PROVE  AccountsOK'
  <1> USE DEF subVars, historyVars, revenueVars
  <1>0. SUFFICES ASSUME NEW i \in SubIds
                 PROVE  IF SubExists(i)' THEN AccountOK(i)' ELSE FreshAccount(i)'
    BY DEF AccountsOK
  <1>1. IF SubExists(i) THEN AccountOK(i) ELSE FreshAccount(i)
    BY DEF AccountsOK
  <1>2. ASSUME subs'[i] = subs[i], refunded'[i] = refunded[i],
               schedules'[i] = schedules[i]
        PROVE  IF SubExists(i)' THEN AccountOK(i)' ELSE FreshAccount(i)'
    <2>1. CASE SubExists(i)
      <3>1. AccountOK(i)'
        BY <1>1, <1>2, <2>1, SteadyAccount DEF SameContract, SamePayments
      <3> QED  BY <1>2, <2>1, <3>1 DEF SubExists
    <2>2. CASE ~SubExists(i)
      BY <1>1, <1>2, <2>2 DEF SubExists, FreshAccount
    <2> QED  BY <2>1, <2>2
  <1>3. CASE Quiet
    BY <1>2, <1>3 DEF Quiet
  <1>4. ASSUME NEW id \in SubIds, Touched(id)
        PROVE  IF SubExists(i)' THEN AccountOK(i)' ELSE FreshAccount(i)'
    <2>1. CASE i # id
      BY <1>2, <1>4, <2>1 DEF Touched, OthersKept
    <2>2. CASE i = id
      <3>1. AccountOK(i)'
        BY <1>1, <1>4, <2>2, SteadyAccount DEF Touched
      <3> QED  BY <1>4, <2>2, <3>1 DEF Touched, SubExists
    <2> QED  BY <2>1, <2>2
  <1>5. ASSUME NEW id \in SubIds, Billed(id)
        PROVE  IF SubExists(i)' THEN AccountOK(i)' ELSE FreshAccount(i)'
    <2>1. CASE i # id
      <3>1. schedules'[i] = schedules[i]
        BY <1>5, <2>1 DEF Billed, RecordRevenue, CoreInv, TypeOK
      <3> QED  BY <1>2, <1>5, <2>1, <3>1 DEF Billed, OthersKept
    <2>2. CASE i = id
      <3>1. AccountOK(i)'
        BY <1>1, <1>5, <2>2, BilledAccount DEF Billed, SubExists
      <3> QED  BY <1>5, <2>2, <3>1 DEF Billed, SubExists
    <2> QED  BY <2>1, <2>2
  <1>6. ASSUME NEW id \in SubIds, Closed(id)
        PROVE  IF SubExists(i)' THEN AccountOK(i)' ELSE FreshAccount(i)'
    <2>1. CASE i # id
      BY <1>2, <1>6, <2>1 DEF Closed, OthersKept
    <2>2. CASE i = id
      <3>1. AccountOK(i)'
        BY <1>1, <1>6, <2>2, SteadyAccount DEF Closed, SubExists
      <3> QED  BY <1>6, <2>2, <3>1 DEF Closed, SubExists
    <2> QED  BY <2>1, <2>2
  <1>7. ASSUME NEW id \in SubIds, NEW u \in Users, Moved(id, u)
        PROVE  IF SubExists(i)' THEN AccountOK(i)' ELSE FreshAccount(i)'
    <2>1. CASE i # id
      BY <1>2, <1>7, <2>1 DEF Moved, OthersKept
    <2>2. CASE i = id
      <3>1. AccountOK(i)'
        BY <1>1, <1>7, <2>2, SteadyAccount DEF Moved
      <3> QED  BY <1>7, <2>2, <3>1 DEF Moved, SubExists
    <2> QED  BY <2>1, <2>2
  <1>8. ASSUME NEW u \in Users, NEW p \in PlanIds, NEW id \in SubIds,
               Opened(u, p, id)
        PROVE  IF SubExists(i)' THEN AccountOK(i)' ELSE FreshAccount(i)'
    <2>1. CASE i # id
      BY <1>2, <1>8, <2>1 DEF Opened, OthersKept
    <2>2. CASE i = id
      <3>1. ~SubExists(id)
        BY <1>8 DEF Opened, CoreInv, IdsAllocated, TypeOK, SubIds
      <3>2. refunded'[id] = 0 /\ schedules'[id].num_periods = 0
        BY <1>1, <1>8, <2>2, <3>1 DEF Opened, FreshAccount
      <3>3. /\ plans'[p].interval = plans[p].interval
            /\ plans[p].interval \in Nat /\ plans'[p].price \in Nat
            /\ now \in Nat /\ now' = now
        BY <1>8 DEF Opened, TermsKept, CoreInv, TypeOK, PlanType
      <3>4. AccountOK(id)'
        BY <1>8, <3>2, <3>3 DEF Opened, AccountOK
      <3> QED  BY <1>8, <2>2, <3>4 DEF Opened, SubExists
    <2> QED  BY <2>1, <2>2
  <1> QED  BY <1>3, <1>4, <1>5, <1>6, <1>7, <1>8 DEF Kinds

\* Every step keeps the merchants' lists of charged subscriptions exact.
LEMMA TrackedStep ==
  ASSUME CoreInv, AccountsOK, ChargedAreTracked, Kinds, TermsKept
  PROVE  ChargedAreTracked'
  <1> USE DEF subVars, historyVars, revenueVars
  <1>0. SUFFICES ASSUME NEW m \in Users
                 PROVE  merchant_subs'[m] = ChargedFor(m)'
    BY DEF ChargedAreTracked
  <1>1. merchant_subs[m] = ChargedFor(m)
    BY DEF ChargedAreTracked
  <1>2. \A i \in SubIds : subs[i].charge_count > 0 =>
          /\ SubExists(i)
          /\ plans'[subs[i].plan_id].merchant = plans[subs[i].plan_id].merchant
    <2>1. \A i \in SubIds : subs[i].charge_count > 0 => SubExists(i)
      BY DEF AccountsOK, FreshAccount
    <2> QED  BY <2>1, SameTerms
  <1>3. ASSUME merchant_subs' = merchant_subs,
               \A i \in SubIds : /\ subs'[i].charge_count = subs[i].charge_count
                                 /\ subs[i].charge_count > 0 =>
                                      subs'[i].plan_id = subs[i].plan_id
        PROVE  merchant_subs'[m] = ChargedFor(m)'
    <2>1. ChargedFor(m)' = ChargedFor(m)
      BY <1>2, <1>3 DEF ChargedFor
    <2> QED  BY <1>1, <1>3, <2>1
  <1>4. CASE Quiet
    BY <1>3, <1>4 DEF Quiet
  <1>5. ASSUME NEW id \in SubIds, OthersKept(id), SameContract(id),
               SamePayments(id), merchant_subs' = merchant_subs
        PROVE  merchant_subs'[m] = ChargedFor(m)'
    BY <1>3, <1>5 DEF OthersKept, SameContract, SamePayments
  <1>6. ASSUME NEW id \in SubIds, Billed(id)
        PROVE  merchant_subs'[m] = ChargedFor(m)'
    <2> DEFINE owner == plans[subs[id].plan_id].merchant
    <2>1. SubExists(id) /\ subs[id].charge_count \in Nat
      BY <1>6, SubFacts DEF Billed, SubExists, SubType
    <2>2. owner \in Users
      BY <2>1, SameTerms
    <2>3. merchant_subs'[m] = IF m = owner THEN merchant_subs[m] \cup {id}
                                           ELSE merchant_subs[m]
      BY <1>6, <2>2 DEF Billed, RecordRevenue, CoreInv, TypeOK
    <2>4. /\ plans' = plans
          /\ subs'[id].plan_id = subs[id].plan_id
          /\ subs'[id].charge_count > 0
          /\ \A i \in SubIds \ {id} : subs'[i] = subs[i]
      BY <1>6, <2>1 DEF Billed, SameContract, OthersKept
    <2>5. ChargedFor(m)' = IF m = owner THEN ChargedFor(m) \cup {id}
                                        ELSE ChargedFor(m)
      BY <2>4 DEF ChargedFor
    <2> QED  BY <1>1, <2>3, <2>5
  <1>7. ASSUME NEW u \in Users, NEW p \in PlanIds, NEW id \in SubIds,
               Opened(u, p, id)
        PROVE  merchant_subs'[m] = ChargedFor(m)'
    <2>1. ~SubExists(id)
      BY <1>7 DEF Opened, CoreInv, IdsAllocated, TypeOK, SubIds
    <2>2. subs[id].charge_count = 0
      BY <2>1 DEF AccountsOK, FreshAccount
    <2> QED  BY <1>3, <1>7, <2>2 DEF Opened, OthersKept
  <1> QED
    BY <1>4, <1>5, <1>6, <1>7 DEF Kinds, Touched, Closed, Moved

\* The inductive invariant of billing.
BillingInv == CoreInv /\ AccountsOK /\ ChargedAreTracked

\* A fresh contract has charged nobody.
LEMMA InitBilling == Init => BillingInv
  <1> SUFFICES ASSUME Init PROVE BillingInv
    OBVIOUS
  <1>1. CoreInv
    BY InitCore
  <1>2. \A id \in SubIds : /\ ~SubExists(id)
                           /\ subs[id].charge_count = 0
                           /\ refunded[id] = 0
                           /\ schedules[id].num_periods = 0
    BY DEF Init, NoSub, SubExists, NoSchedule, RevenueScheduleOf
  <1>3. AccountsOK
    BY <1>2 DEF AccountsOK, FreshAccount
  <1>4. ChargedAreTracked
    BY <1>2 DEF Init, ChargedAreTracked, ChargedFor
  <1> QED  BY <1>1, <1>3, <1>4 DEF BillingInv

\* Every step of the contract keeps the billing invariant.
LEMMA NextBilling == BillingInv /\ [Next]_vars => BillingInv'
  <1> SUFFICES ASSUME BillingInv, [Next]_vars PROVE BillingInv'
    OBVIOUS
  <1>1. CoreInv /\ CoreInv' /\ AccountsOK /\ ChargedAreTracked
    BY NextCore DEF BillingInv
  <1>2. Kinds /\ TermsKept /\ now' \in Nat /\ now' >= now
    BY <1>1, StepKinds
  <1> QED  BY <1>1, <1>2, AccountsStep, TrackedStep DEF BillingInv

\* No subscription is charged more often than its intervals have passed, by
\* either path of a charge and over any pauses, resumptions and transfers.
THEOREM NeverOverbilled == Spec => []NoOverbilling
  <1>1. BillingInv => NoOverbilling
    BY DEF BillingInv, AccountsOK, AccountOK, NoOverbilling
  <1> QED  BY <1>1, InitBilling, NextBilling, PTL DEF Spec

\* total_paid and what was refunded add up to the price of the charges.
THEOREM PaidExact == Spec => []PaidMatchesCharges
  <1>1. BillingInv => PaidMatchesCharges
    BY DEF BillingInv, AccountsOK, AccountOK, PaidMatchesCharges
  <1> QED  BY <1>1, InitBilling, NextBilling, PTL DEF Spec

\* Revenue analytics know exactly the subscriptions charged so far.
THEOREM TrackedExact == Spec => []ChargedAreTracked
  <1>1. BillingInv => ChargedAreTracked
    BY DEF BillingInv
  <1> QED  BY <1>1, InitBilling, NextBilling, PTL DEF Spec

\* A stored revenue schedule is that of the last charge and covers the billing
\* period it pays for, for every interval and recognition period.
THEOREM SchedulesCover == Spec => []ScheduleCoversPeriod
  <1>1. BillingInv => ScheduleCoversPeriod
    <2> SUFFICES ASSUME BillingInv, NEW id \in SubIds, subs[id].charge_count > 0
                 PROVE  LET plan == plans[subs[id].plan_id] IN
                        /\ schedules[id].total_amount = plan.price
                        /\ schedules[id].start = subs[id].last_charged_at
                        /\ subs[id].last_charged_at + plan.interval
                             <= ScheduleEnd(schedules[id])
      BY DEF ScheduleCoversPeriod
    <2>1. SubExists(id) => AccountOK(id)
      BY DEF BillingInv, AccountsOK
    <2>2. SubExists(id)
      BY DEF BillingInv, AccountsOK, FreshAccount
    <2> QED  BY <2>1, <2>2 DEF AccountOK, ForInterval
  <1> QED  BY <1>1, InitBilling, NextBilling, PTL DEF Spec

-----------------------------------------------------------------------------
(* Deferred revenue *)

\* The plan of an existing subscription.
LEMMA PlanFacts ==
  ASSUME CoreInv, NEW id \in SubIds, SubExists(id)
  PROVE  LET plan == plans[subs[id].plan_id] IN
         plan.price \in Int /\ plan.merchant \in Users
  <1>1. subs[id].plan_id \in PlanIds
    BY SubFacts
  <1> QED  BY <1>1 DEF CoreInv, TypeOK, PlanType

\* What is collected for a subscription is a number, and nothing before its
\* first charge.
LEMMA CollectedFacts ==
  ASSUME CoreInv, AccountsOK
  PROVE  /\ \A i \in SubIds : Collected[i] \in Int
         /\ \A i \in SubIds : SubExists(i) /\ subs[i].charge_count = 0 => Collected[i] = 0
  <1>1. ASSUME NEW i \in SubIds PROVE Collected[i] \in Int
    BY DEF CoreInv, TypeOK, SubType, Collected
  <1>2. ASSUME NEW i \in SubIds, SubExists(i), subs[i].charge_count = 0
        PROVE  Collected[i] = 0
    <2>1. Collected[i] = 0 * plans[subs[i].plan_id].price
      BY <1>2 DEF AccountsOK, AccountOK, Collected
    <2>2. plans[subs[i].plan_id].price \in Int
      BY <1>2, PlanFacts
    <2> QED  BY <2>1, <2>2
  <1> QED  BY <1>1, <1>2

\* Adding to one member of a set that is summed, or adding it to the set.
LEMMA SumRaised ==
  ASSUME NEW S, IsFiniteSet(S), NEW T, NEW i, NEW f, NEW g, NEW d \in Int,
         T = S \cup {i},
         \A x \in T : f[x] \in Int,
         \A x \in T : x # i => g[x] = f[x],
         i \in S => g[i] = f[i] + d,
         i \notin S => g[i] = d
  PROVE  SumOver(g, T) = SumOver(f, S) + d
  <1>1. PICK r : r = S \ {i}
    OBVIOUS
  <1>2. IsFiniteSet(r) /\ IsFiniteSet(T) /\ i \in T /\ T \ {i} = r
    BY <1>1, FS_Subset, FS_AddElement
  <1>3. /\ \A x \in T : g[x] \in Int
        /\ \A x \in r : f[x] \in Int /\ g[x] = f[x]
    BY <1>1
  <1>4. SumOver(g, T) = g[i] + SumOver(g, r)
    BY <1>2, <1>3, SumRemove
  <1>5. SumOver(g, r) = SumOver(f, r) /\ SumOver(f, r) \in Int
    BY <1>2, <1>3, SumSame, SumInt
  <1>6. CASE i \in S
    <2>1. SumOver(f, S) = f[i] + SumOver(f, r)
      BY <1>1, <1>6, SumRemove
    <2>2. f[i] \in Int /\ g[i] = f[i] + d
      BY <1>6
    <2> QED  BY <1>4, <1>5, <2>1, <2>2
  <1>7. CASE i \notin S
    <2>1. r = S /\ g[i] = d
      BY <1>1, <1>7
    <2> QED  BY <1>4, <1>5, <2>1
  <1> QED  BY <1>6, <1>7

\* Every step keeps deferred revenue the sum of what was collected.
LEMMA DeferredStep ==
  ASSUME CoreInv, CoreInv', AccountsOK, AccountsOK', ChargedAreTracked,
         ChargedAreTracked', DeferredAddsUp, Kinds
  PROVE  DeferredAddsUp'
  <1> USE DEF subVars, historyVars, revenueVars
  <1>0. SUFFICES ASSUME NEW m \in Users
                 PROVE  deferred'[m] = SumOver(Collected', ChargedFor(m)')
    BY DEF DeferredAddsUp
  <1>1. PICK S, T : S = merchant_subs[m] /\ T = merchant_subs'[m]
    OBVIOUS
  <1>2. S = ChargedFor(m) /\ T = ChargedFor(m)' /\ deferred[m] = SumOver(Collected, S)
    BY <1>1 DEF ChargedAreTracked, DeferredAddsUp
  <1>3. PICK f, g : f = Collected /\ g = Collected'
    OBVIOUS
  <1>4. /\ \A i \in SubIds : f[i] = subs[i].total_paid + refunded[i]
        /\ \A i \in SubIds : g[i] = subs'[i].total_paid + refunded'[i]
        /\ \A i \in SubIds : f[i] \in Int
        /\ \A i \in SubIds : SubExists(i) /\ subs[i].charge_count = 0 => f[i] = 0
    BY <1>3, CollectedFacts DEF Collected
  <1>5. S \in SUBSET SubIds /\ IsFiniteSet(S) /\ \A i \in S : subs[i].charge_count > 0
    <2>1. S \in SUBSET SubIds /\ \A i \in S : subs[i].charge_count > 0
      BY <1>2 DEF ChargedFor
    <2>2. 1 \in Int /\ MaxSubs \in Int
      BY ConstantsAssumption
    <2> QED  BY <2>1, <2>2, FS_Interval, FS_Subset DEF SubIds
  <1>6. ASSUME deferred' = deferred, merchant_subs' = merchant_subs, \A i \in S : g[i] = f[i]
        PROVE  deferred'[m] = SumOver(g, T)
    <2>1. T = S /\ deferred'[m] = SumOver(f, S)
      BY <1>1, <1>2, <1>3, <1>6
    <2>2. \A i \in S : f[i] \in Int /\ g[i] = f[i]
      BY <1>4, <1>5, <1>6
    <2> QED  BY <1>5, <2>1, <2>2, SumSame
  <1>7. ASSUME Quiet PROVE deferred'[m] = SumOver(g, T)
    <2>1. UNCHANGED <<subs, refunded, deferred, merchant_subs>>
      BY <1>7 DEF Quiet
    <2>2. \A i \in S : g[i] = f[i]
      BY <1>4, <1>5, <2>1
    <2> QED  BY <1>6, <2>1, <2>2
  <1>8. ASSUME NEW id \in SubIds, Touched(id)
        PROVE  deferred'[m] = SumOver(g, T)
    <2>1. \A i \in S : g[i] = f[i]
      BY <1>4, <1>5, <1>8 DEF Touched, OthersKept
    <2> QED  BY <1>6, <1>8, <2>1 DEF Touched
  <1>9. ASSUME NEW id \in SubIds, Closed(id)
        PROVE  deferred'[m] = SumOver(g, T)
    <2>1. \A i \in S : g[i] = f[i]
      BY <1>4, <1>5, <1>9 DEF Closed, OthersKept
    <2> QED  BY <1>6, <1>9, <2>1 DEF Closed
  <1>10. ASSUME NEW u \in Users, NEW p \in PlanIds, NEW id \in SubIds, Opened(u, p, id)
         PROVE  deferred'[m] = SumOver(g, T)
    <2>1. ~SubExists(id)
      BY <1>10 DEF Opened, CoreInv, IdsAllocated, TypeOK, SubIds
    <2>2. id \notin S
      BY <1>5, <2>1 DEF AccountsOK, FreshAccount
    <2>3. \A i \in S : g[i] = f[i]
      BY <1>4, <1>5, <1>10, <2>2 DEF Opened, OthersKept
    <2> QED  BY <1>6, <1>10, <2>3 DEF Opened
  <1>11. ASSUME NEW id \in SubIds, NEW u \in Users, Moved(id, u)
         PROVE  deferred'[m] = SumOver(g, T)
    <2>1. \A i \in S : g[i] = f[i]
      BY <1>4, <1>5, <1>11 DEF Moved, OthersKept
    <2> QED  BY <1>6, <1>11, <2>1 DEF Moved
  <1>12. ASSUME NEW id \in SubIds, Billed(id)
         PROVE  deferred'[m] = SumOver(g, T)
    <2>1. PICK owner, price : /\ owner = plans[subs[id].plan_id].merchant
                              /\ price = plans[subs[id].plan_id].price
      OBVIOUS
    <2>2. SubExists(id) /\ subs[id].charge_count \in Nat
      BY <1>12, SubFacts DEF Billed, SubExists, SubType
    <2>3. owner \in Users /\ price \in Int
      BY <2>1, <2>2, PlanFacts
    <2>4. /\ T = IF m = owner THEN S \cup {id} ELSE S
          /\ deferred'[m] = IF m = owner THEN deferred[m] + price ELSE deferred[m]
      BY <1>1, <1>12, <2>1, <2>3 DEF Billed, RecordRevenue, CoreInv, TypeOK
    <2>5. /\ \A i \in SubIds : i # id => g[i] = f[i]
          /\ g[id] = f[id] + price
      BY <1>4, <1>12, <2>1, <2>3 DEF Billed, OthersKept, CoreInv, TypeOK, SubType
    <2>6. CASE m = owner
      <3>1. id \notin S => g[id] = price
        <4>1. id \notin S => ~(subs[id].charge_count > 0)
          BY <1>2, <2>1, <2>6 DEF ChargedFor
        <4> QED  BY <1>4, <2>2, <2>3, <2>5, <4>1
      <3>2. T = S \cup {id} /\ T \in SUBSET SubIds
        BY <1>5, <2>4, <2>6
      <3>3. SumOver(g, T) = SumOver(f, S) + price
        BY <1>4, <1>5, <2>3, <2>5, <3>1, <3>2, SumRaised
      <3> QED  BY <1>2, <1>3, <2>4, <2>6, <3>3
    <2>7. CASE m # owner
      <3>1. id \notin S
        BY <1>2, <2>1, <2>7 DEF ChargedFor
      <3>2. \A i \in S : f[i] \in Int /\ g[i] = f[i]
        BY <1>4, <1>5, <2>5, <3>1
      <3> QED  BY <1>2, <1>3, <1>5, <2>4, <2>7, <3>2, SumSame
    <2> QED  BY <2>6, <2>7
  <1> QED
    BY <1>2, <1>3, <1>7, <1>8, <1>9, <1>10, <1>11, <1>12 DEF Kinds

\* A fresh contract has deferred nothing.
LEMMA InitDeferred == Init => DeferredAddsUp
  <1> SUFFICES ASSUME Init, NEW m \in Users
               PROVE  deferred[m] = SumOver(Collected, ChargedFor(m))
    BY DEF DeferredAddsUp
  <1>1. deferred[m] = 0 /\ ChargedFor(m) = {}
    BY DEF Init, ChargedFor, NoSub
  <1> QED  BY <1>1, SumEmpty

\* The three records of a charge agree for any number of merchants, plans and
\* subscriptions: no order of charges, refunds, cancellations and transfers
\* loses or doubles an amount of deferred revenue.
THEOREM LedgersAgree == Spec => []LedgerAgrees
  <1>1. BillingInv /\ DeferredAddsUp /\ [Next]_vars => DeferredAddsUp'
    <2> SUFFICES ASSUME BillingInv, DeferredAddsUp, [Next]_vars
                 PROVE  DeferredAddsUp'
      OBVIOUS
    <2>1. /\ CoreInv /\ AccountsOK /\ ChargedAreTracked
          /\ CoreInv' /\ AccountsOK' /\ ChargedAreTracked'
      BY NextBilling DEF BillingInv
    <2> QED  BY <2>1, StepKinds, DeferredStep
  <1>2. BillingInv /\ DeferredAddsUp => LedgerAgrees
    BY DEF BillingInv, AccountsOK, AccountOK, PaidMatchesCharges, LedgerAgrees
  <1> QED
    BY <1>1, <1>2, InitBilling, NextBilling, InitDeferred, PTL DEF Spec

-----------------------------------------------------------------------------
(* The schedules the contract stores and what is read from them *)

\* Only create_plan adds a plan.
LEMMA PlansMade ==
  ASSUME [Next]_vars
  PROVE  \/ plan_count' = plan_count
         \/ \E m \in Merchants, price \in Prices, i \in Intervals :
              CreatePlan(m, price, i)
  <1> USE DEF planVars
  <1>1. ASSUME PlanNext, ~\E m \in Merchants, price \in Prices, i \in Intervals :
                 CreatePlan(m, price, i)
        PROVE  plan_count' = plan_count
    BY <1>1 DEF PlanNext, DeactivatePlan, SetRevenueRule
  <1>2. ASSUME LifecycleNext PROVE plan_count' = plan_count
    <2>1. ASSUME NEW u, NEW p, Subscribe(u, p) PROVE plan_count' = plan_count
      BY <2>1 DEF Subscribe
    <2>2. ASSUME NEW id, CancelSubscription(id) PROVE plan_count' = plan_count
      BY <2>2 DEF CancelSubscription
    <2>3. ASSUME NEW id, PauseSubscription(id) PROVE plan_count' = plan_count
      BY <2>3 DEF PauseSubscription, Pause
    <2>4. ASSUME NEW id, NEW d, PauseBySubscriber(id, d) PROVE plan_count' = plan_count
      BY <2>4 DEF PauseBySubscriber, Pause
    <2>5. ASSUME NEW id, ResumeSubscription(id) PROVE plan_count' = plan_count
      BY <2>5 DEF ResumeSubscription
    <2> QED  BY <1>2, <2>1, <2>2, <2>3, <2>4, <2>5 DEF LifecycleNext
  <1>3. ASSUME PaymentNext PROVE plan_count' = plan_count
    BY <1>3 DEF PaymentNext, ChargeSubscription, CommitCharge, RevealCharge,
                ChargeGuarded
  <1>4. ASSUME RefundNext PROVE plan_count' = plan_count
    BY <1>4 DEF RefundNext, RequestRefund, ApproveRefund, RejectRefund
  <1>5. ASSUME TransferNext PROVE plan_count' = plan_count
    BY <1>5 DEF TransferNext, RequestTransfer, AcceptTransfer
  <1>6. ASSUME AdminNext PROVE plan_count' = plan_count
    BY <1>6 DEF AdminNext, SetRateLimit, RemoveRateLimit, ConfigureMevProtection,
                SetInvoiceContract
  <1>7. ASSUME Tick \/ UNCHANGED vars PROVE plan_count' = plan_count
    BY <1>7 DEF Tick, vars
  <1> QED  BY <1>1, <1>2, <1>3, <1>4, <1>5, <1>6, <1>7 DEF Next

\* No plan has an interval of 0.
IntervalsPositive == \A p \in PlanIds : p <= plan_count => plans[p].interval > 0

\* Every step keeps the intervals positive.
LEMMA IntervalsStep ==
  ASSUME CoreInv, IntervalsPositive, [Next]_vars
  PROVE  IntervalsPositive'
  <1>1. TermsKept
    BY StepKinds
  <1>2. plan_count \in Nat
    BY DEF CoreInv, TypeOK
  <1>3. CASE plan_count' = plan_count
    BY <1>1, <1>3 DEF IntervalsPositive, TermsKept
  <1>4. ASSUME NEW m \in Merchants, NEW price \in Prices, NEW i \in Intervals,
               CreatePlan(m, price, i)
        PROVE  IntervalsPositive'
    <2>1. plan_count' = plan_count + 1 /\ plan_count + 1 \in PlanIds
      BY <1>2, <1>4, ConstantsAssumption DEF CreatePlan, PlanIds
    <2>2. plans'[plan_count + 1].interval = i /\ i > 0
      BY <1>4, <2>1, ConstantsAssumption DEF CreatePlan, CoreInv, TypeOK
    <2>3. ASSUME NEW p \in PlanIds, p <= plan_count + 1
          PROVE  p <= plan_count \/ p = plan_count + 1
      BY <1>2, <2>3 DEF PlanIds
    <2> QED  BY <1>1, <2>1, <2>2, <2>3 DEF IntervalsPositive, TermsKept
  <1> QED  BY <1>3, <1>4, PlansMade

\* The split of revenue read from the schedule of a charged subscription, at any
\* time, accounts for exactly the price of the plan.
StoredSchedulesSplit ==
  \A id \in SubIds : subs[id].charge_count > 0 =>
    \A t \in Nat : Recognised(schedules[id], t) + Deferred(schedules[id], t) =
                      plans[subs[id].plan_id].price

\* A stored schedule has periods, and they have a length.
LEMMA StoredScheduleOK ==
  ASSUME BillingInv, IntervalsPositive, NEW id \in SubIds, subs[id].charge_count > 0
  PROVE  ScheduleOK(schedules[id]) /\
         schedules[id].total_amount = plans[subs[id].plan_id].price
  <1>1. CoreInv /\ SubExists(id) /\ AccountOK(id)
    BY DEF BillingInv, AccountsOK, FreshAccount
  <1>2. subs[id].plan_id \in PlanIds /\ subs[id].plan_id <= plan_count
    BY <1>1, SubFacts DEF CoreInv, IdsAllocated, TypeOK
  <1>3. PICK interval : interval = plans[subs[id].plan_id].interval
    OBVIOUS
  <1>4. interval \in Nat /\ interval > 0
    BY <1>1, <1>2, <1>3 DEF CoreInv, TypeOK, PlanType, IntervalsPositive
  <1>5. schedules[id] \in ScheduleType
    BY <1>1 DEF CoreInv, TypeOK
  <1>6. PICK b \in Nat, n \in Nat, p \in Nat :
          b = schedules[id].start /\ n = schedules[id].num_periods
            /\ p = schedules[id].period_secs
    BY <1>5 DEF ScheduleType
  <1>7. /\ schedules[id].total_amount = plans[subs[id].plan_id].price
        /\ b + interval <= b + n * p
    <2>1. subs[id].charge_count # 0
      BY <1>1, SubFacts DEF SubType
    <2>2. ForInterval(schedules[id], plans[subs[id].plan_id].price,
                      subs[id].last_charged_at, interval)
      BY <1>1, <1>3, <2>1 DEF AccountOK
    <2> QED  BY <1>6, <2>2 DEF ForInterval, ScheduleEnd
  <1>8. n # 0 /\ p # 0
    <2>1. n * p \in Nat
      BY <1>6
    <2>2. n * p > 0
      BY <1>4, <1>6, <1>7, <2>1
    <2> QED  BY <1>6, <2>2
  <1> QED  BY <1>5, <1>6, <1>7, <1>8 DEF ScheduleType, ScheduleOK

\* The contract and its revenue module fit: recognize_revenue, at any time and
\* for every plan, rule and history of charges, splits the price of the last
\* charge without loss.
THEOREM StoredSplitExact == Spec => []StoredSchedulesSplit
  <1> DEFINE Inv == BillingInv /\ IntervalsPositive
  <1>1. Init => Inv
    <2>1. Init => IntervalsPositive
      BY ConstantsAssumption DEF Init, IntervalsPositive, PlanIds
    <2> QED  BY <2>1, InitBilling
  <1>2. Inv /\ [Next]_vars => Inv'
    <2> SUFFICES ASSUME Inv, [Next]_vars PROVE Inv'
      OBVIOUS
    <2>1. BillingInv'
      BY NextBilling
    <2>2. IntervalsPositive'
      BY IntervalsStep DEF BillingInv
    <2> QED  BY <2>1, <2>2
  <1>3. Inv => StoredSchedulesSplit
    <2> SUFFICES ASSUME Inv, NEW id \in SubIds, subs[id].charge_count > 0,
                        NEW t \in Nat
                 PROVE  Recognised(schedules[id], t) + Deferred(schedules[id], t) =
                          plans[subs[id].plan_id].price
      BY DEF StoredSchedulesSplit
    <2>1. ScheduleOK(schedules[id]) /\
          schedules[id].total_amount = plans[subs[id].plan_id].price
      BY StoredScheduleOK
    <2> QED  BY <2>1, SplitTotal
  <1> QED  BY <1>1, <1>2, <1>3, PTL DEF Spec

-----------------------------------------------------------------------------
(* What a step may never do *)

\* Cancellation is final for every operation, including those begun before it:
\* a commitment, a transfer, a refund.
THEOREM CancelIsFinal == Spec => CancelledIsFinal
  <1> DEFINE Final == \A id \in SubIds : subs[id].status = "Cancelled" =>
               /\ subs'[id].status = "Cancelled"
               /\ subs'[id].charge_count = subs[id].charge_count
  <1>1. BillingInv /\ [Next]_vars => Final
    <2> SUFFICES ASSUME BillingInv, [Next]_vars, NEW i \in SubIds,
                        subs[i].status = "Cancelled"
                 PROVE  /\ subs'[i].status = "Cancelled"
                        /\ subs'[i].charge_count = subs[i].charge_count
      OBVIOUS
    <2> USE DEF subVars
    <2>1. CoreInv /\ Kinds
      BY StepKinds DEF BillingInv
    <2>2. ~Live(subs[i])
      BY DEF Live
    <2>3. CASE Quiet
      BY <2>3 DEF Quiet
    <2>4. ASSUME NEW id \in SubIds, Touched(id)
          PROVE  /\ subs'[i].status = "Cancelled"
                 /\ subs'[i].charge_count = subs[i].charge_count
      BY <2>2, <2>4 DEF Touched, OthersKept, SamePayments, Live
    <2>5. ASSUME NEW id \in SubIds, Billed(id)
          PROVE  subs'[i] = subs[i]
      BY <2>5 DEF Billed, OthersKept
    <2>6. ASSUME NEW id \in SubIds, Closed(id)
          PROVE  subs'[i] = subs[i]
      BY <2>6 DEF Closed, OthersKept
    <2>7. ASSUME NEW u \in Users, NEW p \in PlanIds, NEW id \in SubIds,
                 Opened(u, p, id)
          PROVE  subs'[i] = subs[i]
      <3>1. ~SubExists(id)
        BY <2>1, <2>7 DEF Opened, CoreInv, IdsAllocated, TypeOK, SubIds
      <3> QED  BY <2>7, <3>1 DEF Opened, OthersKept, SubExists
    <2>8. ASSUME NEW id \in SubIds, NEW u \in Users, Moved(id, u)
          PROVE  /\ subs'[i].status = "Cancelled"
                 /\ subs'[i].charge_count = subs[i].charge_count
      BY <2>8 DEF Moved, OthersKept, SamePayments
    <2> QED  BY <2>1, <2>3, <2>4, <2>5, <2>6, <2>7, <2>8 DEF Kinds
  <1> QED
    BY <1>1, InitBilling, NextBilling, PTL DEF Spec, CancelledIsFinal

\* Only a charge changes a subscription's number of charges.
LEMMA OnlyChargesCount ==
  ASSUME BillingInv, [Next]_vars, NEW i \in SubIds,
         subs'[i].charge_count # subs[i].charge_count
  PROVE  /\ Billed(i)
         /\ plans[subs[i].plan_id].price >= mev_config.large_charge_threshold =>
              Revealed(i)
  <1> USE DEF subVars
  <1>1. CoreInv /\ Kinds /\ AccountsOK
    BY StepKinds DEF BillingInv
  <1>2. ~Quiet
    BY DEF Quiet
  <1>3. \A id \in SubIds : ~Touched(id) /\ ~Closed(id)
    BY DEF Touched, Closed, OthersKept, SamePayments
  <1>4. \A id \in SubIds, u \in Users : ~Moved(id, u)
    BY DEF Moved, OthersKept, SamePayments
  <1>5. ASSUME NEW u \in Users, NEW p \in PlanIds, NEW id \in SubIds,
               Opened(u, p, id)
        PROVE  FALSE
    <2>1. ~SubExists(id)
      BY <1>1, <1>5 DEF Opened, CoreInv, IdsAllocated, TypeOK, SubIds
    <2>2. subs[id].charge_count = 0
      BY <1>1, <2>1 DEF AccountsOK, FreshAccount
    <2> QED  BY <1>5, <2>2 DEF Opened, OthersKept
  <1>6. PICK id \in SubIds :
          /\ Billed(id)
          /\ plans[subs[id].plan_id].price >= mev_config.large_charge_threshold =>
               Revealed(id)
    BY <1>1, <1>2, <1>3, <1>4, <1>5 DEF Kinds
  <1>7. id = i
    BY <1>6 DEF Billed, OthersKept
  <1> QED  BY <1>6, <1>7

\* Nothing is charged inside a pause, unless the subscriber resumed first.
THEOREM PausesHold == Spec => PauseHonoured
  <1> DEFINE Held == \A id \in SubIds :
               /\ subs[id].status = "Paused"
               /\ subs'[id].charge_count # subs[id].charge_count
               => now >= subs[id].paused_at + subs[id].pause_duration
  <1>1. BillingInv /\ [Next]_vars => Held
    BY OnlyChargesCount DEF Billed
  <1> QED
    BY <1>1, InitBilling, NextBilling, PTL DEF Spec, PauseHonoured

\* No large charge without consuming a commitment made for it, in its window
\* and within its bound.
THEOREM LargeChargesCommitted == Spec => LargeChargeRevealed
  <1> DEFINE Committed == \A id \in SubIds :
               LET c == commitments[id]
                   price == plans[subs[id].plan_id].price
               IN
               /\ subs'[id].charge_count # subs[id].charge_count
               /\ price >= mev_config.large_charge_threshold
               => /\ c.pending /\ ~commitments'[id].pending
                  /\ c.min_reveal_at <= now /\ now <= c.expires_at
                  /\ c.commitment[1] = id /\ price <= c.commitment[2]
  <1>1. BillingInv /\ [Next]_vars => Committed
    BY OnlyChargesCount DEF Revealed
  <1> QED
    BY <1>1, InitBilling, NextBilling, PTL DEF Spec, LargeChargeRevealed

\* A charge replaces a revenue schedule only in or after its last period.
THEOREM OverwritesLate == Spec => OverwriteNearEnd
  <1> DEFINE Late == \A id \in SubIds :
               LET old == schedules[id] IN
               schedules'[id] # old /\ old.num_periods > 0 =>
                 now >= Entry(old, old.num_periods - 1).period_start
  <1>1. BillingInv /\ [Next]_vars => Late
    <2> SUFFICES ASSUME BillingInv, [Next]_vars, NEW i \in SubIds,
                        schedules'[i] # schedules[i],
                        schedules[i].num_periods > 0
                 PROVE  now >= Entry(schedules[i], schedules[i].num_periods - 1)
                                 .period_start
      OBVIOUS
    <2> USE DEF subVars, revenueVars, historyVars
    <2>1. CoreInv /\ Kinds /\ AccountsOK
      BY StepKinds DEF BillingInv
    <2>2. PICK id \in SubIds : Billed(id)
      BY <2>1 DEF Kinds, Quiet, Touched, Closed, Opened, Moved
    <2>3. i = id
      BY <2>1, <2>2 DEF Billed, RecordRevenue, CoreInv, TypeOK
    <2>4. SubExists(i) /\ AccountOK(i)
      BY <2>1, <2>2, <2>3 DEF Billed, SubExists, AccountsOK
    <2>5. PICK sch \in ScheduleType : sch = schedules[i]
      BY <2>1 DEF CoreInv, TypeOK
    <2>6. PICK s \in SubType, interval \in Nat :
            s = subs[i] /\ interval = plans[subs[i].plan_id].interval
      BY <2>1, <2>4, SubFacts DEF CoreInv, TypeOK, PlanType
    <2>7. /\ sch.start \in Nat /\ sch.num_periods \in Nat /\ sch.period_secs \in Nat
          /\ s.last_charged_at \in Nat /\ s.next_charge_at \in Nat /\ now \in Nat
      BY <2>1 DEF ScheduleType, SubType, CoreInv, TypeOK
    <2>8. /\ sch.start = s.last_charged_at
          /\ (sch.num_periods - 1) * sch.period_secs <= interval
          /\ s.last_charged_at + interval <= s.next_charge_at
          /\ now >= s.next_charge_at
      BY <2>2, <2>3, <2>4, <2>5, <2>6, <2>7 DEF AccountOK, ForInterval, Billed
    <2>9. PICK x \in Int : x = (sch.num_periods - 1) * sch.period_secs
      BY <2>7
    <2>10. Entry(sch, sch.num_periods - 1).period_start = sch.start + x
      BY <2>9 DEF Entry
    <2>11. now >= sch.start + x
      BY <2>7, <2>8, <2>9
    <2> QED  BY <2>5, <2>10, <2>11
  <1> QED
    BY <1>1, InitBilling, NextBilling, PTL DEF Spec, OverwriteNearEnd

\* What enforce_rate_limit leaves behind under a limit.
LEMMA CallObeys ==
  ASSUME CoreInv, NEW u \in Users, u # Admin, NEW f \in LimitedFunctions, NEW fs,
         f \in fs, RateLimitOK(u, f), RecordCalls(u, fs), rate_limit[f] # 0
  PROVE  /\ last_call[u][f] # NoCall => now >= last_call[u][f] + rate_limit[f]
         /\ last_call'[u][f] = now
  BY DEF CoreInv, TypeOK, RateLimitOK, RecordCalls

\* Both ways to pause and both ways to charge wait for the time set since the
\* last recorded call, and are recorded themselves.
THEOREM LimitsHold == Spec => LimitsCoverEveryPath
  <1> DEFINE Covered == \A id \in SubIds :
               subs[id].subscriber # Admin =>
                 /\ subs[id].status = "Active" /\ subs'[id].status = "Paused" =>
                      Obeys(subs[id].subscriber, "pause_by_subscriber")
                 /\ subs'[id].charge_count > subs[id].charge_count =>
                      Obeys(subs[id].subscriber, "charge_subscription")
  <1>1. BillingInv /\ [Next]_vars => Covered
    <2> SUFFICES ASSUME BillingInv, [Next]_vars, NEW i \in SubIds,
                        subs[i].subscriber # Admin
                 PROVE
                   /\ subs[i].status = "Active" /\ subs'[i].status = "Paused" =>
                        Obeys(subs[i].subscriber, "pause_by_subscriber")
                   /\ subs'[i].charge_count > subs[i].charge_count =>
                        Obeys(subs[i].subscriber, "charge_subscription")
      OBVIOUS
    <2> USE DEF subVars
    <2>1. CoreInv /\ CoreInv' /\ Kinds
      BY StepKinds, NextCore DEF BillingInv
    <2>2. PICK u \in Users : u = subs[i].subscriber
      BY <2>1, SubFacts
    <2>3. "pause_by_subscriber" \in LimitedFunctions
          /\ "charge_subscription" \in LimitedFunctions
      BY DEF LimitedFunctions
    <2>4. ASSUME subs[i].status = "Active", subs'[i].status = "Paused"
          PROVE  Obeys(u, "pause_by_subscriber")
      <3>1. ~Quiet
        BY <2>4 DEF Quiet
      <3>2. \A id \in SubIds : ~Billed(id) /\ ~Closed(id)
        BY <2>4 DEF Billed, Closed, OthersKept
      <3>3. \A id \in SubIds, v \in Users : ~Moved(id, v)
        BY <2>4 DEF Moved, OthersKept
      <3>4. \A v \in Users, p \in PlanIds, id \in SubIds : ~Opened(v, p, id)
        BY <2>4 DEF Opened, OthersKept
      <3>5. PICK id \in SubIds : Touched(id)
        BY <2>1, <3>1, <3>2, <3>3, <3>4 DEF Kinds
      <3>6. id = i
        BY <2>4, <3>5 DEF Touched, OthersKept
      <3>7. PICK fs : /\ "pause_by_subscriber" \in fs
                      /\ RateLimitOK(u, "pause_by_subscriber")
                      /\ RecordCalls(u, fs)
        BY <2>2, <2>4, <3>5, <3>6 DEF Touched
      <3> QED  BY <2>1, <2>2, <2>3, <3>7, CallObeys DEF Obeys
    <2>5. ASSUME subs'[i].charge_count > subs[i].charge_count
          PROVE  Obeys(u, "charge_subscription")
      <3>1. subs'[i].charge_count # subs[i].charge_count
        <4>1. subs[i].charge_count \in Nat /\ subs'[i].charge_count \in Nat
          BY <2>1 DEF CoreInv, TypeOK, SubType
        <4> QED  BY <2>5, <4>1
      <3>2. /\ RateLimitOK(u, "charge_subscription")
            /\ RecordCalls(u, {"charge_subscription"})
        BY <2>2, <3>1, OnlyChargesCount DEF Billed
      <3> QED  BY <2>1, <2>2, <2>3, <3>2, CallObeys DEF Obeys
    <2> QED  BY <2>2, <2>4, <2>5
  <1> QED
    BY <1>1, InitBilling, NextBilling, PTL DEF Spec, LimitsCoverEveryPath

=============================================================================
