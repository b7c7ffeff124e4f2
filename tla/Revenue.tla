------------------------------ MODULE Revenue -------------------------------
(***************************************************************************)
(* Reading revenue schedules back (contracts/subscription/src/revenue.rs): *)
(* the split into recognised and deferred revenue at a point in time, and  *)
(* the per-period analytics of a merchant, each checked against a          *)
(* reference definition.                                                   *)
(*                                                                         *)
(* A behaviour fixes the schedules of a merchant's subscriptions, as       *)
(* charges at the given times would have built them, and lets time pass.   *)
(***************************************************************************)
EXTENDS RevenueSchedule, FiniteSets

CONSTANTS
  Subs,      \* the merchant's tracked subscriptions
  Rules,     \* recognition rules of their plans
  Totals,    \* amounts charged
  Times,     \* charge times
  Lengths,   \* billing intervals
  Periods,   \* period_secs of an analytics query
  Horizon    \* bound on the clock and on the window of a query

ASSUME RevenueAssumption ==
  /\ IsFiniteSet(Subs)
  /\ Rules \subseteq RevenueRule \cup {NoRule}
  /\ Totals \subseteq Nat
  /\ Times \subseteq Nat
  /\ Lengths \subseteq Nat \ {0}
  /\ Periods \subseteq Nat \ {0}
  /\ Horizon \in Nat

VARIABLES
  clock,
  tracked,   \* the stored schedules
  method,    \* history: the recognition method each was built under
  window     \* the window of a query
revenueState == <<clock, tracked, method, window>>

EntryIds(s) == 0..(s.num_periods - 1)

\* Mutant: the part of a period that has passed is rounded up.
PartialUp(e, t) ==
  (e.recognised_amount * (t - e.period_start) + (e.period_end - e.period_start) - 1)
    \div (e.period_end - e.period_start)

\* The share of an entry for the part of its period that has passed.
Partial(e, t) ==
  (e.recognised_amount * (t - e.period_start)) \div (e.period_end - e.period_start)

\* Mutant: a period counts as recognised only after its end.
EntryRecognisedLate(e, t) ==
  IF t > e.period_end THEN e.recognised_amount
  ELSE IF t >= e.period_start /\ t < e.period_end THEN Partial(e, t) ELSE 0

EntryRecognised(e, t) ==
  IF t >= e.period_end THEN e.recognised_amount
  ELSE IF t >= e.period_start THEN Partial(e, t) ELSE 0

\* Mutant: the entry under way is deferred in full.
EntryDeferredInFull(e, t) == IF t >= e.period_end THEN 0 ELSE e.recognised_amount

EntryDeferred(e, t) ==
  IF t >= e.period_end THEN 0
  ELSE IF t >= e.period_start THEN e.recognised_amount - Partial(e, t)
  ELSE e.recognised_amount

\* split_recognised_deferred, which recognize_revenue returns.
Recognised(s, t) ==
  SumOver([i \in EntryIds(s) |-> EntryRecognised(Entry(s, i), t)], EntryIds(s))
Deferred(s, t) ==
  SumOver([i \in EntryIds(s) |-> EntryDeferred(Entry(s, i), t)], EntryIds(s))

-----------------------------------------------------------------------------
(* get_revenue_analytics_by_period *)

\* Mutant: the end of the window is included.
InWindowClosed(e, w) == w.from <= e.period_start /\ e.period_start <= w.to

InWindow(e, w) == w.from <= e.period_start /\ e.period_start < w.to

NumBuckets(w) == DivCeil(w.to - w.from, w.period)

BucketOf(e, w) == (e.period_start - w.from) \div w.period

\* The entries of all schedules, and those that the loop adds to bucket b.
AllEntries(scheds) == UNION {{id} \X EntryIds(scheds[id]) : id \in DOMAIN scheds}
EntryAt(scheds, x) == Entry(scheds[x[1]], x[2])
BucketEntries(scheds, w, b) ==
  {x \in AllEntries(scheds) : /\ InWindow(EntryAt(scheds, x), w)
                              /\ BucketOf(EntryAt(scheds, x), w) = b
                              /\ b < NumBuckets(w)}

BucketAmount(scheds, w, b) ==
  LET added == BucketEntries(scheds, w, b)
  IN  SumOver([x \in added |-> EntryAt(scheds, x).recognised_amount], added)

\* A subscription counts in the bucket of the first entry it contributes.
BucketSubscriptions(scheds, w, b) ==
  Cardinality({id \in DOMAIN scheds :
    \E i \in EntryIds(scheds[id]) :
      /\ <<id, i>> \in BucketEntries(scheds, w, b)
      /\ \A j \in 0..(i - 1) : ~InWindow(Entry(scheds[id], j), w)})

-----------------------------------------------------------------------------

Windows == {w \in [from : 0..Horizon, to : 0..Horizon, period : Periods] :
              w.from <= w.to}

\* The schedules generate_revenue_schedule can have stored.
RevenueInit ==
  /\ clock = 0
  /\ \E charged \in [Subs ->
       {<<r.method, ScheduleFor(r, total, t, i)>> :
          r \in {q \in Rules : ScheduleBuildable(q)},
          total \in Totals, t \in Times, i \in Lengths}] :
       /\ method = [id \in Subs |-> charged[id][1]]
       /\ tracked = [id \in Subs |-> charged[id][2]]
  /\ window \in Windows

PassTime == clock < Horizon /\ clock' = clock + 1 /\ UNCHANGED <<tracked, method, window>>

RevenueSpec == RevenueInit /\ [][PassTime]_revenueState

\* Every split accounts for the whole amount: nothing is lost to rounding or at
\* the boundaries of periods.
SplitConserves ==
  \A id \in Subs :
    Recognised(tracked[id], clock) + Deferred(tracked[id], clock) =
      tracked[id].total_amount

\* The time of its schedule that has passed.
ScheduleLength(s) == s.num_periods * s.period_secs
Elapsed(s, t) ==
  IF t < s.start THEN 0
  ELSE IF t < s.start + ScheduleLength(s) THEN t - s.start ELSE ScheduleLength(s)

\* Reference: straight-line recognition is proportional to the elapsed time.
\* Under a straight-line rule, or none, the code never runs ahead of it and
\* lags by less than one unit per period.
CloseToStraightLine ==
  \A id \in {i \in Subs : method[i] # "UsageBased"} :
    LET s == tracked[id]
        due == s.total_amount * Elapsed(s, clock)
    IN  /\ Recognised(s, clock) * ScheduleLength(s) <= due
        /\ due < (Recognised(s, clock) + s.num_periods) * ScheduleLength(s)

\* Recognised revenue is never taken back as time passes.
RecognitionMonotone ==
  [][\A id \in Subs :
       Recognised(tracked[id], clock) <= Recognised(tracked[id], clock')]_clock

\* Reference: the entries that start within the bounds of bucket b and before
\* the end of the window.
InBounds(e, w, b) ==
  /\ w.from + b * w.period <= e.period_start
  /\ e.period_start < w.from + (b + 1) * w.period
  /\ e.period_start < w.to
AmountWithin(s, w, b) ==
  SumOver([i \in EntryIds(s) |-> IF InBounds(Entry(s, i), w, b)
                                 THEN Entry(s, i).recognised_amount ELSE 0],
          EntryIds(s))

\* A bucket sums the entries within its bounds, subscription by subscription.
BucketAmountsExact ==
  \A b \in 0..(NumBuckets(window) - 1) :
    BucketAmount(tracked, window, b) =
      SumOver([id \in Subs |-> AmountWithin(tracked[id], window, b)], Subs)

\* Every subscription with an entry in the window is counted in one bucket, so
\* no entry falls outside the buckets.
CountsOnce ==
  LET buckets == 0..(NumBuckets(window) - 1) IN
  SumOver([b \in buckets |-> BucketSubscriptions(tracked, window, b)], buckets) =
    Cardinality({id \in Subs : \E i \in EntryIds(tracked[id]) :
                   LET start == Entry(tracked[id], i).period_start
                   IN  window.from <= start /\ start < window.to})

AnalyticsExact == BucketAmountsExact /\ CountsOnce

=============================================================================
