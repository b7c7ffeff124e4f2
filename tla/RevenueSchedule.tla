-------------------------- MODULE RevenueSchedule ---------------------------
(***************************************************************************)
(* How a charge becomes a revenue schedule                                 *)
(* (contracts/subscription/src/revenue.rs).                                *)
(*                                                                         *)
(* Every schedule the code builds is a run of consecutive periods of one   *)
(* length that starts at the charge, so a schedule is its total, start,    *)
(* period length and number of periods; Entry gives the stored entries.    *)
(***************************************************************************)
EXTENDS Sums, SubscriptionTypes

RevenueScheduleOf(total, t, period, n) ==
  [total_amount |-> total, start |-> t, period_secs |-> period,
   num_periods |-> n]

\* Key StorageKey::RevenueSchedule absent.
NoSchedule == RevenueScheduleOf(0, 0, 0, 0)

\* Mutant: the division rounds down.
DivFloor(a, b) == a \div b

DivCeil(a, b) == (a + b - 1) \div b

\* The assertions of build_straight_line_schedule as generate_revenue_schedule
\* can break them: a straight-line rule whose recognition period is 0.
ScheduleBuildable(rule) ==
  rule.method = "StraightLine" => rule.recognition_period > 0

\* generate_revenue_schedule (with both builders) for a charge at time t.
ScheduleFor(rule, total, t, interval) ==
  IF rule.method = "StraightLine"
  THEN RevenueScheduleOf(total, t, rule.recognition_period,
                         DivCeil(interval, rule.recognition_period))
  ELSE RevenueScheduleOf(total, t, interval, 1)

ScheduleEnd(s) == s.start + s.num_periods * s.period_secs

\* The i-th entry, 0-based: the last one takes what the division leaves over.
Entry(s, i) ==
  LET slice == s.total_amount \div s.num_periods
  IN  [period_start |-> s.start + i * s.period_secs,
       period_end   |-> s.start + (i + 1) * s.period_secs,
       recognised_amount |->
         IF i = s.num_periods - 1
         THEN s.total_amount - slice * (s.num_periods - 1)
         ELSE slice]

=============================================================================
