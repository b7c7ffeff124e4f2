--------------------------- MODULE MCSubscription ---------------------------
(***************************************************************************)
(* Values of the subscription contract's constants for TLC.                *)
(***************************************************************************)
EXTENDS Subscription

\* MEV protection at its defaults: nothing is large, no gas price alarms.
MCDefaultMevConfig ==
  [large_charge_threshold |-> I128Max, max_fee_bps |-> 100,
   reveal_delay_secs |-> 1, commit_ttl_secs |-> 2,
   private_mempool_required |-> FALSE, gas_price_alert_threshold |-> I128Max]

\* A price of 2 is large from the first configuration on; the second also
\* requires the private route and alarms at any gas price; validation refuses
\* the third, whose commitments would expire before they can be revealed.
MCMevConfigs ==
  {[MCDefaultMevConfig EXCEPT !.large_charge_threshold = 2,
                              !.max_fee_bps = 5000],
   [MCDefaultMevConfig EXCEPT !.large_charge_threshold = 1,
                              !.max_fee_bps = 10000,
                              !.reveal_delay_secs = 0,
                              !.private_mempool_required = TRUE,
                              !.gas_price_alert_threshold = 0],
   [MCDefaultMevConfig EXCEPT !.reveal_delay_secs = 2]}

MCChargeLimits ==
  {<<"pause_by_subscriber", 2>>, <<"charge_subscription", 2>>}

\* The billing interval is 3: a period of 2 does not divide it; a period of 0
\* makes every charge of the plan fail.
MCRevenueRules ==
  {[method |-> "StraightLine", recognition_period |-> 0],
   [method |-> "StraightLine", recognition_period |-> 2]}

=============================================================================
