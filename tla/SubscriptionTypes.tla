------------------------- MODULE SubscriptionTypes --------------------------
(***************************************************************************)
(* The data of contracts/types/src/lib.rs that the subscription contract   *)
(* stores and that does not depend on the bounds of a model.               *)
(***************************************************************************)
EXTENDS Integers

\* The names enforce_rate_limit is called with.
LimitedFunctions ==
  {"create_plan", "deactivate_plan", "subscribe", "cancel_subscription",
   "pause_subscription", "pause_by_subscriber", "resume_subscription",
   "charge_subscription", "request_refund", "request_transfer",
   "accept_transfer"}

\* PastDue exists in the type but no compiled handler assigns it.
SubscriptionStatus == {"Active", "Paused", "Cancelled"}

MevConfig ==
  [large_charge_threshold    : Int,
   max_fee_bps               : Nat,
   reveal_delay_secs         : Nat,
   commit_ttl_secs           : Nat,
   private_mempool_required  : BOOLEAN,
   gas_price_alert_threshold : Nat]

RecognitionMethod == {"StraightLine", "UsageBased"}

RevenueRule == [method : RecognitionMethod, recognition_period : Nat]

\* "None": StorageKey::RevenueRecognitionRule is absent.
NoRule == [method |-> "None", recognition_period |-> 0]

=============================================================================
