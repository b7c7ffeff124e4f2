---------------------------- MODULE Subscription ----------------------------
(***************************************************************************)
(* The subscription implementation contract                                *)
(* (contracts/subscription/src/lib.rs with revenue.rs), over the storage   *)
(* contract it keeps all its state in.                                     *)
(*                                                                         *)
(* One action is one contract call.  A call that panics reverts everything *)
(* it wrote, so every assertion and every panic of a handler is a conjunct *)
(* of its action's guard.  require_auth() restricts who signs, which is an *)
(* input of the call: the caller is the bound variable of the action, and  *)
(* an address read from storage is taken to have signed.                   *)
(*                                                                         *)
(* A storage key that is absent is represented by a value of its own:      *)
(* status "Absent", index 0, NoUser, NoCall, a rate limit of 0 (which      *)
(* enforce_rate_limit treats as no limit), a schedule of 0 periods.        *)
(* Left out because no guard reads them: names, tokens (there is one       *)
(* token), created_at, total_gas_spent (100_000 per charge), the contents  *)
(* of alerts, the per-merchant list of plans, plan quotas, events.         *)
(***************************************************************************)
EXTENDS Integers, FiniteSetsExt, SubscriptionTypes, RevenueSchedule

CONSTANTS
  Users,            \* addresses: subscribers, merchants, the administrator
  Admin,            \* the address stored under StorageKey::Admin
  NoUser,           \* "no pending transfer"
  Merchants,        \* callers of create_plan
  Recipients,       \* addresses subscriptions are transferred to
  MaxPlans,         \* bound on the number of plans
  MaxSubs,          \* bound on the number of subscriptions
  MaxTime,          \* bound on the ledger timestamp
  Prices,           \* prices create_plan is called with
  Intervals,        \* Interval::seconds() of the intervals in use
  Refunds,          \* amounts request_refund is called with
  PauseDurations,   \* durations pause_by_subscriber is called with
  MAX_PAUSE_DURATION,
  I128Max,          \* i128::MAX
  RateLimits,       \* set_rate_limit calls: <<function, seconds>>
  MevConfigs,       \* configurations configure_mev_protection is called with
  DefaultMevConfig, \* what get_mev_config answers before any is stored
  MaxCharges,       \* max_charge_amount inputs of a reveal
  Salts,            \* salts of commitments
  GasPrices,        \* observed_gas_price inputs of a reveal
  RevenueRules,     \* set_revenue_rule calls: [method, recognition_period]
  InvoiceSettings,  \* {TRUE, FALSE} if the invoice contract is set and cleared
  InvoiceAccepts,   \* does the configured invoice contract accept the call?
  InitialBalance    \* tokens every user holds at the start

PlanIds == 1..MaxPlans
SubIds == 1..MaxSubs

ASSUME ConstantsAssumption ==
  /\ Admin \in Users
  /\ NoUser \notin Users
  /\ Merchants \subseteq Users /\ Recipients \subseteq Users
  /\ MaxPlans \in Nat /\ MaxSubs \in Nat /\ MaxTime \in Nat
  /\ Prices \subseteq Int
  /\ Intervals \subseteq Nat \ {0}
  /\ Refunds \subseteq Int
  /\ PauseDurations \subseteq Nat
  /\ MAX_PAUSE_DURATION \in Nat
  /\ I128Max \in Nat
  /\ RateLimits \subseteq LimitedFunctions \X Nat
  /\ MevConfigs \subseteq MevConfig
  /\ DefaultMevConfig \in MevConfig
  /\ MaxCharges \subseteq Int
  /\ GasPrices \subseteq Nat
  /\ RevenueRules \subseteq RevenueRule
  /\ InvoiceSettings \subseteq BOOLEAN
  /\ InvoiceAccepts \in BOOLEAN
  /\ InitialBalance \in Nat

VARIABLES
  now,                \* env.ledger().timestamp()
  plans,              \* StorageKey::Plan
  plan_count,         \* StorageKey::PlanCount
  subs,               \* StorageKey::Subscription
  subscription_count, \* StorageKey::SubscriptionCount
  user_subs,          \* StorageKey::UserSubscriptions: occurrences of an id
  user_plan_index,    \* StorageKey::UserPlanIndex
  pending_transfer,   \* StorageKey::PendingTransfer
  rate_limit,         \* StorageKey::RateLimit
  last_call,          \* StorageKey::LastCall
  mev_config,         \* StorageKey::MevProtectionConfig
  commitments,        \* StorageKey::ChargeCommitment
  mev_alert_count,    \* StorageKey::MevAlertCount
  invoice_contract,   \* is StorageKey::InvoiceContract set?
  revenue_rules,      \* StorageKey::RevenueRecognitionRule
  schedules,          \* StorageKey::RevenueSchedule
  deferred,           \* StorageKey::RevenueDeferredBalance
  merchant_subs,      \* StorageKey::RevenueMerchantSubscriptions
  balance,            \* the token contract's balances
  refunded,           \* history: what approve_refund took off total_paid
  transferred         \* history: plans a subscription of which was transferred

planVars    == <<plans, plan_count>>
subVars     == <<subs, subscription_count>>
ownerVars   == <<user_subs, user_plan_index>>
configVars  == <<rate_limit, mev_config, invoice_contract, revenue_rules>>
revenueVars == <<schedules, deferred, merchant_subs>>
historyVars == <<refunded, transferred>>
vars == <<now, planVars, subVars, ownerVars, pending_transfer, configVars,
          last_call, commitments, mev_alert_count, revenueVars, balance,
          historyVars>>

-----------------------------------------------------------------------------

NoPlan == [merchant |-> Admin, price |-> 0, interval |-> 0, active |-> FALSE,
           subscriber_count |-> 0]

NoSub == [plan_id |-> 0, subscriber |-> Admin, status |-> "Absent",
          started_at |-> 0, last_charged_at |-> 0, next_charge_at |-> 0,
          total_paid |-> 0, charge_count |-> 0, paused_at |-> 0,
          pause_duration |-> 0, refund_requested_amount |-> 0]

NoCommitment == [pending |-> FALSE, subscriber |-> Admin,
                 commitment |-> <<0, 0, 0>>, committed_at |-> 0,
                 min_reveal_at |-> 0, expires_at |-> 0]

NoCall == -1

\* The contract right after initialize.
Init ==
  /\ now = 0
  /\ plans = [p \in PlanIds |-> NoPlan]
  /\ plan_count = 0
  /\ subs = [id \in SubIds |-> NoSub]
  /\ subscription_count = 0
  /\ user_subs = [u \in Users |-> [id \in SubIds |-> 0]]
  /\ user_plan_index = [u \in Users |-> [p \in PlanIds |-> 0]]
  /\ pending_transfer = [id \in SubIds |-> NoUser]
  /\ rate_limit = [f \in LimitedFunctions |-> 0]
  /\ last_call = [u \in Users |-> [f \in LimitedFunctions |-> NoCall]]
  /\ mev_config = DefaultMevConfig
  /\ commitments = [id \in SubIds |-> NoCommitment]
  /\ mev_alert_count = 0
  /\ invoice_contract = FALSE
  /\ revenue_rules = [p \in PlanIds |-> NoRule]
  /\ schedules = [id \in SubIds |-> NoSchedule]
  /\ deferred = [u \in Users |-> 0]
  /\ merchant_subs = [u \in Users |-> {}]
  /\ balance = [u \in Users |-> InitialBalance]
  /\ refunded = [id \in SubIds |-> 0]
  /\ transferred = {}

PlanExists(p) == p <= plan_count
SubExists(id) == subs[id].status # "Absent"
Live(s) == s.status \notin {"Absent", "Cancelled"}

\* Mutant: the interval is not added.
RateLimitNoInterval(u, f) ==
  \/ u = Admin
  \/ rate_limit[f] = 0
  \/ last_call[u][f] = NoCall
  \/ now >= last_call[u][f]

\* enforce_rate_limit, called for everyone but the administrator: a call must
\* come rate_limit[f] seconds after the caller's last recorded one ...
RateLimitOK(u, f) ==
  \/ u = Admin
  \/ rate_limit[f] = 0
  \/ last_call[u][f] = NoCall
  \/ now >= last_call[u][f] + rate_limit[f]

\* ... and is recorded if it succeeds and a limit is set.
RecordCalls(u, fs) ==
  last_call' = [last_call EXCEPT ![u] =
    [f \in LimitedFunctions |->
      IF u # Admin /\ f \in fs /\ rate_limit[f] # 0 THEN now ELSE @[f]]]

\* Mutant: the time a pause still has to run is ignored.
ResumeAtOnce(s) ==
  IF s.status = "Paused"
  THEN [s EXCEPT !.status = "Active", !.paused_at = 0, !.pause_duration = 0]
  ELSE s

\* Mutant: the test of the status is dropped, and paused_at is 0 otherwise.
ResumeAnything(s) ==
  IF now >= s.paused_at + s.pause_duration
  THEN [s EXCEPT !.status = "Active", !.paused_at = 0, !.pause_duration = 0]
  ELSE s

\* check_and_resume_internal: a pause that has run out ends by itself.
CheckAndResume(s) ==
  IF s.status = "Paused" /\ now >= s.paused_at + s.pause_duration
  THEN [s EXCEPT !.status = "Active", !.paused_at = 0, !.pause_duration = 0]
  ELSE s

\* set_user_plan_index
SetUserPlanIndex(index, u, p, id) == [index EXCEPT ![u][p] = id]

\* Mutant: the old entry is left behind.
KeepUserPlanIndex(index, u, p) == index

\* remove_user_plan_index
RemoveUserPlanIndex(index, u, p) == [index EXCEPT ![u][p] = 0]

-----------------------------------------------------------------------------
(* Plans *)

CreatePlan(merchant, price, interval) ==
  /\ plan_count < MaxPlans
  /\ RateLimitOK(merchant, "create_plan")
  /\ price > 0
  /\ plan_count' = plan_count + 1
  /\ plans' = [plans EXCEPT ![plan_count + 1] =
       [merchant |-> merchant, price |-> price, interval |-> interval,
        active |-> TRUE, subscriber_count |-> 0]]
  /\ RecordCalls(merchant, {"create_plan"})
  /\ UNCHANGED <<now, subVars, ownerVars, pending_transfer, configVars,
                 commitments, mev_alert_count, revenueVars, balance,
                 historyVars>>

DeactivatePlan(p) ==
  /\ PlanExists(p)
  /\ RateLimitOK(plans[p].merchant, "deactivate_plan")
  /\ plans' = [plans EXCEPT ![p].active = FALSE]
  /\ RecordCalls(plans[p].merchant, {"deactivate_plan"})
  /\ UNCHANGED <<now, plan_count, subVars, ownerVars, pending_transfer,
                 configVars, commitments, mev_alert_count, revenueVars,
                 balance, historyVars>>

SetRevenueRule(p, rule) ==
  /\ PlanExists(p)
  /\ revenue_rules' = [revenue_rules EXCEPT ![p] = rule]
  /\ UNCHANGED <<now, planVars, subVars, ownerVars, pending_transfer,
                 rate_limit, mev_config, invoice_contract, last_call,
                 commitments, mev_alert_count, revenueVars, balance,
                 historyVars>>

-----------------------------------------------------------------------------
(* Subscription management *)

\* Mutant: only an active subscription counts as an existing one.
AlreadyActive(u, p) ==
  LET existing == user_plan_index[u][p]
  IN  existing # 0 /\ subs[existing].status = "Active"

\* The duplicate check of subscribe, through the index.
AlreadySubscribed(u, p) ==
  LET existing == user_plan_index[u][p]
  IN  existing # 0 /\ subs[existing].status # "Cancelled"

Subscribe(u, p) ==
  LET id == subscription_count + 1 IN
  /\ subscription_count < MaxSubs
  /\ RateLimitOK(u, "subscribe")
  /\ PlanExists(p)
  /\ plans[p].active
  /\ plans[p].merchant # u
  /\ ~AlreadySubscribed(u, p)
  /\ subscription_count' = id
  /\ subs' = [subs EXCEPT ![id] =
       [NoSub EXCEPT !.plan_id = p, !.subscriber = u, !.status = "Active",
                     !.started_at = now, !.last_charged_at = now,
                     !.next_charge_at = now + plans[p].interval]]
  /\ user_subs' = [user_subs EXCEPT ![u][id] = @ + 1]
  /\ user_plan_index' = SetUserPlanIndex(user_plan_index, u, p, id)
  /\ plans' = [plans EXCEPT ![p].subscriber_count = @ + 1]
  /\ RecordCalls(u, {"subscribe"})
  /\ UNCHANGED <<now, plan_count, pending_transfer, configVars, commitments,
                 mev_alert_count, revenueVars, balance, historyVars>>

\* Mutant: an off-by-one, the last subscriber is never subtracted.
CountAboveOne(n) == IF n > 1 THEN n - 1 ELSE n

\* Plan.subscriber_count after a cancellation.
CountAfterCancel(n) == IF n > 0 THEN n - 1 ELSE n

CancelSubscription(id) ==
  LET s == subs[id] IN
  /\ RateLimitOK(s.subscriber, "cancel_subscription")
  /\ s.status \in {"Active", "Paused"}
  /\ subs' = [subs EXCEPT ![id] = [s EXCEPT !.status = "Cancelled"]]
  /\ user_plan_index' =
       RemoveUserPlanIndex(user_plan_index, s.subscriber, s.plan_id)
  /\ plans' = [plans EXCEPT ![s.plan_id].subscriber_count = CountAfterCancel(@)]
  /\ RecordCalls(s.subscriber, {"cancel_subscription"})
  /\ UNCHANGED <<now, plan_count, subscription_count, user_subs,
                 pending_transfer, configVars, commitments, mev_alert_count,
                 revenueVars, balance, historyVars>>

\* What pause_subscription and pause_by_subscriber share; calls is the set of
\* functions whose rate limit the call passes through.
Pause(id, duration, calls) ==
  LET s == subs[id] IN
  /\ \A f \in calls : RateLimitOK(s.subscriber, f)
  /\ s.status = "Active"
  /\ duration <= MAX_PAUSE_DURATION
  /\ subs' = [subs EXCEPT ![id] =
       [s EXCEPT !.status = "Paused", !.paused_at = now,
                 !.pause_duration = duration]]
  /\ RecordCalls(s.subscriber, calls)
  /\ UNCHANGED <<now, planVars, subscription_count, ownerVars,
                 pending_transfer, configVars, commitments, mev_alert_count,
                 revenueVars, balance, historyVars>>

PauseSubscription(id) ==
  Pause(id, MAX_PAUSE_DURATION, {"pause_subscription", "pause_by_subscriber"})

PauseBySubscriber(id, duration) == Pause(id, duration, {"pause_by_subscriber"})

\* The alternative of the handler's assertion, check_and_resume_internal, can
\* only hold for a paused subscription, which its first alternative covers.
ResumeSubscription(id) ==
  LET s == subs[id] IN
  /\ RateLimitOK(s.subscriber, "resume_subscription")
  /\ s.status = "Paused"
  /\ subs' = [subs EXCEPT ![id] =
       [s EXCEPT !.status = "Active", !.paused_at = 0, !.pause_duration = 0,
                 !.next_charge_at = now + plans[s.plan_id].interval]]
  /\ RecordCalls(s.subscriber, {"resume_subscription"})
  /\ UNCHANGED <<now, planVars, subscription_count, ownerVars,
                 pending_transfer, configVars, commitments, mev_alert_count,
                 revenueVars, balance, historyVars>>

-----------------------------------------------------------------------------
(* Payment processing *)

\* charge_subscription_guarded without the commitment, which the two callers
\* below leave alone or consume.
MaxChargeWithFeeBound(price, bps) == price + (price * bps) \div 10000

WithinFeeBound(price, max_charge) ==
  max_charge # I128Max =>
    /\ max_charge >= price
    /\ price * mev_config.max_fee_bps <= I128Max
    /\ MaxChargeWithFeeBound(price, mev_config.max_fee_bps) <= I128Max
    /\ max_charge <= MaxChargeWithFeeBound(price, mev_config.max_fee_bps)

\* The token contract's transfer: it fails if the payer cannot cover it.
TokenTransfer(from, to, amount) ==
  /\ balance[from] >= amount
  /\ balance' = [balance EXCEPT ![from] = @ - amount, ![to] = @ + amount]

\* generate_revenue_schedule, update_merchant_revenue_balances (nothing is
\* recognised at the time of a charge) and track_merchant_subscription.
RecordRevenue(id, p) ==
  LET plan == plans[p] IN
  /\ deferred[plan.merchant] + plan.price <= I128Max
  /\ ScheduleBuildable(revenue_rules[p])
  /\ schedules' = [schedules EXCEPT ![id] =
       ScheduleFor(revenue_rules[p], plan.price, now, plan.interval)]
  /\ deferred' = [deferred EXCEPT ![plan.merchant] = @ + plan.price]
  /\ merchant_subs' = [merchant_subs EXCEPT ![plan.merchant] = @ \cup {id}]

\* Mutant: a charge is due one second early.
DueEarly(s) == now + 1 >= s.next_charge_at

\* "Payment not yet due"
PaymentDue(s) == now >= s.next_charge_at

\* Mutant: a later charge does not add to total_paid.
ChargedOnce(s, plan) ==
  [s EXCEPT !.last_charged_at = now, !.next_charge_at = now + plan.interval,
            !.total_paid = plan.price, !.charge_count = @ + 1]

\* Mutant: next_charge_at is not advanced.
ChargedStillDue(s, plan) ==
  [s EXCEPT !.last_charged_at = now, !.total_paid = @ + plan.price,
            !.charge_count = @ + 1]

\* What a charge assigns to the subscription.
Charged(s, plan) ==
  [s EXCEPT !.last_charged_at = now,
            !.next_charge_at = now + plan.interval,
            !.total_paid = @ + plan.price,
            !.charge_count = @ + 1]

ChargeGuarded(id, max_charge, gas_price, private, revealed) ==
  LET s    == CheckAndResume(subs[id])
      plan == plans[s.plan_id]
  IN
  /\ SubExists(id)
  /\ RateLimitOK(s.subscriber, "charge_subscription")
  /\ s.status = "Active"
  /\ PaymentDue(s)
  /\ revealed \/ plan.price < mev_config.large_charge_threshold
  /\ WithinFeeBound(plan.price, max_charge)
  /\ mev_config.private_mempool_required => private
  /\ mev_alert_count' = IF gas_price > mev_config.gas_price_alert_threshold
                        THEN mev_alert_count + 1 ELSE mev_alert_count
  /\ TokenTransfer(s.subscriber, plan.merchant, plan.price)
  /\ s.total_paid + plan.price <= I128Max
  /\ subs' = [subs EXCEPT ![id] = Charged(s, plan)]
  /\ RecordRevenue(id, s.plan_id)
  /\ invoice_contract => InvoiceAccepts
  /\ RecordCalls(s.subscriber, {"charge_subscription"})
  /\ UNCHANGED <<now, planVars, subscription_count, ownerVars,
                 pending_transfer, configVars, historyVars>>

ChargeSubscription(id) ==
  /\ ChargeGuarded(id, I128Max, 0, FALSE, FALSE)
  /\ UNCHANGED commitments

\* build_charge_commitment: SHA-256 of its arguments, taken to be injective.
BuildChargeCommitment(id, max_charge, salt) == <<id, max_charge, salt>>

CommitCharge(id, commitment) ==
  LET s == subs[id] IN
  /\ SubExists(id)
  /\ commitments[id].pending => now > commitments[id].expires_at
  /\ commitments' = [commitments EXCEPT ![id] =
       [pending |-> TRUE, subscriber |-> s.subscriber,
        commitment |-> commitment, committed_at |-> now,
        min_reveal_at |-> now + mev_config.reveal_delay_secs,
        expires_at |-> now + mev_config.commit_ttl_secs]]
  /\ UNCHANGED <<now, planVars, subVars, ownerVars, pending_transfer,
                 configVars, last_call, mev_alert_count, revenueVars, balance,
                 historyVars>>

\* Mutant: an expired commitment can still be revealed.
NeverExpires(c) == c.pending /\ now >= c.min_reveal_at

\* The window in which a commitment may be revealed.
InRevealWindow(c) == c.pending /\ now >= c.min_reveal_at /\ now <= c.expires_at

RevealCharge(id, salt, max_charge, gas_price, private) ==
  LET c == commitments[id] IN
  /\ InRevealWindow(c)
  /\ c.commitment = BuildChargeCommitment(id, max_charge, salt)
  /\ commitments' = [commitments EXCEPT ![id] = NoCommitment]
  /\ ChargeGuarded(id, max_charge, gas_price, private, TRUE)

-----------------------------------------------------------------------------
(* Refunds *)

\* Mutant: the bound by total_paid is dropped.
RefundUnbounded(s, amount) == amount > 0

\* The assertions of request_refund on the amount.
RefundAllowed(s, amount) == amount > 0 /\ amount <= s.total_paid

\* Mutant: an approved request stays pending.
RefundKept(s) == [s EXCEPT !.total_paid = @ - s.refund_requested_amount]

\* What approve_refund assigns to the subscription.
AfterRefund(s) ==
  [s EXCEPT !.total_paid = @ - s.refund_requested_amount,
            !.refund_requested_amount = 0]

RequestRefund(id, amount) ==
  LET s == subs[id] IN
  /\ SubExists(id)
  /\ RateLimitOK(s.subscriber, "request_refund")
  /\ RefundAllowed(s, amount)
  /\ subs' = [subs EXCEPT ![id] = [s EXCEPT !.refund_requested_amount = amount]]
  /\ RecordCalls(s.subscriber, {"request_refund"})
  /\ UNCHANGED <<now, planVars, subscription_count, ownerVars,
                 pending_transfer, configVars, commitments, mev_alert_count,
                 revenueVars, balance, historyVars>>

ApproveRefund(id) ==
  LET s == subs[id]
      amount == s.refund_requested_amount
  IN
  /\ SubExists(id)
  /\ amount > 0
  /\ subs' = [subs EXCEPT ![id] = AfterRefund(s)]
  /\ refunded' = [refunded EXCEPT ![id] = @ + amount]
  /\ UNCHANGED <<now, planVars, subscription_count, ownerVars,
                 pending_transfer, configVars, last_call, commitments,
                 mev_alert_count, revenueVars, balance, transferred>>

RejectRefund(id) ==
  LET s == subs[id] IN
  /\ SubExists(id)
  /\ s.refund_requested_amount > 0
  /\ subs' = [subs EXCEPT ![id] = [s EXCEPT !.refund_requested_amount = 0]]
  /\ UNCHANGED <<now, planVars, subscription_count, ownerVars,
                 pending_transfer, configVars, last_call, commitments,
                 mev_alert_count, revenueVars, balance, historyVars>>

-----------------------------------------------------------------------------
(* Transfers of a subscription to another subscriber *)

RequestTransfer(id, recipient) ==
  LET s == subs[id] IN
  /\ SubExists(id)
  /\ RateLimitOK(s.subscriber, "request_transfer")
  /\ s.status # "Cancelled"
  /\ s.subscriber # recipient
  /\ pending_transfer' = [pending_transfer EXCEPT ![id] = recipient]
  /\ RecordCalls(s.subscriber, {"request_transfer"})
  /\ UNCHANGED <<now, planVars, subVars, ownerVars, configVars, commitments,
                 mev_alert_count, revenueVars, balance, historyVars>>

\* Mutant: the id stays in the old subscriber's list.
KeepInList(lists, u, id) == lists

\* The copy of the old subscriber's list without the id.
RemoveFromList(lists, u, id) == [lists EXCEPT ![u][id] = 0]

AcceptTransfer(id, recipient) ==
  LET s == subs[id]
      removed == RemoveFromList(user_subs, s.subscriber, id)
      unindexed == RemoveUserPlanIndex(user_plan_index, s.subscriber, s.plan_id)
  IN
  /\ RateLimitOK(recipient, "accept_transfer")
  /\ SubExists(id)
  /\ pending_transfer[id] = recipient
  /\ user_subs' = [removed EXCEPT ![recipient][id] = @ + 1]
  /\ user_plan_index' = SetUserPlanIndex(unindexed, recipient, s.plan_id, id)
  /\ subs' = [subs EXCEPT ![id] = [s EXCEPT !.subscriber = recipient]]
  /\ pending_transfer' = [pending_transfer EXCEPT ![id] = NoUser]
  /\ transferred' = transferred \cup {s.plan_id}
  /\ RecordCalls(recipient, {"accept_transfer"})
  /\ UNCHANGED <<now, planVars, subscription_count, configVars, commitments,
                 mev_alert_count, revenueVars, balance, refunded>>

-----------------------------------------------------------------------------
(* Administration *)

SetRateLimit(f, secs) ==
  /\ rate_limit' = [rate_limit EXCEPT ![f] = secs]
  /\ UNCHANGED <<now, planVars, subVars, ownerVars, pending_transfer,
                 mev_config, invoice_contract, revenue_rules, last_call,
                 commitments, mev_alert_count, revenueVars, balance,
                 historyVars>>

RemoveRateLimit(f) == SetRateLimit(f, 0)

ValidMevConfig(config) ==
  /\ config.large_charge_threshold > 0
  /\ config.max_fee_bps <= 10000
  /\ config.commit_ttl_secs > config.reveal_delay_secs

ConfigureMevProtection(config) ==
  /\ ValidMevConfig(config)
  /\ mev_config' = config
  /\ UNCHANGED <<now, planVars, subVars, ownerVars, pending_transfer,
                 rate_limit, invoice_contract, revenue_rules, last_call,
                 commitments, mev_alert_count, revenueVars, balance,
                 historyVars>>

\* set_invoice_contract and clear_invoice_contract.
SetInvoiceContract(isSet) ==
  /\ invoice_contract' = isSet
  /\ UNCHANGED <<now, planVars, subVars, ownerVars, pending_transfer,
                 rate_limit, mev_config, revenue_rules, last_call,
                 commitments, mev_alert_count, revenueVars, balance,
                 historyVars>>

\* The next ledger closes.
Tick ==
  /\ now < MaxTime
  /\ now' = now + 1
  /\ UNCHANGED <<planVars, subVars, ownerVars, pending_transfer, configVars,
                 last_call, commitments, mev_alert_count, revenueVars,
                 balance, historyVars>>

-----------------------------------------------------------------------------

PlanNext ==
  \/ \E m \in Merchants, price \in Prices, i \in Intervals :
       CreatePlan(m, price, i)
  \/ \E p \in PlanIds : DeactivatePlan(p)
  \/ \E p \in PlanIds, r \in RevenueRules : SetRevenueRule(p, r)

LifecycleNext ==
  \/ \E u \in Users, p \in PlanIds : Subscribe(u, p)
  \/ \E id \in SubIds : CancelSubscription(id)
  \/ \E id \in SubIds : PauseSubscription(id)
  \/ \E id \in SubIds, d \in PauseDurations : PauseBySubscriber(id, d)
  \/ \E id \in SubIds : ResumeSubscription(id)

PaymentNext ==
  \/ \E id \in SubIds : ChargeSubscription(id)
  \/ \E id, other \in SubIds, salt \in Salts, max \in MaxCharges :
       CommitCharge(id, BuildChargeCommitment(other, max, salt))
  \/ \E id \in SubIds, salt \in Salts, max \in MaxCharges, gas \in GasPrices,
        private \in BOOLEAN : RevealCharge(id, salt, max, gas, private)

RefundNext ==
  \/ \E id \in SubIds, amount \in Refunds : RequestRefund(id, amount)
  \/ \E id \in SubIds : ApproveRefund(id)
  \/ \E id \in SubIds : RejectRefund(id)

TransferNext ==
  \/ \E id \in SubIds, u \in Recipients : RequestTransfer(id, u)
  \/ \E id \in SubIds, u \in Recipients : AcceptTransfer(id, u)

AdminNext ==
  \/ \E l \in RateLimits : SetRateLimit(l[1], l[2])
  \/ \E l \in RateLimits : RemoveRateLimit(l[1])
  \/ \E config \in MevConfigs : ConfigureMevProtection(config)
  \/ \E isSet \in InvoiceSettings : SetInvoiceContract(isSet)

Next ==
  PlanNext \/ LifecycleNext \/ PaymentNext \/ RefundNext \/ TransferNext
    \/ AdminNext \/ Tick

Spec == Init /\ [][Next]_vars

-----------------------------------------------------------------------------
(* Properties *)

PlanType ==
  [merchant : Users, price : Nat, interval : Nat, active : BOOLEAN,
   subscriber_count : Nat]

SubType ==
  [plan_id : 0..MaxPlans, subscriber : Users,
   status : SubscriptionStatus \cup {"Absent"},
   started_at : Nat, last_charged_at : Nat, next_charge_at : Nat,
   total_paid : Nat, charge_count : Nat, paused_at : Nat,
   pause_duration : Nat, refund_requested_amount : Nat]

CommitmentType ==
  [pending : BOOLEAN, subscriber : Users,
   commitment : Nat \X Int \X (Salts \cup {0}),
   committed_at : Nat, min_reveal_at : Nat, expires_at : Nat]

ScheduleType ==
  [total_amount : Nat, start : Nat, period_secs : Nat, num_periods : Nat]

\* Type correctness; that total_paid is a natural number is the interesting
\* part: approve_refund subtracts an amount fixed by an earlier call.
TypeOK ==
  /\ now \in Nat
  /\ plans \in [PlanIds -> PlanType]
  /\ plan_count \in 0..MaxPlans
  /\ subs \in [SubIds -> SubType]
  /\ subscription_count \in 0..MaxSubs
  /\ user_subs \in [Users -> [SubIds -> Nat]]
  /\ user_plan_index \in [Users -> [PlanIds -> 0..MaxSubs]]
  /\ pending_transfer \in [SubIds -> Users \cup {NoUser}]
  /\ rate_limit \in [LimitedFunctions -> Nat]
  /\ last_call \in [Users -> [LimitedFunctions -> Nat \cup {NoCall}]]
  /\ mev_config \in MevConfig
  /\ commitments \in [SubIds -> CommitmentType]
  /\ mev_alert_count \in Nat
  /\ invoice_contract \in BOOLEAN
  /\ revenue_rules \in [PlanIds -> RevenueRule \cup {NoRule}]
  /\ schedules \in [SubIds -> ScheduleType]
  /\ deferred \in [Users -> Nat]
  /\ merchant_subs \in [Users -> SUBSET SubIds]
  /\ balance \in [Users -> Nat]
  /\ refunded \in [SubIds -> Nat]
  /\ transferred \in SUBSET PlanIds

\* Subscriptions are exactly the ids handed out so far, and each is on a plan
\* that exists: subscribe numbers them from SubscriptionCount.
IdsAllocated ==
  \A id \in SubIds :
    /\ SubExists(id) <=> id <= subscription_count
    /\ SubExists(id) => subs[id].plan_id \in 1..plan_count

\* specs/core-spec.md: refund_requested_amount never exceeds total_paid, over
\* any interleaving of charges, transfers and refund decisions.
RefundBounded ==
  \A id \in SubIds : subs[id].refund_requested_amount <= subs[id].total_paid

\* Every entry of the user/plan index leads to a subscription which that user
\* holds on that plan, across cancellations, re-subscriptions and transfers.
IndexOwner ==
  \A u \in Users, p \in PlanIds :
    LET id == user_plan_index[u][p] IN
    id # 0 => /\ SubExists(id)
              /\ subs[id].subscriber = u
              /\ subs[id].plan_id = p

\* No user has two non-cancelled subscriptions of plan p.
UniqueLive(p) ==
  \A i, j \in SubIds :
    /\ Live(subs[i]) /\ Live(subs[j])
    /\ subs[i].plan_id = p /\ subs[j].plan_id = p
    /\ subs[i].subscriber = subs[j].subscriber
    => i = j

\* specs/core-spec.md, invariant 4: a user has at most one non-cancelled
\* subscription per plan.  accept_transfer does not check it.
AtMostOneLivePerPlan == \A p \in PlanIds : UniqueLive(p)

\* What the index does guarantee: uniqueness on every plan of which no
\* subscription has been transferred, and there the index finds every live
\* subscription.
UniqueUnlessTransferred ==
  \A p \in PlanIds \ transferred :
    /\ UniqueLive(p)
    /\ \A id \in SubIds :
         Live(subs[id]) /\ subs[id].plan_id = p =>
           user_plan_index[subs[id].subscriber][p] = id

\* Plan.subscriber_count is the number of non-cancelled subscriptions of the
\* plan: the "if subscriber_count > 0" of cancel_subscription never hides a
\* miscount.
SubscriberCountExact ==
  \A p \in PlanIds :
    plans[p].subscriber_count =
      Cardinality({id \in SubIds : Live(subs[id]) /\ subs[id].plan_id = p})

\* Every subscription is in its subscriber's list exactly once and in nobody
\* else's, also after transfers, back and forth and of cancelled ones.
OwnershipLists ==
  \A u \in Users, id \in SubIds :
    user_subs[u][id] = IF SubExists(id) /\ subs[id].subscriber = u
                       THEN 1 ELSE 0

\* No double billing: by the time of its last charge a subscription has lived
\* through one whole interval per charge, and the next charge is a whole
\* interval after the last, whatever pauses, resumptions, transfers and
\* reveals happened in between.
NoOverbilling ==
  \A id \in SubIds : SubExists(id) =>
    LET s == subs[id]
        interval == plans[s.plan_id].interval
    IN  /\ s.charge_count * interval <= s.last_charged_at - s.started_at
        /\ s.last_charged_at + interval <= s.next_charge_at
        /\ s.last_charged_at <= now

\* What a subscription shows as paid, plus what was refunded, is the price of
\* its charges.
PaidMatchesCharges ==
  \A id \in SubIds : SubExists(id) =>
    subs[id].total_paid + refunded[id] =
      subs[id].charge_count * plans[subs[id].plan_id].price

\* The subscriptions on a merchant's plans that were ever charged.
ChargedFor(m) ==
  {id \in SubIds : /\ subs[id].charge_count > 0
                   /\ plans[subs[id].plan_id].merchant = m}

\* Analytics know every charged subscription and no other.
ChargedAreTracked == \A m \in Users : merchant_subs[m] = ChargedFor(m)

\* What was ever collected for a subscription, refunds included.
Collected == [id \in SubIds |-> subs[id].total_paid + refunded[id]]

\* A merchant's deferred revenue is all that was ever charged on its plans.
DeferredAddsUp == \A m \in Users : deferred[m] = SumOver(Collected, ChargedFor(m))

\* The three records of a charge agree: the subscription's own sums, the
\* merchant's list, and the merchant's deferred revenue.
LedgerAgrees == PaidMatchesCharges /\ ChargedAreTracked /\ DeferredAddsUp

\* Cancelled is final: a cancelled subscription keeps its status and is never
\* charged, not even through a commitment or a transfer made before.
CancelledIsFinal ==
  [][\A id \in SubIds : subs[id].status = "Cancelled" =>
       /\ subs'[id].status = "Cancelled"
       /\ subs'[id].charge_count = subs[id].charge_count]_vars

\* A pause holds: between paused_at and the end of the pause nothing is
\* charged unless the subscriber resumed first.
PauseHonoured ==
  [][\A id \in SubIds :
       /\ subs[id].status = "Paused"
       /\ subs'[id].charge_count # subs[id].charge_count
       => now >= subs[id].paused_at + subs[id].pause_duration]_vars

\* Commit-reveal: a charge at or above the threshold consumes a pending
\* commitment, within its window, that was made for this subscription with a
\* bound the price respects, whatever happened to the configuration, the
\* pauses and the other charges since the commit.
LargeChargeRevealed ==
  [][\A id \in SubIds :
       LET c == commitments[id]
           price == plans[subs[id].plan_id].price
       IN
       /\ subs'[id].charge_count # subs[id].charge_count
       /\ price >= mev_config.large_charge_threshold
       => /\ c.pending /\ ~commitments'[id].pending
          /\ c.min_reveal_at <= now /\ now <= c.expires_at
          /\ c.commitment[1] = id /\ price <= c.commitment[2]]_vars

\* Under a limit the caller's last recorded call is long enough ago, and this
\* call is recorded.
Obeys(u, f) ==
  rate_limit[f] # 0 =>
    /\ last_call[u][f] # NoCall => now >= last_call[u][f] + rate_limit[f]
    /\ last_call'[u][f] = now

\* A limit on "pause_by_subscriber" holds for every pause and one on
\* "charge_subscription" for every charge, through either of their two entry
\* points: except for the administrator's, none comes earlier after the
\* subscriber's last recorded one, by whichever path, than the limit in force.
LimitsCoverEveryPath ==
  [][\A id \in SubIds :
       subs[id].subscriber # Admin =>
         /\ subs[id].status = "Active" /\ subs'[id].status = "Paused" =>
              Obeys(subs[id].subscriber, "pause_by_subscriber")
         /\ subs'[id].charge_count > subs[id].charge_count =>
              Obeys(subs[id].subscriber, "charge_subscription")]_vars

\* The stored schedule is that of the latest charge and covers the whole
\* billing period it pays for, under every recognition rule.
ScheduleCoversPeriod ==
  \A id \in SubIds :
    LET s == subs[id]
        plan == plans[s.plan_id]
    IN
    s.charge_count > 0 =>
      /\ schedules[id].total_amount = plan.price
      /\ schedules[id].start = s.last_charged_at
      /\ s.last_charged_at + plan.interval <= ScheduleEnd(schedules[id])

\* A new charge replaces a schedule only when its last period has begun: at
\* most the last entry's revenue is lost to later recognition.
OverwriteNearEnd ==
  [][\A id \in SubIds :
       LET old == schedules[id] IN
       schedules'[id] # old /\ old.num_periods > 0 =>
         now >= Entry(old, old.num_periods - 1).period_start]_vars

-----------------------------------------------------------------------------
(* Statements of the documentation, the comments and the assertions that the *)
(* code does not keep.                                                       *)

=============================================================================
