SPECIFICATION Spec
CONSTANTS
  Users = {alice, bob, shop}
  Admin = shop
  NoUser = nobody
  Merchants = {shop}
  Recipients = {bob}
  MaxPlans = 1
  MaxSubs = 1
  MaxTime = 6
  Prices = {2}
  Intervals = {3}
  Refunds = {1,2}
  PauseDurations = {0, 1}
  MAX_PAUSE_DURATION = 3
  I128Max = 1000000
  RateLimits = {}
  MevConfigs = {}
  DefaultMevConfig <- MCDefaultMevConfig
  MaxCharges = {}
  Salts = {}
  GasPrices = {}
  RevenueRules <- MCRevenueRules
  InvoiceSettings = {TRUE}
  InvoiceAccepts = FALSE
  InitialBalance = 4
INVARIANTS
  TypeOK
  RefundBounded
  NoOverbilling
  LedgerAgrees
  ScheduleCoversPeriod
PROPERTIES
  CancelledIsFinal
  PauseHonoured
  OverwriteNearEnd
CHECK_DEADLOCK FALSE
