SPECIFICATION Spec
CONSTANTS
  Users = {alice, bob, shop}
  Admin = shop
  NoUser = nobody
  Merchants = {shop}
  Recipients = {alice, bob}
  MaxPlans = 1
  MaxSubs = 3
  MaxTime = 0
  Prices = {1}
  Intervals = {1}
  Refunds = {}
  PauseDurations = {}
  MAX_PAUSE_DURATION = 2
  I128Max = 1000000
  RateLimits = {}
  MevConfigs = {}
  DefaultMevConfig <- MCDefaultMevConfig
  MaxCharges = {}
  Salts = {}
  GasPrices = {}
  RevenueRules = {}
  InvoiceSettings = {}
  InvoiceAccepts = FALSE
  InitialBalance = 3
INVARIANTS
  IndexOwner
  UniqueUnlessTransferred
  SubscriberCountExact
  OwnershipLists
CHECK_DEADLOCK FALSE
