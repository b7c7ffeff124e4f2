SPECIFICATION Spec
CONSTANTS
  Users = {alice, shop}
  Admin = shop
  NoUser = nobody
  Merchants = {shop}
  Recipients = {}
  MaxPlans = 1
  MaxSubs = 1
  MaxTime = 3
  Prices = {0, 2}
  Intervals = {1}
  Refunds = {}
  PauseDurations = {}
  MAX_PAUSE_DURATION = 2
  I128Max = 1000000
  RateLimits <- MCChargeLimits
  MevConfigs <- MCMevConfigs
  DefaultMevConfig <- MCDefaultMevConfig
  MaxCharges = {1, 3, 1000000}
  Salts = {salt}
  GasPrices = {0, 1}
  RevenueRules = {}
  InvoiceSettings = {}
  InvoiceAccepts = FALSE
  InitialBalance = 6
PROPERTIES
  LargeChargeRevealed
  LimitsCoverEveryPath
CHECK_DEADLOCK FALSE
