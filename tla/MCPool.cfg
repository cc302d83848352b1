CONSTANTS
  Users = {u1, u2}
  bootstrap_lp = u1
  MAGNITUDE = 8
  TOTAL_SUPPLY = 6
  INITIAL_POOL_RFL = 4
  MAX_FEE_BPS = 1
  BPS_DENOMINATOR = 2
  MAX_U64 = 31
  MAX_U128 = 1023
  FIXED_AMM_FEE_BPS = 0
  FIXED_MAX_RESERVE_BPS = 2
  FIXED_MAX_GROSS_SWAP = 6
  FIXED_MAX_LIQUIDITY_RFL = 4
  FIXED_MAX_LIQUIDITY_USD = 4
  INITIAL_TUSD_LIQUIDITY = 9
  FIXED_TRFL_GRANT = 2
  FIXED_TUSD_GRANT = 6
  MaxLifetimeFees = 3
  MaxUsd = 15
  RflOffers = {2}
  UsdOffers = {6}
  ShareOffers = {3, 6}
SPECIFICATION Spec
INVARIANTS
  PoolNeverAccrues
  LedgersAgree
  ProvidersCanLeave
  QuotesHonoured
  ClosesClean
PROPERTIES
  ImplementsPromise
CHECK_DEADLOCK FALSE
