CONSTANTS
  Users = {u1, u2}
  bootstrap_lp = u1
  MAGNITUDE = 12
  TOTAL_SUPPLY = 12
  INITIAL_POOL_RFL = 4
  MAX_FEE_BPS = 1
  BPS_DENOMINATOR = 2
  MAX_U64 = 31
  MAX_U128 = 1023
  FIXED_AMM_FEE_BPS = 0
  FIXED_MAX_RESERVE_BPS = 2
  FIXED_MAX_GROSS_SWAP = 8
  FIXED_MAX_LIQUIDITY_RFL = 4
  FIXED_MAX_LIQUIDITY_USD = 4
  INITIAL_TUSD_LIQUIDITY = 4
  FIXED_TRFL_GRANT = 4
  FIXED_TUSD_GRANT = 4
  MaxLifetimeFees = 5
  MaxUsd = 12
  RflOffers = {2, 4}
  UsdOffers = {4}
  ShareOffers = {2, 4}
  LEGACY_MAX_FEE = 1
  U64_MAX = 31
  U128_MAX = 1023
  U256_MAX = 65535
  MaxTransactions = 5
SPECIFICATION ReplaySpec
INVARIANTS
  WholeReplayIsExact
  LossIsNoticed
CHECK_DEADLOCK FALSE
