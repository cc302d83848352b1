CONSTANTS
  BPS_DENOMINATOR = 10
  MAX_U64 = 15
  MAX_U128 = 255
  FIXED_AMM_FEE_BPS = 1
  FIXED_MAX_RESERVE_BPS = 6
  FIXED_MAX_GROSS_SWAP = 8
  FIXED_MAX_LIQUIDITY_RFL = 10
  FIXED_MAX_LIQUIDITY_USD = 10
  INITIAL_TRFL_LIQUIDITY = 7
  INITIAL_TUSD_LIQUIDITY = 5
SPECIFICATION Spec
INVARIANTS
  NarrowingNeverFires
  RoundTripNeverPays
PROPERTIES
  ImplementsPromise
CHECK_DEADLOCK FALSE
