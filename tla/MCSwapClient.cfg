CONSTANTS
  BPS_DENOMINATOR = 10
  MAX_U64 = 60
  MAX_U128 = 3600
  FIXED_AMM_FEE_BPS = 1
  FIXED_MAX_RESERVE_BPS = 6
  FIXED_MAX_GROSS_SWAP = 9
  FIXED_MAX_LIQUIDITY_RFL = 20
  FIXED_MAX_LIQUIDITY_USD = 20
  INITIAL_TRFL_LIQUIDITY = 20
  INITIAL_TUSD_LIQUIDITY = 15
  REFLECTION_FEE_BPS = 2
  MAX_REFLECTION_FEE_BPS = 5
  MAX_AMM_FEE_BPS = 1
  Amounts = {3, 8}
  Slippages = {0, 3, 10}
  Idle = Idle
  MaxNow = 2
  MaxSkew = 1
  MaxMoves = 2
  MaxCalls = 1
  MaxSubmissions = 2
SPECIFICATION ClientSpec
INVARIANTS
  HonestQuoteAccepted
  FreshQuoteExecutes
  SwapsAsAsked
CHECK_DEADLOCK FALSE
