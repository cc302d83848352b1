CONSTANTS
  Accounts = {a1, a2}
  FIXED_COOLDOWN_SECONDS = 2
  Grants = 3
  MaxNow = 5
  MAX_VALUE = 1200
  INITIAL_TRFL_LIQUIDITY = 20
  INITIAL_TUSD_LIQUIDITY = 15
SPECIFICATION LaunchSpec
INVARIANTS
  RateLimited
  
PROPERTIES
  ReturnsRoot
CHECK_DEADLOCK FALSE
