CONSTANTS
  Users = {u1, u2}
  MAGNITUDE = 6
  TOTAL_SUPPLY = 6
  INITIAL_POOL_RFL = 3
  MAX_FEE_BPS = 1
  BPS_DENOMINATOR = 2
  MaxLifetimeFees = 2
SYMMETRY Symmetry
SPECIFICATION Spec
INVARIANTS
  Inv
  AccountingBacking
  RewardsSolvent
  RoundingWithinOne
  RewardsReachable
PROPERTIES
  EarnsOnHeldUnits
  BalanceLostOnlyBySpending
