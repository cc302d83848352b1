CONSTANTS
  Owners = {o1, o2, o3}
  MAGNITUDE = 5
  MaxShares = 4
  MaxReceived = 4
SYMMETRY Symmetry
SPECIFICATION Spec
INVARIANTS
  Inv
  LpSolvent
  LeaversMayLeave
PROPERTIES
  EarnsOnHeldShares
CHECK_DEADLOCK FALSE
