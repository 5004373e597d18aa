SPECIFICATION ListSpec
CONSTANTS
  MaxOrders = 5
  Mine <- MCMine
  MaxPageSize = 3
CHECK_DEADLOCK FALSE
INVARIANTS ListTypeOK MissesOnlyRaces
