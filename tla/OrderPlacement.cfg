SPECIFICATION FairPlacementSpec
CONSTANTS
  Requests = {r1, r2}
  Absent = Absent
  Claimed = Claimed
  MaxExpiries = 1
  MaxRedisFaults = 1
  MaxLostCommits = 1
  MaxAttempts <- MCMaxAttempts
  r1 = r1
  r2 = r2
  i1 = i1
  i2 = i2
  Instances = {i1, i2}
  Callers <- MCCallers
  InstanceOf <- MCInstanceOf
CHECK_DEADLOCK FALSE
INVARIANTS PlacementTypeOK AnswersAreOrders OrdersHaveUsers
PROPERTIES NegativeIsTemporary KnownStaysKnown
