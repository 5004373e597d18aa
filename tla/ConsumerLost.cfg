SPECIFICATION Spec
CONSTANTS
  e1 = e1
  e2 = e2
  EventIds = {e1, e2}
  LogSize = 3
  EventAt <- MCEventAt
  Members = {m1}
  NoOwner = NoOwner
  MaxFailures = 1
  MaxLostCommits = 0
  MaxMoves = 0
CHECK_DEADLOCK FALSE
INVARIANTS NothingLost
