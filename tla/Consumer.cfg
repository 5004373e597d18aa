SPECIFICATION FairSpec
CONSTANTS
  e1 = e1
  e2 = e2
  EventIds = {e1, e2}
  LogSize = 3
  EventAt <- MCEventAt
  Members = {m1, m2}
  NoOwner = NoOwner
  MaxFailures = 2
  MaxLostCommits = 1
  MaxMoves = 2
CHECK_DEADLOCK FALSE
INVARIANTS TypeOK EffectsOnce PassedIsHandled
PROPERTIES EventuallyHandled
