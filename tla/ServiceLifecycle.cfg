SPECIFICATION Spec
CONSTANTS
  Instances = {i1, i2}
  Consumers = {users, inventory}
  Poller = Poller
  Statements <- MCStatements
  MaxBoots = 3
  MaxCrashes = 1
CHECK_DEADLOCK FALSE
INVARIANTS TypeOK NoUseAfterClose RunningHasSchema StrandedByCrashOnly
PROPERTY StopEnds
