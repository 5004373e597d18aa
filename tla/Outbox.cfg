SPECIFICATION FairSpec
CONSTANTS
  Events = {e1, e2, e3}
  Pollers = {p1, p2}
  BatchSize = 2
  MaxRetries = 1
  MaxDbFaults = 1
CHECK_DEADLOCK FALSE
INVARIANTS RowsExclusive SentIsPublished CopiesBounded
PROPERTIES ImplementsRelay EventuallySettled
