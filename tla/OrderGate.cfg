SPECIFICATION Spec
CONSTANTS
  Requests = {r1, r2, r3, r4, r5}
  Absent = Absent
  Claimed = Claimed
  MaxExpiries = 1
  MaxRedisFaults = 1
  MaxLostCommits = 1
CHECK_DEADLOCK FALSE
SYMMETRY Interchangeable
INVARIANTS OrdersBounded
