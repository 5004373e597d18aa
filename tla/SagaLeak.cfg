SPECIFICATION FairSpec
CONSTANTS
  o1 = o1
  o2 = o2
  u1 = u1
  sku1 = sku1
  Orders = {o1, o2}
  Users = {u1}
  Skus = {sku1}
  Requests = {r1}
  Partitions = {q1, q2}
  OrderHandlers = {q1, q2}
  CreatedAt = q1
  CancelledAt = q2
  UserOf <- MCUserOf
  SkuOf <- MCSkuOf
  Quantity <- MCQuantity
  Total <- MCTotal
  PartitionOfUser <- MCPartitionOfUser
  PartitionOfOrder <- MCPartitionOfOrder
  OrderEventIds = {}
  InventoryEventIds = {}
  Nil = Nil
  MaxLockErrors = 0
  MaxFaults = 0
CHECK_DEADLOCK FALSE
PROPERTIES CancelledHoldsNoStock
