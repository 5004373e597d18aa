SPECIFICATION TxSpec
CONSTANTS
  sku1 = sku1
  Stock = 3
  Orders = {1, 2}
  Skus = {sku1}
  SkuOf <- MCSkuOf
  Quantity <- MCQuantity
  Total <- MCTotal
  OrderEventIds = {1, 2, 3}
  Inbox <- MCInbox
  Workers = {w1, w2}
  MaxAttempts = 2
  MaxTimeouts = 0
  MaxCrashes = 0
  MaxLockErrors = 8
CHECK_DEADLOCK FALSE
PROPERTIES RejectsOnlyOutOfStock
