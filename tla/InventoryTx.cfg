SPECIFICATION FairTxSpec
CONSTANTS
  sku1 = sku1
  Stock = 2
  Orders = {1, 2}
  Skus = {sku1}
  SkuOf <- MCSkuOf
  Quantity <- MCQuantity
  Total <- MCTotal
  OrderEventIds = {1, 2, 3}
  Inbox <- MCInbox
  Workers = {w1, w2}
  MaxAttempts = 2
  MaxTimeouts = 1
  MaxCrashes = 1
  MaxLockErrors = 8
CHECK_DEADLOCK FALSE
INVARIANTS TxTypeOK NoReserveReleaseCycle
PROPERTIES ImplementsInventory HandlersTerminate
