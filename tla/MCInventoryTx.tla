--------------------------- MODULE MCInventoryTx ----------------------------
(***************************************************************************)
(* Two orders of one SKU, for one and for two units. A stock of two serves *)
(* either but not both; InventoryTxReject has three, enough for both. The  *)
(* first order is also cancelled.                                          *)
(***************************************************************************)
EXTENDS InventoryTx

CONSTANTS sku1, Stock

MCInbox    == <<Event("OrderCreated", 1), Event("OrderCreated", 2), Event("OrderCancelled", 1)>>
MCSkuOf    == [o \in Orders |-> sku1]
MCQuantity == [o \in Orders |-> o]
MCTotal    == [s \in Skus |-> Stock]
=============================================================================
