------------------------------- MODULE MCSaga -------------------------------
(***************************************************************************)
(* Two orders of one user for the last unit of a SKU. With two partitions  *)
(* the user's key and the orders' keys can hash to different ones.         *)
(***************************************************************************)
EXTENDS Saga, TLC

CONSTANTS o1, o2, u1, sku1,
          CreatedAt,         \* partition of the user's key
          CancelledAt        \* partition of the orders' keys

MCUserOf           == o1 :> u1 @@ o2 :> u1
MCPartitionOfUser  == u1 :> CreatedAt
MCPartitionOfOrder == o1 :> CancelledAt @@ o2 :> CancelledAt
MCSkuOf            == o1 :> sku1 @@ o2 :> sku1
MCQuantity         == o1 :> 1 @@ o2 :> 1
MCTotal            == sku1 :> 1
=============================================================================
