---------------------------- MODULE MCOrderList -----------------------------
(***************************************************************************)
(* Five orders, one of another user, in pages of one to three.             *)
(***************************************************************************)
EXTENDS OrderList

MCMine == {1, 2, 4, 5}
=============================================================================
