------------------------------ MODULE MCOutbox ------------------------------
(***************************************************************************)
(* Three rows and the pollers of two instances: a batch can leave a row    *)
(* behind, and the pollers compete for what is left.                       *)
(***************************************************************************)
EXTENDS Outbox
=============================================================================
