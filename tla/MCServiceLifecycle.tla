------------------------- MODULE MCServiceLifecycle -------------------------
(***************************************************************************)
(* Two instances that start together, one of them a second time; a         *)
(* migration of several statements (the order service's first has three)   *)
(* and one of a single statement (its later ones).                         *)
(***************************************************************************)
EXTENDS ServiceLifecycle

MCStatements == <<2, 1>>
=============================================================================
