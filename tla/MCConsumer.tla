----------------------------- MODULE MCConsumer -----------------------------
(***************************************************************************)
(* Three messages, the third a second copy of the first event, and two     *)
(* instances of the service.                                               *)
(***************************************************************************)
EXTENDS Consumer

CONSTANTS e1, e2

MCEventAt == <<e1, e2, e1>>
=============================================================================
