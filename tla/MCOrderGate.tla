---------------------------- MODULE MCOrderGate -----------------------------
(***************************************************************************)
(* The gate by itself, ValidateUser answering as it likes. There are more  *)
(* requests than one order and all the leaks allowed can account for, so   *)
(* that OrdersBounded has something to forbid whatever has leaked. The     *)
(* requests are interchangeable.                                           *)
(***************************************************************************)
EXTENDS OrderGate, TLC

Interchangeable == Permutations(Requests)
=============================================================================
