-------------------------- MODULE MCOrderPlacement --------------------------
(***************************************************************************)
(* A request and its repetition by the client. A first attempt goes to one *)
(* instance of user-rpc and a second one to another, so that requests      *)
(* share a singleflight and instances share the cache.                     *)
(***************************************************************************)
EXTENDS OrderPlacement, TLC

CONSTANTS r1, r2, i1, i2

MCMaxAttempts == r1 :> 2 @@ r2 :> 1
MCCallers     == UNION {{r} \X (1..MCMaxAttempts[r]) : r \in Requests}
MCInstanceOf  == [c \in MCCallers |-> IF c[2] = 1 THEN i1 ELSE i2]
=============================================================================
