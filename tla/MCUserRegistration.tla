------------------------- MODULE MCUserRegistration -------------------------
(***************************************************************************)
(* Two registrations that compete for a name but not for an email.         *)
(***************************************************************************)
EXTENDS UserRegistration, TLC

CONSTANTS c1, c2

MCNameOf  == c1 :> "ann" @@ c2 :> "ann"
MCEmailOf == c1 :> "a@x" @@ c2 :> "b@x"
MCPasswordOf == c1 :> "p" @@ c2 :> "q"
=============================================================================
