--------------------------- MODULE MCCommandRelay ---------------------------
(* Small instances of CommandRelay. *)
EXTENDS CommandRelay, TLC

CONSTANTS a, b, x, u

\* The command x is for a, and so is the unsupported u.
OwnersX == x :> a
OwnersXU == x :> a @@ u :> a
=============================================================================
