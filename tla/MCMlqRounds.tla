----------------------------- MODULE MCMlqRounds -----------------------------
(* Instances of MlqRounds for TLC. *)
EXTENDS MlqRounds

CONSTANTS p1, p2, p3

\* One process on each level.
MCProc == {p1, p2, p3}
MCPrio == p1 :> 0 @@ p2 :> 1 @@ p3 :> 2
=============================================================================
