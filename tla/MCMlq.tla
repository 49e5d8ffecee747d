-------------------------------- MODULE MCMlq --------------------------------
(* Instances of Mlq for TLC. *)
EXTENDS Mlq

CONSTANTS p1, p2, p3, p4, a1, a2, a3, a4

\* Two processes share a level, so that order within a level matters, and
\* the levels between and below them let the scan skip and wrap.
MCProc == {p1, p2, p3, p4}
MCPrio == p1 :> 1 @@ p2 :> 0 @@ p3 :> 1 @@ p4 :> 2

\* Room for all the processes at once; the addresses are alike.
MCPcb == {a1, a2, a3, a4}
AnyAddress == Permutations(MCPcb)
=============================================================================
