------------------------------ MODULE MCKernel ------------------------------
(* Instances of Kernel for TLC. *)
EXTENDS Kernel, TLC

CONSTANTS p1, p2, p3, a1, a2, a3

\* p1 and p2 share a level; p3 has a higher priority and is loaded last.
MCProcesses == <<p1, p2, p3>>
MCPrio == p1 :> 1 @@ p2 :> 1 @@ p3 :> 0
=============================================================================
