------------------------------- MODULE MCPaging -------------------------------
(* Paging on a small machine: two processes that share a few frames. *)
EXTENDS Paging, TLC

\* Processes and pages only serve as indices: exchanging them changes nothing.
PagingSymmetry == Permutations(Proc) \cup Permutations(Page)
=============================================================================
