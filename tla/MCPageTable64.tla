----------------------------- MODULE MCPageTable64 -----------------------------
(* PageTable64 with a small tree. *)
EXTENDS PageTable64, TLC
=============================================================================
