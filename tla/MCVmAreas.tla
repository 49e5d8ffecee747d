-------------------------------- MODULE MCVmAreas --------------------------------
(* VmAreas with a few areas in a small address space. *)
EXTENDS VmAreas, TLC
=============================================================================
