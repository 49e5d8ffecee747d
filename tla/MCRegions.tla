-------------------------------- MODULE MCRegions --------------------------------
(* Regions with a few variables and small sizes. *)
EXTENDS Regions, TLC

RegionsSymmetry == Permutations(Rgid)
=============================================================================
