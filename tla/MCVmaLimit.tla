------------------------------- MODULE MCVmaLimit -------------------------------
(* VmaLimit with a small device. *)
EXTENDS VmaLimit, TLC

OwnerSymmetry == Permutations(Owner)
=============================================================================
