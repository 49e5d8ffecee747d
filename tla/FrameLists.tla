------------------------------- MODULE FrameLists -------------------------------
(* The list of free frames of a memory device (src/mm-memphy.c), first first. *)
EXTENDS Integers, SequencesExt

MEMPHY_format(numfp) == [i \in 1 .. numfp |-> i - 1]

\* MEMPHY_get_freefp returns Head(list) and leaves the rest.
freefp_taken(list) == Tail(list)

MEMPHY_put_freefp(list, fpn) == <<fpn>> \o list
=============================================================================
