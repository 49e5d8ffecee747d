------------------------------- MODULE RegionLists -------------------------------
(***************************************************************************)
(* Memory regions and the list of free ones, as src/libmem.c searches,     *)
(* splits and extends it.  A region is rg_start up to, not including,      *)
(* rg_end; the list has the region freed last first.                       *)
(***************************************************************************)
EXTENDS Integers, SequencesExt

region(start, end) == [rg_start |-> start, rg_end |-> end]
None == region(0, 0)

\* sbrk of vm area 0: inc_vma_limit returns before it moves, since krnl->mm is
\* not set anywhere, and its result is not looked at.
sbrk == 0

\* What init_mm puts on the list.
InitialList == <<region(sbrk, sbrk)>>

Fits(rg, size) == rg.rg_start + size <= rg.rg_end
\* The node that get_free_vmrg_area stops at, 0 if there is none.
FirstFit(list, size) == SelectInSeq(list, LAMBDA rg : Fits(rg, size))

\* What get_free_vmrg_area leaves of the list after taking size from node i:
\* a node used up is replaced by the next one, or kept with no space if last.
TakeWhole(list, i, size) == RemoveAt(list, i) \* mutant: the rest is forgotten
Take(list, i, size) ==
  IF list[i].rg_start + size < list[i].rg_end
  THEN [list EXCEPT ![i].rg_start = @ + size]
  ELSE IF i < Len(list) THEN RemoveAt(list, i)
  ELSE [list EXCEPT ![i].rg_start = list[i].rg_end]

enlist_vm_freerg_list(rg, list) ==
  IF rg.rg_start >= rg.rg_end THEN list ELSE <<rg>> \o list
=============================================================================
