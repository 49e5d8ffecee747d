--------------------------------- MODULE Memphy ---------------------------------
(***************************************************************************)
(* The frame lists of a memory device, src/mm-memphy.c: the free list that *)
(* src/libmem.c takes frames from, and the list of used frames beside it,  *)
(* whose operations the rest of the program does not call yet.             *)
(***************************************************************************)
EXTENDS FrameLists, FiniteSets

CONSTANTS Frames,  \* mp->maxsz / PAGING_PAGESZ
          Owner    \* the mm_struct a used frame is entered for

\* A device with one frame is left out: MEMPHY_format leaves fp_next of the
\* first frame unset, and only a second frame sets it.
ASSUME MemphyAssumption == Frames \in Nat \ {0, 1}

VARIABLES free_fp_list,  \* frame numbers
          used_fp_list,  \* [fpn, owner], the latest first
          taken,         \* the frames callers got from get_freefp and still have
          lost           \* history: frames that a call left nowhere

vars == <<free_fp_list, used_fp_list, taken, lost>>

Frame == 0 .. (Frames - 1)

Init ==
  /\ free_fp_list = MEMPHY_format(Frames)
  /\ used_fp_list = <<>>
  /\ taken = {}
  /\ lost = {}

\* The node of fpn that MEMPHY_find_frame and MEMPHY_remove_usedfp stop at.
Find(fpn) == SelectInSeq(used_fp_list, LAMBDA fp : fp.fpn = fpn)

GetFree ==
  /\ free_fp_list # <<>>
  /\ taken' = taken \cup {Head(free_fp_list)}
  /\ free_fp_list' = freefp_taken(free_fp_list)
  /\ UNCHANGED <<used_fp_list, lost>>

PutFree(fpn) ==
  /\ free_fp_list' = MEMPHY_put_freefp(free_fp_list, fpn)
  /\ taken' = taken \ {fpn}
  /\ UNCHANGED <<used_fp_list, lost>>

\* Whatever frame is first in the free list moves, not the one asked for.
GetUsedKeepsFree(fpn, o) == \* mutant: the frame stays in the free list
  /\ free_fp_list # <<>>
  /\ used_fp_list' = <<[fpn |-> Head(free_fp_list), owner |-> o]>> \o used_fp_list
  /\ UNCHANGED <<free_fp_list, taken, lost>>
GetUsed(fpn, o) ==
  /\ free_fp_list # <<>>
  /\ used_fp_list' = <<[fpn |-> Head(free_fp_list), owner |-> o]>> \o used_fp_list
  /\ free_fp_list' = freefp_taken(free_fp_list)
  /\ UNCHANGED <<taken, lost>>

\* Its node cannot be allocated: the frame has left the free list by then.
GetUsedFails ==
  /\ free_fp_list # <<>>
  /\ lost' = lost \cup {Head(free_fp_list)}
  /\ free_fp_list' = freefp_taken(free_fp_list)
  /\ UNCHANGED <<used_fp_list, taken>>

PutUsed(fpn, o) ==
  /\ used_fp_list' = <<[fpn |-> fpn, owner |-> o]>> \o used_fp_list
  /\ taken' = taken \ {fpn}
  /\ UNCHANGED <<free_fp_list, lost>>

\* The caller has the frame again.
RemoveUsed(fpn) ==
  /\ Find(fpn) # 0
  /\ used_fp_list' = RemoveAt(used_fp_list, Find(fpn))
  /\ taken' = taken \cup {fpn}
  /\ UNCHANGED <<free_fp_list, lost>>

FreeUsedHead(fpn) == \* mutant: the first node leaves, whatever its frame
  /\ Find(fpn) # 0
  /\ used_fp_list' = Tail(used_fp_list)
  /\ free_fp_list' = MEMPHY_put_freefp(free_fp_list, fpn)
  /\ UNCHANGED <<taken, lost>>
FreeUsed(fpn) ==
  /\ Find(fpn) # 0
  /\ used_fp_list' = RemoveAt(used_fp_list, Find(fpn))
  /\ free_fp_list' = MEMPHY_put_freefp(free_fp_list, fpn)
  /\ UNCHANGED <<taken, lost>>

\* MEMPHY_cleanup empties both lists.
Cleanup ==
  /\ lost' = lost \cup {fpn \in Frame : Contains(free_fp_list, fpn) \/ Find(fpn) # 0}
  /\ free_fp_list' = <<>>
  /\ used_fp_list' = <<>>
  /\ UNCHANGED taken

\* Callers return or enter only frames they have; the rest takes any frame.
Next ==
  \/ GetFree
  \/ \E fpn \in taken : PutFree(fpn)
  \/ \E fpn \in Frame, o \in Owner : GetUsed(fpn, o)
  \/ GetUsedFails
  \/ \E fpn \in taken, o \in Owner : PutUsed(fpn, o)
  \/ \E fpn \in Frame : RemoveUsed(fpn)
  \/ \E fpn \in Frame : FreeUsed(fpn)
  \/ Cleanup

Spec == Init /\ [][Next]_vars

-----------------------------------------------------------------------------
(* Queries.                                                                *)

MEMPHY_is_frame_free(fpn) == Contains(free_fp_list, fpn)
MEMPHY_find_frame(fpn) == IF Find(fpn) = 0 THEN <<>> ELSE <<used_fp_list[Find(fpn)].owner>>

\* Of MEMPHY_get_stats: the frames free and used.
MEMPHY_validate == Len(free_fp_list) + Len(used_fp_list) <= Frames

-----------------------------------------------------------------------------

TypeOK ==
  /\ free_fp_list \in Seq(Frame)
  /\ used_fp_list \in Seq([fpn : Frame, owner : Owner])
  /\ taken \subseteq Frame
  /\ lost \subseteq Frame

\* Every frame is in exactly one place, and there once: in the free list, in
\* the used list, with a caller, or lost.  The queries tell which, and the check
\* of the counts never fails.
FramesPartitioned ==
  /\ TypeOK
  /\ MEMPHY_validate
  /\ IsInjective(free_fp_list)
  /\ IsInjective([i \in DOMAIN used_fp_list |-> used_fp_list[i].fpn])
  /\ \A fpn \in Frame :
       Cardinality({where \in {"free", "used", "taken", "lost"} :
         \/ where = "free" /\ MEMPHY_is_frame_free(fpn)
         \/ where = "used" /\ MEMPHY_find_frame(fpn) # <<>>
         \/ where = "taken" /\ fpn \in taken
         \/ where = "lost" /\ fpn \in lost}) = 1

\* A used frame keeps its owner for as long as it is used.
OwnerKept ==
  [][\A fpn \in Frame :
       (MEMPHY_find_frame(fpn) # <<>> /\ MEMPHY_find_frame(fpn)' # <<>>) =>
         MEMPHY_find_frame(fpn)' = MEMPHY_find_frame(fpn)]_vars
=============================================================================
