-------------------------------- MODULE VmaLimit --------------------------------
(***************************************************************************)
(* Growing a vm area with its memory, inc_vma_limit of src/mm-vm.c and     *)
(* vm_map_ram of src/mm.c, on the frames of a device (Memphy) that has     *)
(* other users.  The shell that SYSCALL 17 passes has no mm, so the call   *)
(* returns at once there: this is a process whose krnl->mm is its own.     *)
(***************************************************************************)
EXTENDS Memphy, Pte

CONSTANTS PAGESZ,
          Base,   \* where the second area starts, on a page
          IncSz,  \* the sizes areas grow by
          MaxPgn  \* bound on the pages of the address space

ASSUME VmaLimitAssumption ==
  /\ PAGESZ \in Nat \ {0} /\ Base \in Nat /\ Base % PAGESZ = 0
  /\ IncSz \subseteq Nat /\ MaxPgn \in Nat
  /\ Frames <= FPNS

VARIABLES area,     \* the two areas, by vm_id
          pgd,      \* the page table
          fifo_pgn, \* the pages mapped, the latest first
          short     \* history: pages of an area that got no frame as it grew

mm == <<area, pgd, fifo_pgn, short>>

Id == {0, 1}
Page == 0 .. MaxPgn

vma(start, end, brk) == [vm_start |-> start, vm_end |-> end, sbrk |-> brk]

LimitInit ==
  /\ Init
  /\ area = [id \in Id |-> LET start == IF id = 0 THEN 0 ELSE Base
                           IN  vma(start, start, start)]
  /\ pgd = [g \in Page |-> NoPte]
  /\ fifo_pgn = <<>>
  /\ short = {}

OVERLAP(x1, x2, y1, y2) == x1 < y2 /\ y1 < x2

\* validate_overlap_vm_area, of area id grown to a.
ValidateEmpty(id, a) == a.vm_start < a.vm_end \* mutant: the other areas are not compared
validate_overlap_vm_area(id, a) ==
  /\ a.vm_start < a.vm_end
  /\ \A other \in Id \ {id} :
       ~OVERLAP(a.vm_start, a.vm_end, area[other].vm_start, area[other].vm_end)

\* PAGING_PAGE_ALIGNSZ, in pages.
PagesOf(size) == (size + PAGESZ - 1) \div PAGESZ
Grown(id, size) == vma(area[id].vm_start, area[id].vm_end + PagesOf(size) * PAGESZ,
                       area[id].sbrk + size)

\* The first new page of area id.
PageOfBrk(id) == area[id].sbrk \div PAGESZ \* mutant: it is counted from the break
FirstNew(id) == area[id].vm_end \div PAGESZ

\* vmap_page_range: k frames from the head of the free list, for the pages from g on.
Mapped(g, k) ==
  /\ pgd' = [q \in Page |-> IF q \in g .. (g + k - 1)
                            THEN pte_set_fpn(pgd[q], free_fp_list[q - g + 1]) ELSE pgd[q]]
  /\ fifo_pgn' = Reverse([i \in 1 .. k |-> g + i - 1]) \o fifo_pgn
  /\ taken' = taken \cup ToSet(SubSeq(free_fp_list, 1, k))

\* What every call with room in the address space does.  What vm_map_ram returns
\* is unsigned and never below 0: the limits are not rolled back.
inc_vma_limit(id, size) ==
  /\ validate_overlap_vm_area(id, Grown(id, size))
  /\ FirstNew(id) + PagesOf(size) - 1 <= MaxPgn
  /\ area' = [area EXCEPT ![id] = Grown(id, size)]
  /\ UNCHANGED used_fp_list

NewPages(id, size) == FirstNew(id) .. (FirstNew(id) + PagesOf(size) - 1)

GrowMapped(id, size) ==
  LET n == PagesOf(size) IN
  /\ inc_vma_limit(id, size)
  /\ n <= Len(free_fp_list)
  /\ Mapped(FirstNew(id), n)
  /\ free_fp_list' = SubSeq(free_fp_list, n + 1, Len(free_fp_list))
  /\ UNCHANGED <<lost, short>>

\* Out of RAM: the frames taken by then are not put back, and nothing is mapped.
GrowUnmapped(id, size) ==
  /\ inc_vma_limit(id, size)
  /\ PagesOf(size) > Len(free_fp_list)
  /\ lost' = lost \cup ToSet(free_fp_list)
  /\ free_fp_list' = <<>>
  /\ short' = short \cup NewPages(id, size)
  /\ UNCHANGED <<pgd, fifo_pgn, taken>>

\* The node of frame k + 1 cannot be allocated: alloc_pages_range returns -1, which
\* vm_map_ram does not notice either, and the first k pages are mapped.
GrowPartly(id, size, k) ==
  /\ inc_vma_limit(id, size)
  /\ k < PagesOf(size) /\ k < Len(free_fp_list)
  /\ Mapped(FirstNew(id), k)
  /\ lost' = lost \cup {free_fp_list[k + 1]}
  /\ free_fp_list' = SubSeq(free_fp_list, k + 2, Len(free_fp_list))
  /\ short' = short \cup (NewPages(id, size) \ (FirstNew(id) .. (FirstNew(id) + k - 1)))

Present == {g \in Page : pgd[g].present}

\* The other users of the device return only frames that are theirs.
Others ==
  /\ Next
  /\ {PAGING_FPN(pgd[g]) : g \in Present} \subseteq taken'
  /\ UNCHANGED mm

LimitNext ==
  \/ \E id \in Id, size \in IncSz : GrowMapped(id, size)
  \/ \E id \in Id, size \in IncSz : GrowUnmapped(id, size)
  \/ \E id \in Id, size \in IncSz, k \in Page : GrowPartly(id, size, k)
  \/ Others

LimitSpec == LimitInit /\ [][LimitNext]_<<vars, mm>>

-----------------------------------------------------------------------------

\* However the two areas grow, in turn, they stay apart.
AreasApart ==
  ~OVERLAP(area[0].vm_start, area[0].vm_end, area[1].vm_start, area[1].vm_end)

\* Growing by bytes and mapping by pages stay in step: the break is inside its
\* area, and the pages of an area are exactly those mapped, but for those of
\* growths that got too few frames; each has a frame of its own and is in the queue
\* once.
BreakMapped ==
  /\ \A id \in Id : area[id].sbrk \in area[id].vm_start .. area[id].vm_end
  /\ \A g \in Page :
       pgd[g].present <=>
         /\ \E id \in Id : area[id].vm_start <= g * PAGESZ /\ g * PAGESZ < area[id].vm_end
         /\ g \notin short
  /\ \A g, h \in Present : PAGING_FPN(pgd[g]) = PAGING_FPN(pgd[h]) => g = h
  /\ \A g \in Present : PAGING_FPN(pgd[g]) \in taken
  /\ IsInjective(fifo_pgn) /\ ToSet(fifo_pgn) = Present
=============================================================================
