----------------------------- MODULE FlatPageTable -----------------------------
(***************************************************************************)
(* What a page table promises to src/libmem.c: one entry for each page,    *)
(* which is what was last set.  It is also the table of src/mm.c, an array *)
(* indexed by page number.                                                 *)
(***************************************************************************)
EXTENDS Pte, Sequences

CONSTANTS Pgn,   \* page numbers, from 0
          Fpn,   \* the frames a page is mapped to
          Swpoff, \* the frames a page is moved to in swap
          Ranges  \* the numbers of pages that are mapped or cleared at once

VARIABLE pgd

Init == pgd = [g \in Pgn |-> NoPte]

pte_get_entry(g) == pgd[g]

\* The first conjunct, here and below, is implied: it lets TLC reject most steps
\* at one entry.
pte_set_entry(g, pte) ==
  /\ pgd'[g] = pte
  /\ pgd' = [pgd EXCEPT ![g] = pte]

SetSwap(g, off) == pte_set_entry(g, pte_set_swap(pgd[g], off))
SetDirty(g) == pte_set_entry(g, [pte_get_entry(g) EXCEPT !.dirty = TRUE])

\* The pages from g on are mapped or cleared, a page alone being a range of one.
\* A failure leaves the first ones.
Lengths == {1} \cup UNION {1 .. n : n \in Ranges}
MapRange(g, frames) ==
  /\ pgd'[g] = pte_set_fpn(pgd[g], frames[1])
  /\ pgd' = [q \in Pgn |-> IF q \in g .. (g + Len(frames) - 1)
                        THEN pte_set_fpn(pgd[q], frames[q - g + 1]) ELSE pgd[q]]
ClearRange(g, n) ==
  /\ pgd'[g] = NoPte
  /\ pgd' = [q \in Pgn |-> IF q \in g .. (g + n - 1) THEN NoPte ELSE pgd[q]]

\* What no table has is not there.
FreeMm == pgd' = [g \in Pgn |-> NoPte]

Next ==
  \/ \E g \in Pgn, off \in Swpoff : SetSwap(g, off)
  \/ \E g \in Pgn : SetDirty(g)
  \/ \E g \in Pgn, n \in Lengths :
       \/ \E frames \in [1 .. n -> Fpn] : MapRange(g, frames)
       \/ ClearRange(g, n)
  \/ FreeMm

Spec == Init /\ [][Next]_pgd
=============================================================================
