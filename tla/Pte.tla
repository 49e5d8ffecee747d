---------------------------------- MODULE Pte ----------------------------------
(***************************************************************************)
(* Page table entries, as pte_set_fpn and pte_set_swap of src/mm.c and     *)
(* src/mm64.c rewrite them.  low is the part that holds a frame number,    *)
(* or a swap type in 5 bits and a swap offset above them.                  *)
(***************************************************************************)
EXTENDS Integers

CONSTANTS FPNS,      \* 2^13, or 2^32 with MM64: the frame numbers of an entry
          SWPSTRIDE, \* 2^PAGING_SWPFPN_OFFSET: the swap offset starts at bit 5
          SWPOFFS    \* 2^21, or 2^27 with MM64: the swap offsets of an entry

ASSUME PteAssumption ==
  FPNS \in Nat \ {0} /\ SWPSTRIDE \in Nat \ {0} /\ SWPOFFS \in Nat \ {0}

NoPte == [present |-> FALSE, swapped |-> FALSE, dirty |-> FALSE, low |-> 0]

PAGING_FPN(pte) == pte.low % FPNS
PAGING_SWP(pte) == (pte.low \div SWPSTRIDE) % SWPOFFS

pte_set_fpn(pte, fpn) ==
  [pte EXCEPT !.present = TRUE, !.swapped = FALSE,
              !.low = (@ - (@ % FPNS)) + (fpn % FPNS)]

\* active_mswp_id, the type, is 0; of an offset too large for its bits the
\* highest are lost.
SwapAbsent(pte, off) == \* mutant: the page is marked as not present
  [pte EXCEPT !.present = FALSE, !.swapped = TRUE,
              !.low = (off % SWPOFFS) * SWPSTRIDE]
pte_set_swap(pte, off) ==
  [pte EXCEPT !.present = TRUE, !.swapped = TRUE,
              !.low = (off % SWPOFFS) * SWPSTRIDE]

PteType(lows) ==
  [present : BOOLEAN, swapped : BOOLEAN, dirty : BOOLEAN, low : lows]
=============================================================================
